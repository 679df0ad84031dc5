--------------------------- MODULE DeepScanProofs ---------------------------
(***************************************************************************)
(* Theorems about DeepScan, for any libraries, any number of runs and any  *)
(* bounds: which libraries a deep scan goes through, and in which order.   *)
(***************************************************************************)
EXTENDS DeepScan, TLAPS, FiniteSetTheorems, SequenceTheorems

USE DeepScanAssumption

-----------------------------------------------------------------------------
(* Lists of libraries *)

LEMMA ListIs ==
    ASSUME NEW l \in Lists
    PROVE  /\ l \in Seq(Names) /\ Len(l) \in 0..Cardinality(Names)
           /\ DOMAIN l = 1..Len(l) /\ ToSet(l) \subseteq Names
           /\ \A i, j \in DOMAIN l : l[i] = l[j] => i = j
<1>1. PICK m \in 0..Cardinality(Names) : l \in [1..m -> Names]
  BY DEF Lists, BoundedSeq, SeqOf
<1>2. Cardinality(Names) \in Nat
  BY FS_CardinalityType
<1>3. l \in Seq(Names) /\ Len(l) = m
  BY <1>1, <1>2
<1>4. \A i, j \in DOMAIN l : l[i] = l[j] => i = j
  BY DEF Lists, IsInjective
<1> QED
  BY <1>1, <1>2, <1>3, <1>4 DEF ToSet

(* No list is longer than there are names.                                   *)
LEMMA IsList ==
    ASSUME NEW l \in Seq(Names), \A i, j \in DOMAIN l : l[i] = l[j] => i = j
    PROVE  l \in Lists
<1>1. l \in [1..Len(l) -> Names] /\ Len(l) \in Nat
  OBVIOUS
<1>2. l \in Injection(1..Len(l), Names)
  BY <1>1 DEF Injection, IsInjective
<1>3. Cardinality(1..Len(l)) <= Cardinality(Names)
  BY <1>2, FS_Injection
<1>4. Cardinality(1..Len(l)) = Len(l)
  <2>1. 1 \in Int /\ Len(l) \in Int
    BY <1>1
  <2>2. Cardinality(1..Len(l)) = IF 1 > Len(l) THEN 0 ELSE Len(l) - 1 + 1
    BY <2>1, FS_Interval
  <2> QED
    BY <1>1, <2>2
<1>5. Cardinality(Names) \in Nat
  BY FS_CardinalityType
<1>6. Len(l) \in 0..Cardinality(Names)
  BY <1>1, <1>3, <1>4, <1>5
<1>7. l \in BoundedSeq(Names, Cardinality(Names))
  BY <1>1, <1>6 DEF BoundedSeq, SeqOf
<1> QED
  BY <1>7 DEF Lists, IsInjective

(* The names two lists share are at the same places.                         *)
Agree(l, m) == \A i \in DOMAIN l, j \in DOMAIN m : l[i] = m[j] => i = j

LEMMA AddedIs ==
    ASSUME NEW l \in Lists, NEW n \in Names \ ToSet(l)
    PROVE  /\ Append(l, n) \in Lists /\ Len(l) < Len(Append(l, n))
           /\ Agree(l, Append(l, n))
<1> DEFINE m == Append(l, n)
<1>1. /\ l \in Seq(Names) /\ DOMAIN l = 1..Len(l) /\ Len(l) \in Nat
      /\ \A i \in 1..Len(l) : l[i] # n
      /\ \A i, j \in 1..Len(l) : l[i] = l[j] => i = j
  BY ListIs DEF ToSet
<1>2. /\ m \in Seq(Names) /\ Len(m) = Len(l) + 1 /\ DOMAIN m = 1..(Len(l) + 1)
      /\ \A i \in 1..Len(l) : m[i] = l[i]
      /\ m[Len(l) + 1] = n
  BY <1>1
<1> HIDE DEF m
<1>3. \A i, j \in DOMAIN m : m[i] = m[j] => i = j
  BY <1>1, <1>2
<1>4. Agree(l, m)
  BY <1>1, <1>2 DEF Agree
<1>5. m \in Lists
  BY <1>2, <1>3, IsList
<1>6. Len(l) < Len(m)
  BY <1>1, <1>2
<1> QED
  BY <1>4, <1>5, <1>6 DEF m

LEMMA RenamedIs ==
    ASSUME NEW l \in Lists, NEW n \in Names \ ToSet(l), NEW i \in DOMAIN l
    PROVE  LET m == [l EXCEPT ![i] = n]
           IN m \in Lists /\ Len(m) = Len(l) /\ Agree(l, m)
<1> DEFINE m == [l EXCEPT ![i] = n]
<1>1. /\ l \in Seq(Names) /\ DOMAIN l = 1..Len(l)
      /\ \A k \in 1..Len(l) : l[k] # n
      /\ \A k, j \in 1..Len(l) : l[k] = l[j] => k = j
  BY ListIs DEF ToSet
<1>2. /\ m \in Seq(Names) /\ Len(m) = Len(l) /\ DOMAIN m = 1..Len(l)
      /\ m[i] = n /\ \A k \in 1..Len(l) : k # i => m[k] = l[k]
  BY <1>1
<1> HIDE DEF m
<1>3. \A k, j \in DOMAIN m : m[k] = m[j] => k = j
  BY <1>1, <1>2
<1>4. Agree(l, m)
  BY <1>1, <1>2 DEF Agree
<1> QED
  BY <1>2, <1>3, <1>4, IsList DEF m

LEMMA RemovedIs ==
    ASSUME NEW l \in Lists, NEW i \in DOMAIN l
    PROVE  RemoveAt(l, i) \in Lists /\ Len(RemoveAt(l, i)) < Len(l)
<1> DEFINE b == SubSeq(l, 1, i - 1)
           a == SubSeq(l, i + 1, Len(l))
           m == b \o a
<1>1. /\ l \in Seq(Names) /\ DOMAIN l = 1..Len(l) /\ Len(l) \in Nat /\ i \in 1..Len(l)
      /\ \A k \in 1..Len(l) : l[k] \in Names
      /\ \A k, j \in 1..Len(l) : l[k] = l[j] => k = j
  BY ListIs DEF ToSet
<1>2. /\ b \in Seq(Names) /\ Len(b) = i - 1
      /\ \A k \in 1..(i - 1) : b[k] = l[k]
  BY <1>1
<1>3. /\ a \in Seq(Names) /\ Len(a) = Len(l) - i
      /\ \A k \in 1..(Len(l) - i) : a[k] = l[i + k]
  BY <1>1
<1> HIDE DEF a, b
<1>4. /\ m \in Seq(Names) /\ Len(m) = Len(l) - 1 /\ DOMAIN m = 1..(Len(l) - 1)
      /\ \A k \in 1..(Len(l) - 1) : m[k] = IF k < i THEN b[k] ELSE a[k - (i - 1)]
  <2>1. /\ m \in Seq(Names) /\ Len(m) = Len(b) + Len(a)
        /\ \A k \in 1..(Len(b) + Len(a)) :
              m[k] = IF k <= Len(b) THEN b[k] ELSE a[k - Len(b)]
    BY <1>2, <1>3, ConcatProperties
  <2>2. Len(b) + Len(a) = Len(l) - 1 /\ \A k \in Nat : k <= Len(b) <=> k < i
    BY <1>1, <1>2, <1>3
  <2>3. DOMAIN m = 1..Len(m)
    BY <2>1
  <2> HIDE DEF m
  <2> QED
    BY <2>1, <2>2, <2>3, <1>2, <1>1
<1>5. \A k \in 1..(Len(l) - 1) : m[k] = IF k < i THEN l[k] ELSE l[k + 1]
  <2> TAKE k \in 1..(Len(l) - 1)
  <2>1. CASE k < i
    <3>1. k \in 1..(i - 1)
      BY <1>1, <2>1
    <3> HIDE DEF m
    <3> QED
      BY <1>2, <1>4, <2>1, <3>1
  <2>2. CASE ~(k < i)
    <3>1. k - (i - 1) \in 1..(Len(l) - i) /\ i + (k - (i - 1)) = k + 1
      BY <1>1, <2>2
    <3>2. m[k] = a[k - (i - 1)]
      BY <1>4, <2>2
    <3> HIDE DEF m
    <3> QED
      BY <1>3, <2>2, <3>1, <3>2
  <2> QED
    BY <2>1, <2>2
<1> HIDE DEF m
<1>6. \A k, j \in DOMAIN m : m[k] = m[j] => k = j
  BY <1>1, <1>4, <1>5
<1>7. m = RemoveAt(l, i)
  BY DEF m, a, b, RemoveAt
<1> QED
  BY <1>1, <1>4, <1>6, <1>7, IsList

-----------------------------------------------------------------------------
(* Where a run is, and what it has scanned, in terms of the list as it is    *)
(* now: an added name comes behind, a new name takes the old one's place, so *)
(* that a library that stays is where it was, until one is removed.          *)

InHand(r) == phase[r] \in {"waits", "scans"}

Aligned == undo # None /\ Len(undo) <= Len(list) => Agree(undo, list)

Passed(r) == \A i \in DOMAIN list : i < next[r] /\ list[i] \in stayed[r] =>
                list[i] \in ToSet(scanned[r]) \/ list[i] = library[r]
AtHand(r) == InHand(r) /\ library[r] \in stayed[r] =>
                next[r] - 1 \in DOMAIN list /\ list[next[r] - 1] = library[r]
Behind(r) == \A n \in ToSet(scanned[r]) \cap stayed[r] : \E i \in DOMAIN list :
                list[i] = n /\ i < next[r] /\ (InHand(r) => i < next[r] - 1)
InOrder(r) == \A i, j \in DOMAIN scanned[r] :
                i < j /\ {scanned[r][i], scanned[r][j]} \subseteq stayed[r]
                    => Before(scanned[r][i], scanned[r][j])

InStep(r) ==
    /\ stayed[r] \subseteq ToSet(list)
    /\ Passed(r) /\ AtHand(r) /\ Behind(r) /\ InOrder(r)
    /\ phase[r] = "enriches" => stayed[r] \subseteq ToSet(scanned[r])

Fit(r) == /\ phase[r] # "idle" /\ spoilt[r] = {} => InStep(r)
          /\ phase[r] = "idle" /\ spoilt[r] = {} => stayed[r] = {}

Walking == TypeOK /\ OneInALibrary /\ Aligned /\ \A r \in Runs : Fit(r)

LEMMA InitWalking == Init => Walking
<1> SUFFICES ASSUME Init PROVE Walking
  OBVIOUS
<1>1. Cardinality(Names) \in Nat
  BY FS_CardinalityType
<1>2. TypeOK
  BY <1>1 DEF Init, TypeOK
<1>3. OneInALibrary /\ Aligned /\ \A r \in Runs : Fit(r)
  BY DEF Init, OneInALibrary, Aligned, Fit
<1> QED
  BY <1>2, <1>3 DEF Walking

-----------------------------------------------------------------------------
(* Changes of the list *)

LEMMA AgreeSym == ASSUME NEW l, NEW m, Agree(l, m) PROVE Agree(m, l)
BY DEF Agree

(* A change that agrees with the list leaves a run where it was.             *)
LEMMA ChangeFits ==
    ASSUME Walking, NEW l \in Lists, list' = l, NEW r \in Runs,
           UNCHANGED <<phase, next, library, scanned>>,
           stayed'[r] = (IF phase[r] = "idle" THEN stayed[r] ELSE stayed[r] \cap ToSet(l)),
           spoilt'[r] = {} => spoilt[r] = {},
           phase[r] # "idle" /\ spoilt'[r] = {} => Agree(list, l)
    PROVE  Fit(r)'
<1>1. CASE phase[r] = "idle" \/ spoilt'[r] # {}
  BY <1>1 DEF Walking, Fit
<1>2. CASE phase[r] # "idle" /\ spoilt'[r] = {}
  <2>1. InStep(r) /\ Agree(list, l) /\ stayed'[r] = stayed[r] \cap ToSet(l)
    BY <1>2 DEF Walking, Fit
  <2>2. \A i \in DOMAIN list : list[i] \in stayed'[r] => i \in DOMAIN l /\ l[i] = list[i]
    BY <2>1 DEF Agree, ToSet
  <2>3. \A i \in DOMAIN l : l[i] \in stayed'[r] => i \in DOMAIN list /\ l[i] = list[i]
    BY <2>1 DEF Agree, ToSet, InStep
  <2>4. stayed'[r] \subseteq ToSet(l) /\ stayed'[r] \subseteq stayed[r]
    BY <2>1
  <2>5. Passed(r)'
    BY <2>1, <2>3, <2>4 DEF InStep, Passed
  <2>6. AtHand(r)'
    BY <2>1, <2>2, <2>4 DEF InStep, AtHand, InHand
  <2>7. Behind(r)'
    BY <2>1, <2>2, <2>4 DEF InStep, Behind, InHand
  <2>8. InOrder(r)'
    <3> SUFFICES ASSUME NEW i \in DOMAIN scanned[r], NEW j \in DOMAIN scanned[r], i < j,
                        {scanned[r][i], scanned[r][j]} \subseteq stayed'[r]
                 PROVE  Before(scanned[r][i], scanned[r][j])'
      BY DEF InOrder
    <3>1. Before(scanned[r][i], scanned[r][j])
      BY <2>1, <2>4 DEF InStep, InOrder
    <3> QED
      BY <2>2, <3>1 DEF Before
  <2> QED
    BY <1>2, <2>1, <2>4, <2>5, <2>6, <2>7, <2>8 DEF Fit, InStep
<1> QED
  BY <1>1, <1>2

LEMMA ChangeWalking ==
    ASSUME Walking, NEW l \in Lists, Change(l), Len(l) < Len(list) \/ Agree(list, l)
    PROVE  Walking'
<1>1. /\ undo = None /\ undo' = list /\ list' = l /\ edits' = edits + 1 /\ edits < MaxChanges
      /\ UNCHANGED <<phase, next, library, scans, scanned>>
      /\ stayed' = [r \in Runs |-> IF phase[r] = "idle" THEN stayed[r]
                                    ELSE stayed[r] \cap ToSet(l)]
      /\ spoilt' = [r \in Runs |-> IF Len(l) < Len(list) /\ phase[r] # "idle"
                                    THEN spoilt[r] \cup {"removal"} ELSE spoilt[r]]
  BY DEF Change
<1>2. TypeOK' /\ OneInALibrary'
  <2>1. undo' \in Lists /\ edits' \in 0..MaxChanges
    BY <1>1 DEF Walking, TypeOK
  <2>2. stayed' \in [Runs -> SUBSET Names]
    BY <1>1 DEF Walking, TypeOK
  <2>3. spoilt' \in [Runs -> SUBSET {"removal", "failure"}]
    BY <1>1 DEF Walking, TypeOK
  <2> QED
    BY <1>1, <2>1, <2>2, <2>3 DEF Walking, TypeOK, OneInALibrary
<1>3. Aligned'
  <2>1. Len(list) \in Nat /\ Len(l) \in Nat
    BY ListIs DEF Walking, TypeOK
  <2>2. Len(list) <= Len(l) => Agree(list, l)
    BY <2>1
  <2> QED
    BY <1>1, <2>2 DEF Aligned, Agree
<1>4. ASSUME NEW r \in Runs PROVE Fit(r)'
  <2>1. spoilt'[r] = {} => spoilt[r] = {}
    BY <1>1
  <2>2. phase[r] # "idle" /\ spoilt'[r] = {} => Agree(list, l)
    BY <1>1
  <2> QED
    BY <1>1, <2>1, <2>2, ChangeFits
<1> QED
  BY <1>2, <1>3, <1>4 DEF Walking

LEMMA PersistFailsWalking == Walking /\ PersistFails => Walking'
<1> SUFFICES ASSUME Walking, PersistFails PROVE Walking'
  OBVIOUS
<1> DEFINE l == undo
<1>1. /\ undo' = None /\ list' = l /\ l \in Lists
      /\ UNCHANGED <<edits, phase, next, library, scans, scanned>>
      /\ stayed' = [r \in Runs |-> IF phase[r] = "idle" THEN stayed[r]
                                    ELSE stayed[r] \cap ToSet(l)]
      /\ spoilt' = [r \in Runs |-> IF Len(l) > Len(list) /\ phase[r] # "idle"
                                    THEN spoilt[r] \cup {"removal"} ELSE spoilt[r]]
  BY DEF PersistFails, Walking, TypeOK
<1>2. TypeOK' /\ OneInALibrary'
  <2>2. stayed' \in [Runs -> SUBSET Names]
    BY <1>1 DEF Walking, TypeOK
  <2>3. spoilt' \in [Runs -> SUBSET {"removal", "failure"}]
    BY <1>1 DEF Walking, TypeOK
  <2> QED
    BY <1>1, <2>2, <2>3 DEF Walking, TypeOK, OneInALibrary
<1>3. Len(l) <= Len(list) => Agree(list, l)
  BY AgreeSym DEF PersistFails, Walking, Aligned
<1>4. Len(l) > Len(list) \/ Len(l) <= Len(list)
  BY <1>1, ListIs DEF Walking, TypeOK
<1>5. ASSUME NEW r \in Runs PROVE Fit(r)'
  <2>1. spoilt'[r] = {} => spoilt[r] = {}
    BY <1>1
  <2>2. phase[r] # "idle" /\ spoilt'[r] = {} => Agree(list, l)
    BY <1>1, <1>3, <1>4
  <2> HIDE DEF l
  <2> QED
    BY <1>1, <2>1, <2>2, ChangeFits
<1> QED
  BY <1>1, <1>2, <1>5 DEF Walking, Aligned

LEMMA EditWalking ==
    ASSUME Walking,
           \/ \E n \in Names : AddLibrary(n)
           \/ \E i \in DOMAIN list : RemoveLibrary(i) \/ \E n \in Names : UpdateLibrary(i, n)
    PROVE  Walking'
<1>0. list \in Lists
  BY DEF Walking, TypeOK
<1>1. ASSUME NEW n \in Names, AddLibrary(n) PROVE Walking'
  BY <1>0, <1>1, AddedIs, ChangeWalking DEF AddLibrary, Added
<1>2. ASSUME NEW i \in DOMAIN list, RemoveLibrary(i) PROVE Walking'
  BY <1>0, <1>2, RemovedIs, ChangeWalking DEF RemoveLibrary
<1>3. ASSUME NEW i \in DOMAIN list, NEW n \in Names, UpdateLibrary(i, n) PROVE Walking'
  BY <1>0, <1>3, RenamedIs, ChangeWalking DEF UpdateLibrary
<1> QED
  BY <1>1, <1>2, <1>3

LEMMA PersistWalking == Walking /\ Persist => Walking'
<1> SUFFICES ASSUME Walking, Persist PROVE Walking'
  OBVIOUS
<1>1. TypeOK' /\ OneInALibrary' /\ Aligned'
  BY DEF Persist, Walking, TypeOK, OneInALibrary, Aligned, history
<1>2. ASSUME NEW r \in Runs PROVE Fit(r)'
  BY DEF Persist, Walking, Fit, InStep, Passed, AtHand, Behind, InOrder, InHand, Before, history
<1> QED
  BY <1>1, <1>2 DEF Walking

-----------------------------------------------------------------------------
(* Steps of a run *)

(* What another run does is nothing to a run.                                *)
LEMMA OthersFit ==
    ASSUME Walking, NEW r \in Runs, list' = list,
           phase'[r] = phase[r], next'[r] = next[r], library'[r] = library[r],
           scanned'[r] = scanned[r], stayed'[r] = stayed[r], spoilt'[r] = spoilt[r]
    PROVE  Fit(r)'
BY DEF Walking, Fit, InStep, Passed, AtHand, Behind, InOrder, InHand, Before

LEMMA RunWalking ==
    ASSUME Walking, NEW r \in Runs, UNCHANGED changes, TypeOK', OneInALibrary', Fit(r)',
           \A s \in Runs \ {r} :
              /\ phase'[s] = phase[s] /\ next'[s] = next[s] /\ library'[s] = library[s]
              /\ scanned'[s] = scanned[s] /\ stayed'[s] = stayed[s] /\ spoilt'[s] = spoilt[s]
    PROVE  Walking'
<1>1. Aligned'
  BY DEF Walking, Aligned, changes
<1>2. ASSUME NEW s \in Runs \ {r} PROVE Fit(s)'
  BY OthersFit DEF changes
<1> QED
  BY <1>1, <1>2 DEF Walking

LEMMA StartWalking ==
    ASSUME Walking, NEW r \in Runs, Start(r) PROVE Walking'
<1>1. /\ phase[r] = "idle" /\ phase'[r] = "walks" /\ next'[r] = 1 /\ scanned'[r] = <<>>
      /\ stayed'[r] = ToSet(list) /\ library[r] = None
      /\ UNCHANGED <<changes, library>>
  BY DEF Start, Goes, Walking, TypeOK
<1>2. TypeOK'
  <2>1. ToSet(list) \in SUBSET Names /\ 1 \in 1..(Cardinality(Names) + 1)
    BY ListIs, FS_CardinalityType DEF Walking, TypeOK
  <2>2. next' \in [Runs -> 1..(Cardinality(Names) + 1)]
    BY <2>1 DEF Start, Walking, TypeOK
  <2>3. scanned' \in [Runs -> Seq(Names)] /\ stayed' \in [Runs -> SUBSET Names]
    BY <2>1 DEF Start, Walking, TypeOK
  <2> QED
    BY <1>1, <2>2, <2>3 DEF Start, Goes, Walking, TypeOK, changes
<1>3. OneInALibrary'
  BY <1>1 DEF Start, Goes, Walking, TypeOK, OneInALibrary
<1>4. Fit(r)'
  <2>1. ToSet(scanned'[r]) = {}
    BY <1>1 DEF ToSet
  <2>2. \A i \in DOMAIN list : ~(i < 1)
    BY ListIs DEF Walking, TypeOK
  <2> QED
    BY <1>1, <2>1, <2>2
       DEF Fit, InStep, Passed, AtHand, Behind, InOrder, InHand, changes
<1> QED
  BY <1>1, <1>2, <1>3, <1>4, RunWalking DEF Start, Goes, Walking, TypeOK

LEMMA TakeWalking ==
    ASSUME Walking, NEW r \in Runs, Take(r) PROVE Walking'
<1> DEFINE i == next[r]
<1>1. /\ phase[r] = "walks" /\ phase'[r] = "waits" /\ next'[r] = i + 1
      /\ i <= Len(list) /\ library'[r] = list[i] /\ library[r] = None
      /\ UNCHANGED <<changes, history>>
  BY DEF Take, Goes, Walking, TypeOK
<1>2. /\ i \in DOMAIN list /\ list[i] \in Names /\ DOMAIN list \subseteq Nat
      /\ i + 1 \in 1..(Cardinality(Names) + 1)
      /\ \A j, k \in DOMAIN list : list[j] = list[k] => j = k
  BY <1>1, ListIs, FS_CardinalityType DEF Walking, TypeOK
<1>3. TypeOK'
  <2>1. next' \in [Runs -> 1..(Cardinality(Names) + 1)] /\ library' \in [Runs -> Names \cup {None}]
    BY <1>1, <1>2 DEF Take, Walking, TypeOK
  <2>2. \A s \in Runs : (library'[s] = None) <=> (phase'[s] \notin {"waits", "scans"})
    BY <1>1, <1>2 DEF Take, Goes, Walking, TypeOK
  <2> QED
    BY <2>1, <2>2 DEF Take, Goes, Walking, TypeOK, changes, history
<1>4. OneInALibrary'
  BY <1>1 DEF Take, Goes, Walking, TypeOK, OneInALibrary
<1>5. Fit(r)'
  <2> SUFFICES ASSUME spoilt[r] = {} PROVE InStep(r)'
    BY <1>1 DEF Fit, history
  <2>1. InStep(r)
    BY <1>1 DEF Walking, Fit
  <2>2. Passed(r)'
    <3> SUFFICES ASSUME NEW j \in DOMAIN list, j < i + 1, list[j] \in stayed[r]
                 PROVE  list[j] \in ToSet(scanned[r]) \/ list[j] = list[i]
      BY <1>1 DEF Passed, changes, history
    <3>1. i \in Nat /\ j \in Nat /\ library[r] # list[j]
      BY <1>1, <1>2, ListIs DEF Walking, TypeOK, ToSet
    <3>2. j < i \/ j = i
      BY <3>1
    <3> QED
      BY <2>1, <3>1, <3>2 DEF InStep, Passed
  <2>3. AtHand(r)'
    BY <1>1, <1>2 DEF AtHand, changes
  <2>4. Behind(r)'
    BY <1>1, <1>2, <2>1 DEF InStep, Behind, InHand, changes, history
  <2> QED
    BY <1>1, <2>1, <2>2, <2>3, <2>4 DEF InStep, InOrder, Before, changes, history
<1> QED
  BY <1>1, <1>3, <1>4, <1>5, RunWalking DEF Take, Goes, Walking, TypeOK, history

LEMMA EnterWalking ==
    ASSUME Walking, NEW r \in Runs, Enter(r) PROVE Walking'
<1>1. /\ phase[r] = "waits" /\ phase'[r] = "scans"
      /\ \A s \in Runs \ {r} : phase'[s] = phase[s]
      /\ UNCHANGED <<changes, next, library, scans, history>>
  BY DEF Enter, Goes, Walking, TypeOK
<1>2. TypeOK'
  BY <1>1 DEF Enter, Goes, Walking, TypeOK, changes, history
<1>3. OneInALibrary'
  BY <1>1 DEF Enter, LockFree, Walking, OneInALibrary
<1>4. Fit(r)'
  BY <1>1 DEF Walking, Fit, InStep, Passed, AtHand, Behind, InOrder, InHand, Before,
              changes, history
<1> QED
  BY <1>1, <1>2, <1>3, <1>4, RunWalking DEF history

LEMMA ScanEndsWalking ==
    ASSUME Walking, NEW r \in Runs, ScanEnds(r) PROVE Walking'
<1> DEFINE n == library[r]
           before == scanned[r]
<1>1. /\ phase[r] = "scans" /\ phase'[r] = "walks" /\ library'[r] = None
      /\ scanned'[r] = Append(before, n)
      /\ \A s \in Runs \ {r} : /\ phase'[s] = phase[s] /\ library'[s] = library[s]
                               /\ scanned'[s] = scanned[s]
      /\ UNCHANGED <<changes, next, scans, stayed, spoilt>>
  BY DEF ScanEnds, Goes, Walking, TypeOK
<1>2. /\ n \in Names /\ before \in Seq(Names)
      /\ DOMAIN before = 1..Len(before) /\ Len(before) \in Nat
  BY <1>1 DEF Walking, TypeOK
<1>3. /\ scanned'[r] \in Seq(Names) /\ DOMAIN scanned'[r] = 1..(Len(before) + 1)
      /\ \A k \in 1..Len(before) : scanned'[r][k] = before[k]
      /\ scanned'[r][Len(before) + 1] = n
  <2> HIDE DEF before, n
  <2> QED
    BY <1>1, <1>2
<1>4. ToSet(scanned'[r]) = ToSet(before) \cup {n}
  <2>1. ToSet(before) = {before[k] : k \in 1..Len(before)}
    BY <1>2 DEF ToSet
  <2>2. ToSet(scanned'[r]) = {scanned'[r][k] : k \in 1..(Len(before) + 1)}
    BY <1>3 DEF ToSet
  <2>3. 1..(Len(before) + 1) = 1..Len(before) \cup {Len(before) + 1}
    BY <1>2
  <2> HIDE DEF before, n
  <2> QED
    BY <1>3, <2>1, <2>2, <2>3
<1>5. TypeOK'
  <2>1. scanned' \in [Runs -> Seq(Names)]
    BY <1>3 DEF ScanEnds, Walking, TypeOK
  <2>2. library' \in [Runs -> Names \cup {None}]
    BY DEF ScanEnds, Walking, TypeOK
  <2>3. \A s \in Runs : (library'[s] = None) <=> (phase'[s] \notin {"waits", "scans"})
    BY <1>1 DEF Walking, TypeOK
  <2> QED
    BY <1>1, <2>1, <2>2, <2>3 DEF ScanEnds, Goes, Walking, TypeOK, changes
<1>6. OneInALibrary'
  BY <1>1 DEF Walking, OneInALibrary
<1>7. Fit(r)'
  <2> SUFFICES ASSUME spoilt[r] = {} PROVE InStep(r)'
    BY <1>1 DEF Fit
  <2>1. InStep(r)
    BY <1>1 DEF Walking, Fit
  <2>2. Passed(r)'
    BY <1>1, <1>4, <2>1 DEF InStep, Passed, changes
  <2>3. AtHand(r)'
    BY <1>1 DEF AtHand, InHand
  <2>4. next[r] \in Nat /\ next[r] - 1 < next[r]
    BY DEF Walking, TypeOK
  <2>5. Behind(r)'
    BY <1>1, <1>4, <2>1, <2>4 DEF InStep, Behind, AtHand, InHand, changes
  <2>6. InOrder(r)'
    <3> SUFFICES ASSUME NEW i \in DOMAIN scanned'[r], NEW j \in DOMAIN scanned'[r], i < j,
                        {scanned'[r][i], scanned'[r][j]} \subseteq stayed[r]
                 PROVE  Before(scanned[r][i], scanned[r][j])'
      BY <1>1 DEF InOrder
    <3>1. i \in 1..Len(before) /\ scanned'[r][i] = before[i]
      BY <1>2, <1>3
    <3>2. CASE j \in 1..Len(before)
      BY <1>1, <1>2, <1>3, <2>1, <3>1, <3>2 DEF InStep, InOrder, Before, changes
    <3>3. CASE j = Len(before) + 1
      <4>1. scanned'[r][j] = n
        BY <1>3, <3>3
      <4>2. next[r] - 1 \in DOMAIN list /\ list[next[r] - 1] = n
        BY <1>1, <2>1, <4>1 DEF InStep, AtHand, InHand
      <4>3. before[i] \in ToSet(before) \cap stayed[r]
        BY <1>2, <3>1 DEF ToSet
      <4>4. PICK k \in DOMAIN list : list[k] = before[i] /\ k < next[r] - 1
        BY <1>1, <2>1, <4>3 DEF InStep, Behind, InHand
      <4> QED
        BY <1>1, <3>1, <4>1, <4>2, <4>4 DEF Before, changes
    <3> QED
      BY <1>2, <1>3, <3>2, <3>3
  <2> QED
    BY <1>1, <2>1, <2>2, <2>3, <2>5, <2>6 DEF InStep, changes
<1> QED
  BY <1>1, <1>5, <1>6, <1>7, RunWalking

LEMMA EndsWalking ==
    ASSUME Walking, NEW r \in Runs, ScanFails(r) \/ Walked(r) \/ Enriched(r) PROVE Walking'
<1>1. CASE ScanFails(r)
  <2>1. /\ phase'[r] = "idle" /\ library'[r] = None /\ spoilt'[r] # {}
        /\ \A s \in Runs \ {r} : /\ phase'[s] = phase[s] /\ library'[s] = library[s]
                                 /\ spoilt'[s] = spoilt[s]
        /\ UNCHANGED <<changes, next, scans, scanned, stayed>>
    BY <1>1 DEF ScanFails, Goes, Walking, TypeOK
  <2>2. TypeOK'
    <3>1. \A s \in Runs : (library'[s] = None) <=> (phase'[s] \notin {"waits", "scans"})
      BY <2>1 DEF Walking, TypeOK
    <3>2. spoilt' \in [Runs -> SUBSET {"removal", "failure"}]
      BY <1>1 DEF ScanFails, Walking, TypeOK
    <3> QED
      BY <1>1, <2>1, <3>1, <3>2 DEF ScanFails, Goes, Walking, TypeOK, changes
  <2>3. OneInALibrary'
    BY <2>1 DEF Walking, OneInALibrary
  <2>4. Fit(r)'
    BY <2>1 DEF Fit
  <2> QED
    BY <2>1, <2>2, <2>3, <2>4, RunWalking
<1>2. CASE Walked(r)
  <2>1. /\ phase[r] = "walks" /\ next[r] > Len(list) /\ phase'[r] = "enriches"
        /\ \A s \in Runs \ {r} : phase'[s] = phase[s]
        /\ UNCHANGED <<changes, next, library, scans, history>>
    BY <1>2 DEF Walked, Goes, Walking, TypeOK
  <2>2. TypeOK'
    BY <1>2, <2>1 DEF Walked, Goes, Walking, TypeOK, changes, history
  <2>3. OneInALibrary'
    BY <2>1 DEF Walking, OneInALibrary
  <2>4. Fit(r)'
    <3> SUFFICES ASSUME spoilt[r] = {} PROVE InStep(r)'
      BY <2>1 DEF Fit, history
    <3>1. InStep(r)
      BY <2>1 DEF Walking, Fit
    <3>2. \A i \in DOMAIN list : i < next[r] /\ list[i] # None
      BY <2>1, ListIs DEF Walking, TypeOK, ToSet
    <3>3. library[r] = None
      BY <2>1 DEF Walking, TypeOK
    <3>4. stayed[r] \subseteq ToSet(scanned[r])
      BY <3>1, <3>2, <3>3 DEF InStep, Passed, ToSet
    <3> QED
      BY <2>1, <3>1, <3>4
         DEF InStep, Passed, AtHand, Behind, InOrder, InHand, Before, changes, history
  <2> QED
    BY <2>1, <2>2, <2>3, <2>4, RunWalking DEF history
<1>3. CASE Enriched(r)
  <2>1. /\ phase'[r] = "idle" /\ phase[r] = "enriches" /\ stayed'[r] = {}
        /\ \A s \in Runs \ {r} : /\ phase'[s] = phase[s] /\ scanned'[s] = scanned[s]
                                 /\ stayed'[s] = stayed[s]
        /\ UNCHANGED <<changes, next, library, scans, spoilt>>
    BY <1>3 DEF Enriched, Goes, Walking, TypeOK
  <2>2. TypeOK'
    <3>1. scanned' \in [Runs -> Seq(Names)] /\ stayed' \in [Runs -> SUBSET Names]
      BY <1>3 DEF Enriched, Walking, TypeOK
    <3> QED
      BY <1>3, <2>1, <3>1 DEF Enriched, Goes, Walking, TypeOK, changes
  <2>3. OneInALibrary'
    BY <2>1 DEF Walking, OneInALibrary
  <2>4. Fit(r)'
    BY <2>1 DEF Fit
  <2> QED
    BY <2>1, <2>2, <2>3, <2>4, RunWalking
<1> QED
  BY <1>1, <1>2, <1>3

-----------------------------------------------------------------------------
LEMMA AlwaysWalking == Spec => []Walking
<1>1. Walking /\ [Next]_vars => Walking'
  <2> SUFFICES ASSUME Walking, [Next]_vars PROVE Walking'
    OBVIOUS
  <2>1. ASSUME NEW r \in Runs, Start(r) \/ Run(r) PROVE Walking'
    BY <2>1, StartWalking, TakeWalking, EnterWalking, ScanEndsWalking, EndsWalking DEF Run
  <2>2. CASE UNCHANGED vars
    <3>1. TypeOK' /\ OneInALibrary' /\ Aligned'
      BY <2>2 DEF vars, changes, history, Walking, TypeOK, OneInALibrary, Aligned
    <3>2. ASSUME NEW r \in Runs PROVE Fit(r)'
      BY <2>2, OthersFit DEF vars, changes, history
    <3> QED
      BY <3>1, <3>2 DEF Walking
  <2> QED
    BY <2>1, <2>2, EditWalking, PersistWalking, PersistFailsWalking DEF Next
<1> QED
  BY <1>1, InitWalking, PTL DEF Spec

(* Runs and the list have their types, no two runs are in one library, and   *)
(* each goes through the libraries that stay in the list's order, whichever  *)
(* changes of the list come in between or are taken back (service.py:48-58,  *)
(* 331, 796, config_store.py:77-123).                                        *)
THEOREM RunsWalkInOrder == Spec => []WalksOK
<1>1. Walking => WalksOK
  BY DEF Walking, WalksOK, Fit, InStep, InOrder, OnceAndInOrder
<1> QED
  BY <1>1, AlwaysWalking, PTL

(* A deep scan during which no library was removed and no scan failed has    *)
(* scanned each library that was there all along (service.py:793-807).       *)
THEOREM EachStays == Spec => []EachIsScanned
<1>1. Walking => EachIsScanned
  BY DEF Walking, Fit, InStep, EachIsScanned, Ended
<1> QED
  BY <1>1, AlwaysWalking, PTL
=============================================================================
