--------------------------- MODULE VerdictProofs ----------------------------
(***************************************************************************)
(* Theorems about Verdict, for any titles, classifier and providers and    *)
(* any number of sessions, with rowids used again: ids and verdicts that   *)
(* people gave stand, and labels follow the evidence.                      *)
(***************************************************************************)
EXTENDS Verdict, TLAPS, FiniteSetTheorems

(* Facts about functions and sequences                                       *)

LEMMA NoRows ==
    ASSUME NEW f, f = [i \in DOMAIN f |-> f[i]], DOMAIN f = {}
    PROVE  f = <<>>
OBVIOUS

LEMMA HeadTail ==
    ASSUME NEW S, NEW s \in Seq(S), s # <<>>
    PROVE  /\ Head(s) \in S /\ Tail(s) \in Seq(S)
           /\ Tail(s) # <<>> <=> Len(s) > 1
OBVIOUS

LEMMA IntervalIsSeq ==
    ASSUME NEW S, NEW n \in Nat, NEW s \in [1..n -> S]
    PROVE  s \in Seq(S)
OBVIOUS

LEMMA StillOn ==
    ASSUME NEW S, NEW f, f = [u \in S |-> f[u]], NEW t, NEW e, NEW g, g = [f EXCEPT ![t] = e]
    PROVE  g = [u \in S |-> g[u]]
OBVIOUS

USE VerdictAssumption

Kinds == {"idle", "match", "reclassify", "enrich", "identify", "verdict"}

-----------------------------------------------------------------------------
(* Types *)

(* What a session of each kind makes of the ids in a row.                    *)
Derives(k, g, p) ==
    /\ g \in Row /\ p \in Row
    /\ k \notin {"identify", "verdict"} /\ p.ext # g.ext => g.ext = Nothing
    /\ k \in {"identify", "verdict"} /\ p.ext # g.ext => p.ext \in GivenIds

RowsTyped == rows \in [Ids -> Maybe(Row)]

QueuesTyped ==
    /\ kind \in [Threads -> Kinds]
    /\ todo \in [Threads -> Seq([id : Ids, title : Titles])]
    /\ heard \in [Threads -> Maybe(Signals) \cup {Outage, Unasked}]
    /\ \A t \in Threads : /\ todo[t] # <<>> => kind[t] = "enrich"
                          /\ heard[t] # Unasked => todo[t] # <<>>

HistoryTyped ==
    /\ said \in [Ids -> Maybe(Labels)] /\ gave \in [Ids -> Maybe(GivenIds)]
    /\ raced \cup dated \cup unheard \subseteq Ids

SessionTyped(t) ==
    /\ DOMAIN got[t] \subseteq Ids /\ DOMAIN put[t] = DOMAIN got[t]
    /\ \A i \in DOMAIN got[t] : Derives(kind[t], got[t][i], put[t][i])
    /\ kind[t] = "idle" => DOMAIN got[t] = {}
    /\ kind[t] = "enrich" /\ DOMAIN got[t] # {} => heard[t] # Unasked
    /\ got[t] = [i \in DOMAIN got[t] |-> got[t][i]]

SessionsTyped ==
    /\ got = [t \in Threads |-> got[t]] /\ put = [t \in Threads |-> put[t]]
    /\ \A t \in Threads : SessionTyped(t)

Typed == RowsTyped /\ QueuesTyped /\ HistoryTyped /\ SessionsTyped

LEMMA LiveRows == Typed => \A i \in Live : i \in Ids /\ rows[i] \in Row
BY DEF Typed, RowsTyped, Live, Maybe

LEMMA ReclassifiedTyped ==
    ASSUME NEW r \in Row
    PROVE  Reclassified(r) \in Row /\ Reclassified(r).ext = r.ext
<1>1. Verdict(r) \in Labels
  BY DEF Row, Verdict
<1> QED
  BY <1>1 DEF Row, Reclassified, Maybe

LEMMA StoredTyped ==
    ASSUME NEW r \in Row, NEW s \in Maybe(Signals)
    PROVE  Stored(r, s) \in Row /\ (r.ext # Nothing => Stored(r, s).ext = r.ext)
<1>1. s # Nothing => IdOf[s] \in ExtIds
  BY DEF Maybe, ExtIds
<1> QED
  BY <1>1 DEF Row, Stored, Maybe

LEMMA GivenTyped ==
    ASSUME NEW r \in Row, NEW e \in Maybe(GivenIds), NEW l \in Maybe(Labels)
    PROVE  /\ Labelled(Given(r, e), l) \in Row
           /\ Labelled(Given(r, e), l).ext # r.ext => Labelled(Given(r, e), l).ext \in GivenIds
<1> DEFINE g == Given(r, e)
<1>1. g \in Row /\ (g.ext # r.ext => g.ext \in GivenIds)
  BY DEF Row, Given, Maybe, ExtIds
<1> HIDE DEF g
<1>2. Labelled(g, l) \in Row /\ Labelled(g, l).ext = g.ext
  BY <1>1 DEF Row, Labelled, Maybe
<1> QED
  BY <1>1, <1>2 DEF g

LEMMA FilledTyped ==
    ASSUME NEW r \in Row, NEW e \in GivenIds
    PROVE  Filled(r, e) \in Row /\ (Filled(r, e).ext # r.ext => r.ext = Nothing)
BY DEF Row, Filled, Maybe, ExtIds

LEMMA OverriddenTyped ==
    ASSUME NEW r \in Row, NEW l \in Labels
    PROVE  Labelled(r, l) \in Row /\ Labelled(r, l).ext = r.ext
BY DEF Row, Labelled, Maybe

-----------------------------------------------------------------------------
(* A session that opens *)
LEMMA OpensTyped ==
    ASSUME Typed, NEW t \in Threads, NEW k \in Kinds \ {"idle"}, NEW made, Opens(t, k, made),
           UNCHANGED <<todo, heard>>, made = [i \in DOMAIN made |-> made[i]],
           \A i \in DOMAIN made : i \in Live /\ Derives(k, rows[i], made[i]),
           IF k = "enrich" THEN heard[t] # Unasked ELSE todo[t] = <<>>
    PROVE  Typed'
<1>1. /\ UNCHANGED <<rows, said, gave, raced, dated, unheard>>
      /\ kind' = [kind EXCEPT ![t] = k] /\ put' = [put EXCEPT ![t] = made]
      /\ got' = [got EXCEPT ![t] = Restrict(rows, DOMAIN made)]
  BY DEF Opens, history
<1>2. RowsTyped' /\ HistoryTyped'
  BY <1>1 DEF Typed, RowsTyped, HistoryTyped, Live
<1>3. QueuesTyped'
  BY <1>1 DEF Typed, QueuesTyped
<1>4. ASSUME NEW u \in Threads PROVE SessionTyped(u)'
  <2>1. CASE u = t
    <3>1. /\ kind'[t] = k /\ put'[t] = made /\ heard'[t] = heard[t]
          /\ got'[t] = [i \in DOMAIN made |-> rows[i]]
      BY <1>1 DEF Typed, QueuesTyped, SessionsTyped, Restrict
    <3>2. \A i \in DOMAIN made : i \in Ids
      BY LiveRows DEF Typed, RowsTyped
    <3>3. DOMAIN got'[t] = DOMAIN made /\ \A i \in DOMAIN made : got'[t][i] = rows[i]
      BY <3>1
    <3> QED
      BY <1>1, <2>1, <3>1, <3>2, <3>3 DEF SessionTyped
  <2>2. CASE u # t
    <3>1. kind'[u] = kind[u] /\ put'[u] = put[u] /\ got'[u] = got[u]
      BY <1>1, <2>2 DEF Typed, QueuesTyped, SessionsTyped
    <3>2. SessionTyped(u)
      BY DEF Typed, SessionsTyped
    <3> QED
      BY <1>1, <3>1, <3>2 DEF SessionTyped
  <2> QED
    BY <2>1, <2>2
<1>5. SessionsTyped'
  <2>1. got' = [u \in Threads |-> got'[u]] /\ put' = [u \in Threads |-> put'[u]]
    <3>1. got = [u \in Threads |-> got[u]] /\ put = [u \in Threads |-> put[u]]
      BY DEF Typed, SessionsTyped
    <3>2. got' = [u \in Threads |-> got'[u]]
      <4> DEFINE e == Restrict(rows, DOMAIN made)
      <4> HIDE DEF e
      <4>1. got' = [got EXCEPT ![t] = e]
        BY <1>1 DEF e
      <4> QED
        BY <3>1, <4>1, StillOn
    <3>3. put' = [u \in Threads |-> put'[u]]
      BY <1>1, <3>1, StillOn
    <3> QED
      BY <3>2, <3>3
  <2> QED
    BY <1>4, <2>1 DEF SessionsTyped
<1> QED
  BY <1>2, <1>3, <1>5 DEF Typed

(* A step that leaves the threads alone *)
LEMMA ThreadsLeft ==
    ASSUME Typed, UNCHANGED threads, RowsTyped', HistoryTyped'
    PROVE  Typed'
<1>1. QueuesTyped'
  BY DEF Typed, QueuesTyped, threads
<1>2. SessionsTyped'
  BY DEF Typed, SessionsTyped, SessionTyped, threads
<1> QED
  BY <1>1, <1>2 DEF Typed

(* The row a title gets when a scan first finds it *)
NewRow(x, e) ==
    [title |-> x, sig |-> Nothing, checked |-> FALSE, ext |-> e,
     label |-> Nothing, override |-> FALSE]

LEMMA CreateIs ==
    ASSUME Typed, NEW x \in Titles, NEW n \in Ids, NEW e \in Maybe(GivenIds), Create(x, n, e)
    PROVE  /\ NewRow(x, e) \in Row /\ n \notin Live
           /\ rows' = [rows EXCEPT ![n] = NewRow(x, e)]
           /\ rows'[n] = NewRow(x, e) /\ Live' = Live \cup {n}
           /\ \A i \in Ids \ {n} : rows'[i] = rows[i]
           /\ UNCHANGED <<threads, history>>
<1>1. NewRow(x, e) \in Row
  BY DEF NewRow, Row, Maybe, ExtIds
<1>2. n \notin Live
  <2>1. n \in Nat /\ ~(n < n)
    BY DEF Ids
  <2> QED
    BY <2>1 DEF Create, IsNewId
<1>3. rows' = [rows EXCEPT ![n] = NewRow(x, e)] /\ UNCHANGED <<threads, history>>
  BY DEF Create, NewRow
<1>4. rows'[n] = NewRow(x, e) /\ \A i \in Ids \ {n} : rows'[i] = rows[i]
  BY <1>3 DEF Typed, RowsTyped
<1>5. NewRow(x, e) # Nothing
  BY <1>1
<1>6. Live' = Live \cup {n}
  BY <1>4, <1>5 DEF Live
<1> QED
  BY <1>1, <1>2, <1>3, <1>4, <1>6

LEMMA CreateTyped ==
    ASSUME Typed, NEW x \in Titles, NEW n \in Ids, NEW e \in Maybe(GivenIds), Create(x, n, e)
    PROVE  Typed'
<1>1. /\ NewRow(x, e) \in Row /\ rows' = [rows EXCEPT ![n] = NewRow(x, e)]
      /\ UNCHANGED <<threads, history>>
  BY CreateIs
<1>2. RowsTyped'
  BY <1>1 DEF Typed, RowsTyped, Maybe
<1>3. HistoryTyped'
  BY <1>1 DEF Typed, HistoryTyped, history
<1> QED
  BY <1>1, <1>2, <1>3, ThreadsLeft

LEMMA DropTyped ==
    ASSUME Typed, NEW i \in Ids, Drop(i)
    PROVE  Typed'
<1>1. RowsTyped'
  BY DEF Drop, Typed, RowsTyped, Live, Maybe
<1>2. HistoryTyped'
  BY DEF Drop, Typed, HistoryTyped, Maybe
<1> QED
  BY <1>1, <1>2, ThreadsLeft DEF Drop

LEMMA AgeTyped ==
    ASSUME Typed, NEW i \in Ids, Age(i)
    PROVE  Typed'
<1>1. rows[i] \in Row /\ rows' = [rows EXCEPT ![i] = [rows[i] EXCEPT !.checked = FALSE]]
  BY LiveRows DEF Age, Live
<1>2. [rows[i] EXCEPT !.checked = FALSE] \in Row
  BY <1>1 DEF Row
<1>3. RowsTyped'
  BY <1>1, <1>2 DEF Age, Typed, RowsTyped, Live, Maybe
<1>4. HistoryTyped'
  BY DEF Age, Typed, HistoryTyped, history
<1> QED
  BY <1>3, <1>4, ThreadsLeft DEF Age

-----------------------------------------------------------------------------
(* enrich_all between its sessions *)

LEMMA EnrichAllTyped ==
    ASSUME Typed, NEW t \in Threads, EnrichAll(t)
    PROVE  Typed'
<1>0. PICK force \in BOOLEAN : \E order \in SetToSeqs(Due(force)) :
          /\ order # <<>>
          /\ todo' = [todo EXCEPT ![t] =
                [k \in DOMAIN order |-> [id |-> order[k], title |-> rows[order[k]].title]]]
  BY DEF EnrichAll
<1>1. PICK order \in SetToSeqs(Due(force)) :
          /\ order # <<>>
          /\ todo' = [todo EXCEPT ![t] =
                [k \in DOMAIN order |-> [id |-> order[k], title |-> rows[order[k]].title]]]
  BY <1>0
<1> DEFINE list == [k \in DOMAIN order |-> [id |-> order[k], title |-> rows[order[k]].title]]
<1>2. /\ kind' = [kind EXCEPT ![t] = "enrich"] /\ kind[t] = "idle"
      /\ UNCHANGED <<rows, heard, got, put, said, gave, raced, dated, unheard>>
  BY DEF EnrichAll, Idle, history
<1>3. /\ DOMAIN order = 1..Cardinality(Due(force))
      /\ \A k \in DOMAIN order : order[k] \in Ids /\ rows[order[k]].title \in Titles
  <2>1. order \in [1..Cardinality(Due(force)) -> Due(force)]
    BY DEF SetToSeqs
  <2>2. Due(force) \subseteq Live
    BY DEF Due
  <2>3. \A i \in Live : i \in Ids /\ rows[i].title \in Titles
    BY LiveRows DEF Row
  <2> QED
    BY <2>1, <2>2, <2>3
<1>4. Cardinality(Due(force)) \in Nat
  <2>1. IsFiniteSet(Ids) /\ Due(force) \subseteq Ids
    BY FS_Interval DEF Ids, Due, Live
  <2> QED
    BY <2>1, FS_Subset, FS_CardinalityType
<1>5. list \in Seq([id : Ids, title : Titles])
  <2> DEFINE n == Cardinality(Due(force))
             R == [id : Ids, title : Titles]
  <2>1. list \in [1..n -> R]
    BY <1>3
  <2> HIDE DEF list, n, R
  <2>2. n \in Nat
    BY <1>4 DEF n
  <2>3. list \in Seq(R)
    BY <2>1, <2>2, IntervalIsSeq
  <2> QED
    BY <2>3 DEF R
<1>6. QueuesTyped'
  <2> HIDE DEF list
  <2>1. todo' = [todo EXCEPT ![t] = list]
    BY <1>1 DEF list
  <2>2. todo[t] = <<>> /\ heard[t] = Unasked
    BY <1>2 DEF Typed, QueuesTyped
  <2> QED
    BY <1>2, <1>5, <2>1, <2>2 DEF Typed, QueuesTyped, Kinds
<1>7. RowsTyped' /\ HistoryTyped'
  BY <1>2 DEF Typed, RowsTyped, HistoryTyped, Live
<1>8. SessionsTyped'
  <2>1. DOMAIN got[t] = {}
    BY <1>2 DEF Typed, SessionsTyped, SessionTyped
  <2>2. \A u \in Threads : u # t => kind'[u] = kind[u]
    BY <1>2 DEF Typed, QueuesTyped
  <2> QED
    BY <1>2, <2>1, <2>2 DEF Typed, SessionsTyped, SessionTyped
<1> QED
  BY <1>6, <1>7, <1>8 DEF Typed

LEMMA AskTyped ==
    ASSUME Typed, NEW t \in Threads, Ask(t)
    PROVE  Typed'
<1>1. /\ UNCHANGED <<rows, kind, todo, got, put, said, gave, raced, dated, unheard>>
      /\ todo[t] # <<>> /\ heard[t] = Unasked
  BY DEF Ask, history
<1>2. PICK answer \in {Known[Head(todo[t]).title], Outage} :
          heard' = [heard EXCEPT ![t] = answer]
  BY DEF Ask
<1>3. Head(todo[t]) \in [id : Ids, title : Titles]
  <2>1. todo[t] \in Seq([id : Ids, title : Titles])
    BY DEF Typed, QueuesTyped
  <2> QED
    BY <1>1, <2>1, HeadTail
<1>4. answer \in Maybe(Signals) \cup {Outage, Unasked}
  <2>1. Known[Head(todo[t]).title] \in Maybe(Signals)
    BY <1>3
  <2> QED
    BY <2>1
<1>5. QueuesTyped'
  BY <1>1, <1>2, <1>4 DEF Typed, QueuesTyped
<1>6. RowsTyped' /\ HistoryTyped'
  BY <1>1 DEF Typed, RowsTyped, HistoryTyped, Live
<1>7. SessionsTyped'
  <2>1. kind[t] = "enrich" /\ DOMAIN got[t] = {}
    BY <1>1 DEF Typed, QueuesTyped, SessionsTyped, SessionTyped
  <2>2. \A u \in Threads \ {t} : heard'[u] = heard[u]
    BY <1>2 DEF Typed, QueuesTyped
  <2> QED
    BY <1>1, <2>1, <2>2 DEF Typed, SessionsTyped, SessionTyped
<1> QED
  BY <1>5, <1>6, <1>7 DEF Typed

(* The end of a title's turn, and of a session.                              *)
LEMMA AdvanceTyped ==
    ASSUME Typed, NEW t \in Threads, todo[t] # <<>>, Advance(t)
    PROVE  QueuesTyped' /\ (\A u \in Threads \ {t} : kind'[u] = kind[u] /\ heard'[u] = heard[u])
<1>1. /\ todo[t] \in Seq([id : Ids, title : Titles])
      /\ Tail(todo[t]) \in Seq([id : Ids, title : Titles])
      /\ Tail(todo[t]) # <<>> <=> Len(todo[t]) > 1
  <2>1. todo[t] \in Seq([id : Ids, title : Titles])
    BY DEF Typed, QueuesTyped
  <2> QED
    BY <2>1, HeadTail
<1>2. /\ todo' = [todo EXCEPT ![t] = Tail(todo[t])]
      /\ heard' = [heard EXCEPT ![t] = Unasked]
      /\ kind' = [kind EXCEPT ![t] = IF Len(todo[t]) > 1 THEN "enrich" ELSE "idle"]
  BY DEF Advance
<1> QED
  BY <1>1, <1>2 DEF Typed, QueuesTyped, Kinds

LEMMA DeletedTyped ==
    ASSUME Typed, NEW t \in Threads, DeletedMidRun(t)
    PROVE  Typed'
<1>1. /\ UNCHANGED <<rows, got, put, said, gave, raced, dated, unheard>>
      /\ got[t] = <<>> /\ heard[t] # Unasked /\ Advance(t)
  BY DEF DeletedMidRun, Asked, history
<1>2. todo[t] # <<>>
  BY <1>1 DEF Typed, QueuesTyped
<1>3. QueuesTyped' /\ (\A u \in Threads \ {t} : kind'[u] = kind[u] /\ heard'[u] = heard[u])
  BY <1>1, <1>2, AdvanceTyped
<1>4. RowsTyped' /\ HistoryTyped'
  BY <1>1 DEF Typed, RowsTyped, HistoryTyped, Live
<1>5. DOMAIN got[t] = {}
  BY <1>1
<1>6. SessionsTyped'
  BY <1>1, <1>3, <1>5 DEF Typed, SessionsTyped, SessionTyped
<1> QED
  BY <1>3, <1>4, <1>6 DEF Typed

LEMMA ClosedTyped ==
    ASSUME Typed, NEW t \in Threads, Closed(t),
           \A u \in Threads \ {t} : kind'[u] = kind[u] /\ heard'[u] = heard[u]
    PROVE  SessionsTyped'
<1>1. got' = [got EXCEPT ![t] = <<>>] /\ put' = [put EXCEPT ![t] = <<>>]
  BY DEF Closed
<1>2. \A u \in Threads \ {t} : got'[u] = got[u] /\ put'[u] = put[u]
  BY <1>1 DEF Typed, SessionsTyped
<1>3. got'[t] = <<>> /\ put'[t] = <<>>
  BY <1>1 DEF Typed, SessionsTyped
<1>4. ASSUME NEW u \in Threads PROVE SessionTyped(u)'
  <2>1. CASE u = t
    BY <1>3, <2>1 DEF SessionTyped
  <2>2. CASE u # t
    BY <1>2, <2>2 DEF Typed, SessionsTyped, SessionTyped
  <2> QED
    BY <2>1, <2>2
<1> QED
  BY <1>1, <1>4 DEF Typed, SessionsTyped

LEMMA FailTyped ==
    ASSUME Typed, NEW t \in Threads, Fail(t)
    PROVE  Typed'
<1>1. RowsTyped' /\ HistoryTyped'
  BY DEF Fail, Typed, RowsTyped, HistoryTyped, Live, history
<1>2. /\ todo' = [todo EXCEPT ![t] = <<>>] /\ heard' = [heard EXCEPT ![t] = Unasked]
      /\ kind' = [kind EXCEPT ![t] = "idle"] /\ Closed(t)
  BY DEF Fail
<1>3. QueuesTyped' /\ (\A u \in Threads \ {t} : kind'[u] = kind[u] /\ heard'[u] = heard[u])
  <2>1. <<>> \in Seq([id : Ids, title : Titles])
    OBVIOUS
  <2> QED
    BY <1>2, <2>1 DEF Typed, QueuesTyped, Kinds
<1>4. SessionsTyped'
  BY <1>1, <1>2, <1>3, ClosedTyped
<1> QED
  BY <1>1, <1>3, <1>4 DEF Typed

LEMMA MergedTyped ==
    ASSUME Typed, NEW t \in Threads, NEW i \in Touched(t), i \in Live
    PROVE  Merged(t, i) \in Row
<1>1. rows[i] \in Row /\ put[t][i] \in Row
  BY LiveRows DEF Touched, Typed, SessionsTyped, SessionTyped, Derives
<1>2. \A c \in Columns : Merged(t, i)[c] \in {put[t][i][c], rows[i][c]}
  BY DEF Merged
<1>3. Merged(t, i) = [c \in Columns |-> Merged(t, i)[c]]
  BY DEF Merged
<1> QED
  BY <1>1, <1>2, <1>3 DEF Row, Columns

LEMMA CommitTyped ==
    ASSUME Typed, NEW t \in Threads, Commit(t)
    PROVE  Typed'
<1>1. /\ Touched(t) \subseteq Live /\ Closed(t) /\ got[t] # <<>>
      /\ rows' = [i \in Ids |-> IF i \in Touched(t) THEN Merged(t, i) ELSE rows[i]]
  BY DEF Commit
<1>2. \A i \in DOMAIN got[t] : /\ i \in Ids /\ got[t][i] \in Row /\ put[t][i] \in Row
                               /\ Derives(kind[t], got[t][i], put[t][i])
  BY DEF Typed, SessionsTyped, SessionTyped, Derives
<1>3. RowsTyped'
  <2>1. \A i \in Touched(t) : Merged(t, i) \in Row
    BY <1>1, MergedTyped
  <2>2. rows' \in [Ids -> Maybe(Row)]
    BY <1>1, <2>1 DEF Typed, RowsTyped, Maybe
  <2> QED
    BY <2>2 DEF RowsTyped
<1>4. QueuesTyped' /\ (\A u \in Threads \ {t} : kind'[u] = kind[u] /\ heard'[u] = heard[u])
  <2>1. CASE kind[t] = "enrich"
    <3>1. DOMAIN got[t] # {}
      <4>1. got[t] = [i \in DOMAIN got[t] |-> got[t][i]]
        BY DEF Typed, SessionsTyped, SessionTyped
      <4> QED
        BY <1>1, <4>1, NoRows
    <3>2. todo[t] # <<>>
      BY <2>1, <3>1 DEF Typed, QueuesTyped, SessionsTyped, SessionTyped
    <3> QED
      BY <2>1, <3>2, AdvanceTyped DEF Commit
  <2>2. CASE kind[t] # "enrich"
    <3>1. kind' = [kind EXCEPT ![t] = "idle"] /\ UNCHANGED <<todo, heard>>
      BY <2>2 DEF Commit
    <3> QED
      BY <2>2, <3>1 DEF Typed, QueuesTyped, Kinds
  <2> QED
    BY <2>1, <2>2
<1>5. SessionsTyped'
  BY <1>1, <1>4, ClosedTyped
<1>6. HistoryTyped'
  <2>1. said' \in [Ids -> Maybe(Labels)]
    <3>1. \A i \in DOMAIN got[t] : put[t][i].label \in Maybe(Labels)
      BY <1>2 DEF Row
    <3> QED
      BY <3>1 DEF Commit, Typed, HistoryTyped, Maybe
  <2>2. gave' \in [Ids -> Maybe(GivenIds)]
    <3>1. \A i \in Touched(t) : kind[t] \in {"identify", "verdict"} /\ "ext" \in Written(t, i)
                                    => put[t][i].ext \in GivenIds
      BY <1>2 DEF Touched, Written, Derives
    <3> QED
      BY <3>1 DEF Commit, Typed, HistoryTyped, Maybe
  <2>3. raced' \cup dated' \subseteq Ids
    BY <1>2 DEF Commit, Typed, HistoryTyped, Raced, Dated, Touched
  <2>4. unheard' \subseteq Ids
    BY <1>2 DEF Commit, Typed, HistoryTyped
  <2> QED
    BY <2>1, <2>2, <2>3, <2>4 DEF HistoryTyped
<1> QED
  BY <1>3, <1>4, <1>5, <1>6 DEF Typed

LEMMA TypedStep == Typed /\ [Next]_vars => Typed'
<1> SUFFICES ASSUME Typed, [Next]_vars PROVE Typed'
  OBVIOUS
<1> USE DEF Kinds
<1>1. ASSUME NEW t \in Threads, ReclassifyAll(t) PROVE Typed'
  <2> DEFINE made == [i \in Live |-> Reclassified(rows[i])]
  <2>1. Opens(t, "reclassify", made) /\ UNCHANGED <<todo, heard>> /\ kind[t] = "idle"
    BY <1>1 DEF ReclassifyAll, Idle
  <2>2. \A i \in DOMAIN made : i \in Live /\ Derives("reclassify", rows[i], made[i])
    BY LiveRows, ReclassifiedTyped DEF Derives
  <2>3. made = [i \in DOMAIN made |-> made[i]]
    OBVIOUS
  <2>4. todo[t] = <<>>
    BY <2>1 DEF Typed, QueuesTyped
  <2> HIDE DEF made
  <2> QED
    BY <2>1, <2>2, <2>3, <2>4, OpensTyped
<1>2. ASSUME NEW t \in Threads, NEW i \in Ids, NEW e \in Maybe(GivenIds),
             NEW l \in Maybe(Labels), Identify(t, i, e, l)
      PROVE  Typed'
  <2> DEFINE k == IF l = Nothing THEN "identify" ELSE "verdict"
             made == [j \in {i} |-> Labelled(Given(rows[j], e), l)]
  <2>1. /\ Opens(t, k, made) /\ UNCHANGED <<todo, heard>> /\ kind[t] = "idle" /\ i \in Live
    BY <1>2 DEF Identify, Idle
  <2>2. \A j \in DOMAIN made : j \in Live /\ Derives(k, rows[j], made[j])
    BY <2>1, LiveRows, GivenTyped DEF Derives
  <2>3. made = [j \in DOMAIN made |-> made[j]]
    OBVIOUS
  <2>4. todo[t] = <<>>
    BY <2>1 DEF Typed, QueuesTyped
  <2>5. k \in Kinds \ {"idle"} /\ k # "enrich"
    OBVIOUS
  <2> HIDE DEF made, k
  <2> QED
    BY <2>1, <2>2, <2>3, <2>4, <2>5, OpensTyped
<1>3. ASSUME NEW t \in Threads, NEW i \in Ids, NEW l \in Labels, OverrideClassification(t, i, l)
      PROVE  Typed'
  <2> DEFINE made == [j \in {i} |-> Labelled(rows[j], l)]
  <2>1. /\ Opens(t, "verdict", made) /\ UNCHANGED <<todo, heard>> /\ kind[t] = "idle"
        /\ i \in Live
    BY <1>3 DEF OverrideClassification, Idle
  <2>2. \A j \in DOMAIN made : j \in Live /\ Derives("verdict", rows[j], made[j])
    BY <2>1, LiveRows, OverriddenTyped DEF Derives
  <2>3. made = [j \in DOMAIN made |-> made[j]]
    OBVIOUS
  <2>4. todo[t] = <<>>
    BY <2>1 DEF Typed, QueuesTyped
  <2> HIDE DEF made
  <2> QED
    BY <2>1, <2>2, <2>3, <2>4, OpensTyped
<1>4. ASSUME NEW t \in Threads, OpenAnswered(t) PROVE Typed'
  <2> DEFINE i == Head(todo[t]).id
             made == [j \in {i} |-> Reclassified(Stored(rows[j], Answer(t)))]
  <2>1. /\ Opens(t, "enrich", made) /\ UNCHANGED <<todo, heard>> /\ i \in Live
        /\ heard[t] # Unasked
    BY <1>4 DEF OpenAnswered, Asked
  <2>2. Answer(t) \in Maybe(Signals)
    BY <2>1 DEF Answer, Typed, QueuesTyped, Maybe
  <2>3. \A j \in DOMAIN made : j \in Live /\ Derives("enrich", rows[j], made[j])
    <3>1. rows[i] \in Row
      BY <2>1, LiveRows
    <3>2. /\ Stored(rows[i], Answer(t)) \in Row
          /\ rows[i].ext # Nothing => Stored(rows[i], Answer(t)).ext = rows[i].ext
      BY <2>2, <3>1, StoredTyped
    <3> QED
      BY <2>1, <3>1, <3>2, ReclassifiedTyped DEF Derives
  <2>4. made = [j \in DOMAIN made |-> made[j]]
    OBVIOUS
  <2> HIDE DEF made, i
  <2> QED
    BY <2>1, <2>3, <2>4, OpensTyped
<1>5. ASSUME NEW t \in Threads, NEW i \in Ids, NEW e \in GivenIds, Rematch(t, i, e)
      PROVE  Typed'
  <2> DEFINE made == [j \in {i} |-> Filled(rows[j], e)]
  <2>1. /\ Opens(t, "match", made) /\ UNCHANGED <<todo, heard>> /\ kind[t] = "idle"
        /\ i \in Live
    BY <1>5 DEF Rematch, Idle
  <2>2. \A j \in DOMAIN made : j \in Live /\ Derives("match", rows[j], made[j])
    BY <2>1, LiveRows, FilledTyped DEF Derives
  <2>3. made = [j \in DOMAIN made |-> made[j]]
    OBVIOUS
  <2>4. todo[t] = <<>>
    BY <2>1 DEF Typed, QueuesTyped
  <2> HIDE DEF made
  <2> QED
    BY <2>1, <2>2, <2>3, <2>4, OpensTyped
<1>7. CASE UNCHANGED vars
  BY <1>7 DEF vars, threads, history, Typed, RowsTyped, QueuesTyped, HistoryTyped,
              SessionsTyped, SessionTyped, Live
<1>6. ASSUME NEW t \in Threads, Person(t) PROVE Typed'
  BY <1>2, <1>3, <1>6 DEF Person
<1> QED
  BY <1>1, <1>4, <1>5, <1>6, <1>7, CreateTyped, DropTyped, AgeTyped, EnrichAllTyped, AskTyped,
     DeletedTyped, CommitTyped, FailTyped DEF Next, Enrichment

LEMMA AlwaysTyped == Spec => []Typed
<1>1. Init => Typed
  <2> SUFFICES ASSUME Init PROVE Typed
    OBVIOUS
  <2>1. Live = {}
    BY DEF Init, Live
  <2>2. RowsTyped /\ HistoryTyped
    BY <2>1 DEF Init, RowsTyped, HistoryTyped, Maybe
  <2>3. QueuesTyped
    BY DEF Init, QueuesTyped, Kinds
  <2>4. SessionsTyped
    BY DEF Init, SessionsTyped, SessionTyped
  <2> QED
    BY <2>2, <2>3, <2>4 DEF Typed
<1> QED
  BY <1>1, TypedStep, PTL DEF Spec

-----------------------------------------------------------------------------
(* Ids that people give *)

GivenOf == \A i \in Ids : gave[i] # Nothing => i \in Live /\ rows[i].ext = gave[i]

(* What a commit leaves of a row's id.                                       *)
LEMMA CommitExt ==
    ASSUME Typed, NEW t \in Threads, Commit(t), NEW i \in Ids, i \in Live
    PROVE  /\ i \in Live'
           /\ rows'[i].ext = IF i \in Touched(t) /\ "ext" \in Written(t, i)
                             THEN put[t][i].ext ELSE rows[i].ext
<1>1. rows'[i] = IF i \in Touched(t) THEN Merged(t, i) ELSE rows[i]
  BY DEF Commit
<1>2. i \in Touched(t) => /\ Merged(t, i) = [c \in Columns |-> Merged(t, i)[c]]
                          /\ Merged(t, i).ext = IF "ext" \in Written(t, i)
                                                THEN put[t][i].ext ELSE rows[i].ext
  BY DEF Merged, Columns
<1>3. rows'[i] # Nothing
  BY <1>1, MergedTyped DEF Live
<1> QED
  BY <1>1, <1>2, <1>3 DEF Live

LEMMA GivenOfStep == Typed /\ GivenOf /\ [Next]_vars => GivenOf'
<1> SUFFICES ASSUME Typed, GivenOf, [Next]_vars PROVE GivenOf'
  OBVIOUS
<1>1. ASSUME NEW x \in Titles, NEW n \in Ids, NEW e \in Maybe(GivenIds), Create(x, n, e)
      PROVE  GivenOf'
  BY <1>1, CreateIs DEF GivenOf, history
<1>2. ASSUME NEW i \in Ids, Drop(i) PROVE GivenOf'
  BY <1>2 DEF Drop, GivenOf, Live, Typed, RowsTyped, HistoryTyped
<1>3. ASSUME NEW i \in Ids, Age(i) PROVE GivenOf'
  <2>1. rows[i] \in Row /\ rows' = [rows EXCEPT ![i] = [rows[i] EXCEPT !.checked = FALSE]]
    BY <1>3, LiveRows DEF Age, Live
  <2>2. /\ [rows[i] EXCEPT !.checked = FALSE] \in Row
        /\ [rows[i] EXCEPT !.checked = FALSE].ext = rows[i].ext
    BY <2>1 DEF Row
  <2>3. /\ gave' = gave /\ rows'[i] \in Row /\ rows'[i].ext = rows[i].ext
        /\ \A j \in Ids \ {i} : rows'[j] = rows[j]
    BY <1>3, <2>1, <2>2 DEF Age, history, Typed, RowsTyped
  <2> QED
    BY <2>3 DEF GivenOf, Live
<1>4. ASSUME NEW t \in Threads, Commit(t) PROVE GivenOf'
  <2> SUFFICES ASSUME NEW i \in Ids, gave'[i] # Nothing
               PROVE  i \in Live' /\ rows'[i].ext = gave'[i]
    BY DEF GivenOf
  <2> DEFINE written == i \in Touched(t) /\ "ext" \in Written(t, i)
  <2>1. gave'[i] = IF ~written THEN gave[i]
                   ELSE IF kind[t] \in {"identify", "verdict"} THEN put[t][i].ext
                   ELSE IF rows[i].ext # got[t][i].ext THEN Nothing ELSE gave[i]
    BY <1>4 DEF Commit
  <2>2. CASE ~written
    <3>1. i \in Live /\ rows[i].ext = gave[i]
      BY <2>1, <2>2 DEF GivenOf
    <3> QED
      BY <1>4, <2>1, <2>2, <3>1, CommitExt
  <2>3. CASE written
    <3>1. i \in Live
      BY <1>4, <2>3 DEF Commit
    <3>2. rows'[i].ext = put[t][i].ext /\ i \in Live'
      BY <1>4, <2>3, <3>1, CommitExt
    <3>3. CASE kind[t] \in {"identify", "verdict"}
      BY <2>1, <2>3, <3>2, <3>3
    <3>4. CASE kind[t] \notin {"identify", "verdict"}
      <4>1. got[t][i].ext = Nothing
        BY <2>3, <3>4 DEF Touched, Written, Typed, SessionsTyped, SessionTyped, Derives
      <4>2. gave[i] # Nothing /\ rows[i].ext = Nothing
        BY <2>1, <2>3, <3>4, <4>1
      <4> QED
        BY <4>2 DEF GivenOf
    <3> QED
      BY <3>3, <3>4
  <2> QED
    BY <2>2, <2>3
<1>5. CASE UNCHANGED <<rows, gave>>
  BY <1>5 DEF GivenOf, Live
<1>6. ASSUME NEW t \in Threads,
             \/ ReclassifyAll(t) \/ Person(t) \/ Enrichment(t) \/ Fail(t)
             \/ \E i \in Ids, e \in GivenIds : Rematch(t, i, e)
      PROVE  UNCHANGED <<rows, gave>>
  BY <1>6 DEF Rematch, ReclassifyAll, Person, Identify, OverrideClassification, Enrichment, EnrichAll, Ask,
     OpenAnswered, DeletedMidRun, Fail, Opens, history
<1> QED
  BY <1>1, <1>2, <1>3, <1>4, <1>5, <1>6 DEF Next, vars, history

(* A provider's id never takes the place of one a person gave, whatever      *)
(* enrichments, identifications and scans overlap, unless the person gave it *)
(* while the answer was being stored (service.py:713-720).                   *)
THEOREM GivenIdsStand == Spec => []GivenIdStands
<1>1. Init => GivenOf
  BY DEF Init, GivenOf
<1>2. GivenOf => GivenIdStands
  BY DEF GivenOf, GivenIdStands, Live
<1> QED
  BY <1>1, <1>2, AlwaysTyped, GivenOfStep, PTL DEF Spec

-----------------------------------------------------------------------------
(* Verdicts and labels *)

Over(r) == r.override = TRUE
Evident(r) == r.label = Nothing \/ r.label = Verdict(r)

(* What the proof needs of a row: it has the columns.                        *)
Rowlike(r) == r = [c \in Columns |-> r[c]] /\ r["override"] \in BOOLEAN

(* What a session of each kind makes of the row it read.                     *)
Fits(k, g, p) ==
    /\ Rowlike(g) /\ Rowlike(p) /\ p.title = g.title
    /\ k # "verdict" => p.override = g.override /\ (Over(g) => p.label = g.label)
    /\ k \in {"identify", "match"} => p.label = g.label
    /\ k = "verdict" => Over(p) /\ p.label \in Labels
    /\ k # "enrich" => p.sig = g.sig
    /\ k \in {"reclassify", "enrich"} /\ ~Over(p) => Evident(p)

Shape ==
    /\ rows = [i \in Ids |-> rows[i]] /\ said = [i \in Ids |-> said[i]]
    /\ kind \in [Threads -> Kinds]
    /\ got = [t \in Threads |-> got[t]] /\ put = [t \in Threads |-> put[t]]
    /\ \A i \in Live : Rowlike(rows[i])
    /\ \A t \in Threads : kind[t] = "idle" => DOMAIN got[t] = {}

SessionFits(t) ==
    \A i \in DOMAIN got[t] : i \in Ids /\ Fits(kind[t], got[t][i], put[t][i])

(* What a person said stays on the row's record; a row that is gone has none.*)
SaidIsOver ==
    /\ \A i \in Live \ raced : said[i] # Nothing => Over(rows[i])
    /\ \A i \in Ids \ Live : said[i] = Nothing

Stands ==
    \A i \in Live \ raced : Over(rows[i]) => said[i] # Nothing /\ rows[i].label = said[i]

Follows == \A i \in Live \ (raced \cup dated) : ~Over(rows[i]) => Evident(rows[i])

Sound == Shape /\ (\A t \in Threads : SessionFits(t)) /\ SaidIsOver /\ Stands /\ Follows

-----------------------------------------------------------------------------
(* What sessions make of rows *)

LEMMA ReclassifiedFits ==
    ASSUME NEW r, Rowlike(r), NEW p, p = Reclassified(r)
    PROVE  Fits("reclassify", r, p) /\ Fits("enrich", r, p)
<1>1. Rowlike(p) /\ p.override = r.override /\ p.title = r.title /\ p.sig = r.sig
  BY DEF Rowlike, Columns, Reclassified
<1>2. Over(r) => p = r
  BY DEF Over, Reclassified
<1>3. ~Over(p) => Evident(p)
  BY <1>1 DEF Over, Evident, Reclassified, Rowlike, Columns, Verdict
<1> QED
  BY <1>1, <1>2, <1>3 DEF Fits

LEMMA StoredKeeps ==
    ASSUME NEW r, Rowlike(r), NEW s, NEW p, p = Stored(r, s)
    PROVE  Rowlike(p) /\ p.override = r.override /\ p.label = r.label /\ p.title = r.title
BY DEF Rowlike, Columns, Stored

LEMMA GivenKeeps ==
    ASSUME NEW r, Rowlike(r), NEW e, NEW p, p = Given(r, e)
    PROVE  /\ Rowlike(p) /\ p.override = r.override /\ p.label = r.label
           /\ p.title = r.title /\ p.sig = r.sig
BY DEF Rowlike, Columns, Given

LEMMA FilledFits ==
    ASSUME NEW r, Rowlike(r), NEW e, NEW p, p = Filled(r, e)
    PROVE  Fits("match", r, p)
BY DEF Rowlike, Columns, Filled, Fits

LEMMA LabelledFits ==
    ASSUME NEW g, Rowlike(g), NEW r, Rowlike(r), r.title = g.title, r.sig = g.sig,
           NEW l \in Labels, NEW p, p = Labelled(r, l)
    PROVE  Fits("verdict", g, p)
BY DEF Fits, Rowlike, Over, Columns, Labelled

LEMMA IdentifiedFits ==
    ASSUME NEW r, Rowlike(r), NEW e, NEW l \in Maybe(Labels), NEW p, p = Labelled(Given(r, e), l)
    PROVE  Fits(IF l = Nothing THEN "identify" ELSE "verdict", r, p)
<1> DEFINE g == Given(r, e)
<1>1. /\ Rowlike(g) /\ g.override = r.override /\ g.label = r.label
      /\ g.title = r.title /\ g.sig = r.sig
  BY GivenKeeps
<1>2. CASE l = Nothing
  <2>1. p = g
    BY <1>2 DEF Labelled
  <2> QED
    BY <1>1, <1>2, <2>1 DEF Fits
<1>3. CASE l # Nothing
  <2>1. l \in Labels
    BY <1>3 DEF Maybe
  <2> HIDE DEF g
  <2>2. p = Labelled(g, l)
    BY DEF g
  <2> QED
    BY <1>1, <1>3, <2>1, <2>2, LabelledFits
<1> QED
  BY <1>2, <1>3

LEMMA AnsweredFits ==
    ASSUME NEW r, Rowlike(r), NEW s, NEW p, p = Reclassified(Stored(r, s))
    PROVE  Fits("enrich", r, p)
<1> DEFINE q == Stored(r, s)
<1>1. Rowlike(q) /\ q.override = r.override /\ q.label = r.label /\ q.title = r.title
  BY StoredKeeps
<1> HIDE DEF q
<1>2. p = Reclassified(q)
  BY DEF q
<1>3. Fits("enrich", q, p)
  BY <1>1, <1>2, ReclassifiedFits
<1> QED
  BY <1>1, <1>3 DEF Fits, Over

-----------------------------------------------------------------------------
(* Opening a session *)

LEMMA OpensSound ==
    ASSUME Sound, NEW t \in Threads, NEW k \in Kinds, k # "idle", NEW made, Opens(t, k, made),
           \A i \in DOMAIN made : i \in Live /\ Fits(k, rows[i], made[i])
    PROVE  Sound'
<1>1. /\ rows' = rows /\ said' = said /\ raced' = raced /\ dated' = dated
      /\ kind' = [kind EXCEPT ![t] = k] /\ put' = [put EXCEPT ![t] = made]
      /\ got' = [got EXCEPT ![t] = Restrict(rows, DOMAIN made)]
  BY DEF Opens, history
<1>2. Live' = Live
  BY <1>1 DEF Live
<1>3. Shape'
  BY <1>1, <1>2 DEF Sound, Shape
<1>4. ASSUME NEW u \in Threads PROVE SessionFits(u)'
  <2>1. CASE u = t
    <3>1. /\ kind'[t] = k /\ put'[t] = made /\ DOMAIN got'[t] = DOMAIN made
          /\ \A i \in DOMAIN made : got'[t][i] = rows[i]
      BY <1>1 DEF Sound, Shape, Restrict
    <3>2. \A i \in DOMAIN made : i \in Ids
      BY DEF Live
    <3> QED
      BY <1>1, <2>1, <3>1, <3>2 DEF SessionFits
  <2>2. CASE u # t
    <3>1. kind'[u] = kind[u] /\ put'[u] = put[u] /\ got'[u] = got[u]
      BY <1>1, <2>2 DEF Sound, Shape
    <3> QED
      BY <1>1, <1>2, <3>1 DEF Sound, SessionFits
  <2> QED
    BY <2>1, <2>2
<1>5. SaidIsOver' /\ Stands' /\ Follows'
  BY <1>1, <1>2 DEF Sound, SaidIsOver, Stands, Follows
<1> QED
  BY <1>3, <1>4, <1>5 DEF Sound

-----------------------------------------------------------------------------
(* Steps that leave the sessions alone *)

LEMMA SessionsLeft ==
    ASSUME Sound, UNCHANGED <<kind, got, put>>
    PROVE  \A t \in Threads : SessionFits(t)'
BY DEF Sound, SessionFits

LEMMA CreateSound ==
    ASSUME Typed, Sound, NEW x \in Titles, NEW n \in Ids, NEW e \in Maybe(GivenIds),
           Create(x, n, e)
    PROVE  Sound'
<1> DEFINE r == NewRow(x, e)
<1>1. /\ n \notin Live /\ rows' = [rows EXCEPT ![n] = r]
      /\ rows'[n] = r /\ Live' = Live \cup {n}
      /\ \A i \in Ids \ {n} : rows'[i] = rows[i]
      /\ UNCHANGED <<kind, got, put, said, raced, dated>>
  BY CreateIs DEF threads, history
<1>2. Rowlike(r) /\ ~Over(r) /\ Evident(r)
  BY DEF Rowlike, Columns, Over, Evident, NewRow
<1> HIDE DEF r
<1>3. \A i \in Live : i \in Ids \ {n}
  BY <1>1 DEF Live
<1>4. Shape'
  <2>1. rows' = [i \in Ids |-> rows'[i]]
    BY <1>1 DEF Sound, Shape
  <2>2. \A i \in Live' : Rowlike(rows'[i])
    BY <1>1, <1>2, <1>3 DEF Sound, Shape
  <2> QED
    BY <1>1, <2>1, <2>2 DEF Sound, Shape
<1>5. \A t \in Threads : SessionFits(t)'
  BY <1>1, SessionsLeft
<1>6. said[n] = Nothing
  BY <1>1 DEF Sound, SaidIsOver
<1>7. SaidIsOver' /\ Stands' /\ Follows'
  BY <1>1, <1>2, <1>3, <1>6 DEF Sound, SaidIsOver, Stands, Follows
<1> QED
  BY <1>4, <1>5, <1>7 DEF Sound

LEMMA DropSound ==
    ASSUME Sound, NEW i \in Ids, Drop(i)
    PROVE  Sound'
<1>1. /\ UNCHANGED <<kind, got, put>>
      /\ rows' = [rows EXCEPT ![i] = Nothing] /\ said' = [said EXCEPT ![i] = Nothing]
      /\ raced' = raced \ {i} /\ dated' = dated \ {i}
  BY DEF Drop, threads
<1>2. \A j \in Live' : j # i /\ j \in Live /\ rows'[j] = rows[j] /\ said'[j] = said[j]
  BY <1>1 DEF Live, Sound, Shape
<1>3. Shape'
  BY <1>1, <1>2 DEF Sound, Shape
<1>4. \A t \in Threads : SessionFits(t)'
  BY <1>1, SessionsLeft
<1>5. Stands' /\ Follows' /\ \A j \in Live' \ raced' : said'[j] # Nothing => Over(rows'[j])
  BY <1>1, <1>2 DEF Sound, Shape, SaidIsOver, Stands, Follows
<1>6. \A j \in Ids \ Live' : said'[j] = Nothing
  <2>1. \A j \in Ids \ {i} : rows'[j] = rows[j] /\ said'[j] = said[j]
    BY <1>1 DEF Sound, Shape
  <2>2. said'[i] = Nothing
    BY <1>1 DEF Sound, Shape
  <2> QED
    BY <2>1, <2>2 DEF Sound, SaidIsOver, Live
<1> QED
  BY <1>3, <1>4, <1>5, <1>6 DEF Sound, SaidIsOver

LEMMA AgeSound ==
    ASSUME Typed, Sound, NEW i \in Ids, Age(i)
    PROVE  Sound'
<1>1. /\ UNCHANGED <<kind, got, put, said, raced, dated>>
      /\ rows' = [rows EXCEPT ![i] = [rows[i] EXCEPT !.checked = FALSE]]
      /\ rows[i] # Nothing
  BY DEF Age, threads, history
<1>2. i \in Live /\ rows[i] \in Row /\ rows'[i] = [rows[i] EXCEPT !.checked = FALSE]
  BY <1>1, LiveRows DEF Live, Typed, RowsTyped
<1>3. \A j \in Ids \ {i} : rows'[j] = rows[j]
  BY <1>1 DEF Typed, RowsTyped
<1>4. rows'[i] \in Row /\ rows'[i] # Nothing
  <2>1. rows'[i] \in Row
    BY <1>2 DEF Row
  <2> QED
    BY <2>1
<1>5. Live' = Live
  BY <1>2, <1>3, <1>4 DEF Live
<1>6. \A j \in Live : /\ Rowlike(rows'[j])
                      /\ rows'[j].override = rows[j].override /\ rows'[j].label = rows[j].label
                      /\ Verdict(rows'[j]) = Verdict(rows[j])
  <2>1. /\ Rowlike(rows'[i]) /\ rows'[i].override = rows[i].override
        /\ rows'[i].label = rows[i].label /\ Verdict(rows'[i]) = Verdict(rows[i])
    BY <1>2 DEF Row, Rowlike, Columns, Verdict
  <2> QED
    BY <1>3, <2>1 DEF Sound, Shape, Live
<1>7. Shape'
  BY <1>1, <1>5, <1>6 DEF Sound, Shape
<1>8. \A t \in Threads : SessionFits(t)'
  BY <1>1, SessionsLeft
<1>9. \A j \in Live : /\ Over(rows'[j]) <=> Over(rows[j])
                      /\ Evident(rows[j]) => Evident(rows'[j])
  BY <1>6 DEF Over, Evident
<1>10. SaidIsOver' /\ Stands' /\ Follows'
  BY <1>1, <1>5, <1>6, <1>9 DEF Sound, SaidIsOver, Stands, Follows
<1> QED
  BY <1>7, <1>8, <1>10 DEF Sound

(* Between two sessions of an enrichment                                     *)
LEMMA PassSound ==
    ASSUME Sound, NEW t \in Threads, DOMAIN got[t] = {}, NEW k \in Kinds,
           kind' = [kind EXCEPT ![t] = k], UNCHANGED <<rows, got, put, said, raced, dated>>
    PROVE  Sound'
<1>1. Live' = Live
  BY DEF Live
<1>2. Shape'
  BY <1>1 DEF Sound, Shape
<1>3. ASSUME NEW u \in Threads PROVE SessionFits(u)'
  <2>1. CASE u = t
    BY <2>1 DEF SessionFits
  <2>2. CASE u # t
    BY <1>1, <2>2 DEF Sound, Shape, SessionFits
  <2> QED
    BY <2>1, <2>2
<1>4. SaidIsOver' /\ Stands' /\ Follows'
  BY <1>1 DEF Sound, SaidIsOver, Stands, Follows
<1> QED
  BY <1>2, <1>3, <1>4 DEF Sound

-----------------------------------------------------------------------------
(* Closing a session *)

LEMMA FailSound ==
    ASSUME Sound, NEW t \in Threads, Fail(t)
    PROVE  Sound'
<1>1. /\ UNCHANGED <<rows, said, raced, dated>>
      /\ got' = [got EXCEPT ![t] = <<>>] /\ put' = [put EXCEPT ![t] = <<>>]
      /\ kind' = [kind EXCEPT ![t] = "idle"]
  BY DEF Fail, Closed, history
<1>2. Live' = Live
  BY <1>1 DEF Live
<1>3. DOMAIN got'[t] = {} /\ \A u \in Threads \ {t} : /\ got'[u] = got[u] /\ put'[u] = put[u]
                                                      /\ kind'[u] = kind[u]
  BY <1>1 DEF Sound, Shape
<1>4. Shape'
  BY <1>1, <1>2, <1>3 DEF Sound, Shape, Kinds
<1>5. ASSUME NEW u \in Threads PROVE SessionFits(u)'
  BY <1>1, <1>2, <1>3 DEF Sound, SessionFits
<1>6. SaidIsOver' /\ Stands' /\ Follows'
  BY <1>1, <1>2 DEF Sound, SaidIsOver, Stands, Follows
<1> QED
  BY <1>4, <1>5, <1>6 DEF Sound

(* What a commit leaves in a row it read: the columns it changed, and those  *)
(* that others wrote.                                                        *)
LEMMA CommitWrites ==
    ASSUME Sound, NEW t \in Threads, Commit(t), NEW i \in DOMAIN got[t], i \in Live
    PROVE  /\ Rowlike(rows'[i])
           /\ rows'[i].override = IF put[t][i].override # got[t][i].override
                                  THEN put[t][i].override ELSE rows[i].override
           /\ rows'[i].label = IF put[t][i].label # got[t][i].label
                               THEN put[t][i].label ELSE rows[i].label
           /\ rows'[i].sig = IF put[t][i].sig # got[t][i].sig
                             THEN put[t][i].sig ELSE rows[i].sig
           /\ rows'[i].ext = IF put[t][i].ext # got[t][i].ext
                             THEN put[t][i].ext ELSE rows[i].ext
           /\ rows'[i].title = rows[i].title
<1>1. /\ i \in Ids /\ Rowlike(got[t][i]) /\ Rowlike(put[t][i]) /\ Rowlike(rows[i])
      /\ put[t][i].title = got[t][i].title
  BY DEF Sound, Shape, SessionFits, Fits
<1>2. /\ "override" \in Written(t, i) <=> put[t][i].override # got[t][i].override
      /\ "label" \in Written(t, i) <=> put[t][i].label # got[t][i].label
      /\ "sig" \in Written(t, i) <=> put[t][i].sig # got[t][i].sig
      /\ "ext" \in Written(t, i) <=> put[t][i].ext # got[t][i].ext
      /\ "title" \notin Written(t, i)
  BY <1>1 DEF Written, Columns
<1>3. CASE i \in Touched(t)
  <2>1. rows'[i] = Merged(t, i)
    BY <1>1, <1>3 DEF Commit
  <2>2. /\ Merged(t, i) = [c \in Columns |-> Merged(t, i)[c]]
        /\ Merged(t, i).override = IF "override" \in Written(t, i)
                                   THEN put[t][i].override ELSE rows[i].override
        /\ Merged(t, i).label = IF "label" \in Written(t, i)
                                THEN put[t][i].label ELSE rows[i].label
        /\ Merged(t, i).sig = IF "sig" \in Written(t, i) THEN put[t][i].sig ELSE rows[i].sig
        /\ Merged(t, i).ext = IF "ext" \in Written(t, i) THEN put[t][i].ext ELSE rows[i].ext
        /\ Merged(t, i).title = IF "title" \in Written(t, i)
                                THEN put[t][i].title ELSE rows[i].title
    BY DEF Merged, Columns
  <2>3. Merged(t, i)["override"] \in BOOLEAN
    BY <1>1, <2>2 DEF Rowlike
  <2> QED
    BY <1>2, <2>1, <2>2, <2>3 DEF Rowlike
<1>4. CASE i \notin Touched(t)
  <2>1. rows'[i] = rows[i]
    BY <1>1, <1>4 DEF Commit
  <2>2. Written(t, i) = {}
    BY <1>4 DEF Touched
  <2> QED
    BY <1>1, <1>2, <2>1, <2>2
<1> QED
  BY <1>3, <1>4

LEMMA CommitSound ==
    ASSUME Typed, Sound, NEW t \in Threads, Commit(t)
    PROVE  Sound'
<1> DEFINE g(i) == got[t][i]
           p(i) == put[t][i]
<1>1. /\ Touched(t) \subseteq Live
      /\ got' = [got EXCEPT ![t] = <<>>] /\ put' = [put EXCEPT ![t] = <<>>]
      /\ rows' = [i \in Ids |-> IF i \in Touched(t) THEN Merged(t, i) ELSE rows[i]]
      /\ raced' = (raced \ Settled(t)) \cup Raced(t)
      /\ dated' = (dated \ (IF Classifies(t) THEN Settled(t) ELSE {})) \cup Dated(t)
      /\ said' = [i \in Ids |-> IF kind[t] = "verdict" /\ i \in DOMAIN got[t] \cap Live
                                THEN put[t][i].label ELSE said[i]]
  BY DEF Commit, Closed
<1>2. \E k \in Kinds : kind' = [kind EXCEPT ![t] = k]
  BY DEF Commit, Advance, Kinds
<1>3. DOMAIN got'[t] = {} /\ \A w \in Threads \ {t} : /\ got'[w] = got[w] /\ put'[w] = put[w]
                                                      /\ kind'[w] = kind[w]
  BY <1>1, <1>2 DEF Sound, Shape
<1>4. Live' = Live /\ \A i \in Live : i \in Ids
  <2>1. Live' \subseteq Live /\ \A i \in Live : i \in Ids
    BY <1>1 DEF Live
  <2>2. Live \subseteq Live'
    BY <2>1, CommitExt
  <2> QED
    BY <2>1, <2>2
<1>5. \A i \in Ids : i \notin DOMAIN got[t] => rows'[i] = rows[i] /\ said'[i] = said[i]
  BY <1>1 DEF Touched
<1>6. \A i \in DOMAIN got[t] : i \in Ids /\ Fits(kind[t], g(i), p(i))
  BY DEF Sound, SessionFits
<1>7. \A i \in DOMAIN got[t] \cap Live :
          /\ Rowlike(rows'[i])
          /\ rows'[i].override = IF p(i).override # g(i).override
                                 THEN p(i).override ELSE rows[i].override
          /\ rows'[i].label = IF p(i).label # g(i).label THEN p(i).label ELSE rows[i].label
          /\ rows'[i].sig = IF p(i).sig # g(i).sig THEN p(i).sig ELSE rows[i].sig
          /\ rows'[i].ext = IF p(i).ext # g(i).ext THEN p(i).ext ELSE rows[i].ext
          /\ rows'[i].title = rows[i].title
  BY CommitWrites
<1> HIDE DEF g, p
<1>8. \A i \in Live' : Rowlike(rows'[i])
  BY <1>4, <1>5, <1>7 DEF Sound, Shape
<1>9. \A i \in Live : Over(rows[i]) => Over(rows'[i])
  <2> SUFFICES ASSUME NEW i \in Live, Over(rows[i]) PROVE Over(rows'[i])
    OBVIOUS
  <2>1. CASE i \notin DOMAIN got[t]
    BY <1>4, <1>5, <2>1
  <2>2. CASE i \in DOMAIN got[t]
    <3>1. p(i).override = g(i).override \/ p(i).override = TRUE
      BY <1>6, <2>2 DEF Fits, Over
    <3> QED
      BY <1>7, <2>2, <3>1 DEF Over
  <2> QED
    BY <2>1, <2>2
<1>10. Shape'
  <2>1. /\ rows' = [i \in Ids |-> rows'[i]] /\ said' = [i \in Ids |-> said'[i]]
        /\ kind' \in [Threads -> Kinds]
        /\ got' = [w \in Threads |-> got'[w]] /\ put' = [w \in Threads |-> put'[w]]
    BY <1>1, <1>2 DEF Sound, Shape
  <2>2. \A w \in Threads : kind'[w] = "idle" => DOMAIN got'[w] = {}
    BY <1>3 DEF Sound, Shape
  <2> QED
    BY <1>8, <2>1, <2>2 DEF Shape
<1>11. \A w \in Threads : SessionFits(w)'
  <2>1. \A w \in Threads \ {t} : SessionFits(w)'
    BY <1>3 DEF Sound, SessionFits
  <2>2. SessionFits(t)'
    BY <1>3 DEF SessionFits
  <2> QED
    BY <2>1, <2>2
<1>12. SaidIsOver'
  <2>1. ASSUME NEW i \in Live, i \notin raced', said'[i] # Nothing PROVE Over(rows'[i])
    <3>1. CASE i \in DOMAIN got[t] /\ kind[t] = "verdict"
      <4>1. Verdicts(rows[i]) = Verdicts(got[t][i])
        BY <1>1, <2>1, <3>1 DEF Raced
      <4>2. rows[i].override = g(i).override
        BY <4>1 DEF Verdicts, g
      <4>3. Over(p(i))
        BY <1>6, <3>1 DEF Fits
      <4> QED
        BY <1>7, <2>1, <3>1, <4>2, <4>3 DEF Over
    <3>2. CASE ~(i \in DOMAIN got[t] /\ kind[t] = "verdict")
      <4>1. said'[i] = said[i]
        BY <1>1, <1>4, <3>2
      <4>2. i \notin Settled(t)
        BY <2>1, <3>2, <4>1 DEF Settled
      <4>3. i \notin raced
        BY <1>1, <2>1, <4>2
      <4> QED
        BY <1>9, <2>1, <4>1, <4>3 DEF Sound, SaidIsOver
    <3> QED
      BY <3>1, <3>2
  <2>2. ASSUME NEW i \in Ids \ Live PROVE said'[i] = Nothing
    BY <1>1, <2>2 DEF Sound, SaidIsOver
  <2> QED
    BY <1>4, <2>1, <2>2 DEF SaidIsOver
<1>13. Stands'
  <2> SUFFICES ASSUME NEW i \in Live, i \notin raced', Over(rows'[i])
               PROVE  said'[i] # Nothing /\ rows'[i].label = said'[i]
    BY <1>4 DEF Stands
  <2>0. i \in Ids /\ i \notin Raced(t) /\ (i \in raced => i \in Settled(t))
    BY <1>1, <1>4
  <2>1. ASSUME i \notin Settled(t), rows'[i].override = rows[i].override,
               rows'[i].label = rows[i].label, said'[i] = said[i]
        PROVE  said'[i] # Nothing /\ rows'[i].label = said'[i]
    BY <2>0, <2>1 DEF Sound, Stands, Over
  <2>2. CASE i \notin DOMAIN got[t]
    BY <1>5, <2>0, <2>1, <2>2 DEF Settled
  <2>3. CASE i \in DOMAIN got[t] /\ Verdicts(rows[i]) # Verdicts(got[t][i])
    <3>1. i \notin Settled(t) /\ i \notin Touched(t) /\ kind[t] # "verdict"
      BY <2>0, <2>3 DEF Settled, Raced
    <3>2. rows'[i] = rows[i] /\ said'[i] = said[i]
      BY <1>1, <2>0, <3>1
    <3> QED
      BY <2>1, <3>1, <3>2
  <2>4. CASE i \in DOMAIN got[t] /\ Verdicts(rows[i]) = Verdicts(got[t][i])
    <3>1. rows[i].label = g(i).label /\ rows[i].override = g(i).override
      BY <2>4 DEF Verdicts, g
    <3>2. CASE kind[t] = "verdict"
      <4>1. said'[i] = p(i).label
        BY <1>1, <2>0, <2>4, <3>2 DEF p
      <4>2. p(i).label \in Labels
        BY <1>6, <2>4, <3>2 DEF Fits
      <4>3. rows'[i].label = p(i).label
        BY <1>7, <2>0, <2>4, <3>1
      <4> QED
        BY <4>1, <4>2, <4>3
    <3>3. CASE kind[t] # "verdict"
      <4>1. p(i).override = g(i).override /\ (Over(g(i)) => p(i).label = g(i).label)
        BY <1>6, <2>4, <3>3 DEF Fits
      <4>2. rows'[i].override = rows[i].override
        BY <1>7, <2>0, <2>4, <4>1
      <4>3. rows'[i].label = rows[i].label
        BY <1>7, <2>0, <2>4, <3>1, <4>1, <4>2 DEF Over
      <4>4. i \notin Settled(t)
        BY <3>3, <4>2 DEF Settled, Over
      <4>5. said'[i] = said[i]
        BY <1>1, <2>0, <3>3
      <4> QED
        BY <2>1, <4>2, <4>3, <4>4, <4>5
    <3> QED
      BY <3>2, <3>3
  <2> QED
    BY <2>2, <2>3, <2>4
<1>14. Follows'
  <2> SUFFICES ASSUME NEW i \in Live, i \notin raced', i \notin dated', ~Over(rows'[i])
               PROVE  Evident(rows'[i])
    BY <1>4 DEF Follows
  <2>0. /\ i \in Ids /\ i \notin Raced(t) /\ (i \in raced => i \in Settled(t))
        /\ i \notin Dated(t) /\ (i \in dated => i \in Settled(t))
    BY <1>1, <1>4
  <2>1. ~Over(rows[i])
    BY <1>9
  <2>2. ASSUME i \notin Settled(t), rows'[i].label = rows[i].label,
               Verdict(rows'[i]) = Verdict(rows[i])
        PROVE  Evident(rows'[i])
    BY <2>0, <2>1, <2>2 DEF Sound, Follows, Evident
  <2>3. CASE i \notin DOMAIN got[t] \/ (i \notin Touched(t) /\ i \notin Settled(t))
    <3>1. rows'[i] = rows[i]
      BY <1>1, <1>5, <2>0, <2>3
    <3> QED
      BY <2>2, <2>3, <3>1 DEF Settled
  <2>4. CASE i \in DOMAIN got[t] /\ Verdicts(rows[i]) # Verdicts(got[t][i])
    <3>1. i \notin Settled(t) /\ i \notin Touched(t)
      BY <2>0, <2>4 DEF Settled, Raced
    <3> QED
      BY <2>3, <3>1
  <2>5. CASE i \in DOMAIN got[t] /\ Verdicts(rows[i]) = Verdicts(got[t][i])
    <3>1. /\ rows[i].label = g(i).label /\ rows[i].override = g(i).override
          /\ rows[i].title = g(i).title /\ rows[i].sig = g(i).sig
      BY <2>5 DEF Verdicts, g
    <3>2. /\ Fits(kind[t], g(i), p(i)) /\ rows'[i].label = p(i).label
          /\ rows'[i].sig = p(i).sig /\ rows'[i].title = p(i).title
          /\ rows'[i].override = p(i).override
          /\ rows'[i].ext = IF p(i).ext # g(i).ext THEN p(i).ext ELSE rows[i].ext
      BY <1>6, <1>7, <2>0, <2>5, <3>1 DEF Fits
    <3>3. CASE Classifies(t)
      <4>1. CASE rows[i].ext = g(i).ext
        <5>1. rows'[i].ext = p(i).ext
          BY <3>2, <4>1
        <5>2. Verdict(rows'[i]) = Verdict(p(i))
          BY <3>2, <5>1 DEF Verdict
        <5>3. ~Over(p(i)) /\ kind[t] \in {"reclassify", "enrich"}
          BY <3>2, <3>3 DEF Over, Classifies
        <5> QED
          BY <3>2, <5>2, <5>3 DEF Fits, Evident
      <4>2. CASE rows[i].ext # g(i).ext
        <5>1. i \notin Touched(t) /\ i \notin Settled(t)
          BY <2>0, <3>3, <4>2 DEF Dated, Settled, Classifies, g
        <5> QED
          BY <2>3, <5>1
      <4> QED
        BY <4>1, <4>2
    <3>4. CASE kind[t] = "verdict"
      BY <3>2, <3>4 DEF Fits, Over
    <3>5. CASE kind[t] \in {"identify", "match"}
      <4>1. i \notin Settled(t) /\ p(i).label = g(i).label /\ p(i).sig = g(i).sig
        BY <3>2, <3>5 DEF Settled, Classifies, Fits
      <4>2. CASE i \in Touched(t)
        <5>1. p(i).ext = g(i).ext
          BY <2>0, <3>5, <4>2 DEF Dated, Classifies, Written, Columns, g, p
        <5>2. Verdict(rows'[i]) = Verdict(rows[i]) /\ rows'[i].label = rows[i].label
          BY <1>7, <2>5, <3>1, <3>2, <4>1, <5>1 DEF Verdict
        <5> QED
          BY <2>2, <4>1, <5>2
      <4> QED
        BY <2>3, <4>1, <4>2
    <3>6. kind[t] # "idle" /\ kind[t] \in Kinds
      BY <2>5 DEF Sound, Shape
    <3> QED
      BY <3>3, <3>4, <3>5, <3>6 DEF Kinds, Classifies
  <2> QED
    BY <2>3, <2>4, <2>5
<1> QED
  BY <1>10, <1>11, <1>12, <1>13, <1>14 DEF Sound

-----------------------------------------------------------------------------
LEMMA ThreadSound ==
    ASSUME Typed, Sound, NEW t \in Threads,
           \/ ReclassifyAll(t) \/ Person(t) \/ Enrichment(t) \/ Commit(t) \/ Fail(t)
           \/ \E i \in Ids, e \in GivenIds : Rematch(t, i, e)
    PROVE  Sound'
<1>0. \A i \in Live : Rowlike(rows[i])
  BY DEF Sound, Shape
<1>1. CASE ReclassifyAll(t)
  <2> DEFINE made == [i \in Live |-> Reclassified(rows[i])]
  <2>1. \A i \in DOMAIN made : i \in Live /\ Fits("reclassify", rows[i], made[i])
    BY <1>0, ReclassifiedFits
  <2>2. Opens(t, "reclassify", made)
    BY <1>1 DEF ReclassifyAll
  <2> HIDE DEF made
  <2> QED
    BY <2>1, <2>2, OpensSound DEF Kinds
<1>2. ASSUME NEW i \in Ids, NEW e, NEW l \in Maybe(Labels), Identify(t, i, e, l)
      PROVE  Sound'
  <2> DEFINE k == IF l = Nothing THEN "identify" ELSE "verdict"
             made == [j \in {i} |-> Labelled(Given(rows[j], e), l)]
  <2>1. Opens(t, k, made) /\ i \in Live
    BY <1>2 DEF Identify
  <2>2. DOMAIN made = {i} /\ made[i] = Labelled(Given(rows[i], e), l)
    OBVIOUS
  <2>3. Fits(k, rows[i], made[i])
    BY <1>0, <2>1, <2>2, IdentifiedFits
  <2>4. k \in Kinds /\ k # "idle"
    BY DEF Kinds
  <2> HIDE DEF made, k
  <2> QED
    BY <2>1, <2>2, <2>3, <2>4, OpensSound
<1>3. ASSUME NEW i \in Ids, NEW l \in Labels, OverrideClassification(t, i, l)
      PROVE  Sound'
  <2> DEFINE made == [j \in {i} |-> Labelled(rows[j], l)]
  <2>1. Opens(t, "verdict", made) /\ i \in Live
    BY <1>3 DEF OverrideClassification
  <2>2. DOMAIN made = {i} /\ made[i] = Labelled(rows[i], l)
    OBVIOUS
  <2>3. Fits("verdict", rows[i], made[i])
    BY <1>0, <2>1, <2>2, LabelledFits
  <2> HIDE DEF made
  <2> QED
    BY <2>1, <2>2, <2>3, OpensSound DEF Kinds
<1>4. CASE EnrichAll(t)
  <2>1. DOMAIN got[t] = {}
    BY <1>4 DEF EnrichAll, Idle, Sound, Shape
  <2>2. kind' = [kind EXCEPT ![t] = "enrich"] /\ UNCHANGED <<rows, got, put, said, raced, dated>>
    BY <1>4 DEF EnrichAll, history
  <2> QED
    BY <2>1, <2>2, PassSound DEF Kinds
<1>5. CASE Ask(t)
  <2>1. UNCHANGED <<kind, rows, got, put, said, raced, dated>>
    BY <1>5 DEF Ask, history
  <2> QED
    BY <2>1 DEF Sound, Shape, SessionFits, SaidIsOver, Stands, Follows, Live
<1>6. CASE OpenAnswered(t)
  <2> DEFINE i == Head(todo[t]).id
             made == [j \in {i} |-> Reclassified(Stored(rows[j], Answer(t)))]
  <2>1. Opens(t, "enrich", made) /\ i \in Live
    BY <1>6 DEF OpenAnswered
  <2>2. DOMAIN made = {i} /\ made[i] = Reclassified(Stored(rows[i], Answer(t)))
    OBVIOUS
  <2>3. Fits("enrich", rows[i], made[i])
    BY <1>0, <2>1, <2>2, AnsweredFits
  <2> HIDE DEF made, i
  <2> QED
    BY <2>1, <2>2, <2>3, OpensSound DEF Kinds
<1>7. CASE DeletedMidRun(t)
  <2>1. DOMAIN got[t] = {}
    BY <1>7 DEF DeletedMidRun, Asked
  <2>2. (\E k \in Kinds : kind' = [kind EXCEPT ![t] = k]) /\ UNCHANGED <<rows, got, put, said, raced, dated>>
    BY <1>7 DEF DeletedMidRun, Advance, history, Kinds
  <2> QED
    BY <2>1, <2>2, PassSound DEF Kinds
<1>8. ASSUME NEW i \in Ids, NEW e \in GivenIds, Rematch(t, i, e)
      PROVE  Sound'
  <2> DEFINE made == [j \in {i} |-> Filled(rows[j], e)]
  <2>1. Opens(t, "match", made) /\ i \in Live
    BY <1>8 DEF Rematch
  <2>2. DOMAIN made = {i} /\ made[i] = Filled(rows[i], e)
    OBVIOUS
  <2>3. Fits("match", rows[i], made[i])
    BY <1>0, <2>1, <2>2, FilledFits
  <2> HIDE DEF made
  <2> QED
    BY <2>1, <2>2, <2>3, OpensSound DEF Kinds
<1>9. CASE Person(t)
  BY <1>2, <1>3, <1>9 DEF Person
<1> QED
  BY <1>1, <1>4, <1>5, <1>6, <1>7, <1>8, <1>9, CommitSound, FailSound DEF Enrichment

-----------------------------------------------------------------------------
LEMMA AlwaysSound == Spec => []Sound
<1>1. Init => Sound
  <2> SUFFICES ASSUME Init PROVE Sound
    OBVIOUS
  <2>1. Live = {}
    BY DEF Init, Live
  <2>2. Shape
    BY <2>1 DEF Init, Shape, Kinds
  <2>3. \A t \in Threads : SessionFits(t)
    BY DEF Init, SessionFits
  <2>4. SaidIsOver /\ Stands /\ Follows
    BY <2>1 DEF Init, SaidIsOver, Stands, Follows
  <2> QED
    BY <2>2, <2>3, <2>4 DEF Sound
<1>2. Typed /\ Sound /\ [Next]_vars => Sound'
  <2> SUFFICES ASSUME Typed, Sound, [Next]_vars PROVE Sound'
    OBVIOUS
  <2>1. CASE UNCHANGED vars
    <3>1. UNCHANGED <<kind, rows, got, put, said, raced, dated>>
      BY <2>1 DEF vars, threads, history
    <3> QED
      BY <3>1 DEF Sound, Shape, SessionFits, SaidIsOver, Stands, Follows, Live
  <2> QED
    BY <2>1, CreateSound, DropSound, AgeSound, ThreadSound DEF Next
<1> QED
  BY <1>1, <1>2, AlwaysTyped, PTL DEF Spec

(* The label a person gave stands until a person gives another, whatever     *)
(* enrichments and reclassifications overlap with it and whichever rowids    *)
(* come back, unless one of them decided the label at the same time          *)
(* (service.py:590, app.py:511-513, 536-538).                                *)
THEOREM VerdictsStand == Spec => []VerdictStands
<1>1. Sound => VerdictStands
  <2> SUFFICES ASSUME Sound, NEW i \in Live, i \notin raced
               PROVE  /\ rows[i].override <=> said[i] # Nothing
                      /\ rows[i].override => rows[i].label = said[i]
    BY DEF VerdictStands
  <2>1. rows[i].override \in BOOLEAN
    BY DEF Sound, Shape, Rowlike
  <2>2. /\ said[i] # Nothing => Over(rows[i])
        /\ Over(rows[i]) => said[i] # Nothing /\ rows[i].label = said[i]
    BY DEF Sound, SaidIsOver, Stands
  <2> QED
    BY <2>1, <2>2 DEF Over
<1> QED
  BY <1>1, AlwaysSound, PTL

(* Rows, sessions and what is remembered have their types, and a label that  *)
(* no person gave is what the classifier makes of the title, the answer and  *)
(* the id stored beside it, unless two sessions decided it at once or the id *)
(* changed after, or while, it was decided (service.py: 583-645, 699-790,    *)
(* app.py:499-506).                                                          *)
THEOREM LabelsFollow == Spec => []LabelsOK
<1>1. Typed => TypeOK
  <2> SUFFICES ASSUME Typed PROVE TypeOK
    OBVIOUS
  <2>1. ASSUME NEW t \in Threads
        PROVE  /\ DOMAIN got[t] \subseteq Ids /\ DOMAIN put[t] = DOMAIN got[t]
               /\ Range(got[t]) \cup Range(put[t]) \subseteq Row
               /\ todo[t] # <<>> => kind[t] = "enrich"
               /\ heard[t] # Unasked => todo[t] # <<>>
    BY DEF Typed, QueuesTyped, SessionsTyped, SessionTyped, Derives, Range
  <2> QED
    BY <2>1 DEF Typed, RowsTyped, QueuesTyped, HistoryTyped, Kinds, TypeOK
<1>2. Sound => LabelFollowsEvidence
  <2> SUFFICES ASSUME Sound, NEW i \in Live, i \notin raced, i \notin dated,
                      ~rows[i].override, rows[i].label # Nothing
               PROVE  rows[i].label = Verdict(rows[i])
    BY DEF LabelFollowsEvidence
  <2>1. ~Over(rows[i])
    BY DEF Over
  <2> QED
    BY <2>1 DEF Sound, Follows, Evident
<1>3. Typed /\ Sound => LabelsOK
  BY <1>1, <1>2 DEF LabelsOK
<1> QED
  BY <1>3, AlwaysTyped, AlwaysSound, PTL
=============================================================================
