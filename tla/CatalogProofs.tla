--------------------------- MODULE CatalogProofs ----------------------------
(***************************************************************************)
(* Theorems about Catalog, for any library, any layout and any number of   *)
(* threads: the tables stay a tree whatever sessions race, and as long as  *)
(* every deletion happens under the library's lock, the outbox and the     *)
(* catalogue tell the same story and nothing empty is left behind.         *)
(***************************************************************************)
EXTENDS Catalog, TLAPS

Holders == Scanners \cup Rescanners
Files == [Paths -> Rows \cup {Nothing}]
Items == [Titles -> Labels \cup {Nothing}]

LEMMA Roles ==
    /\ Holders \subseteq Threads
    /\ Nothing \notin Holders
    /\ \A t \in Holders : t \notin Removers
    /\ \A t \in Rescanners : t \notin Scanners
    /\ Nothing \notin Contents /\ Nothing \notin Slots /\ Nothing \notin Paths
    /\ Nothing \notin Labels
BY ThreadsAssumption DEF Holders, Threads

LEMMA SlotTitleType == ASSUME NEW s \in Slots PROVE SlotTitle[s] \in Titles
BY LayoutAssumption

-----------------------------------------------------------------------------
(* What the operators return. *)

LEMMA VerdictType ==
    ASSUME NEW fs \in Files, NEW i \in Titles
    PROVE  Verdict(fs, i) \in Labels
<1> DEFINE S == {Facts[fs[p].probed] :
                   p \in {q \in Paths : fs[q] # Nothing /\ SlotTitle[fs[q].slot] = i}}
<1>1. \A p \in {q \in Paths : fs[q] # Nothing /\ SlotTitle[fs[q].slot] = i} :
          Facts[fs[p].probed] \in AllFacts
  <2> SUFFICES ASSUME NEW p \in Paths, fs[p] # Nothing
               PROVE  Facts[fs[p].probed] \in AllFacts
    OBVIOUS
  <2>1. fs[p].probed \in Contents
    BY DEF Files, Rows
  <2> QED
    BY <2>1 DEF AllFacts
<1>2. S \in SUBSET AllFacts
  BY <1>1
<1> QED
  BY <1>2 DEF Verdict, Labels

LEMMA RelabelledType ==
    ASSUME NEW its \in Items, NEW fs \in Files
    PROVE  /\ Relabelled(its, fs) \in Items
           /\ \A i \in Titles : Relabelled(its, fs)[i] = Nothing <=> its[i] = Nothing
BY VerdictType, Roles DEF Relabelled, Items

LEMMA LookupType ==
    ASSUME TypeOK, NEW p \in Paths
    PROVE  /\ Lookup(p) \in Sessions
           /\ Lookup(p).path = p /\ Lookup(p).slot = layout[p] /\ layout[p] \in Slots
<1>1. layout[p] \in Slots
  BY LayoutAssumption DEF TypeOK
<1>2. (IF files[p] # Nothing /\ files[p].slot = layout[p] THEN files[p] ELSE Nothing)
          \in Rows \cup {Nothing}
  BY DEF TypeOK
<1> QED
  BY <1>1, <1>2 DEF Lookup, Sessions

LEMMA NoneType ==
    NoSession \in Sessions /\ NoDoom \in Dooms /\ NoJob \in Jobs
<1>1. 0 \in 0..(ReclassifyEvery - 1)
  BY ScanAssumption
<1> QED
  BY <1>1 DEF NoSession, NoDoom, NoJob, Sessions, Dooms, Jobs

LEMMA DoomType ==
    ASSUME NEW gone \in SUBSET Paths, NEW scope \in SUBSET Titles, TypeOK
    PROVE  Doom(gone, scope) \in Dooms
BY DEF Doom, Dooms, TypeOK

LEMMA DropType ==
    ASSUME TypeOK, NEW d \in Dooms, Drop(d)
    PROVE  /\ files' \in Files /\ seasons' \subseteq Slots
           /\ told' \in [Paths -> Contents \cup {Nothing}]
           /\ garbled' \subseteq Paths
           /\ Survivors(d) \in Items
BY DEF TypeOK, Dooms, Drop, Survivors, Files, Items

-----------------------------------------------------------------------------
(* Type correctness. A session under way has a path, a slot and, once it has *)
(* probed, a content: TypeOK alone does not say so.                          *)

DatabaseType ==
    /\ items \in Items /\ seasons \subseteq Slots /\ files \in Files
    /\ told \in [Paths -> Contents \cup {Nothing}]
    /\ garbled \subseteq Paths

ControlType ==
    /\ lock \in Holders \cup {Nothing}
    /\ writer \in Threads \cup {Nothing}
    /\ pc \in [Threads -> Stages]
    /\ job \in [Threads -> Jobs]
    /\ tx \in [Threads -> Sessions]
    /\ doomed \in [Threads -> Dooms]
    /\ synced \in BOOLEAN

WorldType ==
    disk \in [Paths -> Contents \cup {Nothing}] /\ layout \in Layouts

OnFile == {"read", "probe", "commit"}
OnMissing == {"noticed", "remove"}

Located ==
    \A t \in Threads :
        /\ pc[t] \in OnFile => tx[t].path \in Paths /\ tx[t].slot \in Slots
        /\ pc[t] = "commit" => tx[t].probed \in Contents
        /\ pc[t] \in OnMissing => tx[t].path \in Paths

LEMMA TypeParts ==
    /\ TypeOK <=> WorldType /\ DatabaseType /\ ControlType
    /\ TypeOK' <=> WorldType' /\ DatabaseType' /\ ControlType'
BY DEF TypeOK, WorldType, DatabaseType, ControlType, Items, Files, Holders

(* A thread that leaves its session needs no path. *)
LEMMA LeavingKeepsLocated ==
    ASSUME TypeOK, Located, NEW t \in Threads, NEW s \in Stages \ (OnFile \cup OnMissing),
           pc' = [pc EXCEPT ![t] = s],
           \A u \in Threads \ {t} : tx'[u] = tx[u]
    PROVE  Located'
BY DEF Located, OnFile, OnMissing, TypeOK

LEMMA GiveUpFileType ==
    ASSUME TypeOK, Located, NEW t \in Threads, GiveUpFile(t)
    PROVE  TypeOK' /\ Located'
<1>1. DatabaseType' /\ WorldType'
  BY TypeParts DEF GiveUpFile, DatabaseType, WorldType, database, world
<1>2. ControlType'
  BY TypeParts, NoneType DEF GiveUpFile, ControlType, Released, Stages, Holders
<1>3. Located'
  <2>1. PICK s \in {"walk", "idle"} : pc' = [pc EXCEPT ![t] = s]
    BY DEF GiveUpFile
  <2>2. s \in Stages \ (OnFile \cup OnMissing)
    BY DEF Stages, OnFile, OnMissing
  <2>3. \A u \in Threads \ {t} : tx'[u] = tx[u]
    BY DEF GiveUpFile, TypeOK
  <2> QED
    BY <2>1, <2>2, <2>3, LeavingKeepsLocated
<1> QED
  BY <1>1, <1>2, <1>3, TypeParts

LEMMA FinishFileType ==
    ASSUME TypeOK, Located, NEW t \in Threads, FinishFile(t), DatabaseType'
    PROVE  TypeOK' /\ Located'
<1>1. WorldType'
  BY TypeParts DEF FinishFile, WorldType, world
<1>2. ControlType'
  BY TypeParts, NoneType DEF FinishFile, ControlType, Released, Stages, Holders
<1>3. Located'
  <2>1. PICK s \in {"walk", "idle", "relabel"} : pc' = [pc EXCEPT ![t] = s]
    BY DEF FinishFile
  <2>2. s \in Stages \ (OnFile \cup OnMissing)
    BY DEF Stages, OnFile, OnMissing
  <2>3. \A u \in Threads \ {t} : tx'[u] = tx[u]
    BY DEF FinishFile, TypeOK
  <2> QED
    BY <2>1, <2>2, <2>3, LeavingKeepsLocated
<1> QED
  BY <1>1, <1>2, <1>3, TypeParts

LEMMA EndJobType ==
    ASSUME TypeOK, Located, NEW t \in Threads, EndJob(t), DatabaseType', synced' \in BOOLEAN
    PROVE  TypeOK' /\ Located'
<1>1. WorldType'
  BY TypeParts DEF EndJob, WorldType, world
<1>2. ControlType'
  BY TypeParts, NoneType DEF EndJob, ControlType, Released, Stages, Holders
<1>3. Located'
  <2>1. "idle" \in Stages \ (OnFile \cup OnMissing)
    BY DEF Stages, OnFile, OnMissing
  <2>2. \A u \in Threads \ {t} : tx'[u] = tx[u]
    BY DEF EndJob, TypeOK
  <2> QED
    BY <2>1, <2>2, LeavingKeepsLocated DEF EndJob
<1> QED
  BY <1>1, <1>2, <1>3, TypeParts

LEMMA FileStepType ==
    ASSUME TypeOK, Located, NEW t \in Holders, FileStep(t)
    PROVE  TypeOK' /\ Located'
<1> t \in Threads
  BY Roles
<1>1. CASE SkipFile(t)
  <2>1. CASE GiveUpFile(t)
    BY <2>1, GiveUpFileType
  <2>2. CASE FinishFile(t) /\ UNCHANGED database
    BY <2>2, TypeParts, FinishFileType DEF DatabaseType, database
  <2> QED
    BY <1>1, <2>1, <2>2 DEF SkipFile
<1>2. CASE Reprobe(t)
  <2>1. TypeOK'
    BY <1>2 DEF Reprobe, TypeOK, Stages, world, database
  <2>2. Located'
    BY <1>2 DEF Reprobe, Located, TypeOK, OnFile, OnMissing
  <2> QED
    BY <2>1, <2>2
<1>3. CASE Insert(t)
  <2>1. CASE GiveUpFile(t)
    BY <2>1, GiveUpFileType
  <2>2. CASE /\ pc[t] = "read"
             /\ writer' = t
             /\ pc' = [pc EXCEPT ![t] = "probe"]
             /\ UNCHANGED <<world, database, lock, job, tx, doomed, synced>>
    <3>1. TypeOK'
      BY <2>2 DEF TypeOK, Stages, world, database
    <3>2. Located'
      BY <2>2 DEF Located, TypeOK, OnFile, OnMissing
    <3> QED
      BY <3>1, <3>2
  <2> QED
    BY <1>3, <2>1, <2>2 DEF Insert
<1>4. CASE Probe(t)
  <2>1. tx[t].path \in Paths /\ tx[t].slot \in Slots
    BY <1>4 DEF Probe, Located, OnFile
  <2>2. disk[tx[t].path] \in Contents
    BY <1>4, <2>1 DEF Probe, TypeOK
  <2>3. TypeOK'
    <3>1. [tx[t] EXCEPT !.probed = disk[tx[t].path]] \in Sessions
      BY <2>2, tx[t] \in Sessions DEF TypeOK, Sessions
    <3>2. tx' = [tx EXCEPT ![t] = [tx[t] EXCEPT !.probed = disk[tx[t].path]]]
      BY <1>4 DEF Probe
    <3>3. tx' \in [Threads -> Sessions]
      BY <3>1, <3>2 DEF TypeOK
    <3> QED
      BY <1>4, <3>3 DEF Probe, TypeOK, Stages, world, database
  <2>4. Located'
    BY <1>4, <2>1, <2>2 DEF Probe, Located, TypeOK, OnFile, OnMissing, Sessions
  <2> QED
    BY <2>3, <2>4
<1>5. CASE Vanished(t)
  BY <1>5, GiveUpFileType DEF Vanished
<1>6. CASE CommitFile(t)
  <2> DEFINE p == tx[t].path
             i == SlotTitle[tx[t].slot]
             new == [slot |-> tx[t].slot, probed |-> tx[t].probed, printed |-> disk[p]]
             fs == [files EXCEPT ![p] = new]
             its == [items EXCEPT ![i] = IF @ = Nothing THEN Unlabelled ELSE @]
  <2>1. CASE GiveUpFile(t)
    BY <2>1, GiveUpFileType
  <2>2. CASE /\ disk[p] # Nothing /\ pc[t] = "commit"
             /\ files' = fs
             /\ seasons' = seasons \cup {tx[t].slot}
             /\ items' = IF t \in Scanners THEN its ELSE Relabelled(its, fs)
             /\ Announce(p, tx[t].old, new)
             /\ FinishFile(t)
    <3>1. p \in Paths /\ tx[t].slot \in Slots /\ tx[t].probed \in Contents
      BY <2>2 DEF Located, OnFile
    <3>2. new \in Rows
      BY <2>2, <3>1 DEF Rows, TypeOK
    <3>3. fs \in Files
      BY <3>1, <3>2 DEF Files, TypeOK
    <3>4. its \in Items
      <4>1. Unlabelled \in Labels /\ i \in Titles
        BY <3>1, SlotTitleType DEF Labels
      <4> QED
        BY <4>1 DEF Items, TypeOK
    <3>5. items' \in Items
      BY <2>2, <3>3, <3>4, RelabelledType
    <3>6. told' \in [Paths -> Contents \cup {Nothing}] /\ garbled' \subseteq Paths
      BY <2>2, <3>1, <3>2 DEF Announce, TypeOK, Rows
    <3>7. DatabaseType'
      BY <2>2, <3>1, <3>3, <3>5, <3>6 DEF DatabaseType, TypeOK
    <3> QED
      BY <2>2, <3>7, FinishFileType
  <2> QED
    BY <1>6, <2>1, <2>2 DEF CommitFile, Fingerprints
<1> QED
  BY <1>1, <1>2, <1>3, <1>4, <1>5, <1>6 DEF FileStep

LEMMA ScanStepType ==
    ASSUME TypeOK, Located, NEW t \in Scanners, ScanStep(t)
    PROVE  TypeOK' /\ Located'
<1> t \in Threads /\ t \in Holders
  BY DEF Threads, Holders
<1>1. CASE FileStep(t)
  BY <1>1, FileStepType
<1>2. CASE Relabel(t)
  <2>1. items' \in Items
    BY <1>2, RelabelledType, TypeParts DEF Relabel, DatabaseType
  <2>2. TypeOK'
    BY <1>2, <2>1, TypeParts
    DEF Relabel, DatabaseType, ControlType, WorldType, Stages, world
  <2>3. Located'
    BY <1>2 DEF Relabel, Located, TypeOK, OnFile, OnMissing
  <2> QED
    BY <2>2, <2>3
<1>3. CASE ReadPrune(t)
  <2>1. Doom({p \in Paths : files[p] # Nothing /\ disk[p] = Nothing}, Titles) \in Dooms
    BY DoomType
  <2>2. TypeOK'
    BY <1>3, <2>1 DEF ReadPrune, TypeOK, Stages, world, database
  <2>3. Located'
    BY <1>3 DEF ReadPrune, Located, TypeOK, OnFile, OnMissing
  <2> QED
    BY <2>2, <2>3
<1>4. CASE CommitPrune(t)
  <2>1. doomed[t] \in Dooms /\ job[t].quiet \in BOOLEAN
    BY DEF TypeOK, Jobs
  <2>2. /\ files' \in Files /\ seasons' \subseteq Slots /\ garbled' \subseteq Paths
        /\ told' \in [Paths -> Contents \cup {Nothing}]
        /\ Survivors(doomed[t]) \in Items
    BY <1>4, <2>1, DropType DEF CommitPrune
  <2>3. items' \in Items
    BY <1>4, <2>2, RelabelledType DEF CommitPrune
  <2>4. DatabaseType' /\ synced' \in BOOLEAN
    BY <1>4, <2>1, <2>2, <2>3 DEF DatabaseType, CommitPrune
  <2> QED
    BY <1>4, <2>4, EndJobType DEF CommitPrune
<1>5. ASSUME NEW p \in Paths, Visit(t, p)
      PROVE  TypeOK' /\ Located'
  <2>1. job' \in [Threads -> Jobs]
    <3>1. (job[t].seen + 1) % ReclassifyEvery \in 0..(ReclassifyEvery - 1)
      BY ScanAssumption DEF TypeOK, Jobs
    <3>2. [job[t] EXCEPT !.todo = @ \ {p}] \in Jobs
      BY DEF TypeOK, Jobs
    <3>3. [job[t] EXCEPT !.todo = @ \ {p}, !.seen = (@ + 1) % ReclassifyEvery] \in Jobs
      BY <3>1 DEF TypeOK, Jobs
    <3>4. CASE disk[p] = Nothing
      <4>1. job' = [job EXCEPT ![t] = [job[t] EXCEPT !.todo = @ \ {p}]]
        BY <1>5, <3>4 DEF Visit, TypeOK
      <4> QED
        BY <4>1, <3>2 DEF TypeOK
    <3>5. CASE disk[p] # Nothing
      <4>1. job' = [job EXCEPT ![t] =
                      [job[t] EXCEPT !.todo = @ \ {p}, !.seen = (@ + 1) % ReclassifyEvery]]
        BY <1>5, <3>5 DEF Visit, TypeOK
      <4> QED
        BY <4>1, <3>3 DEF TypeOK
    <3> QED
      BY <3>4, <3>5
  <2>2. tx' \in [Threads -> Sessions] /\ pc' \in [Threads -> Stages]
    BY <1>5, LookupType DEF Visit, TypeOK, Stages
  <2>3. TypeOK'
    BY <1>5, <2>1, <2>2 DEF Visit, TypeOK, world, database
  <2>4. Located'
    BY <1>5, LookupType DEF Visit, Located, TypeOK, OnFile, OnMissing
  <2> QED
    BY <2>3, <2>4
<1> QED
  BY <1>1, <1>2, <1>3, <1>4, <1>5 DEF ScanStep

LEMMA RemoveStepType ==
    ASSUME TypeOK, Located, NEW t \in Removers, RemoveStep(t)
    PROVE  TypeOK' /\ Located'
<1> t \in Threads
  BY DEF Threads
<1>1. CASE ReadMissing(t)
  <2>1. tx[t].path \in Paths
    BY <1>1 DEF ReadMissing, Located, OnMissing
  <2>2. SlotTitle[files[tx[t].path].slot] \in Titles
    BY <1>1, <2>1, SlotTitleType DEF ReadMissing, TypeOK, Rows
  <2>3. Doom({tx[t].path}, {SlotTitle[files[tx[t].path].slot]}) \in Dooms
    BY <2>1, <2>2, DoomType
  <2>4. TypeOK'
    BY <1>1, <2>3 DEF ReadMissing, TypeOK, Stages, world, database
  <2>5. Located'
    BY <1>1 DEF ReadMissing, Located, TypeOK, OnFile, OnMissing
  <2> QED
    BY <2>4, <2>5
<1>2. CASE NothingMissing(t)
  BY <1>2, EndJobType, TypeParts DEF NothingMissing, DatabaseType, ControlType, database
<1>3. CASE CommitMissing(t)
  <2>1. doomed[t] \in Dooms
    BY DEF TypeOK
  <2>2. DatabaseType' /\ synced' \in BOOLEAN
    BY <1>3, <2>1, DropType DEF CommitMissing, DatabaseType, TypeOK
  <2> QED
    BY <1>3, <2>2, EndJobType DEF CommitMissing
<1> QED
  BY <1>1, <1>2, <1>3 DEF RemoveStep

LEMMA BeginType ==
    ASSUME TypeOK, Located, Begin
    PROVE  TypeOK' /\ Located'
<1>1. ASSUME NEW t \in Scanners, NEW f \in Forces, StartScan(t, f)
      PROVE  TypeOK' /\ Located'
  <2>1. t \in Threads /\ t \in Holders /\ f \in BOOLEAN
    BY ScanAssumption DEF Threads, Holders
  <2>2. [todo |-> Paths, seen |-> 0, force |-> f, quiet |-> TRUE] \in Jobs
    <3>1. 0 \in 0..(ReclassifyEvery - 1)
      BY ScanAssumption
    <3> QED
      BY <2>1, <3>1 DEF Jobs
  <2>3. TypeOK'
    BY <1>1, <2>1, <2>2 DEF StartScan, TypeOK, Stages, Holders, world, database
  <2>4. Located'
    BY <1>1, <2>1 DEF StartScan, Located, TypeOK, OnFile, OnMissing
  <2> QED
    BY <2>3, <2>4
<1>2. ASSUME NEW t \in Rescanners, NEW p \in Paths, StartRescan(t, p)
      PROVE  TypeOK' /\ Located'
  <2>1. t \in Threads /\ t \in Holders
    BY DEF Threads, Holders
  <2>2. TypeOK'
    BY <1>2, <2>1, LookupType DEF StartRescan, TypeOK, Stages, Holders, world, database
  <2>3. Located'
    BY <1>2, <2>1, LookupType DEF StartRescan, Located, TypeOK, OnFile, OnMissing
  <2> QED
    BY <2>2, <2>3
<1>3. ASSUME NEW t \in Removers, NEW p \in Paths, Notice(t, p)
      PROVE  TypeOK' /\ Located'
  <2>1. t \in Threads
    BY DEF Threads
  <2>2. [tx[t] EXCEPT !.path = p] \in Sessions
    BY <2>1 DEF TypeOK, Sessions
  <2>3. tx' = [tx EXCEPT ![t] = [tx[t] EXCEPT !.path = p]]
    BY <1>3, <2>1 DEF Notice, TypeOK
  <2>4. TypeOK'
    BY <1>3, <2>1, <2>2, <2>3 DEF Notice, TypeOK, Stages, world, database
  <2>5. Located'
    <3>1. tx'[t].path = p
      BY <2>1, <2>3 DEF TypeOK, Sessions
    <3> QED
      BY <1>3, <2>1, <2>3, <3>1 DEF Notice, Located, TypeOK, OnFile, OnMissing
  <2> QED
    BY <2>4, <2>5
<1> QED
  BY <1>1, <1>2, <1>3 DEF Begin

LEMMA FailureType ==
    ASSUME TypeOK, Located, NEW t \in Threads, SessionFails(t)
    PROVE  TypeOK' /\ Located'
<1>1. CASE EndJob(t)
  BY <1>1, EndJobType, TypeParts DEF SessionFails, DatabaseType, ControlType, database
<1>2. CASE /\ job' = [job EXCEPT ![t].quiet = FALSE]
           /\ writer' = Released(t)
           /\ pc' = [pc EXCEPT ![t] = "walk"]
           /\ tx' = [tx EXCEPT ![t] = NoSession]
           /\ UNCHANGED <<world, lock, doomed, database, synced>>
  <2>1. job' \in [Threads -> Jobs]
    BY <1>2 DEF TypeOK, Jobs
  <2>2. writer' \in Threads \cup {Nothing}
    BY <1>2 DEF TypeOK, Released
  <2>3. TypeOK'
    BY <1>2, <2>1, <2>2, NoneType DEF TypeOK, Stages, world, database
  <2>4. Located'
    BY <1>2 DEF Located, TypeOK, OnFile, OnMissing
  <2> QED
    BY <2>3, <2>4
<1> QED
  BY <1>1, <1>2 DEF SessionFails

LEMMA WorldStepType ==
    ASSUME TypeOK, Located, World
    PROVE  TypeOK' /\ Located'
<1>1. ASSUME Disturbed PROVE job' \in [Threads -> Jobs] /\ synced' \in BOOLEAN
  BY <1>1 DEF Disturbed, TypeOK, Jobs
<1>2. ASSUME NEW p \in Paths, NEW c \in Contents \cup {Nothing}, ChangeFile(p, c)
      PROVE  TypeOK' /\ Located'
  BY <1>1, <1>2 DEF ChangeFile, TypeOK, Located, database
<1>3. ASSUME NEW m \in Layouts, Rematch(m)
      PROVE  TypeOK' /\ Located'
  BY <1>1, <1>3 DEF Rematch, TypeOK, Located, database
<1> QED
  BY <1>2, <1>3 DEF World

LEMMA CrashType ==
    ASSUME TypeOK, Located, Crash
    PROVE  TypeOK' /\ Located'
BY NoneType DEF Crash, TypeOK, Located, Stages, OnFile, OnMissing, world, database

LEMMA Sound == Spec => [](TypeOK /\ Located)
<1>1. Init => TypeOK /\ Located
  <2> SUFFICES ASSUME Init PROVE TypeOK /\ Located
    OBVIOUS
  <2>1. TypeOK
    BY NoneType DEF Init, TypeOK, Stages
  <2>2. Located
    BY DEF Init, Located, OnFile, OnMissing
  <2> QED
    BY <2>1, <2>2
<1>2. TypeOK /\ Located /\ [Next]_vars => TypeOK' /\ Located'
  <2> SUFFICES ASSUME TypeOK, Located, [Next]_vars PROVE TypeOK' /\ Located'
    OBVIOUS
  <2>1. CASE UNCHANGED vars
    BY <2>1 DEF vars, world, database, TypeOK, Located
  <2>2. CASE World
    BY <2>2, WorldStepType
  <2>3. CASE Begin
    BY <2>3, BeginType
  <2>4. CASE Crash
    BY <2>4, CrashType
  <2>5. ASSUME NEW t \in Threads, Work(t) PROVE TypeOK' /\ Located'
    BY <2>5, ScanStepType, FileStepType, RemoveStepType DEF Work, Holders
  <2>6. ASSUME NEW t \in Threads, SessionFails(t) PROVE TypeOK' /\ Located'
    BY <2>6, FailureType
  <2> QED
    BY <2>1, <2>2, <2>3, <2>4, <2>5, <2>6 DEF Next
<1> QED
  BY <1>1, <1>2, PTL DEF Spec

(* Every variable keeps its type.                                            *)
THEOREM TypeInvariant == Spec => []TypeOK
BY Sound, PTL

-----------------------------------------------------------------------------
(* What writes the tables: a file's commit, a relabelling and two deletions. *)

(* CommitFile, when it finds what it updates. *)
Saves(t) ==
    LET p == tx[t].path
        i == SlotTitle[tx[t].slot]
        new == [slot |-> tx[t].slot, probed |-> tx[t].probed, printed |-> disk[p]]
        fs == [files EXCEPT ![p] = new]
        its == [items EXCEPT ![i] = IF @ = Nothing THEN Unlabelled ELSE @]
    IN  /\ pc[t] = "commit"
        /\ disk[p] # Nothing
        /\ tx[t].old = Nothing \/ StillThere(t)
        /\ files' = fs
        /\ seasons' = seasons \cup {tx[t].slot}
        /\ items' = IF t \in Scanners THEN its ELSE Relabelled(its, fs)
        /\ Announce(p, tx[t].old, new)
        /\ FinishFile(t)

LEMMA CommitCases ==
    ASSUME NEW t, CommitFile(t) PROVE Saves(t) \/ GiveUpFile(t)
BY DEF CommitFile, Saves, Fingerprints

LEMMA Writers ==
    ASSUME [Next]_vars
    PROVE  \/ UNCHANGED database
           \/ \E t \in Holders : Saves(t)
           \/ \E t \in Scanners : Relabel(t) \/ CommitPrune(t)
           \/ \E t \in Removers : CommitMissing(t)
<1>1. CASE World \/ Crash \/ UNCHANGED vars
  BY <1>1 DEF World, ChangeFile, Rematch, Crash, vars
<1>2. CASE Begin
  BY <1>2 DEF Begin, StartScan, StartRescan, Notice
<1>3. ASSUME NEW t \in Threads, SessionFails(t) PROVE UNCHANGED database
  BY <1>3 DEF SessionFails
<1>4. ASSUME NEW t \in Holders, FileStep(t) PROVE UNCHANGED database \/ Saves(t)
  BY <1>4, CommitCases DEF FileStep, SkipFile, Reprobe, Insert, Probe, Vanished, GiveUpFile
<1>5. ASSUME NEW t \in Threads, Work(t)
      PROVE  \/ UNCHANGED database
             \/ t \in Holders /\ Saves(t)
             \/ t \in Scanners /\ (Relabel(t) \/ CommitPrune(t))
             \/ t \in Removers /\ CommitMissing(t)
  <2>1. CASE t \in Scanners /\ ScanStep(t)
    BY <2>1, <1>4 DEF ScanStep, Holders, ReadPrune, Visit
  <2>2. CASE t \in Rescanners /\ FileStep(t)
    BY <2>2, <1>4 DEF Holders
  <2>3. CASE t \in Removers /\ RemoveStep(t)
    BY <2>3 DEF RemoveStep, ReadMissing, NothingMissing
  <2> QED
    BY <1>5, <2>1, <2>2, <2>3 DEF Work
<1> QED
  BY <1>1, <1>2, <1>3, <1>5 DEF Next

-----------------------------------------------------------------------------
(* Foreign keys. *)

LEMMA SavesTree ==
    ASSUME TypeOK, Located, TreeOK, NEW t \in Holders, Saves(t) PROVE TreeOK'
<1> DEFINE p == tx[t].path
           i == SlotTitle[tx[t].slot]
           new == [slot |-> tx[t].slot, probed |-> tx[t].probed, printed |-> disk[p]]
           fs == [files EXCEPT ![p] = new]
           its == [items EXCEPT ![i] = IF @ = Nothing THEN Unlabelled ELSE @]
<1>1. /\ files' = fs /\ seasons' = seasons \cup {tx[t].slot}
      /\ items' = IF t \in Scanners THEN its ELSE Relabelled(its, fs)
  BY DEF Saves
<1>2. p \in Paths /\ tx[t].slot \in Slots /\ tx[t].probed \in Contents /\ i \in Titles
  BY Roles, SlotTitleType DEF Saves, Located, OnFile
<1>3. disk[p] \in Contents
  BY <1>2 DEF Saves, TypeOK
<1>4. fs \in Files
  BY <1>2, <1>3 DEF Files, TypeOK, Rows
<1>5. its \in Items /\ (\A j \in Titles : its[j] = Nothing <=> items[j] = Nothing /\ j # i)
  BY <1>2, Roles DEF Items, TypeOK, Labels
<1>6. \A j \in Titles : items'[j] = Nothing <=> items[j] = Nothing /\ j # i
  <2> HIDE DEF its, fs
  <2>1. \A j \in Titles : Relabelled(its, fs)[j] = Nothing <=> its[j] = Nothing
    BY <1>4, <1>5, RelabelledType
  <2> QED
    BY <1>1, <1>5, <2>1
<1>7. \A q \in Paths : files'[q] # Nothing => files'[q].slot \in seasons'
  BY <1>1, <1>2 DEF TreeOK, TypeOK
<1>8. \A s \in seasons' : items'[SlotTitle[s]] # Nothing
  <2> SUFFICES ASSUME NEW s \in seasons' PROVE items'[SlotTitle[s]] # Nothing
    OBVIOUS
  <2>1. SlotTitle[s] \in Titles
    BY <1>1, <1>2, SlotTitleType DEF TypeOK
  <2> QED
    BY <1>1, <1>6, <2>1 DEF TreeOK
<1> QED
  BY <1>7, <1>8 DEF TreeOK

LEMMA DropTree ==
    ASSUME TypeOK, TreeOK, NEW d \in Dooms, Drop(d),
           \A i \in Titles : items'[i] = Nothing <=> Survivors(d)[i] = Nothing
    PROVE  TreeOK'
<1> DEFINE dead == d.seasons \cup {s \in Slots : SlotTitle[s] \in d.items}
<1>1. \A p \in Paths : files'[p] # Nothing => files'[p] = files[p] /\ files[p].slot \notin dead
  BY DEF Drop
<1>2. seasons' = seasons \ dead
  BY DEF Drop
<1>3. \A s \in seasons' : items'[SlotTitle[s]] # Nothing
  BY <1>2, SlotTitleType DEF Survivors, TreeOK, TypeOK
<1> QED
  BY <1>1, <1>2, <1>3 DEF TreeOK

(* A file row has its season and a season its title, whatever scans, rescans *)
(* and removals race, and wherever they fail or the process stops.           *)
THEOREM Tree == Spec => []TreeOK
<1>1. Init => TreeOK
  BY DEF Init, TreeOK
<1>2. TypeOK /\ Located /\ TreeOK /\ [Next]_vars => TreeOK'
  <2> SUFFICES ASSUME TypeOK, Located, TreeOK, [Next]_vars PROVE TreeOK'
    OBVIOUS
  <2>1. CASE UNCHANGED database
    BY <2>1 DEF database, TreeOK
  <2>2. ASSUME NEW t \in Holders, Saves(t) PROVE TreeOK'
    BY <2>2, SavesTree
  <2>3. ASSUME NEW t \in Scanners, Relabel(t) PROVE TreeOK'
    <3>1. \A i \in Titles : items'[i] = Nothing <=> items[i] = Nothing
      BY <2>3, RelabelledType DEF Relabel, TypeOK, Items, Files
    <3> QED
      BY <2>3, <3>1, SlotTitleType DEF Relabel, TreeOK, TypeOK
  <2>4. ASSUME NEW t \in Scanners, CommitPrune(t) PROVE TreeOK'
    <3>1. doomed[t] \in Dooms
      BY DEF TypeOK, Threads
    <3>2. \A i \in Titles : items'[i] = Nothing <=> Survivors(doomed[t])[i] = Nothing
      BY <2>4, <3>1, DropType, RelabelledType DEF CommitPrune
    <3> QED
      BY <2>4, <3>1, <3>2, DropTree DEF CommitPrune
  <2>5. ASSUME NEW t \in Removers, CommitMissing(t) PROVE TreeOK'
    <3>1. doomed[t] \in Dooms
      BY DEF TypeOK, Threads
    <3> QED
      BY <2>5, <3>1, DropTree DEF CommitMissing
  <2> QED
    BY <2>1, <2>2, <2>3, <2>4, <2>5, Writers
<1> QED
  BY <1>1, <1>2, Sound, PTL DEF Spec

-----------------------------------------------------------------------------
(* The library's lock. *)

Mutex == \A t \in Holders : pc[t] # "idle" => lock = t

LEMMA HolderIsAlone ==
    ASSUME Mutex, NEW t \in Holders, pc[t] # "idle", NEW u \in Holders, u # t
    PROVE  pc[u] = "idle"
BY DEF Mutex

LEMMA GiveUpFileMutex ==
    ASSUME TypeOK, Mutex, NEW t \in Holders, pc[t] # "idle", GiveUpFile(t) \/ FinishFile(t)
    PROVE  Mutex'
<1>1. \A u \in Holders : u # t => pc'[u] = "idle"
  BY HolderIsAlone, Roles DEF GiveUpFile, FinishFile, TypeOK
<1>2. pc'[t] # "idle" => lock' = t
  BY Roles DEF GiveUpFile, FinishFile, TypeOK, Mutex, Holders
<1> QED
  BY <1>1, <1>2 DEF Mutex

LEMMA EndJobMutex ==
    ASSUME TypeOK, Mutex, NEW t \in Threads, EndJob(t) PROVE Mutex'
BY Roles DEF EndJob, TypeOK, Mutex

LEMMA HolderStepMutex ==
    ASSUME TypeOK, Mutex, NEW t \in Holders, FileStep(t) \/ (t \in Scanners /\ ScanStep(t))
    PROVE  Mutex'
<1>1. CASE GiveUpFile(t) \/ FinishFile(t)
  <2>1. pc[t] # "idle"
    BY DEF FileStep, ScanStep, SkipFile, Reprobe, Insert, Probe, Vanished, CommitFile,
           Relabel, ReadPrune, CommitPrune, Visit
  <2> QED
    BY <1>1, <2>1, GiveUpFileMutex
<1>2. CASE t \in Scanners /\ CommitPrune(t)
  BY <1>2, EndJobMutex, Roles DEF CommitPrune
<1>3. CASE /\ pc[t] # "idle" /\ lock' = lock
           /\ \A u \in Holders : u # t => pc'[u] = pc[u]
  BY <1>3 DEF Mutex
<1>4. \/ GiveUpFile(t) \/ FinishFile(t)
      \/ t \in Scanners /\ CommitPrune(t)
      \/ /\ pc[t] # "idle" /\ lock' = lock
         /\ \A u \in Holders : u # t => pc'[u] = pc[u]
  <2>1. CASE FileStep(t)
    BY <2>1, Roles DEF FileStep, SkipFile, Reprobe, Insert, Probe, Vanished, CommitFile, TypeOK
  <2>2. CASE t \in Scanners /\ ScanStep(t)
    BY <2>1, <2>2, Roles DEF ScanStep, Relabel, ReadPrune, Visit, TypeOK
  <2> QED
    BY <2>1, <2>2
<1> QED
  BY <1>1, <1>2, <1>3, <1>4

LEMMA MutexHolds == Spec => []Mutex
<1>1. Init => Mutex
  BY Roles DEF Init, Mutex
<1>2. TypeOK /\ Mutex /\ [Next]_vars => Mutex'
  <2> SUFFICES ASSUME TypeOK, Mutex, [Next]_vars PROVE Mutex'
    OBVIOUS
  <2>1. CASE World \/ UNCHANGED vars
    BY <2>1 DEF World, ChangeFile, Rematch, vars, Mutex
  <2>2. CASE Begin
    BY <2>2, Roles DEF Begin, StartScan, StartRescan, Notice, Mutex, TypeOK, Holders, Threads
  <2>3. CASE Crash
    BY <2>3, Roles DEF Crash, Mutex
  <2>4. ASSUME NEW t \in Threads, Work(t) PROVE Mutex'
    <3>1. CASE t \in Removers /\ RemoveStep(t)
      BY <3>1, EndJobMutex, Roles
      DEF RemoveStep, ReadMissing, NothingMissing, CommitMissing, Mutex, TypeOK
    <3> QED
      BY <2>4, <3>1, HolderStepMutex DEF Work, Holders
  <2>5. ASSUME NEW t \in Threads, SessionFails(t) PROVE Mutex'
    <3>1. CASE EndJob(t)
      BY <3>1, EndJobMutex
    <3>2. CASE t \in Scanners /\ pc[t] # "idle" /\ lock' = lock /\ pc' = [pc EXCEPT ![t] = "walk"]
      BY <3>2, Roles DEF Mutex, TypeOK, Holders
    <3> QED
      BY <2>5, <3>1, <3>2 DEF SessionFails
  <2> QED
    BY <2>1, <2>2, <2>3, <2>4, <2>5 DEF Next
<1> QED
  BY <1>1, <1>2, TypeInvariant, PTL DEF Spec

-----------------------------------------------------------------------------
(* Where every deletion takes the library's lock, what a session has read of *)
(* its own file stays true until it commits.                                 *)

(* what Doom found empty is still what is empty without d.files *)
Timely(d) ==
    /\ \A p \in d.files : files[p] # Nothing
    /\ d.seasons = {s \in seasons :
                      \A p \in Paths : files[p] # Nothing /\ files[p].slot = s => p \in d.files}
    /\ d.items = {i \in Titles :
                    items[i] # Nothing /\ \A s \in seasons : SlotTitle[s] = i => s \in d.seasons}

Fresh(t) ==
    /\ pc[t] \in OnFile /\ tx[t].old # Nothing =>
           files[tx[t].path] = tx[t].old /\ tx[t].old.slot = tx[t].slot
    /\ pc[t] \in {"probe", "commit"} /\ tx[t].old = Nothing => files[tx[t].path] = Nothing
    /\ pc[t] = "read" =>
           /\ tx[t].item => items[SlotTitle[tx[t].slot]] # Nothing
           /\ tx[t].season => tx[t].slot \in seasons
    /\ pc[t] = "prune" => Timely(doomed[t])

AllFresh == \A t \in Holders : Fresh(t)

LEMMA FreshAlone ==
    ASSUME TypeOK, Mutex, NEW t \in Holders, pc[t] # "idle",
           pc' = [pc EXCEPT ![t] = pc'[t]], pc'[t] \notin OnFile \cup {"prune"}
    PROVE  AllFresh'
<1>1. ASSUME NEW u \in Holders PROVE pc'[u] \notin OnFile \cup {"prune"}
  <2>1. u # t => pc'[u] = "idle"
    BY HolderIsAlone, Roles DEF TypeOK
  <2> QED
    BY <2>1 DEF OnFile
<1> QED
  BY <1>1 DEF AllFresh, Fresh, OnFile

LEMMA FreshElsewhere ==
    ASSUME TypeOK, AllFresh, UNCHANGED database, NEW t \in Threads,
           \A u \in Holders \ {t} : pc'[u] = pc[u] /\ tx'[u] = tx[u] /\ doomed'[u] = doomed[u],
           t \in Holders => Fresh(t)'
    PROVE  AllFresh'
BY DEF AllFresh, Fresh, Timely, database

LEMMA FreshLookup ==
    ASSUME TypeOK, NEW t \in Holders, NEW p \in Paths, UNCHANGED database,
           pc'[t] = "read", tx'[t] = Lookup(p)
    PROVE  Fresh(t)'
<1>1. /\ tx'[t].path = p /\ tx'[t].slot = layout[p]
      /\ tx'[t].old = IF files[p] # Nothing /\ files[p].slot = layout[p]
                      THEN files[p] ELSE Nothing
  BY DEF Lookup
<1>2. /\ tx'[t].item => items[SlotTitle[layout[p]]] # Nothing
      /\ tx'[t].season => layout[p] \in seasons
  <2>1. Lookup(p).item = (items[SlotTitle[layout[p]]] # Nothing)
    BY Zenon DEF Lookup
  <2>2. Lookup(p).season = (layout[p] \in seasons)
    BY Zenon DEF Lookup
  <2> QED
    BY <2>1, <2>2
<1> QED
  BY <1>1, <1>2 DEF Fresh, OnFile, database

LEMMA FreshFileStep ==
    ASSUME TypeOK, Located, Mutex, AllFresh, NEW t \in Holders, FileStep(t)
    PROVE  AllFresh'
<1> t \in Threads
  BY Roles
<1>1. CASE GiveUpFile(t) \/ FinishFile(t)
  <2>1. pc[t] # "idle"
    BY DEF FileStep, SkipFile, Reprobe, Insert, Probe, Vanished, CommitFile
  <2>2. pc'[t] \in {"idle", "walk", "relabel"} /\ pc' = [pc EXCEPT ![t] = pc'[t]]
    BY <1>1 DEF GiveUpFile, FinishFile, TypeOK
  <2> QED
    BY <2>1, <2>2, FreshAlone DEF OnFile
<1>2. CASE Reprobe(t)
  <2>1. Fresh(t)'
    BY <1>2 DEF Reprobe, AllFresh, Fresh, TypeOK, OnFile, database
  <2> QED
    BY <1>2, <2>1, FreshElsewhere DEF Reprobe, TypeOK, Holders, Threads
<1>3. CASE Insert(t) /\ ~GiveUpFile(t)
  <2>1. Fresh(t)'
    BY <1>3 DEF Insert, Insertable, Fresh, TypeOK, OnFile, database
  <2> QED
    BY <1>3, <2>1, FreshElsewhere DEF Insert, TypeOK, Holders, Threads
<1>4. CASE Probe(t)
  <2>1. tx'[t].path = tx[t].path /\ tx'[t].slot = tx[t].slot /\ tx'[t].old = tx[t].old
    BY <1>4 DEF Probe, TypeOK, Sessions
  <2>2. Fresh(t)'
    BY <1>4, <2>1 DEF Probe, AllFresh, Fresh, TypeOK, OnFile, database
  <2> QED
    BY <1>4, <2>2, FreshElsewhere DEF Probe, TypeOK, Holders, Threads
<1> QED
  BY <1>1, <1>2, <1>3, <1>4, CommitCases
  DEF FileStep, SkipFile, Insert, Vanished, CommitFile, Saves

LEMMA FreshStep ==
    ASSUME Removers = {}, TypeOK, Located, Mutex, AllFresh, [Next]_vars
    PROVE  AllFresh'
<1> Threads = Holders
  BY DEF Threads, Holders
<1>1. CASE World \/ UNCHANGED vars
  BY <1>1 DEF World, ChangeFile, Rematch, vars, database, AllFresh, Fresh, Timely
<1>2. CASE Crash
  BY <1>2 DEF Crash, AllFresh, Fresh, OnFile
<1>3. CASE Begin
  <2>1. ASSUME NEW t \in Scanners, NEW f \in Forces, StartScan(t, f) PROVE AllFresh'
    <3>1. t \in Holders /\ Fresh(t)'
      BY <2>1 DEF StartScan, Fresh, TypeOK, OnFile, Holders
    <3> QED
      BY <2>1, <3>1, FreshElsewhere DEF StartScan, TypeOK
  <2>2. ASSUME NEW t \in Rescanners, NEW p \in Paths, StartRescan(t, p) PROVE AllFresh'
    <3>1. t \in Holders
      BY DEF Holders
    <3>2. Fresh(t)'
      BY <2>2, <3>1, FreshLookup DEF StartRescan, TypeOK
    <3> QED
      BY <2>2, <3>1, <3>2, FreshElsewhere DEF StartRescan, TypeOK
  <2> QED
    BY <1>3, <2>1, <2>2 DEF Begin
<1>4. ASSUME NEW t \in Holders, FileStep(t) PROVE AllFresh'
  BY <1>4, FreshFileStep
<1>5. ASSUME NEW t \in Scanners, Relabel(t) \/ CommitPrune(t) PROVE AllFresh'
  <2>1. t \in Holders /\ pc[t] # "idle"
    BY <1>5 DEF Relabel, CommitPrune, Holders
  <2>2. pc'[t] \in {"idle", "walk"} /\ pc' = [pc EXCEPT ![t] = pc'[t]]
    BY <1>5, <2>1 DEF Relabel, CommitPrune, EndJob, TypeOK
  <2> QED
    BY <2>1, <2>2, FreshAlone DEF OnFile
<1>6. ASSUME NEW t \in Scanners, NEW p \in Paths, Visit(t, p) PROVE AllFresh'
  <2>1. t \in Holders
    BY DEF Holders
  <2>2. Fresh(t)'
    <3>1. CASE disk[p] = Nothing
      BY <1>6, <2>1, <3>1 DEF Visit, Fresh, OnFile
    <3>2. CASE disk[p] # Nothing
      BY <1>6, <2>1, <3>2, FreshLookup DEF Visit, TypeOK
    <3> QED
      BY <3>1, <3>2
  <2> QED
    BY <1>6, <2>1, <2>2, FreshElsewhere DEF Visit, TypeOK
<1>7. ASSUME NEW t \in Scanners, ReadPrune(t) PROVE AllFresh'
  <2>1. t \in Holders
    BY DEF Holders
  <2> DEFINE gone == {p \in Paths : files[p] # Nothing /\ disk[p] = Nothing}
  <2>2. doomed'[t] = Doom(gone, Titles) /\ pc'[t] = "prune" /\ UNCHANGED database
    BY <1>7, <2>1 DEF ReadPrune, TypeOK
  <2>3. /\ doomed'[t].files = gone
        /\ doomed'[t].seasons = {s \in seasons : SlotTitle[s] \in Titles /\ RowsOf(s) \subseteq gone}
        /\ doomed'[t].items = {i \in Titles : items[i] # Nothing
              /\ \A s \in seasons : SlotTitle[s] = i => s \in doomed'[t].seasons}
    BY <2>2 DEF Doom
  <2>4. doomed'[t].seasons = {s \in seasons :
              \A p \in Paths : files[p] # Nothing /\ files[p].slot = s => p \in gone}
    BY <2>3, SlotTitleType DEF RowsOf, TypeOK
  <2>5. Fresh(t)'
    BY <2>2, <2>3, <2>4 DEF Fresh, Timely, OnFile, database
  <2> QED
    BY <1>7, <2>1, <2>5, FreshElsewhere DEF ReadPrune, TypeOK
<1>8. ASSUME NEW t \in Threads, SessionFails(t) PROVE AllFresh'
  <2>1. pc'[t] \in {"idle", "walk"} /\ pc' = [pc EXCEPT ![t] = pc'[t]] /\ pc[t] # "idle"
    BY <1>8 DEF SessionFails, EndJob, TypeOK
  <2> QED
    BY <2>1, FreshAlone DEF OnFile
<1> QED
  BY <1>1, <1>2, <1>3, <1>4, <1>5, <1>6, <1>7, <1>8 DEF Next, Work, ScanStep, Holders

LEMMA FreshHolds == Spec => [](Removers = {} => AllFresh)
<1>1. Init => AllFresh
  BY Roles DEF Init, AllFresh, Fresh, OnFile, Holders, Threads
<1>2. TypeOK /\ Located /\ Mutex /\ (Removers = {} => AllFresh) /\ [Next]_vars
          => (Removers = {} => AllFresh)'
  BY FreshStep
<1> QED
  BY <1>1, <1>2, Sound, MutexHolds, PTL DEF Spec

(* A timely deletion cascades to nothing that it does not announce.          *)
LEMMA TimelyDrop ==
    ASSUME TypeOK, TreeOK, NEW d \in Dooms, Timely(d), Drop(d)
    PROVE  /\ \A p \in Paths : files'[p] = IF p \in d.files THEN Nothing ELSE files[p]
           /\ seasons' = seasons \ d.seasons
<1> DEFINE dead == d.seasons \cup {s \in Slots : SlotTitle[s] \in d.items}
<1>1. \A s \in seasons : s \in dead => s \in d.seasons
  BY DEF Timely
<1>2. \A p \in Paths : files[p] # Nothing /\ files[p].slot \in dead => p \in d.files
  BY <1>1 DEF Timely, TreeOK
<1> QED
  BY <1>1, <1>2 DEF Drop

LEMMA LedgerStep ==
    ASSUME Removers = {}, TypeOK, Located, TreeOK, AllFresh, LedgerMatches, [Next]_vars
    PROVE  LedgerMatches'
<1>1. CASE UNCHANGED database
  BY <1>1 DEF database, LedgerMatches
<1>2. ASSUME NEW t \in Holders, Saves(t) PROVE LedgerMatches'
  <2> DEFINE p == tx[t].path
             new == [slot |-> tx[t].slot, probed |-> tx[t].probed, printed |-> disk[p]]
  <2>1. p \in Paths /\ tx[t].probed \in Contents
    BY <1>2, Roles DEF Saves, Located, OnFile
  <2>2. tx[t].old = Nothing <=> files[p] = Nothing
    BY <1>2 DEF Saves, AllFresh, Fresh, OnFile
  <2>3. tx[t].old = Nothing <=> told[p] = Nothing
    BY <2>1, <2>2 DEF LedgerMatches
  <2>4. files' = [files EXCEPT ![p] = new] /\ Announce(p, tx[t].old, new)
    BY <1>2 DEF Saves
  <2>5. garbled' = {}
    BY <2>3, <2>4 DEF Announce, LedgerMatches
  <2>6. new # Nothing /\ new.probed # Nothing
    <3>1. disk[p] \in Contents
      BY <1>2, <2>1 DEF Saves, TypeOK
    <3>2. new \in Rows
      BY <2>1, <3>1, <1>2, Roles DEF Rows, Saves, Located, OnFile
    <3> QED
      BY <2>1, <3>2, RowAssumption, Roles
  <2>7. \A q \in Paths : told'[q] = Nothing <=> files'[q] = Nothing
    BY <2>1, <2>3, <2>4, <2>6 DEF Announce, LedgerMatches, TypeOK
  <2> QED
    BY <2>5, <2>7 DEF LedgerMatches
<1>3. ASSUME NEW t \in Scanners, Relabel(t) PROVE LedgerMatches'
  BY <1>3 DEF Relabel, LedgerMatches
<1>4. ASSUME NEW t \in Scanners, CommitPrune(t) PROVE LedgerMatches'
  <2> DEFINE d == doomed[t]
  <2>1. d \in Dooms /\ Timely(d) /\ Drop(d)
    BY <1>4 DEF CommitPrune, TypeOK, Threads, AllFresh, Fresh, Holders
  <2>2. \A p \in Paths : files'[p] = IF p \in d.files THEN Nothing ELSE files[p]
    BY <2>1, TimelyDrop
  <2>3. /\ \A p \in Paths : told'[p] = IF p \in d.files THEN Nothing ELSE told[p]
        /\ garbled' = garbled \cup {p \in d.files : told[p] = Nothing}
    BY <2>1 DEF Drop
  <2>4. d.files \subseteq Paths /\ \A p \in d.files : files[p] # Nothing
    BY <2>1 DEF Timely, Dooms
  <2> QED
    BY <2>2, <2>3, <2>4 DEF LedgerMatches
<1> QED
  BY <1>1, <1>2, <1>3, <1>4, Writers

(* As long as every deletion is made under the library's lock, a consumer of *)
(* the outbox knows exactly the paths that have a row, and is never told of  *)
(* an addition twice or of a removal of what it does not know.               *)
THEOREM Ledger == Spec => []LedgerMatchesCatalog
<1>1. Init => LedgerMatches
  BY DEF Init, LedgerMatches
<1>2. TypeOK /\ Located /\ TreeOK /\ (Removers = {} => AllFresh)
          /\ LedgerMatchesCatalog /\ [Next]_vars
      => LedgerMatchesCatalog'
  BY LedgerStep DEF LedgerMatchesCatalog
<1>3. Init => LedgerMatchesCatalog
  BY <1>1 DEF LedgerMatchesCatalog
<1> QED
  BY <1>2, <1>3, Sound, Tree, FreshHolds, PTL DEF Spec

-----------------------------------------------------------------------------
(* Nothing empty is left behind. *)

Inhabited ==
    /\ \A s \in seasons : \E p \in Paths : files[p] # Nothing /\ files[p].slot = s
    /\ \A i \in Titles : items[i] # Nothing => \E s \in seasons : SlotTitle[s] = i

LEMMA InhabitedSaves ==
    ASSUME TypeOK, Located, AllFresh, Inhabited, NEW t \in Holders, Saves(t)
    PROVE  Inhabited'
<1> DEFINE p == tx[t].path
           i == SlotTitle[tx[t].slot]
           new == [slot |-> tx[t].slot, probed |-> tx[t].probed, printed |-> disk[p]]
           fs == [files EXCEPT ![p] = new]
           its == [items EXCEPT ![i] = IF @ = Nothing THEN Unlabelled ELSE @]
<1>1. /\ files' = fs /\ seasons' = seasons \cup {tx[t].slot}
      /\ items' = IF t \in Scanners THEN its ELSE Relabelled(its, fs)
  BY DEF Saves
<1>2. p \in Paths /\ tx[t].slot \in Slots /\ tx[t].probed \in Contents /\ i \in Titles
  BY Roles, SlotTitleType DEF Saves, Located, OnFile
<1>3. new \in Rows /\ new # Nothing
  BY <1>2, RowAssumption DEF Saves, TypeOK, Rows
<1>4. fs \in Files
  BY <1>2, <1>3 DEF Files, TypeOK
<1>5. its \in Items /\ (\A j \in Titles : its[j] # Nothing => items[j] # Nothing \/ j = i)
  BY <1>2, Roles DEF Items, TypeOK, Labels
<1>6. \A j \in Titles : items'[j] # Nothing => items[j] # Nothing \/ j = i
  <2> HIDE DEF its, fs
  <2>1. \A j \in Titles : Relabelled(its, fs)[j] = Nothing <=> its[j] = Nothing
    BY <1>4, <1>5, RelabelledType
  <2> QED
    BY <1>1, <1>5, <2>1
<1>7. files[p] # Nothing => files[p].slot = tx[t].slot
  BY DEF Saves, StillThere, AllFresh, Fresh, OnFile
<1>8. \A s \in seasons' : \E q \in Paths : files'[q] # Nothing /\ files'[q].slot = s
  <2> SUFFICES ASSUME NEW s \in seasons'
               PROVE  \E q \in Paths : files'[q] # Nothing /\ files'[q].slot = s
    OBVIOUS
  <2>1. files'[p] # Nothing /\ files'[p].slot = tx[t].slot
    BY <1>1, <1>2, <1>3 DEF TypeOK
  <2>2. CASE s = tx[t].slot
    BY <1>2, <2>1, <2>2
  <2>3. CASE s # tx[t].slot
    <3>1. PICK q \in Paths : files[q] # Nothing /\ files[q].slot = s
      BY <1>1, <2>3 DEF Inhabited
    <3>2. q # p /\ files'[q] = files[q]
      BY <1>1, <1>7, <2>3, <3>1 DEF TypeOK
    <3> QED
      BY <3>1, <3>2
  <2> QED
    BY <2>2, <2>3
<1>9. \A j \in Titles : items'[j] # Nothing => \E s \in seasons' : SlotTitle[s] = j
  BY <1>1, <1>6 DEF Inhabited
<1> QED
  BY <1>8, <1>9 DEF Inhabited

LEMMA InhabitedStep ==
    ASSUME Removers = {}, TypeOK, Located, TreeOK, AllFresh, Inhabited, [Next]_vars
    PROVE  Inhabited'
<1>1. CASE UNCHANGED database
  BY <1>1 DEF database, Inhabited
<1>2. ASSUME NEW t \in Holders, Saves(t) PROVE Inhabited'
  BY <1>2, InhabitedSaves
<1>3. ASSUME NEW t \in Scanners, Relabel(t) PROVE Inhabited'
  <2>1. \A i \in Titles : items'[i] = Nothing <=> items[i] = Nothing
    BY <1>3, RelabelledType DEF Relabel, TypeOK, Items, Files
  <2> QED
    BY <1>3, <2>1 DEF Relabel, Inhabited
<1>4. ASSUME NEW t \in Scanners, CommitPrune(t) PROVE Inhabited'
  <2> DEFINE d == doomed[t]
  <2>1. d \in Dooms /\ Timely(d) /\ Drop(d)
    BY <1>4 DEF CommitPrune, TypeOK, Threads, AllFresh, Fresh, Holders
  <2>2. /\ \A p \in Paths : files'[p] = IF p \in d.files THEN Nothing ELSE files[p]
        /\ seasons' = seasons \ d.seasons
    BY <2>1, TimelyDrop
  <2>3. \A i \in Titles : items'[i] # Nothing => items[i] # Nothing /\ i \notin d.items
    <3>1. \A i \in Titles : items'[i] = Nothing <=> Survivors(d)[i] = Nothing
      BY <1>4, <2>1, DropType, RelabelledType DEF CommitPrune
    <3> QED
      BY <3>1 DEF Survivors
  <2>4. \A s \in seasons' : \E p \in Paths : files'[p] # Nothing /\ files'[p].slot = s
    BY <2>1, <2>2 DEF Timely
  <2>5. \A i \in Titles : items'[i] # Nothing => \E s \in seasons' : SlotTitle[s] = i
    BY <2>1, <2>2, <2>3 DEF Timely
  <2> QED
    BY <2>4, <2>5 DEF Inhabited
<1> QED
  BY <1>1, <1>2, <1>3, <1>4, Writers

LEMMA InhabitedIsEnough == Inhabited => NoHollowTitles
BY DEF Inhabited, NoHollowTitles, RowsOf

(* As long as every deletion is made under the library's lock, every season  *)
(* has a file and every title a season: what a failed or interrupted session *)
(* created goes with it, and a prune leaves nothing empty.                   *)
THEOREM NoHollow == Spec => []NoHollowTitles
<1>1. Init => (Removers = {} => Inhabited)
  BY DEF Init, Inhabited
<1>2. TypeOK /\ Located /\ TreeOK /\ (Removers = {} => AllFresh)
          /\ (Removers = {} => Inhabited) /\ [Next]_vars
      => (Removers = {} => Inhabited)'
  BY InhabitedStep
<1>3. (Removers = {} => Inhabited) => NoHollowTitles
  BY InhabitedIsEnough DEF NoHollowTitles
<1> QED
  BY <1>1, <1>2, <1>3, Sound, Tree, FreshHolds, PTL DEF Spec

-----------------------------------------------------------------------------
(* What an undisturbed scan has seen to so far. *)

OnPatrol == OnFile \cup {"walk", "relabel"}

Patrol(t) ==
    job[t].quiet =>
        /\ pc[t] \in OnPatrol =>
              \A p \in Paths \ job[t].todo :
                  \/ disk[p] = Nothing \/ files[p] # Nothing
                  \/ pc[t] \in OnFile /\ p = tx[t].path
        /\ pc[t] = "prune" =>
              /\ \A p \in Paths : disk[p] = Nothing \/ files[p] # Nothing
              /\ doomed[t].files = {p \in Paths : files[p] # Nothing /\ disk[p] = Nothing}

AllPatrol == \A t \in Scanners : Patrol(t)
Present == synced => \A p \in Paths : files[p] = Nothing <=> disk[p] = Nothing

LEMMA PatrolIdle == ASSUME NEW t, pc[t] = "idle" PROVE Patrol(t)
BY DEF Patrol, OnPatrol, OnFile

(* However it ends, a file's session leaves a row, or there is no file.      *)
LEMMA FileStepOutcome ==
    ASSUME TypeOK, Located, NEW t \in Holders, Fresh(t), FileStep(t)
    PROVE  /\ pc[t] \in OnFile /\ tx[t].path \in Paths
           /\ UNCHANGED <<disk, job, synced>>
           /\ \A p \in Paths : files[p] # Nothing => files'[p] # Nothing
           /\ \A p \in Paths : files'[p] # Nothing => files[p] # Nothing \/ disk[p] # Nothing
           /\ \/ pc'[t] \in OnFile /\ tx'[t].path = tx[t].path
              \/ /\ pc'[t] \in {"idle", "walk", "relabel"}
                 /\ disk[tx[t].path] = Nothing \/ files'[tx[t].path] # Nothing
<1> t \in Threads
  BY Roles
<1>1. pc[t] \in OnFile
  BY DEF FileStep, SkipFile, Reprobe, Insert, Probe, Vanished, CommitFile, OnFile
<1>2. tx[t].path \in Paths /\ tx[t].slot \in Slots
  BY <1>1 DEF Located
<1>3. CASE Reprobe(t) \/ Probe(t) \/ (Insert(t) /\ ~GiveUpFile(t))
  <2>1. UNCHANGED <<disk, job, synced, files>> /\ pc'[t] \in OnFile
    BY <1>3 DEF Reprobe, Probe, Insert, world, database, TypeOK, OnFile
  <2>2. tx'[t].path = tx[t].path
    BY <1>3 DEF Reprobe, Probe, Insert, TypeOK, Sessions
  <2> QED
    BY <1>1, <1>2, <2>1, <2>2
<1>4. CASE GiveUpFile(t)
  <2>1. UNCHANGED <<disk, job, synced, files>> /\ pc'[t] \in {"idle", "walk"}
    BY <1>4 DEF GiveUpFile, world, database, TypeOK
  <2>2. disk[tx[t].path] = Nothing \/ files[tx[t].path] # Nothing
    <3>1. CASE tx[t].old # Nothing
      BY <1>1, <3>1 DEF Fresh
    <3>2. CASE Vanished(t)
      BY <3>2 DEF Vanished
    <3>3. CASE Insert(t)
      <4>1. ~Insertable(t)
        BY <1>4, <2>1, <3>3 DEF Insert, TypeOK, OnFile
      <4> QED
        BY <3>3, <4>1 DEF Insert, Insertable, Fresh
    <3>4. CASE CommitFile(t) /\ tx[t].old = Nothing
      <4>1. Saves(t)
        BY <3>4 DEF CommitFile, Saves, Fingerprints
      <4>2. files'[tx[t].path] # Nothing
        <5>1. [slot |-> tx[t].slot, probed |-> tx[t].probed, printed |-> disk[tx[t].path]] \in Rows
          BY <1>2, <4>1 DEF Saves, Rows, TypeOK, Located
        <5> QED
          BY <1>2, <4>1, <5>1, RowAssumption DEF Saves, TypeOK
      <4> QED
        BY <2>1, <4>2
    <3>5. ~Probe(t)
      BY <2>1 DEF Probe, TypeOK
    <3> QED
      BY <3>1, <3>2, <3>3, <3>4, <3>5
      DEF FileStep, SkipFile, Reprobe
  <2> QED
    BY <1>1, <1>2, <2>1, <2>2
<1>5. CASE SkipFile(t) /\ ~GiveUpFile(t)
  <2>1. UNCHANGED <<disk, job, synced, files>> /\ pc'[t] \in {"idle", "walk", "relabel"}
    BY <1>5 DEF SkipFile, FinishFile, world, database, TypeOK
  <2>2. files[tx[t].path] # Nothing
    BY <1>1, <1>5 DEF SkipFile, Fresh
  <2> QED
    BY <1>1, <1>2, <2>1, <2>2
<1>6. CASE Saves(t)
  <2> DEFINE new == [slot |-> tx[t].slot, probed |-> tx[t].probed, printed |-> disk[tx[t].path]]
  <2>1. new # Nothing
    <3>1. new \in Rows
      BY <1>2, <1>6 DEF Saves, Rows, TypeOK, Located
    <3> QED
      BY <3>1, RowAssumption
  <2>2. files' = [files EXCEPT ![tx[t].path] = new] /\ disk[tx[t].path] # Nothing
    BY <1>6 DEF Saves
  <2>3. UNCHANGED <<disk, job, synced>> /\ pc'[t] \in {"idle", "walk", "relabel"}
    BY <1>6 DEF Saves, FinishFile, world, TypeOK
  <2> QED
    BY <1>1, <1>2, <2>1, <2>2, <2>3 DEF TypeOK
<1> QED
  BY <1>3, <1>4, <1>5, <1>6, CommitCases DEF FileStep, Vanished

LEMMA PatrolFileStep ==
    ASSUME TypeOK, Located, Mutex, AllFresh, AllPatrol, Present, NEW t \in Holders, FileStep(t)
    PROVE  AllPatrol' /\ Present'
<1> t \in Threads
  BY Roles
<1>1. Fresh(t)
  BY DEF AllFresh
<1>2. /\ pc[t] \in OnFile /\ tx[t].path \in Paths
      /\ UNCHANGED <<disk, job, synced>>
      /\ \A p \in Paths : files[p] # Nothing => files'[p] # Nothing
      /\ \A p \in Paths : files'[p] # Nothing => files[p] # Nothing \/ disk[p] # Nothing
      /\ \/ pc'[t] \in OnFile /\ tx'[t].path = tx[t].path
         \/ /\ pc'[t] \in {"idle", "walk", "relabel"}
            /\ disk[tx[t].path] = Nothing \/ files'[tx[t].path] # Nothing
  BY <1>1, FileStepOutcome
<1>3. ASSUME NEW u \in Scanners, u # t PROVE Patrol(u)'
  <2>1. u \in Holders /\ pc[u] = "idle"
    BY <1>2, <1>3, HolderIsAlone DEF Holders, OnFile
  <2>2. pc'[u] = "idle"
    BY <1>3, <2>1
    DEF FileStep, SkipFile, Reprobe, Insert, Probe, Vanished, CommitFile, GiveUpFile,
        FinishFile, TypeOK, Threads, Holders
  <2> QED
    BY <2>2 DEF Patrol, OnPatrol, OnFile
<1>4. ASSUME t \in Scanners PROVE Patrol(t)'
  BY <1>2, <1>4 DEF AllPatrol, Patrol, OnPatrol, OnFile
<1>5. Present'
  BY <1>2 DEF Present
<1> QED
  BY <1>3, <1>4, <1>5 DEF AllPatrol

LEMMA PatrolStep ==
    ASSUME Removers = {}, TypeOK, Located, TreeOK, Mutex, AllFresh, AllPatrol, Present, [Next]_vars
    PROVE  AllPatrol' /\ Present'
<1> Threads = Holders /\ Scanners \subseteq Threads
  BY DEF Threads, Holders
<1> USE DEF OnPatrol, OnFile
<1>1. CASE UNCHANGED vars
  BY <1>1 DEF vars, world, database, AllPatrol, Patrol, Present
<1>2. CASE World
  <2>1. synced' = FALSE /\ \A t \in Scanners : ~job'[t].quiet
    BY <1>2 DEF World, ChangeFile, Rematch, Disturbed, TypeOK, Jobs
  <2> QED
    BY <2>1 DEF AllPatrol, Patrol, Present
<1>3. CASE Crash
  BY <1>3 DEF Crash, NoJob, world, database, AllPatrol, Patrol, Present
<1>4. ASSUME NEW t \in Scanners, NEW f \in Forces, StartScan(t, f) PROVE AllPatrol' /\ Present'
  <2>1. Patrol(t)'
    BY <1>4 DEF StartScan, Patrol, TypeOK
  <2>2. \A u \in Scanners : u # t => Patrol(u)'
    BY <1>4 DEF StartScan, AllPatrol, Patrol, TypeOK, world, database
  <2>3. Present'
    BY <1>4 DEF StartScan, Present
  <2> QED
    BY <2>1, <2>2, <2>3 DEF AllPatrol
<1>5. ASSUME NEW t \in Rescanners, NEW p \in Paths, StartRescan(t, p)
      PROVE  AllPatrol' /\ Present'
  <2>1. t \notin Scanners
    BY Roles
  <2> QED
    BY <1>5, <2>1 DEF StartRescan, AllPatrol, Patrol, Present, TypeOK, world, database
<1>6. ASSUME NEW t \in Holders, FileStep(t) PROVE AllPatrol' /\ Present'
  BY <1>6, PatrolFileStep
<1>7. ASSUME NEW t \in Scanners, Relabel(t) PROVE AllPatrol' /\ Present'
  BY <1>7 DEF Relabel, AllPatrol, Patrol, Present, TypeOK, world
<1>8. ASSUME NEW t \in Scanners, NEW p \in Paths, Visit(t, p) PROVE AllPatrol' /\ Present'
  <2>1. job'[t].todo = job[t].todo \ {p} /\ job'[t].quiet = job[t].quiet
    BY <1>8 DEF Visit, TypeOK, Jobs
  <2>2. CASE disk[p] = Nothing
    BY <1>8, <2>1, <2>2 DEF Visit, AllPatrol, Patrol, Present, TypeOK, world, database
  <2>3. CASE disk[p] # Nothing
    <3>1. pc'[t] = "read" /\ tx'[t].path = p
      BY <1>8, <2>3 DEF Visit, Lookup, TypeOK
    <3>2. Patrol(t)'
      BY <1>8, <2>1, <3>1 DEF Visit, AllPatrol, Patrol, world, database
    <3>3. \A u \in Scanners : u # t => Patrol(u)'
      BY <1>8 DEF Visit, AllPatrol, Patrol, TypeOK, world, database
    <3>4. Present'
      BY <1>8 DEF Visit, Present, world, database
    <3> QED
      BY <3>2, <3>3, <3>4 DEF AllPatrol
  <2> QED
    BY <2>2, <2>3
<1>9. ASSUME NEW t \in Scanners, ReadPrune(t) PROVE AllPatrol' /\ Present'
  <2>1. doomed'[t].files = {p \in Paths : files[p] # Nothing /\ disk[p] = Nothing}
    BY <1>9 DEF ReadPrune, Doom, TypeOK
  <2>2. Patrol(t)'
    BY <1>9, <2>1 DEF ReadPrune, AllPatrol, Patrol, TypeOK, world, database
  <2>3. \A u \in Scanners : u # t => Patrol(u)'
    BY <1>9 DEF ReadPrune, AllPatrol, Patrol, TypeOK, world, database
  <2>4. Present'
    BY <1>9 DEF ReadPrune, Present, world, database
  <2> QED
    BY <2>2, <2>3, <2>4 DEF AllPatrol
<1>10. ASSUME NEW t \in Scanners, CommitPrune(t) PROVE AllPatrol' /\ Present'
  <2>1. \A u \in Scanners : pc'[u] = "idle"
    BY <1>10, HolderIsAlone DEF CommitPrune, EndJob, TypeOK
  <2>2. \A p \in Paths : files'[p] = IF p \in doomed[t].files THEN Nothing ELSE files[p]
    BY <1>10, TimelyDrop DEF CommitPrune, AllFresh, Fresh, TypeOK
  <2>3. disk' = disk /\ synced' = job[t].quiet
    BY <1>10 DEF CommitPrune, EndJob, world
  <2>4. Present'
    BY <1>10, <2>2, <2>3 DEF CommitPrune, AllPatrol, Patrol, Present
  <2> QED
    BY <2>1, <2>4 DEF AllPatrol, Patrol
<1>11. ASSUME NEW t \in Threads, SessionFails(t) PROVE AllPatrol' /\ Present'
  <2>1. UNCHANGED <<files, disk, synced>>
    BY <1>11 DEF SessionFails, EndJob, world, database
  <2>2. t \in Scanners => ~job'[t].quiet
    BY <1>11 DEF SessionFails, EndJob, NoJob, TypeOK, Jobs
  <2>3. \A u \in Scanners : u # t =>
            job'[u] = job[u] /\ pc'[u] = pc[u] /\ tx'[u] = tx[u] /\ doomed'[u] = doomed[u]
    BY <1>11 DEF SessionFails, EndJob, TypeOK
  <2> QED
    BY <2>1, <2>2, <2>3 DEF AllPatrol, Patrol, Present
<1>12. CASE Begin
  BY <1>4, <1>5, <1>12 DEF Begin
<1>13. ASSUME NEW t \in Threads, Work(t) PROVE AllPatrol' /\ Present'
  BY <1>6, <1>7, <1>8, <1>9, <1>10, <1>13 DEF Work, ScanStep, Holders
<1> QED
  BY <1>1, <1>2, <1>3, <1>11, <1>12, <1>13 DEF Next

LEMMA PatrolHolds == Spec => [](Removers = {} => AllPatrol /\ Present)
<1>1. Init => (Removers = {} => AllPatrol /\ Present)
  BY DEF Init, AllPatrol, Patrol, NoJob, Present, Threads
<1>2. TypeOK /\ Located /\ TreeOK /\ Mutex /\ (Removers = {} => AllFresh)
          /\ (Removers = {} => AllPatrol /\ Present) /\ [Next]_vars
      => (Removers = {} => AllPatrol /\ Present)'
  BY PatrolStep
<1> QED
  BY <1>1, <1>2, Sound, Tree, MutexHolds, FreshHolds, PTL DEF Spec

(* After a scan that nothing disturbed, as long as every deletion is made    *)
(* under the library's lock, there is a row for exactly the files there are. *)
THEOREM ScanLeavesRowsForFiles == Spec => []SyncedPresence
<1>1. (Removers = {} => AllPatrol /\ Present) => SyncedPresence
  BY DEF Present, SyncedPresence
<1> QED
  BY <1>1, PatrolHolds, PTL

-----------------------------------------------------------------------------
(* What an undisturbed scan has left behind it is fingerprinted as it is.    *)

Sharp(p) ==
    files[p] # Nothing /\ disk[p] # Nothing /\ files[p].slot = layout[p] =>
        /\ Digest[files[p].printed] = Digest[disk[p]]
        /\ Mtime[files[p].printed] = Mtime[disk[p]]

(* The session looks for the row of the match that still holds.              *)
Matched(t) ==
    /\ tx[t].slot = layout[tx[t].path]
    /\ pc[t] = "read" /\ tx[t].old = Nothing =>
           files[tx[t].path] = Nothing \/ files[tx[t].path].slot # tx[t].slot

Round(t) ==
    job[t].quiet =>
        /\ pc[t] \in OnFile => Matched(t)
        /\ pc[t] \in OnPatrol =>
              \A p \in Paths \ job[t].todo : Sharp(p) \/ (pc[t] \in OnFile /\ p = tx[t].path)
        /\ pc[t] = "prune" => \A p \in Paths : Sharp(p)

AllRounds == \A t \in Scanners : Round(t)
AllSharp == synced => \A p \in Paths : Sharp(p)

(* A file's session blurs nothing, and leaves its own row sharp.             *)
LEMMA FileStepSharpens ==
    ASSUME TypeOK, Located, NEW t \in Holders, Fresh(t), FileStep(t)
    PROVE  /\ UNCHANGED <<disk, layout, job, synced>>
           /\ pc[t] \in OnFile /\ tx[t].path \in Paths
           /\ \A p \in Paths : Sharp(p) => Sharp(p)'
           /\ \/ /\ pc'[t] \in {"probe", "commit"}
                 /\ tx'[t].path = tx[t].path /\ tx'[t].slot = tx[t].slot
              \/ /\ pc'[t] \in {"idle", "walk", "relabel"}
                 /\ Matched(t) => \A p \in Paths : p = tx[t].path => Sharp(p)'
<1> t \in Threads
  BY Roles
<1>1. pc[t] \in OnFile
  BY DEF FileStep, SkipFile, Reprobe, Insert, Probe, Vanished, CommitFile, OnFile
<1>2. tx[t].path \in Paths /\ tx[t].slot \in Slots
  BY <1>1 DEF Located
<1>3. ASSUME UNCHANGED <<disk, layout, files>>
      PROVE  \A p \in Paths : Sharp(p) <=> Sharp(p)'
  BY <1>3 DEF Sharp
<1>4. CASE Reprobe(t) \/ Probe(t) \/ (Insert(t) /\ ~GiveUpFile(t))
  <2>1. UNCHANGED <<disk, layout, job, synced, files>> /\ pc'[t] \in {"probe", "commit"}
    BY <1>4 DEF Reprobe, Probe, Insert, world, database, TypeOK
  <2>2. tx'[t].path = tx[t].path /\ tx'[t].slot = tx[t].slot
    BY <1>4 DEF Reprobe, Probe, Insert, TypeOK, Sessions
  <2> QED
    BY <1>1, <1>2, <1>3, <2>1, <2>2
<1>5. CASE GiveUpFile(t)
  <2>1. UNCHANGED <<disk, layout, job, synced, files>> /\ pc'[t] \in {"idle", "walk"}
    BY <1>5 DEF GiveUpFile, world, database, TypeOK
  <2>2. ASSUME Matched(t) PROVE Sharp(tx[t].path)
    <3>1. CASE Vanished(t)
      BY <3>1 DEF Vanished, Sharp
    <3>2. CASE Insert(t)
      BY <2>2, <3>2 DEF Insert, Matched, Sharp
    <3>3. CASE CommitFile(t)
      <4>1. Saves(t)
        BY <1>1, <3>3 DEF CommitFile, Saves, Fingerprints, Fresh, StillThere
      <4>2. disk[tx[t].path] # Nothing /\ files' = files
            /\ files' = [files EXCEPT ![tx[t].path] =
                 [slot |-> tx[t].slot, probed |-> tx[t].probed, printed |-> disk[tx[t].path]]]
        BY <2>1, <4>1 DEF Saves
      <4>3. files[tx[t].path].printed = disk[tx[t].path]
        BY <1>2, <4>2 DEF TypeOK
      <4> QED
        BY <4>3 DEF Sharp
    <3>4. CASE SkipFile(t)
      BY <1>1, <3>4 DEF SkipFile, SameFile, Fresh, Sharp
    <3>5. ~Probe(t) /\ ~Reprobe(t)
      BY <2>1 DEF Probe, Reprobe, TypeOK
    <3> QED
      BY <3>1, <3>2, <3>3, <3>4, <3>5 DEF FileStep
  <2> QED
    BY <1>1, <1>2, <1>3, <2>1, <2>2
<1>6. CASE SkipFile(t) /\ ~GiveUpFile(t)
  <2>1. /\ UNCHANGED <<disk, layout, job, synced, files>>
        /\ pc'[t] \in {"idle", "walk", "relabel"}
    BY <1>6 DEF SkipFile, FinishFile, world, database, TypeOK
  <2>2. Sharp(tx[t].path)
    BY <1>1, <1>6 DEF SkipFile, SameFile, Fresh, Sharp
  <2> QED
    BY <1>1, <1>2, <1>3, <2>1, <2>2
<1>7. CASE Saves(t)
  <2> DEFINE new == [slot |-> tx[t].slot, probed |-> tx[t].probed, printed |-> disk[tx[t].path]]
  <2>1. files' = [files EXCEPT ![tx[t].path] = new]
    BY <1>7 DEF Saves
  <2>2. /\ UNCHANGED <<disk, layout, job, synced>>
        /\ pc'[t] \in {"idle", "walk", "relabel"}
    BY <1>7 DEF Saves, FinishFile, world, TypeOK
  <2>3. \A p \in Paths : p = tx[t].path => Sharp(p)'
    <3>1. files'[tx[t].path].printed = disk[tx[t].path]
      BY <1>2, <2>1 DEF TypeOK
    <3>2. \A p \in Paths : files'[p].printed = disk'[p] => Sharp(p)'
      BY DEF Sharp
    <3> QED
      BY <2>2, <3>1, <3>2
  <2>4. \A p \in Paths : p # tx[t].path => files'[p] = files[p]
    BY <2>1 DEF TypeOK
  <2>5. \A p \in Paths : Sharp(p) => Sharp(p)'
    BY <2>2, <2>3, <2>4 DEF Sharp
  <2> QED
    BY <1>1, <1>2, <2>2, <2>3, <2>5
<1> QED
  BY <1>4, <1>5, <1>6, <1>7, CommitCases DEF FileStep, Vanished

LEMMA RoundFileStep ==
    ASSUME TypeOK, Located, Mutex, AllFresh, AllRounds, AllSharp, NEW t \in Holders, FileStep(t)
    PROVE  AllRounds' /\ AllSharp'
<1> t \in Threads
  BY Roles
<1>1. /\ UNCHANGED <<disk, layout, job, synced>>
      /\ pc[t] \in OnFile /\ tx[t].path \in Paths
      /\ \A p \in Paths : Sharp(p) => Sharp(p)'
      /\ \/ /\ pc'[t] \in {"probe", "commit"}
            /\ tx'[t].path = tx[t].path /\ tx'[t].slot = tx[t].slot
         \/ /\ pc'[t] \in {"idle", "walk", "relabel"}
            /\ Matched(t) => \A p \in Paths : p = tx[t].path => Sharp(p)'
  BY FileStepSharpens DEF AllFresh
<1>2. ASSUME NEW u \in Scanners, u # t PROVE Round(u)'
  <2>1. u \in Holders /\ pc[u] = "idle"
    BY <1>1, <1>2, HolderIsAlone DEF Holders, OnFile
  <2>2. pc'[u] = "idle"
    BY <1>2, <2>1
    DEF FileStep, SkipFile, Reprobe, Insert, Probe, Vanished, CommitFile, GiveUpFile,
        FinishFile, TypeOK, Threads, Holders
  <2> QED
    BY <2>2 DEF Round, OnPatrol, OnFile
<1>3. ASSUME t \in Scanners, job[t].quiet PROVE Round(t)'
  <2>1. Matched(t) /\ \A p \in Paths \ job[t].todo : Sharp(p) \/ p = tx[t].path
    BY <1>1, <1>3 DEF AllRounds, Round, OnPatrol
  <2>2. CASE pc'[t] \in {"probe", "commit"} /\ tx'[t].path = tx[t].path /\ tx'[t].slot = tx[t].slot
    <3>1. Matched(t)'
      BY <1>1, <2>1, <2>2 DEF Matched
    <3> QED
      BY <1>1, <2>1, <2>2, <3>1 DEF Round, OnPatrol, OnFile
  <2>3. CASE /\ pc'[t] \in {"idle", "walk", "relabel"}
             /\ \A p \in Paths : p = tx[t].path => Sharp(p)'
    BY <1>1, <2>1, <2>3 DEF Round, OnPatrol, OnFile
  <2> QED
    BY <1>1, <2>1, <2>2, <2>3
<1>4. ASSUME t \in Scanners PROVE Round(t)'
  <2>1. CASE job[t].quiet
    BY <1>3, <1>4, <2>1
  <2>2. CASE ~job[t].quiet
    BY <1>1, <2>2 DEF Round
  <2> QED
    BY <2>1, <2>2
<1>5. AllSharp'
  BY <1>1 DEF AllSharp
<1> QED
  BY <1>2, <1>4, <1>5 DEF AllRounds

LEMMA SharpStays ==
    ASSUME UNCHANGED <<disk, layout, files>>
    PROVE  \A p : Sharp(p) <=> Sharp(p)'
BY DEF Sharp

(* A scan goes on with its round.                                            *)
LEMMA RoundGoesOn ==
    ASSUME AllRounds, UNCHANGED <<disk, layout, files>>, NEW t \in Threads,
           \A u \in Scanners \ {t} :
               pc'[u] = pc[u] /\ tx'[u] = tx[u] /\ job'[u].quiet = job[u].quiet
                   /\ job'[u].todo = job[u].todo,
           t \in Scanners => Round(t)'
    PROVE  AllRounds'
<1>1. \A u \in Scanners : u # t => Round(u)'
  BY SharpStays DEF AllRounds, Round, Matched
<1> QED
  BY <1>1 DEF AllRounds

LEMMA RoundStep ==
    ASSUME Removers = {}, TypeOK, Located, TreeOK, Mutex, AllFresh, AllPatrol, Present,
           AllRounds, AllSharp, [Next]_vars
    PROVE  AllRounds' /\ AllSharp'
<1> Threads = Holders /\ Scanners \subseteq Threads
  BY DEF Threads, Holders
<1> USE DEF OnPatrol, OnFile
<1>1. CASE UNCHANGED vars
  <2>1. UNCHANGED <<disk, layout, files, pc, tx, job, synced>>
    BY <1>1 DEF vars, world, database
  <2> QED
    BY <2>1, SharpStays DEF AllRounds, Round, Matched, AllSharp
<1>2. CASE World
  <2>1. synced' = FALSE /\ \A t \in Scanners : ~job'[t].quiet
    BY <1>2 DEF World, ChangeFile, Rematch, Disturbed, TypeOK, Jobs
  <2> QED
    BY <2>1 DEF AllRounds, Round, AllSharp
<1>3. CASE Crash
  <2>1. UNCHANGED <<disk, layout, files, synced>> /\ \A t \in Scanners : ~job'[t].quiet
    BY <1>3 DEF Crash, NoJob, world, database
  <2> QED
    BY <2>1, SharpStays DEF AllRounds, Round, AllSharp
<1>4. ASSUME NEW t \in Scanners, NEW f \in Forces, StartScan(t, f) PROVE AllRounds' /\ AllSharp'
  <2>1. Round(t)'
    BY <1>4 DEF StartScan, Round, TypeOK
  <2>2. AllRounds'
    BY <1>4, <2>1, RoundGoesOn DEF StartScan, TypeOK, world, database
  <2> QED
    BY <1>4, <2>2 DEF StartScan, AllSharp
<1>5. ASSUME NEW t \in Rescanners, NEW p \in Paths, StartRescan(t, p)
      PROVE  AllRounds' /\ AllSharp'
  <2>1. t \notin Scanners
    BY Roles
  <2>2. AllRounds'
    BY <1>5, <2>1, RoundGoesOn DEF StartRescan, TypeOK, Holders, world, database
  <2> QED
    BY <1>5, <2>2, SharpStays DEF StartRescan, AllSharp, world, database
<1>6. ASSUME NEW t \in Holders, FileStep(t) PROVE AllRounds' /\ AllSharp'
  BY <1>6, RoundFileStep
<1>7. ASSUME NEW t \in Scanners, Relabel(t) PROVE AllRounds' /\ AllSharp'
  <2>1. UNCHANGED <<disk, layout, files, job, synced>> /\ pc'[t] = "walk" /\ pc[t] = "relabel"
    BY <1>7 DEF Relabel, TypeOK, world
  <2>2. Round(t)'
    BY <2>1, SharpStays DEF AllRounds, Round
  <2>3. AllRounds'
    BY <1>7, <2>1, <2>2, RoundGoesOn DEF Relabel, TypeOK
  <2> QED
    BY <2>1, <2>3, SharpStays DEF AllSharp
<1>8. ASSUME NEW t \in Scanners, NEW p \in Paths, Visit(t, p) PROVE AllRounds' /\ AllSharp'
  <2>1. /\ job'[t].todo = job[t].todo \ {p} /\ job'[t].quiet = job[t].quiet
        /\ UNCHANGED <<disk, layout, files, synced>> /\ pc[t] = "walk"
    BY <1>8 DEF Visit, TypeOK, Jobs, world, database
  <2>2. ASSUME disk[p] = Nothing PROVE Round(t)'
    <3>1. Sharp(p) /\ pc'[t] = "walk"
      BY <1>8, <2>2 DEF Visit, Sharp
    <3> QED
      BY <2>1, <3>1, SharpStays DEF AllRounds, Round
  <2>3. ASSUME disk[p] # Nothing PROVE Round(t)'
    <3>1. pc'[t] = "read" /\ tx'[t] = Lookup(p)
      BY <1>8, <2>3 DEF Visit, TypeOK
    <3>2. Matched(t)'
      BY <2>1, <3>1 DEF Matched, Lookup
    <3>3. tx'[t].path = p
      BY <3>1 DEF Lookup
    <3> QED
      BY <2>1, <3>1, <3>2, <3>3, SharpStays DEF AllRounds, Round
  <2>4. Round(t)'
    BY <2>2, <2>3
  <2>5. AllRounds'
    BY <1>8, <2>1, <2>4, RoundGoesOn DEF Visit, TypeOK
  <2> QED
    BY <2>1, <2>5, SharpStays DEF AllSharp
<1>9. ASSUME NEW t \in Scanners, ReadPrune(t) PROVE AllRounds' /\ AllSharp'
  <2>1. /\ UNCHANGED <<disk, layout, files, job, synced>>
        /\ pc'[t] = "prune" /\ pc[t] = "walk" /\ job[t].todo = {}
    BY <1>9 DEF ReadPrune, TypeOK, world, database
  <2>2. Round(t)'
    BY <2>1, SharpStays DEF AllRounds, Round
  <2>3. AllRounds'
    BY <1>9, <2>1, <2>2, RoundGoesOn DEF ReadPrune, TypeOK
  <2> QED
    BY <2>1, <2>3, SharpStays DEF AllSharp
<1>10. ASSUME NEW t \in Scanners, CommitPrune(t) PROVE AllRounds' /\ AllSharp'
  <2>1. \A u \in Scanners : pc'[u] = "idle"
    BY <1>10, HolderIsAlone DEF CommitPrune, EndJob, TypeOK
  <2>2. \A p \in Paths : files'[p] = IF p \in doomed[t].files THEN Nothing ELSE files[p]
    BY <1>10, TimelyDrop DEF CommitPrune, AllFresh, Fresh, TypeOK
  <2>3. disk' = disk /\ layout' = layout /\ synced' = job[t].quiet
    BY <1>10 DEF CommitPrune, EndJob, world
  <2>4. \A p \in Paths : Sharp(p) => Sharp(p)'
    BY <2>2, <2>3 DEF Sharp
  <2>5. AllSharp'
    BY <1>10, <2>3, <2>4 DEF CommitPrune, AllRounds, Round, AllSharp
  <2> QED
    BY <2>1, <2>5 DEF AllRounds, Round
<1>11. ASSUME NEW t \in Threads, SessionFails(t) PROVE AllRounds' /\ AllSharp'
  <2>1. UNCHANGED <<files, disk, layout, synced>>
    BY <1>11 DEF SessionFails, EndJob, world, database
  <2>2. t \in Scanners => ~job'[t].quiet
    BY <1>11 DEF SessionFails, EndJob, NoJob, TypeOK, Jobs
  <2>3. \A u \in Scanners : u # t => job'[u] = job[u] /\ pc'[u] = pc[u] /\ tx'[u] = tx[u]
    BY <1>11 DEF SessionFails, EndJob, TypeOK
  <2>4. AllRounds'
    BY <2>1, <2>2, <2>3, RoundGoesOn DEF Round
  <2> QED
    BY <2>1, <2>4, SharpStays DEF AllSharp
<1>12. CASE Begin
  BY <1>4, <1>5, <1>12 DEF Begin
<1>13. ASSUME NEW t \in Threads, Work(t) PROVE AllRounds' /\ AllSharp'
  BY <1>6, <1>7, <1>8, <1>9, <1>10, <1>13 DEF Work, ScanStep, Holders
<1> QED
  BY <1>1, <1>2, <1>3, <1>11, <1>12, <1>13 DEF Next

(* ... and, unless it stands under another match, each row's fingerprint is  *)
(* the file's, whether the scan skipped, probed or passed it over.           *)
THEOREM ScanPrintsFiles == Spec => []SyncedFingerprint
<1>1. Init => (Removers = {} => AllRounds /\ AllSharp)
  BY DEF Init, AllRounds, Round, NoJob, AllSharp, Threads
<1>2. TypeOK /\ Located /\ TreeOK /\ Mutex /\ (Removers = {} => AllFresh)
          /\ (Removers = {} => AllPatrol /\ Present)
          /\ (Removers = {} => AllRounds /\ AllSharp) /\ [Next]_vars
      => (Removers = {} => AllRounds /\ AllSharp)'
  BY RoundStep
<1>3. (Removers = {} => AllPatrol /\ Present) /\ (Removers = {} => AllRounds /\ AllSharp)
      => SyncedFingerprint
  BY DEF Present, AllSharp, Sharp, SyncedFingerprint
<1> QED
  BY <1>1, <1>2, <1>3, Sound, Tree, MutexHolds, FreshHolds, PatrolHolds, PTL DEF Spec

-----------------------------------------------------------------------------
(* The scan's last session labels every title; only rescans write before the *)
(* next scan begins, and they label every title again.                       *)

Labelled ==
    synced => /\ \A t \in Scanners : pc[t] = "idle"
              /\ \A i \in Titles : items[i] # Nothing => items[i] = Verdict(files, i)

LEMMA LabelledStep ==
    ASSUME Removers = {}, TypeOK, Mutex, Labelled, [Next]_vars
    PROVE  Labelled'
<1> SUFFICES ASSUME synced'
             PROVE  /\ \A t \in Scanners : pc'[t] = "idle"
                    /\ \A i \in Titles : items'[i] # Nothing => items'[i] = Verdict(files', i)
  BY DEF Labelled
<1> Threads = Holders /\ Scanners \subseteq Threads
  BY DEF Threads, Holders
<1>1. ASSUME UNCHANGED database, synced, \A t \in Scanners : pc'[t] = "idle"
      PROVE  \A i \in Titles : items'[i] # Nothing => items'[i] = Verdict(files', i)
  BY <1>1 DEF Labelled, database
<1>2. ASSUME NEW its, NEW fs, items' = Relabelled(its, fs), files' = fs
      PROVE  \A i \in Titles : items'[i] # Nothing => items'[i] = Verdict(files', i)
  BY <1>2 DEF Relabelled
<1>3. CASE World
  BY <1>3 DEF World, ChangeFile, Rematch, Disturbed
<1>4. CASE Crash \/ UNCHANGED vars
  BY <1>1, <1>4 DEF Crash, vars, Labelled
<1>5. ASSUME NEW t \in Scanners, NEW f \in Forces, StartScan(t, f) PROVE FALSE
  BY <1>5 DEF StartScan
<1>6. ASSUME NEW t \in Rescanners, NEW p \in Paths, StartRescan(t, p)
      PROVE  synced /\ UNCHANGED database /\ \A u \in Scanners : pc'[u] = pc[u]
  BY <1>6, Roles DEF StartRescan, TypeOK
<1>7. ASSUME NEW t \in Scanners, CommitPrune(t)
      PROVE  /\ \A u \in Scanners : pc'[u] = "idle"
             /\ \A i \in Titles : items'[i] # Nothing => items'[i] = Verdict(files', i)
  <2>1. \A u \in Scanners : pc'[u] = "idle"
    BY <1>7, HolderIsAlone DEF CommitPrune, EndJob, TypeOK
  <2> QED
    BY <1>2, <1>7, <2>1 DEF CommitPrune
<1>8. ASSUME NEW t \in Scanners, ScanStep(t), ~CommitPrune(t) PROVE FALSE
  <2>1. synced' = synced
    BY <1>8 DEF ScanStep, FileStep, SkipFile, Reprobe, Insert, Probe, Vanished, CommitFile,
                GiveUpFile, FinishFile, Relabel, ReadPrune, Visit
  <2>2. pc[t] # "idle"
    BY <1>8 DEF ScanStep, FileStep, SkipFile, Reprobe, Insert, Probe, Vanished, CommitFile,
                Relabel, ReadPrune, Visit
  <2> QED
    BY <2>1, <2>2 DEF Labelled
<1>9. ASSUME NEW t \in Rescanners, FileStep(t)
      PROVE  /\ \A u \in Scanners : pc'[u] = "idle"
             /\ \A i \in Titles : items'[i] # Nothing => items'[i] = Verdict(files', i)
  <2>1. t \notin Scanners /\ t \in Threads
    BY Roles DEF Threads
  <2>2. synced /\ \A u \in Scanners : pc'[u] = pc[u]
    BY <1>9, <2>1
    DEF FileStep, SkipFile, Reprobe, Insert, Probe, Vanished, CommitFile, GiveUpFile,
        FinishFile, TypeOK
  <2>3. \A u \in Scanners : pc'[u] = "idle"
    BY <2>2 DEF Labelled
  <2>4. CASE Saves(t)
    BY <1>2, <2>1, <2>3, <2>4 DEF Saves
  <2>5. CASE ~Saves(t)
    <3>1. UNCHANGED database
      BY <1>9, <2>5, CommitCases
      DEF FileStep, SkipFile, Reprobe, Insert, Probe, Vanished, GiveUpFile
    <3> QED
      BY <1>1, <2>2, <2>3, <3>1
  <2> QED
    BY <2>4, <2>5
<1>10. ASSUME NEW t \in Threads, SessionFails(t)
       PROVE  /\ \A u \in Scanners : pc'[u] = "idle"
              /\ \A i \in Titles : items'[i] # Nothing => items'[i] = Verdict(files', i)
  <2>1. synced /\ UNCHANGED database
    BY <1>10 DEF SessionFails
  <2>2. \A u \in Scanners : pc'[u] = "idle"
    BY <1>10, <2>1 DEF SessionFails, EndJob, Labelled, TypeOK
  <2> QED
    BY <1>1, <2>1, <2>2
<1>11. CASE Begin
  BY <1>1, <1>5, <1>6, <1>11 DEF Begin, Labelled
<1>12. ASSUME NEW t \in Threads, Work(t)
       PROVE  /\ \A u \in Scanners : pc'[u] = "idle"
              /\ \A i \in Titles : items'[i] # Nothing => items'[i] = Verdict(files', i)
  BY <1>7, <1>8, <1>9, <1>12 DEF Work
<1> QED
  BY <1>3, <1>4, <1>10, <1>11, <1>12 DEF Next, Labelled

(* ... and every title's label is what the classifier makes of its rows.     *)
THEOREM ScanLabelsTitles == Spec => []SyncedLabels
<1>1. Init => (Removers = {} => Labelled)
  BY DEF Init, Labelled
<1>2. TypeOK /\ Mutex /\ (Removers = {} => Labelled) /\ [Next]_vars
      => (Removers = {} => Labelled)'
  BY LabelledStep
<1>3. (Removers = {} => Labelled) => SyncedLabels
  BY DEF Labelled, SyncedLabels
<1> QED
  BY <1>1, <1>2, <1>3, TypeInvariant, MutexHolds, PTL DEF Spec
=============================================================================
