-------------------------- MODULE MigrationsProofs --------------------------
(***************************************************************************)
(* Theorems about Migrations, for any threads in any processes and any     *)
(* number of stops: one thread of a process migrates, and who returned may *)
(* go on.                                                                  *)
(***************************************************************************)
EXTENDS Migrations, TLAPS, SequenceTheorems

USE MigrationsAssumption

(* The invariant is inductive together with the types of what it speaks of.  *)
Typed ==
    /\ pc \in [Threads -> Inside \cup {"calls", "returned", "failed"}]
    /\ migrated \in [Processes -> BOOLEAN]

Excluded == Typed /\ OnlyTheFirstMigrates

LEMMA ProcessType == \A t \in Threads : Process[t] \in Processes
BY DEF Processes

-----------------------------------------------------------------------------
(* What the ways to go on do, whoever takes them.                            *)

LEMMA Stays ==
    ASSUME Excluded, UNCHANGED <<pc, migrated>>
    PROVE  Excluded'
BY DEF Excluded, Typed, OnlyTheFirstMigrates

LEMMA Moves ==
    ASSUME Excluded, NEW t \in Threads, pc[t] \in Inside,
           NEW l \in Inside \cup {"failed"}, Goto(t, l), UNCHANGED migrated
    PROVE  Excluded'
<1>1. Typed'
  BY DEF Excluded, Typed, Goto
<1>2. \A u \in Threads : pc'[u] \in Inside => pc[u] \in Inside
  BY DEF Excluded, Typed, Goto
<1> QED
  BY <1>1, <1>2 DEF Excluded, OnlyTheFirstMigrates

LEMMA Returns ==
    ASSUME Excluded, NEW t \in Threads, pc[t] \in Inside, Return(t)
    PROVE  Excluded'
<1>1. Typed'
  BY ProcessType DEF Excluded, Typed, Return, Goto
<1>2. pc'[t] \notin Inside /\ \A u \in Threads \ {t} : pc'[u] = pc[u]
  BY DEF Excluded, Typed, Return, Goto, Inside, Commands
<1>3. \A u \in Threads : pc'[u] \in Inside => pc[u] \in Inside /\ Process[u] # Process[t]
  BY <1>2 DEF Excluded, OnlyTheFirstMigrates
<1>4. \A u \in Threads : Process[u] # Process[t] => migrated'[Process[u]] = migrated[Process[u]]
  BY ProcessType DEF Excluded, Typed, Return
<1> QED
  BY <1>1, <1>3, <1>4 DEF Excluded, OnlyTheFirstMigrates

LEMMA Enters ==
    ASSUME Excluded, NEW t \in Threads, Enter(t)
    PROVE  Excluded'
<1> DEFINE to == IF migrated[Process[t]] THEN "returned" ELSE "tables"
<1>1. Typed'
  BY DEF Excluded, Typed, Enter, Goto, Inside
<1>2. pc'[t] = to /\ \A u \in Threads \ {t} : pc'[u] = pc[u]
  BY DEF Excluded, Typed, Enter, Goto
<1>3. pc'[t] \in Inside => ~migrated[Process[t]]
  BY <1>2 DEF Inside, Commands
<1>4. migrated' = migrated
  BY DEF Enter
<1>5. \A u \in Threads : Process[u] = Process[t] => pc[u] \notin Inside
  BY DEF Enter, LockFree
<1> QED
  BY <1>1, <1>2, <1>3, <1>4, <1>5 DEF Excluded, OnlyTheFirstMigrates

LEMMA Stops ==
    ASSUME Excluded, NEW p \in Processes, Crash(p)
    PROVE  Excluded'
<1>1. Typed'
  BY DEF Excluded, Typed, Crash
<1>2. \A u \in Threads : pc'[u] \in Inside => pc[u] \in Inside /\ Process[u] # p
  BY DEF Excluded, Typed, Crash, Inside, Commands
<1>3. \A u \in Threads : Process[u] # p => migrated'[Process[u]] = migrated[Process[u]]
  BY ProcessType DEF Excluded, Typed, Crash
<1> QED
  BY <1>1, <1>2, <1>3 DEF Excluded, OnlyTheFirstMigrates

-----------------------------------------------------------------------------
LEMMA StepExcludes ==
    ASSUME Excluded, NEW t \in Threads, Step(t)
    PROVE  Excluded'
<1> USE DEF Inside, Commands
<1>1. CASE Enter(t)
  BY <1>1, Enters
<1>2. CASE ReadTables(t)
  BY <1>2, Moves DEF ReadTables
<1>3. CASE ReadHeads(t)
  <2>1. CASE pc' = pc
    BY <1>3, <2>1, Stays DEF ReadHeads
  <2>2. CASE Goto(t, "failed")
    BY <1>3, <2>2, Moves DEF ReadHeads
  <2> QED
    BY <1>3, <2>1, <2>2 DEF ReadHeads
<1>4. CASE Ddl(t)
  <2>1. CASE pc' = pc
    BY <1>4, <2>1, Stays DEF Ddl
  <2>2. CASE Goto(t, "failed")
    BY <1>4, <2>2, Moves DEF Ddl, Op1
  <2> QED
    BY <1>4, <2>1, <2>2 DEF Ddl, Done1
<1>5. CASE SetVersion(t)
  <2>1. CASE pc' = pc
    BY <1>5, <2>1, Stays DEF SetVersion
  <2>2. CASE Goto(t, "failed")
    BY <1>5, <2>2, Moves DEF SetVersion, Op1
  <2> QED
    BY <1>5, <2>1, <2>2 DEF SetVersion, Done1
<1>6. CASE EndStamp(t)
  BY <1>6, Moves DEF EndStamp
<1>7. CASE EndUpgrade(t)
  BY <1>7, Moves DEF EndUpgrade
<1>8. CASE Check(t)
  <2>1. CASE Return(t)
    BY <1>8, <2>1, Returns DEF Check
  <2>2. CASE MissingColumns # {}
    BY <1>8, <2>2, <2>1, Moves DEF Check
  <2> QED
    BY <1>8, <2>1, <2>2 DEF Check
<1> QED
  BY <1>1, <1>2, <1>3, <1>4, <1>5, <1>6, <1>7, <1>8 DEF Step

LEMMA AlwaysExcluded == Spec => []Excluded
<1>1. Init => Excluded
  BY DEF Init, Excluded, Typed, OnlyTheFirstMigrates, Inside, Commands
<1>2. Excluded /\ [Next]_vars => Excluded'
  <2> SUFFICES ASSUME Excluded, [Next]_vars PROVE Excluded'
    OBVIOUS
  <2>1. ASSUME NEW t \in Threads, Step(t) PROVE Excluded'
    BY <2>1, StepExcludes
  <2>2. ASSUME NEW p \in Processes, Crash(p) PROVE Excluded'
    BY <2>2, Stops
  <2>3. CASE UNCHANGED vars
    BY <2>3, Stays DEF vars
  <2> QED
    BY <2>1, <2>2, <2>3 DEF Next
<1> QED
  BY <1>1, <1>2, PTL DEF Spec

(* In every process one thread at a time is inside Alembic, and none once    *)
(* the schema was brought up to date, however many threads start at once and *)
(* whichever processes stop (db.py:32-39, 121-127).                          *)
THEOREM OneMigrates == Spec => []OnlyTheFirstMigrates
<1>1. Excluded => OnlyTheFirstMigrates
  BY DEF Excluded
<1> QED
  BY <1>1, AlwaysExcluded, PTL

-----------------------------------------------------------------------------
(* The script that Alembic follows *)

LEMMA Ends == Until(0) = 0 /\ Until(1) = 4 /\ Until(2) = 6 /\ Until(3) = 10
BY DEF Until, Revisions, Add, Move

LEMMA Parts ==
    /\ UpTo(1) = {"change_events", "libraries", "tracks"}
    /\ UpTo(Head3) = UpTo(1) \cup Columns \cup {"ix_anilist_id"}
    /\ UpTo(0) = {} /\ UpTo(2) = UpTo(1) \cup {"language_raw"}
    /\ "none" \notin UpTo(Head3)
BY Ends DEF UpTo, Revisions, Add, Move, Columns, Head3

LEMMA OpsType == \A i \in 1..10 : Revisions[i] \in Op
BY Ends, Parts DEF UpTo, Revisions, Add, Move, Columns, Head3, Op

LEMMA Script ==
    /\ Revisions \in Seq(Op) /\ Len(Revisions) = 10
    /\ \A i \in 1..10 : /\ Revisions[i].ddl # "unread" /\ Revisions[i].to \in 0..3
                        /\ Revisions[i].ddl = "none" /\ Revisions[i].from = 0 => i = 4
                        /\ Revisions[i].to = 3 => i = 10
                        /\ Revisions[i].ddl = "none" => Revisions[i].to > 0
<1>1. Revisions = [i \in 1..10 |-> Revisions[i]] /\ Len(Revisions) = 10
  BY DEF Revisions
<1>2. Revisions \in Seq(Op)
  BY <1>1, OpsType, IsASeq
<1> QED
  BY <1>1, <1>2 DEF Revisions, Add, Move

LEMMA NewestIs ==
    ASSUME NEW h, h \subseteq 1..Head3
    PROVE  Newest(h) \in h \cup {0} /\ \A x \in h : x <= Newest(h)
<1>1. \E m \in h \cup {0} : \A x \in h \cup {0} : m >= x
  <2>1. CASE 3 \in h
    BY <2>1 DEF Head3
  <2>2. CASE 3 \notin h /\ 2 \in h
    BY <2>2 DEF Head3
  <2>3. CASE 3 \notin h /\ 2 \notin h /\ 1 \in h
    BY <2>3 DEF Head3
  <2>4. CASE 3 \notin h /\ 2 \notin h /\ 1 \notin h
    BY <2>4 DEF Head3
  <2> QED
    BY <2>1, <2>2, <2>3, <2>4
<1> QED
  BY <1>1 DEF Newest, Max, Head3

(* What remains of the script after its first k operations                   *)
Rest(k) == SubSeq(Revisions, k + 1, 10)

LEMMA RestIs ==
    ASSUME NEW k \in 0..10
    PROVE  /\ Rest(k) \in Seq(Op) /\ Rest(k) # Unread
           /\ k = 10 => Rest(k) = <<>>
           /\ k < 10 => /\ Rest(k) # <<>>
                        /\ Head(Rest(k)) = Revisions[k + 1] /\ Tail(Rest(k)) = Rest(k + 1)
<1>1. Rest(k) \in Seq(Op) /\ Len(Rest(k)) = 10 - k
  <2>1. k + 1 \in Int /\ 10 \in Int /\ \A i \in k + 1 .. 10 : Revisions[i] \in Op
    BY OpsType
  <2> QED
    BY <2>1, SubSeqProperties DEF Rest
<1>2. CASE k = 10
  BY <1>2, SubSeqEmpty DEF Rest, Unread
<1>3. CASE k < 10
  <2>1. k + 1 \in 1..Len(Revisions) /\ 10 \in k + 1 .. Len(Revisions)
    BY <1>3, Script
  <2>2. Head(Rest(k)) = Revisions[k + 1] /\ Tail(Rest(k)) = SubSeq(Revisions, k + 2, 10)
    BY <2>1, Script, HeadTailOfSubSeq DEF Rest
  <2>3. Rest(k) # <<>>
    BY <1>1, <1>3
  <2>4. Head(Unread).ddl = "unread" /\ Revisions[k + 1].ddl # "unread"
    BY <1>3, Script DEF Unread, Add
  <2> QED
    BY <1>1, <1>3, <2>2, <2>3, <2>4 DEF Rest
<1> QED
  BY <1>1, <1>2, <1>3

-----------------------------------------------------------------------------
(* What the database holds bears out what its rows and the threads' commands *)
(* say of it. The columns are looked at before a thread returns; the tables  *)
(* and the index are there because every command started from what was.      *)
Tables == UpTo(1)
Unseen == Tables \cup {"ix_anilist_id"}
There(k) == \A i \in 1..k : Revisions[i].ddl \in Unseen => Revisions[i].ddl \in schema

Stamping(t) == plan[t] = <<>> \/ \E n \in 0..3 : plan[t] = <<Move(n, 1)>>
Upgrading(t) == \E k \in 0..10 : plan[t] = Rest(k) /\ There(k)

Warranted(t) ==
    /\ pc[t] \in {"stamp", "restamp"} => Tables \subseteq schema
    /\ pc[t] \in {"stamp", "restamp"} /\ plan[t] # Unread => table /\ Stamping(t)
    /\ pc[t] \in {"upgrade", "replay"} /\ plan[t] # Unread => table /\ Upgrading(t)
    /\ pc[t] \notin Commands => plan[t] = Unread
    /\ pc[t] \in {"check", "recheck"} => Unseen \subseteq schema
    /\ pc[t] = "returned" => UpTo(Head3) \subseteq schema

DataTyped ==
    /\ start \in Starts /\ schema \subseteq UpTo(Head3) /\ table \in BOOLEAN
    /\ version \subseteq 1..Head3 /\ (version # {} => table)
    /\ plan = [t \in Threads |-> plan[t]] /\ crashes \in 0..MaxCrashes

BorneOut ==
    /\ ~table /\ "libraries" \in schema => Tables \subseteq schema
    /\ version # {} => Tables \subseteq schema
    /\ 3 \in version => "ix_anilist_id" \in schema
    /\ \A p \in Processes : migrated[p] => UpTo(Head3) \subseteq schema

Warrants == DataTyped /\ BorneOut /\ \A t \in Threads : Warranted(t)

LEMMA WarrantsOK == Excluded /\ Warrants => SchemaOK
<1> SUFFICES ASSUME Excluded, Warrants PROVE SchemaOK
  OBVIOUS
<1>1. ASSUME NEW t \in Threads, plan[t] # Unread
      PROVE  plan[t] \in Seq(Op) /\ pc[t] \in Commands
  <2>1. pc[t] \in Commands
    BY <1>1 DEF Warrants, Warranted
  <2>2. CASE Upgrading(t)
    BY <2>1, <2>2, RestIs DEF Upgrading
  <2>3. CASE Stamping(t)
    <3>1. \A n \in 0..3 : Move(n, 1) \in Op
      BY DEF Move, Op, Head3
    <3>2. \A n \in 0..3 : <<Move(n, 1)>> \in Seq(Op)
      BY <3>1
    <3>3. <<>> \in Seq(Op)
      OBVIOUS
    <3> QED
      BY <2>1, <2>3, <3>2, <3>3 DEF Stamping
  <2> QED
    BY <1>1, <2>1, <2>2, <2>3 DEF Warrants, Warranted, Commands
<1>2. TypeOK
  BY <1>1 DEF Warrants, Excluded, Typed, DataTyped, TypeOK
<1> QED
  BY <1>2 DEF Warrants, Warranted, SchemaOK, ReturnedMeansMigrated

-----------------------------------------------------------------------------
(* What one thread does leaves what the others rely on.                      *)

LEMMA More ==
    ASSUME schema \subseteq schema', table => table', NEW t \in Threads, Warranted(t),
           pc'[t] = pc[t], plan'[t] = plan[t]
    PROVE  Warranted(t)'
<1>1. \A k : There(k) => There(k)'
  BY DEF There
<1>2. Upgrading(t) => Upgrading(t)'
  BY <1>1 DEF Upgrading, Rest
<1>3. Stamping(t) => Stamping(t)'
  BY DEF Stamping
<1> QED
  BY <1>2, <1>3 DEF Warranted

LEMMA Alone ==
    ASSUME Excluded, Warrants, NEW t \in Threads, schema \subseteq schema', table => table',
           pc' = pc \/ \E l : pc' = [pc EXCEPT ![t] = l],
           \E q : plan' = [plan EXCEPT ![t] = q]
    PROVE  /\ plan' = [u \in Threads |-> plan'[u]]
           /\ \A u \in Threads \ {t} : Warranted(u)'
<1>1. \A u \in Threads \ {t} : pc'[u] = pc[u] /\ plan'[u] = plan[u]
  BY DEF Excluded, Typed, Warrants, DataTyped
<1>2. plan' = [u \in Threads |-> plan'[u]]
  BY DEF Warrants, DataTyped
<1> QED
  BY <1>1, <1>2, More DEF Warrants

(* A thread that goes on to read the rows anew, or is done.                  *)
LEMMA GoesOn ==
    ASSUME Excluded, Warrants, NEW t \in Threads, NEW l, Goto(t, l),
           UNCHANGED <<start, schema, table, version, migrated, crashes>>,
           l \in {"stamp", "restamp"} => Tables \subseteq schema,
           l \in {"check", "recheck"} => Unseen \subseteq schema,
           l = "returned" => UpTo(Head3) \subseteq schema
    PROVE  Warrants'
<1>1. pc'[t] = l /\ plan'[t] = Unread
  BY DEF Excluded, Typed, Warrants, DataTyped, Goto
<1>2. Warranted(t)'
  BY <1>1 DEF Warranted
<1>3. plan' = [u \in Threads |-> plan'[u]] /\ \A u \in Threads \ {t} : Warranted(u)'
  BY Alone DEF Goto
<1> QED
  BY <1>2, <1>3 DEF Warrants, DataTyped, BorneOut

LEMMA EnterWarrants ==
    ASSUME Excluded, Warrants, NEW t \in Threads, Enter(t) PROVE Warrants'
<1>1. migrated[Process[t]] => UpTo(Head3) \subseteq schema
  BY ProcessType DEF Warrants, BorneOut
<1>2. PICK l : /\ Goto(t, l) /\ l \in {"returned", "tables"}
               /\ l = "returned" => migrated[Process[t]]
  BY DEF Enter
<1> QED
  BY <1>1, <1>2, GoesOn DEF Enter

LEMMA ReadTablesWarrants ==
    ASSUME Excluded, Warrants, NEW t \in Threads, ReadTables(t) PROVE Warrants'
<1>1. PICK l : /\ Goto(t, l) /\ l \in {"stamp", "upgrade"}
               /\ l = "stamp" => "libraries" \in schema /\ ~table
  BY DEF ReadTables
<1> QED
  BY <1>1, GoesOn DEF ReadTables, Warrants, BorneOut

LEMMA ReadHeadsWarrants ==
    ASSUME Excluded, Warrants, NEW t \in Threads, ReadHeads(t) PROVE Warrants'
<1> DEFINE n == Newest(version)
<1>1. CASE Goto(t, "failed") /\ UNCHANGED table
  BY <1>1, GoesOn DEF ReadHeads
<1>2. ASSUME table' = TRUE, pc' = pc,
             plan' = [plan EXCEPT ![t] =
                IF pc[t] \in {"stamp", "restamp"} THEN Stamp(version) ELSE Upgrade(version)]
      PROVE  Warrants'
  <2>1. n \in 0..3 /\ (n > 0 => version # {}) /\ (n = 3 => 3 \in version)
    BY NewestIs DEF Warrants, DataTyped, Head3
  <2>2. CASE pc[t] \in {"stamp", "restamp"}
    <3>1. plan'[t] = Stamp(version)
      BY <1>2, <2>2 DEF Warrants, DataTyped
    <3>2. Stamping(t)'
      BY <2>1, <3>1 DEF Stamping, Stamp
    <3>3. Warranted(t)'
      BY <1>2, <2>2, <3>2 DEF Warranted, Warrants, Commands, ReadHeads
    <3> QED
      BY <1>2, <3>3, Alone DEF Warrants, DataTyped, BorneOut, ReadHeads
  <2>3. CASE pc[t] \notin {"stamp", "restamp"}
    <3>0. Until(n) \in 0..10
      BY <2>1, Ends
    <3>1. plan'[t] = Rest(Until(n))
      BY <1>2, <2>3, Script DEF Warrants, DataTyped, Upgrade, Rest
    <3>2. There(Until(n))
      <4>1. CASE n = 0
        BY <4>1, Ends DEF There
      <4>2. CASE n > 0
        <5>1. Tables \subseteq schema /\ (n = 3 => Unseen \subseteq schema)
          BY <2>1, <4>2 DEF Warrants, BorneOut, Unseen
        <5>2. Until(n) = 4 \/ Until(n) = 6 \/ n = 3
          BY <2>1, <4>2, Ends
        <5>3. \A i \in 1..6 : Revisions[i].ddl # "ix_anilist_id"
          BY DEF Revisions, Add, Move
        <5> QED
          BY <5>1, <5>2, <5>3 DEF There, Unseen
      <4> QED
        BY <2>1, <4>1, <4>2
    <3>3. Upgrading(t)'
      BY <3>0, <3>1, <3>2 DEF Upgrading, There, ReadHeads
    <3>4. Warranted(t)'
      BY <1>2, <2>3, <3>3 DEF Warranted, Warrants, Commands, ReadHeads
    <3> QED
      BY <1>2, <3>4, Alone DEF Warrants, DataTyped, BorneOut, ReadHeads
  <2> QED
    BY <2>2, <2>3
<1> QED
  BY <1>1, <1>2 DEF ReadHeads

(* The next operation of a command is the script's, or a stamp's.            *)
LEMMA Following ==
    ASSUME Warrants, NEW t \in Threads, Op1(t)
    PROVE  /\ table
           /\ \/ /\ pc[t] \in {"stamp", "restamp"} /\ Tables \subseteq schema
                 /\ \E n \in 0..3 : Head(plan[t]) = Move(n, 1)
                 /\ Tail(plan[t]) = <<>>
              \/ /\ pc[t] \in {"upgrade", "replay"}
                 /\ \E k \in 0..9 : /\ There(k) /\ Head(plan[t]) = Revisions[k + 1]
                                    /\ Tail(plan[t]) = Rest(k + 1)
<1>1. plan[t] # Unread /\ plan[t] # <<>> /\ pc[t] \in Commands /\ Warranted(t)
  BY DEF Warrants, Op1
<1>2. CASE pc[t] \in {"stamp", "restamp"}
  <2>1. PICK n \in 0..3 : plan[t] = <<Move(n, 1)>>
    BY <1>1, <1>2 DEF Warranted, Stamping
  <2>2. Head(plan[t]) = Move(n, 1) /\ Tail(plan[t]) = <<>>
    BY <2>1
  <2> QED
    BY <1>1, <1>2, <2>2 DEF Warranted
<1>3. CASE pc[t] \in {"upgrade", "replay"}
  <2>1. PICK k \in 0..10 : plan[t] = Rest(k) /\ There(k)
    BY <1>1, <1>3 DEF Warranted, Upgrading
  <2>2. k \in 0..9
    BY <1>1, <2>1, RestIs
  <2>3. Head(plan[t]) = Revisions[k + 1] /\ Tail(plan[t]) = Rest(k + 1)
    <3>1. k \in 0..10 /\ k < 10
      BY <2>2
    <3>2. Head(Rest(k)) = Revisions[k + 1] /\ Tail(Rest(k)) = Rest(k + 1)
      BY <3>1, RestIs
    <3> QED
      BY <2>1, <3>2
  <2> QED
    BY <1>1, <1>3, <2>1, <2>2, <2>3 DEF Warranted
<1> QED
  BY <1>1, <1>2, <1>3 DEF Commands

LEMMA DdlWarrants ==
    ASSUME Excluded, Warrants, NEW t \in Threads, Ddl(t) PROVE Warrants'
<1> DEFINE s == Head(plan[t]).ddl
<1>1. CASE s \in schema
  BY <1>1, GoesOn DEF Ddl
<1>2. CASE s \notin schema
  <2>1. pc[t] \in {"upgrade", "replay"} /\ table
    BY Following DEF Ddl, Move
  <2>2. PICK k \in 0..9 : /\ There(k) /\ Head(plan[t]) = Revisions[k + 1]
                          /\ Tail(plan[t]) = Rest(k + 1)
    BY <2>1, Following DEF Ddl
  <2>3. schema' = schema \cup {s} /\ plan' = [plan EXCEPT ![t] = Tail(@)] /\ pc' = pc
    BY <1>2 DEF Ddl, Done1
  <2>4. There(k + 1)'
    BY <2>2, <2>3 DEF There
  <2>5. plan'[t] = Rest(k + 1)
    BY <2>2, <2>3 DEF Warrants, DataTyped
  <2>6. Upgrading(t)'
    <3>1. k + 1 \in 0..10
      OBVIOUS
    <3> QED
      BY <2>4, <2>5, <3>1 DEF Upgrading, Rest
  <2>8. Warranted(t)'
    BY <2>1, <2>3, <2>6 DEF Warranted, Commands, Ddl
  <2>7. s \in UpTo(Head3)
    BY <2>2, OpsType DEF Ddl, Op
  <2> QED
    BY <2>1, <2>3, <2>8, <2>7, Alone DEF Warrants, DataTyped, BorneOut, Ddl
<1> QED
  BY <1>1, <1>2

LEMMA SetVersionWarrants ==
    ASSUME Excluded, Warrants, NEW t \in Threads, SetVersion(t) PROVE Warrants'
<1> DEFINE op == Head(plan[t])
<1>1. CASE Goto(t, "failed") /\ UNCHANGED version
  BY <1>1, GoesOn DEF SetVersion
<1>2. ASSUME op.from = 0 \/ op.from \in version, Done1(t),
             version' = (version \ {op.from}) \cup {op.to}
      PROVE  Warrants'
  <2>1. plan'[t] = Tail(plan[t]) /\ pc' = pc /\ UNCHANGED <<schema, table>>
    BY <1>2 DEF Done1, Warrants, DataTyped, SetVersion
  <2>2. /\ Warranted(t)' /\ op.to \in 1..Head3 /\ Tables \subseteq schema
        /\ op.to = 3 => "ix_anilist_id" \in schema
    <3>1. CASE pc[t] \in {"stamp", "restamp"}
      BY <2>1, <3>1, Following DEF SetVersion, Warranted, Stamping, Commands, Move, Head3
    <3>2. CASE pc[t] \in {"upgrade", "replay"}
      <4>1. PICK k \in 0..9 : /\ There(k) /\ op = Revisions[k + 1]
                              /\ Tail(plan[t]) = Rest(k + 1)
        BY <3>2, Following DEF SetVersion
      <4>2. op.ddl = "none" /\ op.to \in 1..Head3
        BY <4>1, Script DEF SetVersion, Head3
      <4>3. There(k + 1)'
        BY <2>1, <4>1, <4>2, Parts DEF There, Unseen, Tables
      <4>4. Warranted(t)'
        <5>1. k + 1 \in 0..10 /\ plan'[t] = Rest(k + 1)
          BY <2>1, <4>1
        <5>2. Upgrading(t)'
          BY <4>3, <5>1 DEF Upgrading, Rest
        <5> QED
          BY <2>1, <3>2, <5>2, Following DEF Warranted, Commands, SetVersion
      <4>5. op.from = 0 => Tables \subseteq schema
        BY <4>1, <4>2, Script, Parts DEF There, Revisions, Add, Move, Unseen, Tables
      <4>6. op.from \in version => Tables \subseteq schema
        BY DEF Warrants, BorneOut
      <4>7. op.to = 3 => "ix_anilist_id" \in schema
        BY <4>1, Script DEF There, Revisions, Add, Move, Unseen
      <4> QED
        BY <1>2, <4>2, <4>4, <4>5, <4>6, <4>7
    <3> QED
      BY <3>1, <3>2, Following DEF SetVersion
  <2>3. plan' = [u \in Threads |-> plan'[u]] /\ \A u \in Threads \ {t} : Warranted(u)'
    BY <1>2, <2>1, Alone DEF Done1
  <2> QED
    BY <1>2, <2>1, <2>2, <2>3, Following DEF Warrants, DataTyped, BorneOut, SetVersion
<1> QED
  BY <1>1, <1>2 DEF SetVersion

LEMMA EndWarrants ==
    ASSUME Excluded, Warrants, NEW t \in Threads, EndStamp(t) \/ EndUpgrade(t) PROVE Warrants'
<1>1. CASE EndStamp(t)
  BY <1>1, GoesOn DEF EndStamp
<1>2. CASE EndUpgrade(t)
  <2>0. plan[t] = <<>> /\ plan[t] # Unread
    BY <1>2 DEF EndUpgrade, Unread
  <2>1. PICK k \in 0..10 : plan[t] = Rest(k) /\ There(k)
    BY <1>2, <2>0 DEF EndUpgrade, Warrants, Warranted, Upgrading
  <2>2. k = 10
    <3>1. k < 10 => Rest(k) # <<>>
      BY RestIs
    <3> QED
      BY <2>0, <2>1, <3>1
  <2>3. Unseen \subseteq schema
    BY <2>1, <2>2, Parts DEF There, Unseen, Tables, Revisions, Add, Move
  <2> QED
    BY <1>2, <2>3, GoesOn DEF EndUpgrade
<1> QED
  BY <1>1, <1>2

LEMMA CheckWarrants ==
    ASSUME Excluded, Warrants, NEW t \in Threads, Check(t) PROVE Warrants'
<1>1. Unseen \subseteq schema
  BY DEF Check, Warrants, Warranted
<1>2. CASE MissingColumns = {} /\ Return(t)
  <2>1. UpTo(Head3) \subseteq schema
    BY <1>1, <1>2, Parts DEF MissingColumns, Unseen, Tables
  <2>2. pc'[t] = "returned" /\ plan'[t] = Unread
    BY <1>2 DEF Excluded, Typed, Warrants, DataTyped, Return, Goto
  <2>3. Warranted(t)'
    BY <1>2, <2>1, <2>2 DEF Warranted, Return, Commands
  <2>4. plan' = [u \in Threads |-> plan'[u]] /\ \A u \in Threads \ {t} : Warranted(u)'
    BY <1>2, Alone DEF Return, Goto
  <2> QED
    BY <1>2, <2>1, <2>3, <2>4 DEF Warrants, DataTyped, BorneOut, Return
<1>3. CASE MissingColumns # {}
  <2>1. PICK l \in {"restamp", "failed"} : Goto(t, l)
    BY <1>3 DEF Check
  <2> QED
    BY <1>1, <1>3, <2>1, GoesOn DEF Check, Unseen
<1> QED
  BY <1>2, <1>3 DEF Check

LEMMA CrashWarrants ==
    ASSUME Excluded, Warrants, NEW p \in Processes, Crash(p) PROVE Warrants'
<1>1. \A t \in Threads : Process[t] # p => pc'[t] = pc[t] /\ plan'[t] = plan[t]
  BY DEF Crash
<1>2. \A t \in Threads : Process[t] = p => pc'[t] = "calls" /\ plan'[t] = Unread
  BY DEF Crash
<1>3. \A t \in Threads : Warranted(t)'
  <2> TAKE t \in Threads
  <2>1. CASE Process[t] # p
    BY <1>1, <2>1, More DEF Crash, Warrants
  <2>2. CASE Process[t] = p
    BY <1>2, <2>2 DEF Warranted
  <2> QED
    BY <2>1, <2>2
<1>4. plan' = [t \in Threads |-> plan'[t]] /\ crashes' \in 0..MaxCrashes
  BY DEF Crash, Warrants, DataTyped
<1>5. \A q \in Processes : migrated'[q] => migrated[q]
  BY DEF Crash, Excluded, Typed
<1> QED
  BY <1>3, <1>4, <1>5 DEF Crash, Warrants, DataTyped, BorneOut

LEMMA InitWarrants == Init => Warrants
<1> SUFFICES ASSUME Init PROVE Warrants
  OBVIOUS
<1> DEFINE Sound == /\ schema \subseteq UpTo(Head3) /\ version \subseteq 1..Head3
                    /\ "libraries" \in schema => Tables \subseteq schema
                    /\ version # {} => Tables \subseteq schema
                    /\ 3 \in version => "ix_anilist_id" \in schema
<1> USE Parts DEF Tables, Head3
<1>1. ASSUME start = "new" PROVE Sound
  <2>1. schema = UpTo(0) /\ version = {}
    BY <1>1 DEF Init
  <2> QED
    BY <2>1
<1>2. ASSUME start = "created" PROVE Sound
  <2>1. schema = UpTo(1) /\ version = {}
    BY <1>2 DEF Init
  <2> QED
    BY <2>1
<1>3. ASSUME start = "first" PROVE Sound
  <2>1. schema = UpTo(1) /\ version = {1}
    BY <1>3 DEF Init
  <2> QED
    BY <2>1
<1>4. ASSUME start = "stamped" PROVE Sound
  <2>1. schema = UpTo(1) /\ version = {2}
    BY <1>4 DEF Init
  <2> QED
    BY <2>1
<1>5. ASSUME start = "second" PROVE Sound
  <2>1. schema = UpTo(2) /\ version = {2}
    BY <1>5 DEF Init
  <2>2. UpTo(2) \subseteq UpTo(Head3) /\ UpTo(1) \subseteq UpTo(2)
    BY DEF Columns
  <2> QED
    BY <2>1, <2>2
<1>6. ASSUME start = "current" PROVE Sound
  <2>1. schema = UpTo(Head3) /\ version = {Head3}
    BY <1>6 DEF Init
  <2> QED
    BY <2>1
<1>7. Sound
  <2>1. start \in States
    BY DEF Init
  <2> HIDE DEF Sound
  <2> QED
    BY <1>1, <1>2, <1>3, <1>4, <1>5, <1>6, <2>1 DEF States
<1>8. \A t \in Threads : Warranted(t)
  BY DEF Init, Warranted, Commands
<1>9. DataTyped /\ BorneOut
  <2>1. table = (version # {})
    BY DEF Init
  <2>2. table \in BOOLEAN /\ (version # {} => table)
    BY <2>1, Zenon
  <2>3. \A p \in Processes : ~migrated[p]
    BY DEF Init
  <2>4. plan = [t \in Threads |-> plan[t]] /\ crashes \in 0..MaxCrashes /\ start \in Starts
    BY DEF Init
  <2>5. DataTyped
    BY <1>7, <2>2, <2>4 DEF DataTyped
  <2>6. BorneOut
    BY <1>7, <2>3 DEF BorneOut
  <2> QED
    BY <2>5, <2>6
<1> QED
  BY <1>8, <1>9 DEF Warrants

(* Plans and version rows fit together, and a thread goes on to read and     *)
(* write only with every table, column and index of the models, whatever     *)
(* the database was, whoever migrates beside it and whichever processes      *)
(* stop (db.py:105-168).                                                     *)
THEOREM SchemaStands == Spec => []SchemaOK
<1>1. Excluded /\ Warrants /\ [Next]_vars => Warrants'
  <2> SUFFICES ASSUME Excluded, Warrants, [Next]_vars PROVE Warrants'
    OBVIOUS
  <2>1. ASSUME NEW t \in Threads, Step(t) PROVE Warrants'
    BY <2>1, EnterWarrants, ReadTablesWarrants, ReadHeadsWarrants, DdlWarrants,
       SetVersionWarrants, EndWarrants, CheckWarrants DEF Step
  <2>2. ASSUME NEW p \in Processes, Crash(p) PROVE Warrants'
    BY <2>2, CrashWarrants
  <2>3. CASE UNCHANGED vars
    <3>1. \A t \in Threads : Warranted(t)'
      BY <2>3, More DEF vars, Warrants
    <3> QED
      BY <2>3, <3>1 DEF vars, Warrants, DataTyped, BorneOut
  <2> QED
    BY <2>1, <2>2, <2>3 DEF Next
<1> QED
  BY <1>1, InitWarrants, WarrantsOK, AlwaysExcluded, PTL DEF Spec
=============================================================================
