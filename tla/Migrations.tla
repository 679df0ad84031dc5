----------------------------- MODULE Migrations ------------------------------
(***************************************************************************)
(* Bringing the schema up to date: run_migrations() (db.py:105-168) called *)
(* by every thread that starts to scan, in one process or several, on a    *)
(* database an earlier release left behind.  On SQLite a statement of DDL  *)
(* commits by itself and a migration's row in alembic_version comes after  *)
(* it, so a stop in between leaves the one without the other.              *)
(***************************************************************************)
EXTENDS Naturals, FiniteSets, Sequences, FiniteSetsExt

CONSTANTS
    Threads,
    Process,        \* [Threads -> process]
    Starts,         \* what the database may be at the beginning
    MaxCrashes      \* bound: stops of a process

States == {"new", "created", "first", "second", "stamped", "current"}
ASSUME MigrationsAssumption == Starts \subseteq States /\ MaxCrashes \in Nat

VARIABLES
    start,
    schema,         \* the tables, columns and indexes there are
    table,          \* there is an alembic_version
    version,        \* its rows
    pc,             \* where each thread is in run_migrations()
    plan,           \* what is left to do of its Alembic command
    migrated,       \* [process -> the URL is in _migrated_urls]
    crashes

vars == <<start, schema, table, version, pc, plan, migrated, crashes>>

Processes == {Process[t] : t \in Threads}

(* What an Alembic command does: a statement, or a row moved on              *)
Add(s) == [ddl |-> s, from |-> 0, to |-> 0]
Move(a, b) == [ddl |-> "none", from |-> a, to |-> b]

(* The revisions in order, each with its statements and then its row: of the *)
(* initial schema a table before, the sentinel, and a table after; of the    *)
(* third two columns of six and the index.                                   *)
Revisions ==
    << Add("change_events"), Add("libraries"), Add("tracks"), Move(0, 1),
       Add("language_raw"), Move(1, 2),
       Add("anilist_id"), Add("provider_checked_at"), Add("ix_anilist_id"), Move(2, 3) >>
Head3 == 3
Until(n) == IF n = 0 THEN 0 ELSE CHOOSE i \in DOMAIN Revisions : Revisions[i].to = n
UpTo(n) == {Revisions[i].ddl : i \in 1..Until(n)} \ {"none"}

(* The columns of the models that a later revision added                     *)
Columns == {"language_raw", "anilist_id", "provider_checked_at"}

Commands == {"stamp", "upgrade", "restamp", "replay"}
Inside == Commands \cup {"tables", "check", "recheck"}

(* What is left of a command whose thread has yet to read the rows           *)
Unread == <<Add("unread")>>

Op == [ddl : UpTo(Head3) \cup {"none"}, from : 0..Head3, to : 0..Head3]

TypeOK ==
    /\ start \in Starts
    /\ schema \subseteq UpTo(Head3)
    /\ table \in BOOLEAN
    /\ version \subseteq 1..Head3 /\ (version # {} => table)
    /\ \A t \in Threads :
          /\ pc[t] \in Inside \cup {"calls", "returned", "failed"}
          /\ plan[t] = Unread \/ (plan[t] \in Seq(Op) /\ pc[t] \in Commands)
    /\ migrated \in [Processes -> BOOLEAN]
    /\ crashes \in 0..MaxCrashes

Init ==
    /\ start \in Starts
    /\ schema = UpTo(CASE start = "new" -> 0
                       [] start \in {"created", "first", "stamped"} -> 1
                       [] start = "second" -> 2
                       [] start = "current" -> Head3)
    /\ version = CASE start \in {"new", "created"} -> {}
                   [] start = "first" -> {1}
                   [] start \in {"second", "stamped"} -> {2}     \* by 0.0.8: see CHANGELOG
                   [] start = "current" -> {Head3}
    /\ table = (version # {})
    /\ pc = [t \in Threads |-> "calls"] /\ plan = [t \in Threads |-> Unread]
    /\ migrated = [p \in Processes |-> FALSE]
    /\ crashes = 0

-----------------------------------------------------------------------------
Goto(t, label) == pc' = [pc EXCEPT ![t] = label] /\ plan' = [plan EXCEPT ![t] = Unread]

Return(t) ==
    /\ Goto(t, "returned")
    /\ migrated' = [migrated EXCEPT ![Process[t]] = TRUE]
    /\ UNCHANGED <<start, schema, table, version, crashes>>

LockFree(t) == \A u \in Threads : Process[u] = Process[t] => pc[u] \notin Inside

EnterUntested(t) ==     \* Mutant: _migrated_urls is looked at before the lock
    /\ pc[t] = "calls" /\ LockFree(t) /\ Goto(t, "tables")
    /\ UNCHANGED <<start, schema, table, version, migrated, crashes>>

Enter(t) ==
    /\ pc[t] = "calls" /\ LockFree(t)
    /\ Goto(t, IF migrated[Process[t]] THEN "returned" ELSE "tables")
    /\ UNCHANGED <<start, schema, table, version, migrated, crashes>>

(* tables and no alembic_version: stamped as the schema of that time         *)
ReadTables(t) ==
    /\ pc[t] = "tables"
    /\ Goto(t, IF "libraries" \in schema /\ ~table THEN "stamp" ELSE "upgrade")
    /\ UNCHANGED <<start, schema, table, version, migrated, crashes>>

(* Alembic: what brings the rows heads to the target *)
Newest(heads) == Max(heads \cup {0})
Stamp(heads) == IF Newest(heads) = 1 THEN <<>> ELSE <<Move(Newest(heads), 1)>>
Upgrade(heads) == SubSeq(Revisions, Until(Newest(heads)) + 1, Len(Revisions))

(* It reads the rows, and creates the table for them if there are none.      *)
(* What it makes of more rows than one is left open.                         *)
ReadHeads(t) ==
    /\ pc[t] \in Commands /\ plan[t] = Unread
    /\ \/ /\ plan' = [plan EXCEPT ![t] =
                IF pc[t] \in {"stamp", "restamp"} THEN Stamp(version) ELSE Upgrade(version)]
          /\ table' = TRUE /\ UNCHANGED pc
       \/ Cardinality(version) > 1 /\ Goto(t, "failed") /\ UNCHANGED table
    /\ UNCHANGED <<start, schema, version, migrated, crashes>>

Op1(t) == plan[t] # Unread /\ plan[t] # <<>> /\ pc[t] \in Commands
Done1(t) == plan' = [plan EXCEPT ![t] = Tail(@)] /\ UNCHANGED pc

Ddl(t) ==
    /\ Op1(t)
    /\ LET s == Head(plan[t]).ddl
       IN /\ s # "none"
          /\ IF s \in schema THEN Goto(t, "failed") /\ UNCHANGED schema     \* it exists
             ELSE Done1(t) /\ schema' = schema \cup {s}
    /\ UNCHANGED <<start, table, version, migrated, crashes>>

(* with the row comes the data a migration copies: one transaction           *)
SetVersion(t) ==
    /\ Op1(t)
    /\ LET op == Head(plan[t])
       IN /\ op.ddl = "none"
          /\ IF (op.from = 0 \/ op.from \in version) /\ op.to \notin version
             THEN Done1(t) /\ version' = (version \ {op.from}) \cup {op.to}
             ELSE Goto(t, "failed") /\ UNCHANGED version
    /\ UNCHANGED <<start, schema, table, migrated, crashes>>

EndUpgradeTrusting(t) ==    \* Mutant: what Alembic says is not checked
    /\ pc[t] \in {"upgrade", "replay"} /\ plan[t] = <<>>
    /\ Return(t)
EndUpgrade(t) ==
    /\ pc[t] \in {"upgrade", "replay"} /\ plan[t] = <<>>
    /\ Goto(t, IF pc[t] = "upgrade" THEN "check" ELSE "recheck")
    /\ UNCHANGED <<start, schema, table, version, migrated, crashes>>
EndStamp(t) ==
    /\ pc[t] \in {"stamp", "restamp"} /\ plan[t] = <<>>
    /\ Goto(t, IF pc[t] = "stamp" THEN "upgrade" ELSE "replay")
    /\ UNCHANGED <<start, schema, table, version, migrated, crashes>>

MissingColumns == Columns \ schema

Check(t) ==
    /\ pc[t] \in {"check", "recheck"}
    /\ \/ MissingColumns = {} /\ Return(t)
       \/ /\ MissingColumns # {}
          /\ Goto(t, IF pc[t] = "check" THEN "restamp" ELSE "failed")
          /\ UNCHANGED <<start, schema, table, version, migrated, crashes>>

(* the process stops; started again, its threads call as before              *)
Crash(p) ==
    /\ crashes < MaxCrashes /\ crashes' = crashes + 1
    /\ pc' = [t \in Threads |-> IF Process[t] = p THEN "calls" ELSE pc[t]]
    /\ plan' = [t \in Threads |-> IF Process[t] = p THEN Unread ELSE plan[t]]
    /\ migrated' = [migrated EXCEPT ![p] = FALSE]
    /\ UNCHANGED <<start, schema, table, version>>

Step(t) ==
    \/ Enter(t) \/ ReadTables(t) \/ ReadHeads(t) \/ Ddl(t) \/ SetVersion(t)
    \/ EndStamp(t) \/ EndUpgrade(t) \/ Check(t)

Next == (\E t \in Threads : Step(t)) \/ \E p \in Processes : Crash(p)

Spec == Init /\ [][Next]_vars

-----------------------------------------------------------------------------
(* Properties *)

(* A process goes on to read and write only with every column its models     *)
(* have, whatever was there, whoever migrates beside it (db.py:150-168).     *)
ReturnedMeansMigrated ==
    \A t \in Threads : pc[t] = "returned" => UpTo(Head3) \subseteq schema

(* Threads and the version rows fit together, and who returned may go on     *)
(* (db.py:109-168).                                                          *)
SchemaOK == TypeOK /\ ReturnedMeansMigrated

(* One thread of a process at a time is inside Alembic, and none once the    *)
(* schema was brought up to date (db.py:32-39, 121-127).                     *)
OnlyTheFirstMigrates ==
    \A t \in Threads : pc[t] \in Inside =>
        /\ ~migrated[Process[t]]
        /\ \A u \in Threads \ {t} : Process[u] = Process[t] => pc[u] \notin Inside

(* "a database on either starting point converges to the same place"         *)
(* (db.py:117-119): no start is refused, after a stop in the middle either.  *)
Converges == start \in {"new", "created"} => \A t \in Threads : pc[t] # "failed"

(* "A database already left in the broken state by 0.0.8 is now              *)
(* self-repaired automatically on next startup" (CHANGELOG.md:230-231).      *)
Repaired == start = "stamped" => \A t \in Threads : pc[t] # "failed"
=============================================================================
