------------------------------ MODULE DeepScan -------------------------------
(***************************************************************************)
(* The deep scans: of the scheduler (scanner/scheduler.py) and of          *)
(* POST /api/scan, each of which walks the list of libraries that requests *)
(* change meanwhile (scanner/service.py:793-807, config_store.py:77-123).  *)
(* What the scan of one library does is in Catalog, the enrichment that    *)
(* ends a deep scan in Verdict.                                            *)
(***************************************************************************)
EXTENDS Naturals, Sequences, SequencesExt, FiniteSets

CONSTANTS
    Names,          \* of libraries
    Configured,     \* the lists config.yaml may have at the start
    Runs,           \* who starts deep scans: the scheduler, calls of the API
    MaxScans,       \* bound: deep scans in all
    MaxChanges,     \* bound: changes of the list
    None

Lists == {l \in BoundedSeq(Names, Cardinality(Names)) : IsInjective(l)}

ASSUME DeepScanAssumption ==
    /\ IsFiniteSet(Names) /\ None \notin Names
    /\ Configured \subseteq Lists /\ MaxScans \in Nat /\ MaxChanges \in Nat

VARIABLES
    list,           \* cfg.libraries
    undo,           \* the list before a change that is being saved, or None
    phase,          \* of each run: idle, walks, waits, scans, enriches
    next,           \* [Runs -> the index its iterator is at]
    library,        \* [Runs -> the library it waits for or scans]
    scans,          \* deep scans begun
    edits,          \* changes of the list begun
    scanned,        \* history: the libraries a run scanned, in order
    stayed,         \* history: those configured since it began
    spoilt          \* history: what befell it: "removal" (or one taken back), "failure"

changes == <<list, undo, edits>>
history == <<scanned, stayed, spoilt>>
vars == <<changes, phase, next, library, scans, history>>

TypeOK ==
    /\ list \in Lists /\ undo \in Lists \cup {None}
    /\ phase \in [Runs -> {"idle", "walks", "waits", "scans", "enriches"}]
    /\ next \in [Runs -> 1..(Cardinality(Names) + 1)]
    /\ \A r \in Runs : (library[r] = None) <=> (phase[r] \notin {"waits", "scans"})
    /\ library \in [Runs -> Names \cup {None}]
    /\ scans \in 0..MaxScans /\ edits \in 0..MaxChanges
    /\ scanned \in [Runs -> Seq(Names)] /\ stayed \in [Runs -> SUBSET Names]
    /\ spoilt \in [Runs -> SUBSET {"removal", "failure"}]

Init ==
    /\ list \in Configured /\ undo = None /\ edits = 0
    /\ phase = [r \in Runs |-> "idle"] /\ next = [r \in Runs |-> 1]
    /\ library = [r \in Runs |-> None] /\ scans = 0
    /\ scanned = [r \in Runs |-> <<>>] /\ stayed = [r \in Runs |-> {}]
    /\ spoilt = [r \in Runs |-> {}]

-----------------------------------------------------------------------------
(* config_store: one change at a time, in memory first                       *)

Change(l) ==
    /\ edits < MaxChanges /\ edits' = edits + 1
    /\ undo = None /\ undo' = list /\ list' = l
    /\ stayed' = [r \in Runs |-> IF phase[r] = "idle" THEN stayed[r]
                                 ELSE stayed[r] \cap ToSet(l)]
    /\ spoilt' = [r \in Runs |-> IF Len(l) < Len(list) /\ phase[r] # "idle"
                                 THEN spoilt[r] \cup {"removal"} ELSE spoilt[r]]
    /\ UNCHANGED <<phase, next, library, scans, scanned>>

AddedFirst(n) == <<n>> \o list      \* Mutant: new libraries come first
Added(n) == Append(list, n)

AddLibrary(n) == n \notin ToSet(list) /\ Change(Added(n))
UpdateLibrary(i, n) == n \notin ToSet(list) /\ Change([list EXCEPT ![i] = n])
RemoveLibrary(i) == Change(RemoveAt(list, i))

Persist ==
    /\ undo # None /\ undo' = None
    /\ UNCHANGED <<list, edits, phase, next, library, scans, history>>

(* the file cannot be written: the list is put back, in place                *)
PersistFails ==
    /\ undo # None /\ undo' = None /\ list' = undo
    /\ stayed' = [r \in Runs |-> IF phase[r] = "idle" THEN stayed[r]
                                 ELSE stayed[r] \cap ToSet(undo)]
    /\ spoilt' = [r \in Runs |-> IF Len(undo) > Len(list) /\ phase[r] # "idle"
                                 THEN spoilt[r] \cup {"removal"} ELSE spoilt[r]]
    /\ UNCHANGED <<edits, phase, next, library, scans, scanned>>

-----------------------------------------------------------------------------
(* scan_all *)

Goes(r, p) == phase' = [phase EXCEPT ![r] = p]

(* the scheduler does not start a second run beside one that has not ended   *)
Start(r) ==
    /\ phase[r] = "idle" /\ scans < MaxScans /\ scans' = scans + 1
    /\ Goes(r, "walks") /\ next' = [next EXCEPT ![r] = 1]
    /\ scanned' = [scanned EXCEPT ![r] = <<>>]
    /\ stayed' = [stayed EXCEPT ![r] = ToSet(list)]
    /\ spoilt' = [spoilt EXCEPT ![r] = {}]
    /\ UNCHANGED <<changes, library>>

(* The iterator is an index into the list as it is now.                      *)
Take(r) ==
    /\ phase[r] = "walks" /\ next[r] <= Len(list)
    /\ Goes(r, "waits") /\ library' = [library EXCEPT ![r] = list[next[r]]]
    /\ next' = [next EXCEPT ![r] = @ + 1]
    /\ UNCHANGED <<changes, scans, history>>

LockHeld(n) == \A r \in Runs : library[r] # n   \* Mutant: who waits for it keeps others out
LockFree(n) == \A r \in Runs : phase[r] = "scans" => library[r] # n

Enter(r) ==
    /\ phase[r] = "waits" /\ LockFree(library[r])
    /\ Goes(r, "scans")
    /\ UNCHANGED <<changes, next, library, scans, history>>

ScanEnds(r) ==
    /\ phase[r] = "scans" /\ Goes(r, "walks")
    /\ library' = [library EXCEPT ![r] = None]
    /\ scanned' = [scanned EXCEPT ![r] = Append(@, library[r])]
    /\ UNCHANGED <<changes, next, scans, stayed, spoilt>>

(* a session outside the loop over the files fails, at the beginning or the  *)
(* end: nobody catches it before the scheduler or the request                *)
ScanFails(r) ==
    /\ phase[r] = "scans" /\ Goes(r, "idle")
    /\ library' = [library EXCEPT ![r] = None]
    /\ spoilt' = [spoilt EXCEPT ![r] = @ \cup {"failure"}]
    /\ UNCHANGED <<changes, next, scans, scanned, stayed>>

WalkedShort(r) ==       \* Mutant: off by one, the last is left out
    /\ phase[r] = "walks" /\ next[r] >= Len(list) /\ Goes(r, "enriches")
    /\ UNCHANGED <<changes, next, library, scans, history>>
Walked(r) ==
    /\ phase[r] = "walks" /\ next[r] > Len(list) /\ Goes(r, "enriches")
    /\ UNCHANGED <<changes, next, library, scans, history>>

(* with an answer or an exception, and at once if there are no providers     *)
Enriched(r) ==
    /\ phase[r] = "enriches" /\ Goes(r, "idle")
    /\ scanned' = [scanned EXCEPT ![r] = <<>>] /\ stayed' = [stayed EXCEPT ![r] = {}]
    /\ UNCHANGED <<changes, next, library, scans, spoilt>>

Run(r) == Take(r) \/ Enter(r) \/ ScanEnds(r) \/ ScanFails(r) \/ Walked(r) \/ Enriched(r)

Next ==
    \/ \E n \in Names : AddLibrary(n)
    \/ \E i \in DOMAIN list : RemoveLibrary(i) \/ \E n \in Names : UpdateLibrary(i, n)
    \/ Persist \/ PersistFails
    \/ \E r \in Runs : Start(r) \/ Run(r)

Spec == Init /\ [][Next]_vars
FairSpec ==
    /\ Spec /\ WF_vars(Persist \/ PersistFails)
    /\ \A r \in Runs : WF_vars(Run(r))

-----------------------------------------------------------------------------
(* Properties *)

Ended(r) == phase[r] \in {"enriches", "idle"}

(* A deep scan during which no library was removed and no scan failed has    *)
(* scanned each library that was there all along, whichever were added,      *)
(* renamed, or added in vain meanwhile (service.py:796, config_store.py:82). *)
EachIsScanned ==
    \A r \in Runs : Ended(r) /\ spoilt[r] = {} => stayed[r] \subseteq ToSet(scanned[r])

(* And no such library twice, in the order of the configuration.             *)
Before(m, n) == \E i, j \in DOMAIN list : i < j /\ list[i] = m /\ list[j] = n

OnceAndInOrder ==
    \A r \in Runs : phase[r] # "idle" /\ spoilt[r] = {} =>
        \A i, j \in DOMAIN scanned[r] :
            i < j /\ {scanned[r][i], scanned[r][j]} \subseteq stayed[r]
                => Before(scanned[r][i], scanned[r][j])

(* Two deep scans are never in the same library at once (service.py:48-52).  *)
OneInALibrary ==
    \A r, s \in Runs :
        phase[r] = "scans" /\ phase[s] = "scans" /\ library[r] = library[s] => r = s

(* Runs and the list fit together, no two runs are in one library, and each  *)
(* goes through the list in its order (service.py:48-58, 331, 796).          *)
WalksOK == TypeOK /\ OneInALibrary /\ OnceAndInOrder

(* Neither changes of the list nor another run keep a deep scan from its end *)
(* (scheduler.py:42-46, service.py:331, 793-807).                            *)
DeepScanEnds == \A r \in Runs : phase[r] # "idle" ~> phase[r] = "idle"

(* "the watcher and the cron deep-scan keep it current" (README.md:58-59):   *)
(* the libraries that stay are scanned, whichever are removed meanwhile.     *)
NoneIsPassedOver ==
    \A r \in Runs : Ended(r) /\ "failure" \notin spoilt[r] => stayed[r] \subseteq ToSet(scanned[r])

(* "a mid-scan error can't poison the rest of the run" (service.py:294-295). *)
FailureIsContained ==
    \A r \in Runs : Ended(r) /\ "removal" \notin spoilt[r] =>
        Cardinality(stayed[r] \ ToSet(scanned[r])) <= 1
=============================================================================
