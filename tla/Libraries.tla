----------------------------- MODULE Libraries ------------------------------
(***************************************************************************)
(* The four places that know which libraries there are: config.yaml, the   *)
(* running configuration (config_store.py), the libraries table and the    *)
(* watcher's paths, under the API's create, update and delete requests,    *)
(* scans, crashes and restarts (api/app.py:76-151, 248-373,                *)
(* scanner/service.py:48-87, 284-373, scanner/watcher.py:136-175).         *)
(***************************************************************************)
EXTENDS Naturals, FiniteSets

CONSTANTS
    Names, Dirs,    \* names and directories of libraries
    Enabled,        \* watcher.enabled
    Requests,       \* bound: API requests at once
    Scanners,       \* bound: scans at once
    MaxRow,         \* bound: ids
    Nothing

Libs == [name : Names, path : Dirs]
Ids == 1..MaxRow

ASSUME LibrariesAssumption ==
    Enabled \in BOOLEAN /\ MaxRow \in Nat /\ Nothing \notin Libs

VARIABLES
    cfg,        \* cfg.libraries
    undo,       \* while a change is being saved: what it would be put back to
    file,       \* the libraries of config.yaml
    db,         \* the rows
    present,    \* the directories that exist
    watched,    \* the watcher's _installed
    pc,         \* the step each request is at
    body,       \* the library it asks for
    id, got,    \* the row it read
    scan,       \* each scan: its library, the id of its row, has that been deleted
    missed,     \* history: the directories left without a watch, see Skipped, Taken, UpdateAdd
    upset,      \* history: a request failed halfway, or met another or an outdated scan
    foreign     \* history: a scan wrote to a row that took its own row's id

lists == <<cfg, undo, file>>
watches == <<watched, missed>>
requests == <<pc, body, id, got>>
vars == <<lists, db, present, watches, requests, scan, upset, foreign>>

Live == {i \in Ids : db[i] # Nothing}
Called(n) == {i \in Live : db[i].name = n}
PathsOf(libs) == {l.path : l \in libs}
NamesOf(libs) == {l.name : l \in libs}

(* config_store's lock is held from the change of the list to its save.      *)
Saving == {"create save", "update save", "delete save"}
Unlocked == \A r \in Requests : pc[r] \notin Saving

(* in the list, and neither about to be taken back nor just taken out        *)
Saved == cfg \cap file

Steps == Saving \cup
    {"idle", "create config", "create row", "create watch", "update config",
     "update add", "update row", "update watch", "delete config", "delete watch"}
Scan == [lib : Libs, id : Ids \cup {0}, orphan : BOOLEAN]

(* No name is configured twice, no two rows have one, and one request at a   *)
(* time changes the list.                                                    *)
TypeOK ==
    /\ cfg \subseteq Libs /\ undo \subseteq Libs /\ file \subseteq Libs
    /\ \A l, m \in cfg : l.name = m.name => l = m
    /\ \A r, s \in Requests : pc[r] \in Saving /\ pc[s] \in Saving => r = s
    /\ db \in [Ids -> Libs \cup {Nothing}]
    /\ \A i, j \in Live : db[i].name = db[j].name => i = j
    /\ present \subseteq Dirs /\ watched \subseteq Dirs /\ missed \subseteq Dirs
    /\ pc \in [Requests -> Steps]
    /\ body \in [Requests -> Libs \cup {Nothing}]
    /\ id \in [Requests -> Ids \cup {0}] /\ got \in [Requests -> Libs \cup {Nothing}]
    /\ scan \in [Scanners -> Scan \cup {Nothing}]
    /\ upset \in BOOLEAN /\ foreign \in BOOLEAN

Idle == [pc |-> [r \in Requests |-> "idle"], none |-> [r \in Requests |-> Nothing]]

Init ==
    /\ cfg = {} /\ undo = {} /\ file = {}
    /\ db = [i \in Ids |-> Nothing]
    /\ present \in SUBSET Dirs /\ watched = {} /\ missed = {}
    /\ pc = Idle.pc /\ body = Idle.none /\ got = Idle.none
    /\ id = [r \in Requests |-> 0]
    /\ scan = [s \in Scanners |-> Nothing]
    /\ upset = FALSE /\ foreign = FALSE

-----------------------------------------------------------------------------
(* get_or_create_library, of one library or of several in one transaction    *)

New(libs) == {l \in libs : Called(l.name) = {}}

(* SQLite's next rowid: the one after the largest                            *)
IsNewId(i) == i - 1 \in {0} \cup Live /\ \A j \in Live : j < i

(* The rows at of libs are theirs by name, or take the ids that come next.   *)
Rows(libs, at) ==
    /\ \A l, m \in libs : at[l] = at[m] => l = m
    /\ \A l \in libs \ New(libs) : at[l] \in Called(l.name)
    /\ \/ New(libs) = {}
       \/ \E i, j \in Ids : IsNewId(i) /\ {at[l] : l \in New(libs)} = i..j

Written(libs, at) ==
    [i \in Ids |-> IF \E l \in libs : at[l] = i THEN CHOOSE l \in libs : at[l] = i ELSE db[i]]

SavesAsFound(libs, at) ==   \* Mutant: a known row keeps its path
    Rows(libs, at) /\ db' = Written(New(libs), at)
Saves(libs, at) == Rows(libs, at) /\ db' = Written(libs, at)

SavesOne(l, i) == Saves({l}, [m \in {l} |-> i])

-----------------------------------------------------------------------------
(* The watcher, and the scan in the background                               *)

(* _install logs and returns, or install_library never calls it              *)
Skipped(p) == ~Enabled \/ p \notin present
Installed(w, p) == IF Skipped(p) THEN w ELSE w \cup {p}
Kept(w, p) == w         \* Mutant: the old path stays watched
Uninstalled(w, p) == w \ {p}

(* the watch of a directory is taken from a library that is configured       *)
Taken(p) == p \in PathsOf(cfg \cup file)

(* _background_scan starts one more thread, if the bound allows              *)
Background(l) ==
    LET free == {s \in Scanners : scan[s] = Nothing}
    IN IF free = {} THEN UNCHANGED scan
       ELSE \E s \in free : scan' = [scan EXCEPT ![s] = [lib |-> l, id |-> 0, orphan |-> FALSE]]

(* a directory is unmounted or deleted, or comes (back)                      *)
Mount(d) ==
    /\ \/ d \in present /\ present' = present \ {d}
       \/ d \notin present /\ present' = present \cup {d}
    /\ UNCHANGED <<lists, db, watches, requests, scan, upset, foreign>>

-----------------------------------------------------------------------------
(* config_store: under its lock the list is changed in place, then written   *)
(* to config.yaml, and put back when that fails                              *)

At(r, step) == pc[r] = step
Goto(r, step) == pc' = [pc EXCEPT ![r] = step]

(* the request ends here                                                     *)
End(r) ==
    /\ Goto(r, "idle")
    /\ body' = [body EXCEPT ![r] = Nothing] /\ got' = [got EXCEPT ![r] = Nothing]
    /\ id' = [id EXCEPT ![r] = 0]

Change(r, libs, step) ==
    /\ cfg' = libs /\ undo' = cfg
    /\ Goto(r, step)
    /\ UNCHANGED <<file, body, id, got>>

Persist(r) ==
    /\ pc[r] \in Saving
    /\ file' = cfg /\ undo' = {}
    /\ Goto(r, CASE At(r, "create save") -> "create row"
                 [] At(r, "update save") -> "update row"
                 [] At(r, "delete save") -> "delete watch")
    /\ UNCHANGED <<cfg, db, present, watches, body, id, got, scan, upset, foreign>>

(* A deletion has purged the row by then.                                    *)
PersistFailed(r) ==
    /\ undo' = {} /\ End(r)
    /\ upset' = (upset \/ (At(r, "delete save") /\ db[id[r]] # got[r]))
    /\ UNCHANGED <<file, db, present, watches, scan, foreign>>

PersistFailsLate(r) ==  \* Mutant: the list in memory is not put back
    pc[r] \in Saving /\ UNCHANGED cfg /\ PersistFailed(r)
PersistFails(r) == pc[r] \in Saving /\ cfg' = undo /\ PersistFailed(r)

-----------------------------------------------------------------------------
(* POST /api/libraries *)

(* The list is read without the lock; a name with another path is a 409.     *)
CreateLibrary(r, l) ==
    /\ At(r, "idle") /\ l.path \in present
    /\ \/ l \in cfg /\ Goto(r, "create row")     \* make sure of the row and the watch
       \/ l.name \notin NamesOf(cfg) /\ Goto(r, "create config")
    /\ body' = [body EXCEPT ![r] = l]
    /\ UNCHANGED <<lists, db, present, watches, id, got, scan, upset, foreign>>

CreateConfig(r) ==
    /\ At(r, "create config") /\ Unlocked
    /\ \/ /\ body[r].name \notin NamesOf(cfg)
          /\ Change(r, cfg \cup {body[r]}, "create save")
       \/ body[r].name \in NamesOf(cfg) /\ End(r) /\ UNCHANGED lists    \* 409
    /\ UNCHANGED <<db, present, watches, scan, upset, foreign>>

CreateRow(r) ==
    /\ At(r, "create row")
    /\ \E i \in Ids : SavesOne(body[r], i)
    /\ Goto(r, "create watch")
    /\ upset' = (upset \/ body[r] \notin Saved)
    /\ UNCHANGED <<lists, present, watches, body, id, got, scan, foreign>>

CreateWatch(r) ==
    LET p == body[r].path
    IN /\ At(r, "create watch")
       /\ watched' = Installed(watched, p)
       /\ missed' = (missed \cup {q \in {p} : Skipped(q)}) \ watched'
       /\ Background(body[r]) /\ End(r)
       /\ upset' = (upset \/ body[r] \notin Saved)
       /\ UNCHANGED <<lists, db, present, foreign>>

-----------------------------------------------------------------------------
(* PUT /api/libraries/{id} *)

UpdateLibrary(r, i, l) ==
    /\ At(r, "idle") /\ i \in Live /\ l.path \in present
    /\ Goto(r, "update config")
    /\ body' = [body EXCEPT ![r] = l]
    /\ id' = [id EXCEPT ![r] = i] /\ got' = [got EXCEPT ![r] = db[i]]
    /\ UNCHANGED <<lists, db, present, watches, scan, upset, foreign>>

(* a name that config.yaml does not have any more is added, not replaced     *)
UpdateConfig(r) ==
    LET others == {l \in cfg : l.name # got[r].name}
    IN /\ At(r, "update config") /\ Unlocked
       /\ \/ /\ others # cfg /\ body[r].name \notin NamesOf(others)
             /\ Change(r, others \cup {body[r]}, "update save")
             /\ upset' = (upset \/ got[r] \notin cfg)
          \/ /\ others # cfg /\ body[r].name \in NamesOf(others)       \* 409
             /\ End(r) /\ UNCHANGED <<lists, upset>>
          \/ /\ others = cfg
             /\ Goto(r, "update add") /\ UNCHANGED <<lists, body, id, got, upset>>
       /\ UNCHANGED <<db, present, watches, scan, foreign>>

(* With its path unchanged it will not be watched again (app.py:344-347).    *)
UpdateAdd(r) ==
    /\ At(r, "update add") /\ Unlocked
    /\ \/ /\ body[r].name \notin NamesOf(cfg)
          /\ Change(r, cfg \cup {body[r]}, "update save")
          /\ missed' = (missed \cup {p \in {body[r].path} : p = got[r].path}) \ watched
       \/ body[r].name \in NamesOf(cfg) /\ End(r) /\ UNCHANGED <<lists, missed>>  \* 409
    /\ UNCHANGED <<db, present, watched, scan, upset, foreign>>

(* the columns that differ from what was read; a row that is gone, or a name *)
(* another row has, fails the commit after config.yaml was written           *)
Changed(r) ==
    LET now == db[id[r]]
    IN [name |-> IF body[r].name # got[r].name THEN body[r].name ELSE now.name,
        path |-> IF body[r].path # got[r].path THEN body[r].path ELSE now.path]

UpdateRow(r) ==
    /\ At(r, "update row")
    /\ IF id[r] \in Live /\ Called(Changed(r).name) \subseteq {id[r]} THEN
          /\ db' = [db EXCEPT ![id[r]] = Changed(r)]
          /\ upset' = (\/ upset
                       \/ db[id[r]] # got[r] \/ body[r] \notin Saved
                       \/ body[r] # got[r] /\ got[r] \in cfg \cup file)
          /\ Goto(r, "update watch") /\ UNCHANGED <<body, id, got>>
       ELSE End(r) /\ upset' = TRUE /\ UNCHANGED db
    /\ UNCHANGED <<lists, present, watches, scan, foreign>>

UpdateWatch(r) ==
    LET old == got[r].path  new == body[r].path
    IN /\ At(r, "update watch")
       /\ IF old = new THEN UNCHANGED <<watches, scan, upset>>
          ELSE /\ watched' = Installed(Uninstalled(watched, old), new)
               /\ missed' = (missed \cup {p \in {old} : Taken(p)}
                                   \cup {p \in {new} : Skipped(p)}) \ watched'
               /\ Background(body[r])
               /\ upset' = (upset \/ body[r] \notin Saved)
       /\ End(r)
       /\ UNCHANGED <<lists, db, present, foreign>>

-----------------------------------------------------------------------------
(* DELETE /api/libraries/{id} *)

DeleteLibrary(r, i, purge) ==
    /\ At(r, "idle") /\ i \in Live
    /\ Goto(r, "delete config")
    /\ id' = [id EXCEPT ![r] = i] /\ got' = [got EXCEPT ![r] = db[i]]
    /\ IF purge THEN
          /\ db' = [db EXCEPT ![i] = Nothing]
          /\ scan' = [s \in Scanners |->
                         IF scan[s] # Nothing /\ scan[s].id = i
                         THEN [scan[s] EXCEPT !.orphan = TRUE] ELSE scan[s]]
       ELSE UNCHANGED <<db, scan>>
    /\ UNCHANGED <<lists, present, watches, body, upset, foreign>>

DeleteConfig(r) ==
    LET mine == {l \in cfg : l.name = got[r].name}
    IN /\ At(r, "delete config") /\ Unlocked
       /\ \/ mine # {} /\ Change(r, cfg \ mine, "delete save")
          \/ /\ mine = {}     \* absent already
             /\ Goto(r, "delete watch") /\ UNCHANGED <<lists, body, id, got>>
       /\ upset' = (upset \/ mine \ {got[r]} # {})
       /\ UNCHANGED <<db, present, watches, scan, foreign>>

DeleteWatch(r) ==
    LET p == got[r].path
    IN /\ At(r, "delete watch")
       /\ watched' = Uninstalled(watched, p)
       /\ missed' = (missed \cup {q \in {p} : Taken(q)}) \ watched'
       /\ End(r)
       /\ UNCHANGED <<lists, db, present, scan, upset, foreign>>

(* the database is locked, the disk full: a request fails between two steps  *)
RequestFails(r) ==
    /\ pc[r] \in {"create row", "update row"}
    /\ End(r) /\ upset' = TRUE
    /\ UNCHANGED <<lists, db, present, watches, scan, foreign>>

-----------------------------------------------------------------------------
(* scan_library, for any reason, with a library it was given some time ago   *)

StartScan(s) ==
    /\ scan[s] = Nothing
    /\ \E l \in cfg : scan' = [scan EXCEPT ![s] = [lib |-> l, id |-> 0, orphan |-> FALSE]]
    /\ UNCHANGED <<lists, db, present, watches, requests, upset, foreign>>

Scanning(s) == scan[s] # Nothing /\ scan[s].id # 0
LockFree(n) == \A s \in Scanners : Scanning(s) => scan[s].lib.name # n

EnterScan(s) ==
    /\ scan[s] # Nothing /\ scan[s].id = 0 /\ LockFree(scan[s].lib.name)
    /\ \E i \in Ids : SavesOne(scan[s].lib, i) /\ scan' = [scan EXCEPT ![s].id = i]
    /\ upset' = (upset \/ scan[s].lib \notin Saved)
    /\ UNCHANGED <<lists, present, watches, requests, foreign>>

(* each file asks for the row by its id, and stops if there is none          *)
ScanFile(s) ==
    /\ Scanning(s) /\ scan[s].id \in Live
    /\ scan[s].orphan /\ foreign' = TRUE
    /\ UNCHANGED <<lists, db, present, watches, requests, scan, upset>>

EndScan(s) ==
    /\ Scanning(s)
    /\ scan' = [scan EXCEPT ![s] = Nothing]
    /\ UNCHANGED <<lists, db, present, watches, requests, upset, foreign>>

-----------------------------------------------------------------------------
(* The process stops and starts: configure() reads config.yaml and gives     *)
(* each library its row, or logs that it could not; the watcher starts.      *)
Reconcile == \E at \in [file -> Ids] : Saves(file, at)

Restart ==
    /\ pc' = Idle.pc /\ body' = Idle.none /\ got' = Idle.none
    /\ id' = [r \in Requests |-> 0]
    /\ scan' = [s \in Scanners |-> Nothing]
    /\ cfg' = file /\ undo' = {}
    /\ missed' = {p \in PathsOf(file) : Skipped(p)}
    /\ watched' = PathsOf(file) \ missed'
    /\ \/ Reconcile /\ upset' = FALSE
       \/ UNCHANGED db /\ upset' = TRUE
    /\ UNCHANGED <<file, present, foreign>>

-----------------------------------------------------------------------------
Request(r) ==
    \/ \E l \in Libs : CreateLibrary(r, l)
    \/ \E i \in Ids, l \in Libs : UpdateLibrary(r, i, l)
    \/ \E i \in Ids, purge \in BOOLEAN : DeleteLibrary(r, i, purge)
    \/ Persist(r) \/ PersistFails(r)
    \/ CreateConfig(r) \/ CreateRow(r) \/ CreateWatch(r)
    \/ UpdateConfig(r) \/ UpdateAdd(r) \/ UpdateRow(r) \/ UpdateWatch(r)
    \/ DeleteConfig(r) \/ DeleteWatch(r)
    \/ RequestFails(r)

Next ==
    \/ \E r \in Requests : Request(r)
    \/ \E s \in Scanners : StartScan(s) \/ EnterScan(s) \/ ScanFile(s) \/ EndScan(s)
    \/ \E d \in Dirs : Mount(d)
    \/ Restart

Spec == Init /\ [][Next]_vars

-----------------------------------------------------------------------------
(* Properties *)

Quiet == \A r \in Requests : pc[r] = "idle"

(* What runs is what a restart would read, and while a change is being saved *)
(* what it would be put back to is: a failed write leaves the list as it     *)
(* was, for every reader (config_store.py:77-123, app.py:282-293).           *)
ListMatchesFile == IF Unlocked THEN cfg = file ELSE undo = file
ListOK == TypeOK /\ ListMatchesFile

(* When no request is under way, and none since the last restart failed      *)
(* halfway or met another or an outdated scan: every configured library has  *)
(* its row, with its path (app.py:86-106, 310, 339-343).                     *)
ConfiguredIsListed == Quiet /\ ~upset => cfg \subseteq {db[i] : i \in Live}

(* Then the watcher watches the directories of the configured libraries, no  *)
(* others, and all but those that it skipped (disabled, or not there at the  *)
(* time), that a PUT configured again without a change of path, or whose     *)
(* watch a request for another row of that directory took away               *)
(* (app.py:312-313, 344-347, 371-372, watcher.py:136-180).                   *)
ConfiguredIsWatched == Quiet /\ ~upset => watched = PathsOf(cfg) \ missed

(* Changes go to config.yaml "and the filesystem watcher picks up the new    *)
(* path immediately" (README.md:11)                                          *)
WatchIsImmediate == Quiet /\ ~upset /\ Enabled => PathsOf(cfg) \cap present \subseteq watched

(* "makes what's configured and what's shown the same thing"                 *)
(* (app.py:95-96)                                                            *)
ConfiguredIsShown == Quiet => NamesOf(cfg) \subseteq {db[i].name : i \in Live}

(* Scans "of the *same* library queue up instead of running concurrently"    *)
(* (service.py:49-50)                                                        *)
OneScanPerLibrary ==
    \A s, t \in Scanners :
        /\ Scanning(s) /\ ~scan[s].orphan /\ Scanning(t) /\ ~scan[t].orphan
        /\ scan[s].id = scan[t].id
        => s = t

(* A scan whose "library row was deleted (e.g. via ?purge=true) mid-scan"    *)
(* (service.py:62) stops, and records its files nowhere else.                *)
NoForeignFiles == ~foreign
=============================================================================
