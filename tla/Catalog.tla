------------------------------ MODULE Catalog -------------------------------
(***************************************************************************)
(* One library's catalogue and everything that writes it: library scans,   *)
(* single-path rescans and the watcher's removals (scanner/service.py),    *)
(* over the disk they look at and the outbox events they record.           *)
(*                                                                         *)
(* A database session is two steps here, as it is in SQLite under          *)
(* SQLAlchemy's autoflush=False: it reads without a lock, and its first    *)
(* INSERT/UPDATE/DELETE takes the single write lock, kept to the commit.   *)
(* Scans and rescans hold the library's lock; removals do not.             *)
(***************************************************************************)
EXTENDS Naturals, FiniteSets

CONSTANTS
    Paths,              \* video files the library may contain
    Titles, Slots,      \* media_items, and seasons (a title and a number)
    SlotTitle,          \* [Slots -> Titles]
    Layouts,            \* what .plexmatch and names may say: sets of [Paths -> Slots]
    Contents,           \* what a file, with its sidecars, may hold
    Digest, Mtime,      \* what fingerprint() reads off a content
    Facts,              \* what probing finds in it
    Classify,           \* the label for a title, from the facts of its files
    Unlabelled,         \* classification_label IS NULL
    Scanners,           \* threads in scan_library
    Rescanners,         \* threads in manual_rescan_path
    Removers,           \* threads in handle_missing_path
    Forces,             \* values of force= that scans are called with
    ReclassifyEvery,    \* _RECLASSIFY_EVERY_N_FILES
    Nothing             \* no file, no row, no thread

Threads == Scanners \cup Rescanners \cup Removers
AllFacts == {Facts[c] : c \in Contents}
Labels == {Classify[S] : S \in SUBSET AllFacts} \cup {Unlabelled}

ASSUME ThreadsAssumption ==
    /\ Scanners \cap Rescanners = {}
    /\ Removers \cap (Scanners \cup Rescanners) = {}
    /\ Nothing \notin Threads \cup Contents \cup Labels \cup Slots \cup Paths
ASSUME LayoutAssumption ==
    SlotTitle \in [Slots -> Titles] /\ Layouts \subseteq [Paths -> Slots]
ASSUME ScanAssumption ==
    Forces \subseteq BOOLEAN /\ ReclassifyEvery \in Nat \ {0}

VARIABLES
    disk,       \* content of every path
    layout,     \* the slot every path matches
    items,      \* media_items: the label of each title that has a row
    seasons,    \* seasons: the slots that have a row
    files,      \* media_files: the row of every path
    told,       \* the content the outbox last announced for a path
    lock,       \* who holds the library's scan lock
    writer,     \* who holds SQLite's write lock
    pc,         \* where each thread is
    job,        \* the scan a thread is running
    tx,         \* what the session of a thread has read and prepared
    doomed      \* what the session of a thread is about to delete

VARIABLES       \* history, read by properties only
    garbled,    \* paths announced twice, or removed without being known
    synced      \* the last scan completed and nothing changed since it began

database == <<items, seasons, files, told, garbled>>
world == <<disk, layout>>
vars == <<world, database, lock, writer, pc, job, tx, doomed, synced>>

(* A row remembers what was probed and what was fingerprinted: two reads of  *)
(* the file, at two moments.                                                 *)
Rows == [slot : Slots, probed : Contents, printed : Contents]
ASSUME RowAssumption == Nothing \notin Rows
Sessions ==
    [path : Paths \cup {Nothing}, slot : Slots \cup {Nothing},
     item : BOOLEAN, season : BOOLEAN,
     old : Rows \cup {Nothing}, probed : Contents \cup {Nothing}]
Jobs ==
    [todo : SUBSET Paths, seen : 0..(ReclassifyEvery - 1), force : BOOLEAN, quiet : BOOLEAN]
Dooms == [files : SUBSET Paths, seasons : SUBSET Slots, items : SUBSET Titles]
Stages == {"idle", "walk", "read", "probe", "commit", "relabel", "prune", "noticed", "remove"}

NoSession ==
    [path |-> Nothing, slot |-> Nothing, item |-> FALSE, season |-> FALSE,
     old |-> Nothing, probed |-> Nothing]
NoDoom == [files |-> {}, seasons |-> {}, items |-> {}]
NoJob == [todo |-> {}, seen |-> 0, force |-> FALSE, quiet |-> FALSE]

TypeOK ==
    /\ disk \in [Paths -> Contents \cup {Nothing}]
    /\ layout \in Layouts
    /\ items \in [Titles -> Labels \cup {Nothing}]
    /\ seasons \subseteq Slots
    /\ files \in [Paths -> Rows \cup {Nothing}]
    /\ told \in [Paths -> Contents \cup {Nothing}]
    /\ garbled \subseteq Paths
    /\ lock \in Scanners \cup Rescanners \cup {Nothing}
    /\ writer \in Threads \cup {Nothing}
    /\ pc \in [Threads -> Stages]
    /\ job \in [Threads -> Jobs]
    /\ tx \in [Threads -> Sessions]
    /\ doomed \in [Threads -> Dooms]
    /\ synced \in BOOLEAN

Init ==
    /\ disk \in [Paths -> Contents \cup {Nothing}]
    /\ layout \in Layouts
    /\ items = [i \in Titles |-> Nothing]
    /\ seasons = {}
    /\ files = [p \in Paths |-> Nothing]
    /\ told = [p \in Paths |-> Nothing]
    /\ garbled = {}
    /\ lock = Nothing
    /\ writer = Nothing
    /\ pc = [t \in Threads |-> "idle"]
    /\ job = [t \in Threads |-> NoJob]
    /\ tx = [t \in Threads |-> NoSession]
    /\ doomed = [t \in Threads |-> NoDoom]
    /\ synced = FALSE

-----------------------------------------------------------------------------
(* The world: files come, go and are rewritten; .plexmatch files are edited. *)

Disturbed ==
    /\ synced' = FALSE
    /\ job' = [t \in Threads |-> [job[t] EXCEPT !.quiet = FALSE]]

ChangeFile(p, c) ==
    /\ disk[p] # c
    /\ disk' = [disk EXCEPT ![p] = c]
    /\ Disturbed
    /\ UNCHANGED <<layout, database, lock, writer, pc, tx, doomed>>

Rematch(m) ==
    /\ layout # m
    /\ layout' = m
    /\ Disturbed
    /\ UNCHANGED <<disk, database, lock, writer, pc, tx, doomed>>

-----------------------------------------------------------------------------
(* Sessions. *)

CanWrite(t) == writer \in {Nothing, t}
Released(t) == IF writer = t THEN Nothing ELSE writer

(* _reclassify_item: the label is recomputed from the stored rows *)
Verdict(fs, i) ==
    Classify[{Facts[fs[p].probed] :
                p \in {q \in Paths : fs[q] # Nothing /\ SlotTitle[fs[q].slot] = i}}]

(* _reclassify_library *)
Relabelled(its, fs) ==
    [i \in Titles |-> IF its[i] = Nothing THEN Nothing ELSE Verdict(fs, i)]

(* Mutant: the failed session is not closed. *)
GiveUpFileOpen(t) ==
    /\ pc' = [pc EXCEPT ![t] = IF t \in Scanners THEN "walk" ELSE "idle"]
    /\ lock' = IF t \in Scanners THEN lock ELSE Nothing
    /\ tx' = [tx EXCEPT ![t] = NoSession]
    /\ UNCHANGED <<world, database, writer, job, doomed, synced>>

(* a failed session rolls back: a scan goes on with the next file, a rescan ends *)
GiveUpFile(t) ==
    /\ writer' = Released(t)
    /\ pc' = [pc EXCEPT ![t] = IF t \in Scanners THEN "walk" ELSE "idle"]
    /\ lock' = IF t \in Scanners THEN lock ELSE Nothing
    /\ tx' = [tx EXCEPT ![t] = NoSession]
    /\ UNCHANGED <<world, database, job, doomed, synced>>

(* after a file's commit, every ReclassifyEvery files seen, all are relabelled *)
FinishFile(t) ==
    /\ writer' = Released(t)
    /\ pc' = [pc EXCEPT ![t] = IF t \notin Scanners THEN "idle"
                                ELSE IF job[t].seen = 0 THEN "relabel" ELSE "walk"]
    /\ lock' = IF t \in Scanners THEN lock ELSE Nothing
    /\ tx' = [tx EXCEPT ![t] = NoSession]
    /\ UNCHANGED <<world, job, doomed, synced>>

EndJob(t) ==
    /\ writer' = Released(t)
    /\ pc' = [pc EXCEPT ![t] = "idle"]
    /\ lock' = IF lock = t THEN Nothing ELSE lock
    /\ job' = [job EXCEPT ![t] = NoJob]
    /\ tx' = [tx EXCEPT ![t] = NoSession]
    /\ doomed' = [doomed EXCEPT ![t] = NoDoom]
    /\ UNCHANGED world

-----------------------------------------------------------------------------
(* scan_library and manual_rescan_path *)

StartScan(t, force) ==
    /\ pc[t] = "idle" /\ lock = Nothing
    /\ lock' = t
    /\ pc' = [pc EXCEPT ![t] = "walk"]
    /\ job' = [job EXCEPT ![t] =
                 [todo |-> Paths, seen |-> 0, force |-> force, quiet |-> TRUE]]
    /\ synced' = FALSE
    /\ UNCHANGED <<world, database, writer, tx, doomed>>

(* _item_record, _season_record and the lookup of the existing row *)
Lookup(p) ==
    LET s == layout[p]
    IN  [path |-> p, slot |-> s,
         item |-> items[SlotTitle[s]] # Nothing,
         season |-> s \in seasons,
         old |-> IF files[p] # Nothing /\ files[p].slot = s THEN files[p] ELSE Nothing,
         probed |-> Nothing]

(* iter_video_files passes the place of p: it yields p if p is there *)
Visit(t, p) ==
    /\ pc[t] = "walk"
    /\ p \in job[t].todo
    /\ IF disk[p] = Nothing
       THEN /\ job' = [job EXCEPT ![t].todo = @ \ {p}]
            /\ UNCHANGED <<pc, tx>>
       ELSE /\ job' = [job EXCEPT ![t].todo = @ \ {p},
                                   ![t].seen = (@ + 1) % ReclassifyEvery]
            /\ pc' = [pc EXCEPT ![t] = "read"]
            /\ tx' = [tx EXCEPT ![t] = Lookup(p)]
    /\ UNCHANGED <<world, database, lock, writer, doomed, synced>>

(* Mutant: a rescan does not wait for the library's lock. *)
StartRescanUnlocked(t, p) ==
    /\ pc[t] = "idle"
    /\ pc' = [pc EXCEPT ![t] = "read"]
    /\ tx' = [tx EXCEPT ![t] = Lookup(p)]
    /\ UNCHANGED <<world, database, lock, writer, job, doomed, synced>>

(* manual_rescan_path is a forced _process_file *)
StartRescan(t, p) ==
    /\ pc[t] = "idle" /\ lock = Nothing
    /\ lock' = t
    /\ pc' = [pc EXCEPT ![t] = "read"]
    /\ tx' = [tx EXCEPT ![t] = Lookup(p)]
    /\ UNCHANGED <<world, database, writer, job, doomed, synced>>

Forced(t) == t \in Rescanners \/ job[t].force

(* Mutant: the mtime is not compared. *)
SameDigest(c, row) == Digest[c] = Digest[row.printed]

(* existing.fingerprint == digest and existing.mtime == mtime *)
SameFile(c, row) ==
    Digest[c] = Digest[row.printed] /\ Mtime[c] = Mtime[row.printed]

(* an UPDATE finds its row *)
StillThere(t) ==
    files[tx[t].path] # Nothing /\ files[tx[t].path].slot = tx[t].slot

(* "files_unchanged": only last_seen is written *)
SkipFile(t) ==
    /\ pc[t] = "read"
    /\ tx[t].old # Nothing /\ ~Forced(t)
    /\ disk[tx[t].path] # Nothing /\ SameFile(disk[tx[t].path], tx[t].old)
    /\ CanWrite(t)
    /\ IF StillThere(t)
       THEN FinishFile(t) /\ UNCHANGED database
       ELSE GiveUpFile(t)

(* the known file changed, or force: on to the probe, writing nothing yet *)
Reprobe(t) ==
    /\ pc[t] = "read"
    /\ tx[t].old # Nothing
    /\ Forced(t) \/ (disk[tx[t].path] # Nothing /\ ~SameFile(disk[tx[t].path], tx[t].old))
    /\ pc' = [pc EXCEPT ![t] = "probe"]
    /\ UNCHANGED <<world, database, lock, writer, job, tx, doomed, synced>>

(* foreign keys, and UNIQUE(media_files.path) *)
Insertable(t) ==
    /\ tx[t].item => items[SlotTitle[tx[t].slot]] # Nothing
    /\ tx[t].season => tx[t].slot \in seasons
    /\ files[tx[t].path] = Nothing

(* a new row, with its title and season if they are new: flushed before the  *)
(* probe, so the write lock is held from here to the commit                  *)
Insert(t) ==
    /\ pc[t] = "read"
    /\ tx[t].old = Nothing
    /\ CanWrite(t)
    /\ IF Insertable(t)
       THEN /\ writer' = t
            /\ pc' = [pc EXCEPT ![t] = "probe"]
            /\ UNCHANGED <<world, database, lock, job, tx, doomed, synced>>
       ELSE GiveUpFile(t)

(* probe_file *)
Probe(t) ==
    /\ pc[t] = "probe"
    /\ disk[tx[t].path] # Nothing
    /\ tx' = [tx EXCEPT ![t].probed = disk[tx[t].path]]
    /\ pc' = [pc EXCEPT ![t] = "commit"]
    /\ UNCHANGED <<world, database, lock, writer, job, doomed, synced>>

(* fingerprint, probe or stat of a file that is gone *)
Vanished(t) ==
    /\ pc[t] \in {"read", "probe", "commit"}
    /\ pc[t] = "read" => tx[t].old # Nothing /\ ~Forced(t)
    /\ disk[tx[t].path] = Nothing
    /\ GiveUpFile(t)

(* _has_meaningful_change *)
Meaningful(old, new) ==
    Digest[old.printed] # Digest[new.printed] /\ Facts[old.probed] # Facts[new.probed]

(* file.added, file.changed or no event *)
Announce(p, old, new) ==
    /\ told' = IF old = Nothing \/ Meaningful(old, new)
               THEN [told EXCEPT ![p] = new.probed] ELSE told
    /\ garbled' = IF old = Nothing /\ told[p] # Nothing THEN garbled \cup {p} ELSE garbled

(* Mutant: a file that cannot be read any more is fingerprinted as nothing. *)
FingerprintsAnything(p) == TRUE

(* fingerprint() reads and stats the file, or raises *)
Fingerprints(p) == disk[p] # Nothing

(* the rest of _process_file: fingerprint, event and commit; a rescan also   *)
(* reclassifies the library in the same session                              *)
CommitFile(t) ==
    LET p == tx[t].path
        i == SlotTitle[tx[t].slot]
        new == [slot |-> tx[t].slot, probed |-> tx[t].probed, printed |-> disk[p]]
        fs == [files EXCEPT ![p] = new]
        its == [items EXCEPT ![i] = IF @ = Nothing THEN Unlabelled ELSE @]
    IN  /\ pc[t] = "commit"
        /\ Fingerprints(p)
        /\ CanWrite(t)
        /\ IF tx[t].old # Nothing /\ ~StillThere(t)
           THEN GiveUpFile(t)
           ELSE /\ files' = fs
                /\ seasons' = seasons \cup {tx[t].slot}
                /\ items' = IF t \in Scanners THEN its ELSE Relabelled(its, fs)
                /\ Announce(p, tx[t].old, new)
                /\ FinishFile(t)

(* the periodic _reclassify_library of a scan *)
Relabel(t) ==
    /\ pc[t] = "relabel"
    /\ CanWrite(t)
    /\ items' = Relabelled(items, files)
    /\ pc' = [pc EXCEPT ![t] = "walk"]
    /\ UNCHANGED <<world, seasons, files, told, garbled, lock, writer, job, tx,
                   doomed, synced>>

-----------------------------------------------------------------------------
(* Deletion: what a session that drops `gone` will delete, judged by the     *)
(* rows it has read (_remove_file, _cleanup_empty).                          *)

RowsOf(s) == {p \in Paths : files[p] # Nothing /\ files[p].slot = s}

(* Mutant: an emptied title is kept. *)
DoomSeasonsOnly(gone, scope) ==
    [files |-> gone,
     seasons |-> {s \in seasons : SlotTitle[s] \in scope /\ RowsOf(s) \subseteq gone},
     items |-> {}]

Doom(gone, scope) ==
    LET empty == {s \in seasons : SlotTitle[s] \in scope /\ RowsOf(s) \subseteq gone}
    IN  [files |-> gone,
         seasons |-> empty,
         items |-> {i \in scope : items[i] # Nothing
                                  /\ \A s \in seasons : SlotTitle[s] = i => s \in empty}]

(* Mutant: PRAGMA foreign_keys is off, nothing cascades. *)
DropUncascaded(d) ==
    /\ files' = [p \in Paths |-> IF p \in d.files THEN Nothing ELSE files[p]]
    /\ seasons' = seasons \ d.seasons
    /\ told' = [p \in Paths |-> IF p \in d.files THEN Nothing ELSE told[p]]
    /\ garbled' = garbled \cup {p \in d.files : told[p] = Nothing}

(* The DELETEs run against the rows as they are by then, and cascade.        *)
Drop(d) ==
    LET dead == d.seasons \cup {s \in Slots : SlotTitle[s] \in d.items}
    IN  /\ files' = [p \in Paths |->
                       IF p \in d.files THEN Nothing
                       ELSE IF files[p] # Nothing /\ files[p].slot \in dead THEN Nothing
                       ELSE files[p]]
        /\ seasons' = seasons \ dead
        /\ told' = [p \in Paths |-> IF p \in d.files THEN Nothing ELSE told[p]]
        /\ garbled' = garbled \cup {p \in d.files : told[p] = Nothing}

Survivors(d) == [i \in Titles |-> IF i \in d.items THEN Nothing ELSE items[i]]

(* Mutant: a library whose files are all gone is not pruned. *)
ReadPruneCautious(t) ==
    /\ pc[t] = "walk"
    /\ job[t].todo = {}
    /\ doomed' = [doomed EXCEPT ![t] =
                    Doom(IF \A p \in Paths : disk[p] = Nothing THEN {}
                         ELSE {p \in Paths : files[p] # Nothing /\ disk[p] = Nothing}, Titles)]
    /\ pc' = [pc EXCEPT ![t] = "prune"]
    /\ UNCHANGED <<world, database, lock, writer, job, tx, synced>>

(* the last session of a scan looks for rows whose file is gone *)
ReadPrune(t) ==
    /\ pc[t] = "walk"
    /\ job[t].todo = {}
    /\ doomed' = [doomed EXCEPT ![t] =
                    Doom({p \in Paths : files[p] # Nothing /\ disk[p] = Nothing}, Titles)]
    /\ pc' = [pc EXCEPT ![t] = "prune"]
    /\ UNCHANGED <<world, database, lock, writer, job, tx, synced>>

(* Mutant: the prune does not end with a reclassification. *)
CommitPruneUnlabelled(t) ==
    /\ pc[t] = "prune"
    /\ CanWrite(t)
    /\ Drop(doomed[t])
    /\ items' = Survivors(doomed[t])
    /\ synced' = job[t].quiet
    /\ EndJob(t)

(* ... deletes them and reclassifies library.items, which still lists the    *)
(* titles it has just deleted                                                *)
CommitPrune(t) ==
    /\ pc[t] = "prune"
    /\ CanWrite(t)
    /\ Drop(doomed[t])
    /\ items' = Relabelled(Survivors(doomed[t]), files')
    /\ synced' = job[t].quiet
    /\ EndJob(t)

-----------------------------------------------------------------------------
(* handle_missing_path, called by the watcher for a path it found missing *)

Notice(t, p) ==
    /\ pc[t] = "idle"
    /\ disk[p] = Nothing
    /\ pc' = [pc EXCEPT ![t] = "noticed"]
    /\ tx' = [tx EXCEPT ![t].path = p]
    /\ UNCHANGED <<world, database, lock, writer, job, doomed, synced>>

ReadMissing(t) ==
    /\ pc[t] = "noticed"
    /\ files[tx[t].path] # Nothing
    /\ doomed' = [doomed EXCEPT ![t] =
                    Doom({tx[t].path}, {SlotTitle[files[tx[t].path].slot]})]
    /\ pc' = [pc EXCEPT ![t] = "remove"]
    /\ UNCHANGED <<world, database, lock, writer, job, tx, synced>>

NothingMissing(t) ==
    /\ pc[t] = "noticed"
    /\ files[tx[t].path] = Nothing
    /\ EndJob(t)
    /\ UNCHANGED <<database, synced>>

CommitMissing(t) ==
    /\ pc[t] = "remove"
    /\ CanWrite(t)
    /\ Drop(doomed[t])
    /\ items' = Survivors(doomed[t])
    /\ UNCHANGED synced
    /\ EndJob(t)

-----------------------------------------------------------------------------
(* Failures *)

(* A session fails for a reason of its own: ffprobe, the disk, or 30 seconds *)
(* of waiting for the write lock. Past the walk, that ends the scan.         *)
SessionFails(t) ==
    /\ pc[t] \in {"read", "probe", "commit", "relabel", "prune", "noticed", "remove"}
    /\ IF pc[t] \in {"read", "probe", "commit"} /\ t \in Scanners
       THEN /\ job' = [job EXCEPT ![t].quiet = FALSE]
            /\ writer' = Released(t)
            /\ pc' = [pc EXCEPT ![t] = "walk"]
            /\ tx' = [tx EXCEPT ![t] = NoSession]
            /\ UNCHANGED <<world, lock, doomed>>
       ELSE EndJob(t)
    /\ UNCHANGED <<database, synced>>

Crash ==
    /\ lock' = Nothing
    /\ writer' = Nothing
    /\ pc' = [t \in Threads |-> "idle"]
    /\ job' = [t \in Threads |-> NoJob]
    /\ tx' = [t \in Threads |-> NoSession]
    /\ doomed' = [t \in Threads |-> NoDoom]
    /\ UNCHANGED <<world, database, synced>>

-----------------------------------------------------------------------------
FileStep(t) ==
    SkipFile(t) \/ Reprobe(t) \/ Insert(t) \/ Probe(t) \/ Vanished(t) \/ CommitFile(t)

ScanStep(t) ==
    FileStep(t) \/ Relabel(t) \/ ReadPrune(t) \/ CommitPrune(t) \/ \E p \in Paths : Visit(t, p)

RemoveStep(t) == ReadMissing(t) \/ NothingMissing(t) \/ CommitMissing(t)

(* what a thread does next once it has begun *)
Work(t) ==
    \/ t \in Scanners /\ ScanStep(t)
    \/ t \in Rescanners /\ FileStep(t)
    \/ t \in Removers /\ RemoveStep(t)

Begin ==
    \/ \E t \in Scanners, f \in Forces : StartScan(t, f)
    \/ \E t \in Rescanners, p \in Paths : StartRescan(t, p)
    \/ \E t \in Removers, p \in Paths : Notice(t, p)

World ==
    \/ \E p \in Paths, c \in Contents \cup {Nothing} : ChangeFile(p, c)
    \/ \E m \in Layouts : Rematch(m)

Next ==
    \/ World \/ Begin \/ Crash
    \/ \E t \in Threads : Work(t) \/ SessionFails(t)

Spec == Init /\ [][Next]_vars

FairSpec == Spec /\ \A t \in Threads : WF_vars(Work(t))

-----------------------------------------------------------------------------
(* Properties *)

(* Foreign keys as the program relies on them: a file row has its season,    *)
(* a season its title, whatever sessions raced (models.py:104,118).          *)
TreeOK ==
    /\ \A p \in Paths : files[p] # Nothing => files[p].slot \in seasons
    /\ \A s \in seasons : items[SlotTitle[s]] # Nothing

(* Nothing empty is left behind: every season has a file and every title a   *)
(* season, provided all deletions happen under the library's lock            *)
(* (service.py:515-520).                                                     *)
NoHollowTitles ==
    Removers = {} =>
        /\ \A s \in seasons : RowsOf(s) # {}
        /\ \A i \in Titles : items[i] # Nothing => \E s \in seasons : SlotTitle[s] = i

(* The outbox tells the same story as the catalogue: a consumer that applies *)
(* file.added and file.removed in order knows exactly the paths that have a  *)
(* row, and is never told twice (service.py:448-474, 498-512).               *)
LedgerMatches ==
    /\ garbled = {}
    /\ \A p \in Paths : told[p] = Nothing <=> files[p] = Nothing

LedgerMatchesCatalog == Removers = {} => LedgerMatches

(* A scan of a library in which nothing changed since it began leaves rows   *)
(* for exactly the files there are (service.py:335-372).                     *)
SyncedPresence ==
    synced /\ Removers = {} => \A p \in Paths : files[p] = Nothing <=> disk[p] = Nothing

(* ... fingerprinted as they are, unless the row still stands under another  *)
(* match than the file's (service.py:412-421, 225-230).                      *)
SyncedFingerprint ==
    synced /\ Removers = {} =>
        \A p \in Paths : files[p] # Nothing /\ files[p].slot = layout[p] =>
            /\ Digest[files[p].printed] = Digest[disk[p]]
            /\ Mtime[files[p].printed] = Mtime[disk[p]]

(* ... and every title labelled by what its rows say (service.py:366-372).   *)
SyncedLabels ==
    synced /\ Removers = {} =>
        \A i \in Titles : items[i] # Nothing => items[i] = Verdict(files, i)

(* Nobody keeps a lock: a scan or rescan gives the library up, and a session *)
(* that began to write finishes, so that no thread waits for ever.           *)
LocksAreReleased ==
    \A t \in Threads : t \in {lock, writer} ~> t \notin {lock, writer}

(* README.md:17, re-scans "skip unchanged work and detect Arr upgrades":     *)
(* after an undisturbed scan the catalogue describes the files that are      *)
(* there. The row's fingerprint is taken after the probe, of whatever file   *)
(* is there by then (service.py:435, 225).                                   *)
SyncedFacts ==
    synced =>
        \A p \in Paths : files[p] # Nothing /\ disk[p] # Nothing =>
            Facts[files[p].probed] = Facts[disk[p]]
=============================================================================
