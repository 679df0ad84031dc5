--------------------------- MODULE LibrariesProofs --------------------------
(***************************************************************************)
(* Theorems about Libraries, for any names and directories and any number  *)
(* of requests and scans: config.yaml is what runs, and between requests   *)
(* the rows and the watcher follow it.                                     *)
(***************************************************************************)
EXTENDS Libraries, TLAPS

USE LibrariesAssumption

Put == {"create save", "create row", "create watch"}
Edit == {"update save", "update row", "update watch"}
Delete == {"delete config", "delete save", "delete watch"}

(* What a request at a step knows.                                           *)
Knows(r) ==
    /\ pc[r] \in Put \cup {"create config"} => body[r] \in Libs
    /\ pc[r] \in Edit \cup {"update config", "update add"} =>
          body[r] \in Libs /\ got[r] \in Libs /\ id[r] \in Ids
    /\ pc[r] \in Delete => got[r] \in Libs /\ id[r] \in Ids

Unique(libs) == \A l, m \in libs : l.name = m.name => l = m
Mutex == \A r, s \in Requests : pc[r] \in Saving /\ pc[s] \in Saving => r = s
Dropped(r) == pc[r] = "delete save" => got[r] \notin cfg

RequestsTyped ==
    /\ pc \in [Requests -> Steps]
    /\ body \in [Requests -> Libs \cup {Nothing}]
    /\ id \in [Requests -> Ids \cup {0}] /\ got \in [Requests -> Libs \cup {Nothing}]
ConfigTyped ==
    /\ cfg \subseteq Libs /\ undo \subseteq Libs /\ file \subseteq Libs
    /\ Unique(cfg) /\ Unique(file) /\ Mutex
    /\ Unlocked => cfg = file
    /\ ~Unlocked => undo = file
    /\ \A r \in Requests : Dropped(r)
RowsTyped ==
    /\ db \in [Ids -> Libs \cup {Nothing}]
    /\ \A i, j \in Live : db[i].name = db[j].name => i = j
WatchesTyped ==
    /\ present \subseteq Dirs /\ watched \subseteq Dirs /\ missed \subseteq Dirs
    /\ \A p \in watched : p \notin missed
OthersTyped ==
    scan \in [Scanners -> Scan \cup {Nothing}] /\ upset \in BOOLEAN /\ foreign \in BOOLEAN

Typed ==
    /\ RequestsTyped /\ ConfigTyped /\ RowsTyped /\ WatchesTyped /\ OthersTyped
    /\ \A r \in Requests : Knows(r)

-----------------------------------------------------------------------------
(* get_or_create_library *)

LEMMA SavesIs ==
    ASSUME RowsTyped, NEW libs \in SUBSET Libs, NEW at \in [libs -> Ids], Saves(libs, at),
           \A l, m \in libs : l.name = m.name => l = m
    PROVE  /\ db' \in [Ids -> Libs \cup {Nothing}]
           /\ \A l \in libs : at[l] \in Live' /\ db'[at[l]] = l
           /\ \A i \in Live : i \in Live' /\ (db'[i] = db[i]
                  \/ \E l \in libs : l.name = db[i].name /\ db'[i] = l)
           /\ \A i, j \in Live' : db'[i].name = db'[j].name => i = j
<1>1. db' = [i \in Ids |-> IF \E l \in libs : at[l] = i
                            THEN CHOOSE l \in libs : at[l] = i ELSE db[i]]
  BY DEF Saves, Written
<1>2. Rows(libs, at)
  BY DEF Saves
<1>3. db \in [Ids -> Libs \cup {Nothing}]
  BY DEF RowsTyped
<1>4. \A l \in libs : db'[at[l]] = l
  <2> TAKE l \in libs
  <2>1. db'[at[l]] = CHOOSE m \in libs : at[m] = at[l]
    BY <1>1
  <2>2. \A m \in libs : at[m] = at[l] => m = l
    BY <1>2 DEF Rows
  <2> QED
    BY <2>1, <2>2
<1>5. \A i \in Ids : (\A l \in libs : at[l] # i) => db'[i] = db[i]
  BY <1>1
<1>6. db' \in [Ids -> Libs \cup {Nothing}]
  <2>1. \A i \in Ids : db'[i] \in Libs \cup {Nothing}
    BY <1>3, <1>4, <1>5
  <2>2. db' = [i \in Ids |-> db'[i]]
    BY <1>1
  <2> QED
    BY <2>1, <2>2
<1>7. \A l \in New(libs) : \A j \in Live : j < at[l]
  <2> SUFFICES ASSUME NEW l \in New(libs), NEW j \in Live PROVE j < at[l]
    OBVIOUS
  <2>1. PICK a \in Ids : \E b \in Ids : IsNewId(a) /\ {at[m] : m \in New(libs)} = a..b
    BY <1>2 DEF Rows
  <2>2. PICK b \in Ids : IsNewId(a) /\ {at[m] : m \in New(libs)} = a..b
    BY <2>1
  <2>3. at[l] \in a..b
    BY <2>2
  <2>4. j < a /\ j \in Ids
    BY <2>2 DEF IsNewId, Live
  <2> QED
    BY <2>3, <2>4 DEF Ids
<1>8. \A l \in libs : at[l] \in Live'
  BY <1>4 DEF Live
<1>9. \A i \in Live' : (\E l \in libs : at[l] = i /\ db'[i] = l)
                        \/ (i \in Live /\ db'[i] = db[i] /\ \A l \in libs : at[l] # i)
  BY <1>4, <1>5 DEF Live
<1>10. \A l \in libs : at[l] \in Live => db[at[l]].name = l.name
  <2> SUFFICES ASSUME NEW l \in libs, at[l] \in Live PROVE db[at[l]].name = l.name
    OBVIOUS
  <2>1. l \notin New(libs)
    BY <1>7 DEF Ids
  <2> QED
    BY <1>2, <2>1 DEF Rows, Called
<1>11. ASSUME NEW i \in Live
       PROVE  i \in Live' /\ (db'[i] = db[i]
                  \/ \E l \in libs : l.name = db[i].name /\ db'[i] = l)
  <2>1. i \in Ids
    BY DEF Live
  <2>2. CASE \A l \in libs : at[l] # i
    BY <1>5, <2>1, <2>2 DEF Live
  <2>3. ASSUME NEW l \in libs, at[l] = i
        PROVE  i \in Live' /\ l.name = db[i].name /\ db'[i] = l
    BY <1>4, <1>8, <1>10, <2>3
  <2> QED
    BY <2>2, <2>3
<1>12. ASSUME NEW l \in libs, NEW j \in Live, db[j].name = l.name
       PROVE  j = at[l]
  <2>1. j \in Called(l.name)
    BY <1>12 DEF Called
  <2>2. at[l] \in Called(l.name)
    BY <1>2, <2>1 DEF Rows, New
  <2> QED
    BY <2>1, <2>2 DEF RowsTyped, Called
<1>13. ASSUME NEW i \in Live', NEW j \in Live', db'[i].name = db'[j].name
       PROVE  i = j
  <2>1. ASSUME NEW l \in libs, NEW m \in libs, at[l] = i, at[m] = j,
               db'[i] = l, db'[j] = m
        PROVE  i = j
    BY <1>13, <2>1
  <2>2. ASSUME NEW l \in libs, at[l] = i, db'[i] = l,
               j \in Live, db'[j] = db[j]
        PROVE  i = j
    BY <1>12, <1>13, <2>2
  <2>3. ASSUME NEW l \in libs, at[l] = j, db'[j] = l,
               i \in Live, db'[i] = db[i]
        PROVE  i = j
    BY <1>12, <1>13, <2>3
  <2>4. ASSUME i \in Live, db'[i] = db[i], j \in Live, db'[j] = db[j]
        PROVE  i = j
    BY <1>13, <2>4 DEF RowsTyped
  <2> QED
    BY <1>9, <2>1, <2>2, <2>3, <2>4
<1> QED
  BY <1>4, <1>6, <1>8, <1>11, <1>13

LEMMA SavesOneIs ==
    ASSUME RowsTyped, NEW l \in Libs, NEW i \in Ids, SavesOne(l, i)
    PROVE  /\ RowsTyped'
           /\ i \in Live' /\ db'[i] = l
           /\ \A j \in Live : j \in Live' /\ (db'[j] = db[j]
                  \/ (l.name = db[j].name /\ db'[j] = l))
<1> DEFINE at == [m \in {l} |-> i]
<1>1. at \in [{l} -> Ids] /\ at[l] = i /\ {l} \in SUBSET Libs /\ Saves({l}, at)
  BY DEF SavesOne
<1>2. \A m, n \in {l} : m.name = n.name => m = n
  OBVIOUS
<1> HIDE DEF at
<1>3. /\ db' \in [Ids -> Libs \cup {Nothing}]
      /\ \A m \in {l} : at[m] \in Live' /\ db'[at[m]] = m
      /\ \A j \in Live : j \in Live' /\ (db'[j] = db[j]
             \/ \E m \in {l} : m.name = db[j].name /\ db'[j] = m)
      /\ \A j, k \in Live' : db'[j].name = db'[k].name => j = k
  BY <1>1, <1>2, SavesIs
<1>4. ASSUME NEW j \in Live
      PROVE  j \in Live' /\ (db'[j] = db[j] \/ (l.name = db[j].name /\ db'[j] = l))
  <2>1. j \in Live' /\ (db'[j] = db[j]
             \/ \E m \in {l} : m.name = db[j].name /\ db'[j] = m)
    BY <1>3
  <2> QED
    BY <2>1
<1>5. i \in Live' /\ db'[i] = l
  BY <1>1, <1>3
<1> QED
  BY <1>3, <1>4, <1>5 DEF RowsTyped

-----------------------------------------------------------------------------
(* The step of a request, and the lock                                       *)

Same(r) == pc'[r] = pc[r] /\ body'[r] = body[r] /\ got'[r] = got[r]

LEMMA Ends ==
    ASSUME Typed, NEW r \in Requests, End(r)
    PROVE  /\ RequestsTyped' /\ \A s \in Requests : Knows(s)'
           /\ pc'[r] = "idle"
           /\ \A s \in Requests \ {r} : Same(s)
<1>1. RequestsTyped'
  BY DEF Typed, End, Goto, RequestsTyped, Steps
<1>2. /\ pc'[r] = "idle"
      /\ \A s \in Requests \ {r} : Same(s) /\ id'[s] = id[s]
  BY DEF Typed, RequestsTyped, End, Goto, Same
<1>3. \A s \in Requests : Knows(s)'
  BY <1>2 DEF Typed, Knows, Same, Put, Edit, Delete
<1> QED
  BY <1>1, <1>2, <1>3

(* A request that goes on with what it knows.                                *)
LEMMA GoesOn ==
    ASSUME Typed, NEW r \in Requests, NEW l \in Steps, Goto(r, l), UNCHANGED <<body, id, got>>,
           l \in Put \cup {"create config"} => body[r] \in Libs,
           l \in Edit \cup {"update config", "update add"} =>
               body[r] \in Libs /\ got[r] \in Libs /\ id[r] \in Ids,
           l \in Delete => got[r] \in Libs /\ id[r] \in Ids
    PROVE  /\ RequestsTyped' /\ \A s \in Requests : Knows(s)'
           /\ pc'[r] = l /\ \A s \in Requests \ {r} : Same(s)
<1>1. RequestsTyped'
  BY DEF Typed, Goto, RequestsTyped
<1>2. pc'[r] = l /\ \A s \in Requests \ {r} : Same(s)
  BY DEF Typed, RequestsTyped, Goto, Same
<1>3. \A s \in Requests : Knows(s)'
  BY <1>2 DEF Typed, Knows, Same
<1> QED
  BY <1>1, <1>2, <1>3

(* A request that begins.                                                    *)
LEMMA Begins ==
    ASSUME Typed, NEW r \in Requests, NEW l \in Steps, Goto(r, l),
           NEW b \in Libs \cup {Nothing}, body' = [body EXCEPT ![r] = b],
           NEW i \in Ids \cup {0}, id' = [id EXCEPT ![r] = i],
           NEW g \in Libs \cup {Nothing}, got' = [got EXCEPT ![r] = g],
           l \in Put \cup {"create config"} => b \in Libs,
           l \in Edit \cup {"update config", "update add"} =>
               b \in Libs /\ g \in Libs /\ i \in Ids,
           l \in Delete => g \in Libs /\ i \in Ids
    PROVE  /\ RequestsTyped' /\ \A s \in Requests : Knows(s)'
           /\ pc'[r] = l /\ body'[r] = b /\ got'[r] = g
           /\ \A s \in Requests \ {r} : Same(s)
<1>1. RequestsTyped'
  BY DEF Typed, Goto, RequestsTyped
<1>2. /\ pc'[r] = l /\ body'[r] = b /\ got'[r] = g /\ id'[r] = i
      /\ \A s \in Requests \ {r} : Same(s) /\ id'[s] = id[s]
  BY DEF Typed, RequestsTyped, Goto, Same
<1>3. \A s \in Requests : Knows(s)'
  BY <1>2 DEF Typed, Knows, Same
<1> QED
  BY <1>1, <1>2, <1>3

(* Who does not hold the lock and does not take it leaves the lists alone.   *)
LEMMA ListsStay ==
    ASSUME Typed, NEW r \in Requests, UNCHANGED lists, pc[r] \notin Saving,
           pc'[r] \notin Saving, \A s \in Requests \ {r} : Same(s)
    PROVE  ConfigTyped'
<1>1. \A s \in Requests : pc'[s] \in Saving => pc[s] \in Saving /\ Same(s)
  BY DEF Same
<1>2. Unlocked' <=> Unlocked
  BY DEF Unlocked, Same
<1>3. Mutex' /\ \A s \in Requests : Dropped(s)'
  BY <1>1 DEF Typed, ConfigTyped, Mutex, Dropped, Saving, Same, lists
<1> QED
  BY <1>2, <1>3 DEF Typed, ConfigTyped, Unique, lists

(* The list is changed by one who takes the lock.                            *)
LEMMA ListChanges ==
    ASSUME Typed, NEW r \in Requests, Unlocked, NEW libs \in SUBSET Libs, Unique(libs),
           NEW step \in Saving, Change(r, libs, step),
           step \in Put => body[r] \in Libs,
           step \in Edit => body[r] \in Libs /\ got[r] \in Libs /\ id[r] \in Ids,
           step \in Delete => got[r] \in Libs /\ id[r] \in Ids /\ got[r] \notin libs
    PROVE  /\ RequestsTyped' /\ ConfigTyped' /\ \A s \in Requests : Knows(s)'
           /\ pc'[r] = step /\ cfg' = libs /\ file' = file
           /\ body'[r] = body[r] /\ got'[r] = got[r]
           /\ \A s \in Requests \ {r} : Same(s)
<1>1. /\ RequestsTyped' /\ \A s \in Requests : Knows(s)'
      /\ pc'[r] = step /\ \A s \in Requests \ {r} : Same(s)
  BY GoesOn DEF Change, Saving, Steps, Put, Edit, Delete
<1>2. \A s \in Requests : pc'[s] \in Saving <=> s = r
  BY <1>1 DEF Unlocked, Same
<1>3. ~Unlocked' /\ Mutex'
  BY <1>2 DEF Unlocked, Mutex
<1>4. \A s \in Requests : Dropped(s)'
  <2>1. \A s \in Requests : pc'[s] = "delete save" => s = r
    BY <1>2 DEF Saving
  <2>2. Dropped(r)'
    BY <1>1 DEF Change, Dropped, Delete
  <2> QED
    BY <2>1, <2>2 DEF Dropped
<1>5. cfg' = libs /\ undo' = cfg /\ file' = file /\ cfg = file
  BY DEF Change, Typed, ConfigTyped
<1> QED
  BY <1>1, <1>3, <1>4, <1>5 DEF Change, Typed, ConfigTyped, Unique

LEMMA RowsStay == ASSUME Typed, UNCHANGED db PROVE RowsTyped'
BY DEF Typed, RowsTyped, Live

LEMMA WatchesStay == ASSUME Typed, UNCHANGED <<present, watches>> PROVE WatchesTyped'
BY DEF Typed, WatchesTyped, watches

LEMMA BackgroundTyped ==
    ASSUME Typed, NEW l \in Libs, Background(l)
    PROVE  scan' \in [Scanners -> Scan \cup {Nothing}]
<1>1. [lib |-> l, id |-> 0, orphan |-> FALSE] \in Scan
  BY DEF Scan
<1> QED
  BY <1>1 DEF Background, Typed, OthersTyped

-----------------------------------------------------------------------------
(* Types *)

(* What a write leaves: the list in both places, or the one of before.       *)
LEMMA PersistTyped ==
    ASSUME Typed, NEW r \in Requests, Persist(r)
    PROVE  /\ Typed'
           /\ pc'[r] \notin Saving /\ \A s \in Requests \ {r} : Same(s) /\ pc[s] \notin Saving
           /\ \/ pc[r] = "create save" /\ pc'[r] = "create row"
              \/ pc[r] = "update save" /\ pc'[r] = "update row"
              \/ pc[r] = "delete save" /\ pc'[r] = "delete watch"
<1>1. PICK step \in {"create row", "update row", "delete watch"} :
          /\ Goto(r, step)
          /\ \/ pc[r] = "create save" /\ step = "create row"
             \/ pc[r] = "update save" /\ step = "update row"
             \/ pc[r] = "delete save" /\ step = "delete watch"
  BY DEF Persist, Saving, At
<1>2. /\ RequestsTyped' /\ \A s \in Requests : Knows(s)'
      /\ pc'[r] = step /\ \A s \in Requests \ {r} : Same(s)
  BY <1>1, GoesOn DEF Persist, Typed, Knows, Steps, Put, Edit, Delete
<1>3. \A s \in Requests \ {r} : pc[s] \notin Saving
  BY DEF Persist, Typed, ConfigTyped, Mutex
<1>4. \A s \in Requests : pc'[s] \notin Saving
  BY <1>2, <1>3 DEF Same, Saving
<1>5. Unlocked' /\ Mutex' /\ \A s \in Requests : Dropped(s)'
  BY <1>4 DEF Unlocked, Mutex, Dropped, Saving
<1>6. ConfigTyped'
  BY <1>5 DEF Persist, Typed, ConfigTyped, Unique
<1> QED
  BY <1>1, <1>2, <1>3, <1>4, <1>6, RowsStay, WatchesStay DEF Persist, Typed, OthersTyped

LEMMA PersistFailsTyped ==
    ASSUME Typed, NEW r \in Requests, PersistFails(r)
    PROVE  /\ Typed' /\ cfg' = file /\ pc'[r] = "idle"
           /\ \A s \in Requests \ {r} : Same(s) /\ pc[s] \notin Saving
<1>1. /\ RequestsTyped' /\ \A s \in Requests : Knows(s)'
      /\ pc'[r] = "idle" /\ \A s \in Requests \ {r} : Same(s)
  BY Ends DEF PersistFails, PersistFailed
<1>2. \A s \in Requests \ {r} : pc[s] \notin Saving
  BY DEF PersistFails, Typed, ConfigTyped, Mutex
<1>3. \A s \in Requests : pc'[s] \notin Saving
  BY <1>1, <1>2 DEF Same, Saving
<1>4. Unlocked' /\ Mutex' /\ \A s \in Requests : Dropped(s)'
  BY <1>3 DEF Unlocked, Mutex, Dropped, Saving
<1>5. cfg' = undo /\ undo = file /\ file' = file /\ undo' = {}
  BY DEF PersistFails, PersistFailed, Unlocked, Typed, ConfigTyped
<1>6. ConfigTyped'
  BY <1>4, <1>5 DEF Typed, ConfigTyped, Unique
<1>7. upset' \in BOOLEAN
  BY DEF PersistFails, PersistFailed, Typed, OthersTyped
<1> QED
  BY <1>1, <1>2, <1>5, <1>6, <1>7, RowsStay, WatchesStay
  DEF PersistFails, PersistFailed, Typed, OthersTyped

LEMMA CreateLibraryTyped ==
    ASSUME Typed, NEW r \in Requests, NEW l \in Libs, CreateLibrary(r, l)
    PROVE  Typed' /\ pc[r] = "idle" /\ UNCHANGED lists /\ \A s \in Requests \ {r} : Same(s)
<1>1. PICK step \in {"create row", "create config"} : Goto(r, step)
  BY DEF CreateLibrary
<1>2. /\ id' = [id EXCEPT ![r] = id[r]] /\ id[r] \in Ids \cup {0}
      /\ got' = [got EXCEPT ![r] = got[r]] /\ got[r] \in Libs \cup {Nothing}
  BY DEF CreateLibrary, Typed, RequestsTyped
<1>3. /\ RequestsTyped' /\ \A s \in Requests : Knows(s)'
      /\ pc'[r] = step /\ \A s \in Requests \ {r} : Same(s)
  <2>1. /\ step \in Steps /\ l \in Libs \cup {Nothing} /\ step \notin Delete
        /\ step \notin Edit \cup {"update config", "update add"}
    BY DEF Steps, Edit, Delete
  <2>2. body' = [body EXCEPT ![r] = l]
    BY DEF CreateLibrary
  <2> QED
    BY <1>1, <1>2, <2>1, <2>2, Begins
<1>4. ConfigTyped'
  BY <1>1, <1>3, ListsStay DEF CreateLibrary, At, Saving
<1> QED
  BY <1>3, <1>4, RowsStay, WatchesStay DEF CreateLibrary, At, Typed, OthersTyped

LEMMA CreateConfigTyped ==
    ASSUME Typed, NEW r \in Requests, CreateConfig(r)
    PROVE  Typed' /\ \A s \in Requests \ {r} : Same(s)
<1>1. body[r] \in Libs /\ pc[r] = "create config"
  BY DEF CreateConfig, At, Typed, Knows
<1>2. CASE body[r].name \notin NamesOf(cfg) /\ Change(r, cfg \cup {body[r]}, "create save")
  <2>1. cfg \cup {body[r]} \in SUBSET Libs /\ Unique(cfg \cup {body[r]})
    BY <1>1, <1>2 DEF Typed, ConfigTyped, Unique, NamesOf
  <2>2. /\ RequestsTyped' /\ ConfigTyped' /\ \A s \in Requests : Knows(s)'
        /\ \A s \in Requests \ {r} : Same(s)
    BY <1>1, <1>2, <2>1, ListChanges DEF CreateConfig, Saving, Put, Edit, Delete
  <2> QED
    BY <2>2, RowsStay, WatchesStay DEF CreateConfig, Typed, OthersTyped
<1>3. CASE End(r) /\ UNCHANGED lists
  <2>1. /\ RequestsTyped' /\ \A s \in Requests : Knows(s)'
        /\ pc'[r] = "idle" /\ \A s \in Requests \ {r} : Same(s)
    BY <1>3, Ends
  <2>2. ConfigTyped'
    BY <1>1, <1>3, <2>1, ListsStay DEF Saving
  <2> QED
    BY <2>1, <2>2, RowsStay, WatchesStay DEF CreateConfig, Typed, OthersTyped
<1> QED
  BY <1>2, <1>3 DEF CreateConfig

LEMMA CreateRowTyped ==
    ASSUME Typed, NEW r \in Requests, CreateRow(r)
    PROVE  /\ Typed' /\ pc[r] = "create row" /\ pc'[r] = "create watch"
           /\ \A s \in Requests \ {r} : Same(s)
<1>1. body[r] \in Libs /\ pc[r] = "create row"
  BY DEF CreateRow, At, Typed, Knows, Put
<1>2. /\ RequestsTyped' /\ \A s \in Requests : Knows(s)'
      /\ pc'[r] = "create watch" /\ \A s \in Requests \ {r} : Same(s)
  BY <1>1, GoesOn DEF CreateRow, Put, Edit, Delete, Steps
<1>3. RowsTyped'
  BY <1>1, SavesOneIs DEF CreateRow, Typed
<1>4. ConfigTyped'
  BY <1>1, <1>2, ListsStay DEF CreateRow, Saving
<1>5. upset' \in BOOLEAN
  BY DEF CreateRow, Typed, OthersTyped
<1> QED
  BY <1>1, <1>2, <1>3, <1>4, <1>5, WatchesStay DEF CreateRow, Typed, OthersTyped

LEMMA CreateWatchTyped ==
    ASSUME Typed, NEW r \in Requests, CreateWatch(r)
    PROVE  /\ Typed' /\ pc[r] = "create watch" /\ pc'[r] = "idle"
           /\ \A s \in Requests \ {r} : Same(s)
<1>1. body[r] \in Libs /\ body[r].path \in Dirs /\ pc[r] = "create watch"
  BY DEF CreateWatch, At, Typed, Knows, Put, Libs
<1>2. /\ RequestsTyped' /\ \A s \in Requests : Knows(s)'
      /\ pc'[r] = "idle" /\ \A s \in Requests \ {r} : Same(s)
  BY Ends DEF CreateWatch
<1>3. scan' \in [Scanners -> Scan \cup {Nothing}]
  BY <1>1, BackgroundTyped DEF CreateWatch
<1>4. WatchesTyped'
  BY <1>1 DEF CreateWatch, Installed, Typed, WatchesTyped
<1>5. ConfigTyped'
  BY <1>1, <1>2, ListsStay DEF CreateWatch, Saving
<1>6. upset' \in BOOLEAN
  BY DEF CreateWatch, Typed, OthersTyped
<1> QED
  BY <1>1, <1>2, <1>3, <1>4, <1>5, <1>6, RowsStay DEF CreateWatch, Typed, OthersTyped

LEMMA UpdateLibraryTyped ==
    ASSUME Typed, NEW r \in Requests, NEW i \in Ids, NEW l \in Libs, UpdateLibrary(r, i, l)
    PROVE  Typed' /\ pc[r] = "idle" /\ pc'[r] = "update config"
           /\ \A s \in Requests \ {r} : Same(s)
<1>1. db[i] \in Libs /\ pc[r] = "idle"
  BY DEF UpdateLibrary, At, Live, Typed, RowsTyped
<1>2. /\ RequestsTyped' /\ \A s \in Requests : Knows(s)'
      /\ pc'[r] = "update config" /\ \A s \in Requests \ {r} : Same(s)
  BY <1>1, Begins DEF UpdateLibrary, Put, Edit, Delete, Steps
<1>3. ConfigTyped'
  BY <1>1, <1>2, ListsStay DEF UpdateLibrary, Saving
<1> QED
  BY <1>1, <1>2, <1>3, RowsStay, WatchesStay DEF UpdateLibrary, Typed, OthersTyped

LEMMA UpdateConfigTyped ==
    ASSUME Typed, NEW r \in Requests, UpdateConfig(r)
    PROVE  Typed' /\ pc[r] = "update config" /\ \A s \in Requests \ {r} : Same(s)
<1> DEFINE others == {l \in cfg : l.name # got[r].name}
<1>1. body[r] \in Libs /\ got[r] \in Libs /\ id[r] \in Ids /\ pc[r] = "update config"
  BY DEF UpdateConfig, At, Typed, Knows
<1>2. CASE /\ body[r].name \notin NamesOf(others)
           /\ Change(r, others \cup {body[r]}, "update save")
           /\ upset' = (upset \/ got[r] \notin cfg)
  <2>1. others \cup {body[r]} \in SUBSET Libs /\ Unique(others \cup {body[r]})
    BY <1>1, <1>2 DEF Typed, ConfigTyped, Unique, NamesOf
  <2> HIDE DEF others
  <2>2. /\ RequestsTyped' /\ ConfigTyped' /\ \A s \in Requests : Knows(s)'
        /\ \A s \in Requests \ {r} : Same(s)
    BY <1>1, <1>2, <2>1, ListChanges DEF UpdateConfig, Saving, Put, Edit, Delete
  <2>3. upset' \in BOOLEAN
    BY <1>2 DEF Typed, OthersTyped
  <2> QED
    BY <1>1, <2>2, <2>3, RowsStay, WatchesStay DEF UpdateConfig, Typed, OthersTyped
<1>3. CASE End(r) /\ UNCHANGED <<lists, upset>>
  <2>1. /\ RequestsTyped' /\ \A s \in Requests : Knows(s)'
        /\ pc'[r] = "idle" /\ \A s \in Requests \ {r} : Same(s)
    BY <1>3, Ends
  <2>2. ConfigTyped'
    BY <1>1, <1>3, <2>1, ListsStay DEF Saving
  <2> QED
    BY <1>1, <1>3, <2>1, <2>2, RowsStay, WatchesStay DEF UpdateConfig, Typed, OthersTyped
<1>4. CASE Goto(r, "update add") /\ UNCHANGED <<lists, body, id, got, upset>>
  <2>1. /\ RequestsTyped' /\ \A s \in Requests : Knows(s)'
        /\ pc'[r] = "update add" /\ \A s \in Requests \ {r} : Same(s)
    BY <1>1, <1>4, GoesOn DEF Put, Edit, Delete, Steps
  <2>2. ConfigTyped'
    BY <1>1, <1>4, <2>1, ListsStay DEF Saving
  <2> QED
    BY <1>1, <1>4, <2>1, <2>2, RowsStay, WatchesStay DEF UpdateConfig, Typed, OthersTyped
<1> QED
  BY <1>2, <1>3, <1>4 DEF UpdateConfig

LEMMA UpdateAddTyped ==
    ASSUME Typed, NEW r \in Requests, UpdateAdd(r)
    PROVE  Typed' /\ pc[r] = "update add" /\ \A s \in Requests \ {r} : Same(s)
<1>1. body[r] \in Libs /\ got[r] \in Libs /\ id[r] \in Ids /\ pc[r] = "update add"
  BY DEF UpdateAdd, At, Typed, Knows
<1>2. CASE /\ body[r].name \notin NamesOf(cfg)
           /\ Change(r, cfg \cup {body[r]}, "update save")
           /\ missed' = (missed \cup {p \in {body[r].path} : p = got[r].path}) \ watched
  <2>1. cfg \cup {body[r]} \in SUBSET Libs /\ Unique(cfg \cup {body[r]})
    BY <1>1, <1>2 DEF Typed, ConfigTyped, Unique, NamesOf
  <2>2. /\ RequestsTyped' /\ ConfigTyped' /\ \A s \in Requests : Knows(s)'
        /\ \A s \in Requests \ {r} : Same(s)
    BY <1>1, <1>2, <2>1, ListChanges DEF UpdateAdd, Saving, Put, Edit, Delete
  <2>3. WatchesTyped'
    BY <1>1, <1>2 DEF UpdateAdd, Typed, WatchesTyped, Libs
  <2> QED
    BY <1>1, <2>2, <2>3, RowsStay DEF UpdateAdd, Typed, OthersTyped
<1>3. CASE End(r) /\ UNCHANGED <<lists, missed>>
  <2>1. /\ RequestsTyped' /\ \A s \in Requests : Knows(s)'
        /\ pc'[r] = "idle" /\ \A s \in Requests \ {r} : Same(s)
    BY <1>3, Ends
  <2>2. ConfigTyped'
    BY <1>1, <1>3, <2>1, ListsStay DEF Saving
  <2> QED
    BY <1>1, <1>3, <2>1, <2>2, RowsStay, WatchesStay DEF UpdateAdd, Typed, OthersTyped, watches
<1> QED
  BY <1>2, <1>3 DEF UpdateAdd

LEMMA UpdateRowTyped ==
    ASSUME Typed, NEW r \in Requests, UpdateRow(r)
    PROVE  Typed' /\ pc[r] = "update row" /\ \A s \in Requests \ {r} : Same(s)
<1> DEFINE i == id[r]
<1>1. body[r] \in Libs /\ got[r] \in Libs /\ i \in Ids /\ pc[r] = "update row"
  BY DEF UpdateRow, At, Typed, Knows, Edit
<1>2. upset' \in BOOLEAN
  BY DEF UpdateRow, Typed, OthersTyped
<1>3. CASE /\ i \in Live /\ Called(Changed(r).name) \subseteq {i}
           /\ db' = [db EXCEPT ![i] = Changed(r)]
           /\ Goto(r, "update watch") /\ UNCHANGED <<body, id, got>>
  <2>1. /\ RequestsTyped' /\ \A s \in Requests : Knows(s)'
        /\ pc'[r] = "update watch" /\ \A s \in Requests \ {r} : Same(s)
    BY <1>1, <1>3, GoesOn DEF Put, Edit, Delete, Steps
  <2>2. ConfigTyped'
    BY <1>1, <2>1, ListsStay DEF UpdateRow, Saving
  <2>3. Changed(r) \in Libs
    BY <1>1, <1>3 DEF Changed, Libs, Live, Typed, RowsTyped
  <2>4. /\ db' \in [Ids -> Libs \cup {Nothing}]
        /\ db'[i] = Changed(r) /\ \A j \in Ids \ {i} : db'[j] = db[j]
    BY <1>1, <1>3, <2>3 DEF Typed, RowsTyped
  <2>5. Live' = Live
    BY <1>3, <2>3, <2>4 DEF Live
  <2>6. ASSUME NEW j \in Live', NEW k \in Live', db'[j].name = db'[k].name
        PROVE  j = k
    <3>1. j \in Live /\ k \in Live /\ j \in Ids /\ k \in Ids
      BY <2>5 DEF Live
    <3>2. \A m \in Live : db[m].name = Changed(r).name => m = i
      BY <1>3 DEF Called
    <3> QED
      BY <2>4, <2>6, <3>1, <3>2 DEF Typed, RowsTyped
  <2>7. RowsTyped'
    BY <2>4, <2>6 DEF RowsTyped
  <2> QED
    BY <1>1, <1>2, <2>1, <2>2, <2>7, WatchesStay DEF UpdateRow, Typed, OthersTyped
<1>4. CASE End(r) /\ UNCHANGED db
  <2>1. /\ RequestsTyped' /\ \A s \in Requests : Knows(s)'
        /\ pc'[r] = "idle" /\ \A s \in Requests \ {r} : Same(s)
    BY <1>4, Ends
  <2>2. ConfigTyped'
    BY <1>1, <2>1, ListsStay DEF UpdateRow, Saving
  <2> QED
    BY <1>1, <1>2, <1>4, <2>1, <2>2, RowsStay, WatchesStay DEF UpdateRow, Typed, OthersTyped
<1> QED
  BY <1>3, <1>4 DEF UpdateRow

LEMMA UpdateWatchTyped ==
    ASSUME Typed, NEW r \in Requests, UpdateWatch(r)
    PROVE  /\ Typed' /\ pc[r] = "update watch" /\ pc'[r] = "idle"
           /\ \A s \in Requests \ {r} : Same(s)
<1>1. /\ body[r] \in Libs /\ body[r].path \in Dirs /\ got[r].path \in Dirs
      /\ pc[r] = "update watch"
  BY DEF UpdateWatch, At, Typed, Knows, Edit, Libs
<1>2. /\ RequestsTyped' /\ \A s \in Requests : Knows(s)'
      /\ pc'[r] = "idle" /\ \A s \in Requests \ {r} : Same(s)
  BY Ends DEF UpdateWatch
<1>3. scan' \in [Scanners -> Scan \cup {Nothing}]
  BY <1>1, BackgroundTyped DEF UpdateWatch, Typed, OthersTyped
<1>4. WatchesTyped'
  BY <1>1 DEF UpdateWatch, Installed, Uninstalled, watches, Typed, WatchesTyped
<1>5. ConfigTyped'
  BY <1>1, <1>2, ListsStay DEF UpdateWatch, Saving
<1>6. upset' \in BOOLEAN
  BY DEF UpdateWatch, Typed, OthersTyped
<1> QED
  BY <1>1, <1>2, <1>3, <1>4, <1>5, <1>6, RowsStay DEF UpdateWatch, Typed, OthersTyped

LEMMA DeleteLibraryTyped ==
    ASSUME Typed, NEW r \in Requests, NEW i \in Ids, NEW purge \in BOOLEAN,
           DeleteLibrary(r, i, purge)
    PROVE  /\ Typed' /\ pc[r] = "idle" /\ pc'[r] = "delete config" /\ got'[r] = db[i]
           /\ \A s \in Requests \ {r} : Same(s)
<1>1. db[i] \in Libs /\ pc[r] = "idle"
  BY DEF DeleteLibrary, At, Live, Typed, RowsTyped
<1>2. /\ RequestsTyped' /\ \A s \in Requests : Knows(s)'
      /\ pc'[r] = "delete config" /\ got'[r] = db[i]
      /\ \A s \in Requests \ {r} : Same(s)
  <2>1. PICK step \in Steps : step = "delete config"
    BY DEF Steps
  <2>2. PICK b \in Libs \cup {Nothing} : body' = [body EXCEPT ![r] = b]
    BY DEF DeleteLibrary, Typed, RequestsTyped
  <2>3. PICK g \in Libs \cup {Nothing} : g = db[i]
    BY <1>1
  <2>4. step \notin Put \cup {"create config"} /\ step \notin Edit \cup {"update config", "update add"}
    BY <2>1 DEF Put, Edit
  <2>5. /\ Goto(r, step) /\ g \in Libs /\ i \in Ids \cup {0}
        /\ id' = [id EXCEPT ![r] = i] /\ got' = [got EXCEPT ![r] = g]
    BY <1>1, <2>1, <2>3 DEF DeleteLibrary
  <2>6. /\ RequestsTyped' /\ \A s \in Requests : Knows(s)'
        /\ pc'[r] = step /\ got'[r] = g /\ \A s \in Requests \ {r} : Same(s)
    BY <2>2, <2>4, <2>5, Begins
  <2> QED
    BY <2>1, <2>3, <2>6
<1>3. ConfigTyped'
  BY <1>1, <1>2, ListsStay DEF DeleteLibrary, Saving
<1>4. RowsTyped' /\ scan' \in [Scanners -> Scan \cup {Nothing}]
  <2>1. CASE UNCHANGED <<db, scan>>
    BY <2>1, RowsStay DEF Typed, OthersTyped
  <2>2. CASE /\ db' = [db EXCEPT ![i] = Nothing]
             /\ scan' = [s \in Scanners |->
                           IF scan[s] # Nothing /\ scan[s].id = i
                           THEN [scan[s] EXCEPT !.orphan = TRUE] ELSE scan[s]]
    <3>1. /\ db' \in [Ids -> Libs \cup {Nothing}]
          /\ db'[i] = Nothing /\ \A j \in Ids \ {i} : db'[j] = db[j]
      BY <2>2 DEF Typed, RowsTyped
    <3>2. \A j \in Live' : j \in Live /\ db'[j] = db[j]
      BY <3>1 DEF Live
    <3>3. RowsTyped'
      BY <3>1, <3>2 DEF Typed, RowsTyped
    <3>4. \A s \in Scanners : scan[s] # Nothing => [scan[s] EXCEPT !.orphan = TRUE] \in Scan
      BY DEF Scan, Typed, OthersTyped
    <3> QED
      BY <2>2, <3>3, <3>4 DEF Typed, OthersTyped
  <2> QED
    BY <2>1, <2>2 DEF DeleteLibrary
<1> QED
  BY <1>1, <1>2, <1>3, <1>4, WatchesStay DEF DeleteLibrary, Typed, OthersTyped

LEMMA DeleteConfigTyped ==
    ASSUME Typed, NEW r \in Requests, DeleteConfig(r)
    PROVE  Typed' /\ pc[r] = "delete config" /\ \A s \in Requests \ {r} : Same(s)
<1> DEFINE mine == {l \in cfg : l.name = got[r].name}
<1>1. got[r] \in Libs /\ id[r] \in Ids /\ pc[r] = "delete config"
  BY DEF DeleteConfig, At, Typed, Knows, Delete
<1>2. upset' \in BOOLEAN
  BY DEF DeleteConfig, Typed, OthersTyped
<1>3. CASE Change(r, cfg \ mine, "delete save")
  <2>1. cfg \ mine \in SUBSET Libs /\ Unique(cfg \ mine) /\ got[r] \notin cfg \ mine
    BY <1>1 DEF Typed, ConfigTyped, Unique
  <2> HIDE DEF mine
  <2>2. /\ RequestsTyped' /\ ConfigTyped' /\ \A s \in Requests : Knows(s)'
        /\ \A s \in Requests \ {r} : Same(s)
    BY <1>1, <1>3, <2>1, ListChanges DEF DeleteConfig, Saving, Put, Edit, Delete
  <2> QED
    BY <1>1, <1>2, <2>2, RowsStay, WatchesStay DEF DeleteConfig, Typed, OthersTyped
<1>4. CASE Goto(r, "delete watch") /\ UNCHANGED <<lists, body, id, got>>
  <2>1. /\ RequestsTyped' /\ \A s \in Requests : Knows(s)'
        /\ pc'[r] = "delete watch" /\ \A s \in Requests \ {r} : Same(s)
    BY <1>1, <1>4, GoesOn DEF Put, Edit, Delete, Steps
  <2>2. ConfigTyped'
    BY <1>1, <1>4, <2>1, ListsStay DEF Saving
  <2> QED
    BY <1>1, <1>2, <2>1, <2>2, RowsStay, WatchesStay DEF DeleteConfig, Typed, OthersTyped
<1> QED
  BY <1>3, <1>4 DEF DeleteConfig

LEMMA EndingTyped ==
    ASSUME Typed, NEW r \in Requests, DeleteWatch(r) \/ RequestFails(r)
    PROVE  Typed' /\ pc'[r] = "idle" /\ \A s \in Requests \ {r} : Same(s)
<1>1. /\ RequestsTyped' /\ \A s \in Requests : Knows(s)'
      /\ pc'[r] = "idle" /\ \A s \in Requests \ {r} : Same(s)
  BY Ends DEF DeleteWatch, RequestFails
<1>2. ConfigTyped'
  BY <1>1, ListsStay DEF DeleteWatch, RequestFails, At, Saving
<1>3. got[r].path \in Dirs \/ RequestFails(r)
  BY DEF DeleteWatch, At, Typed, Knows, Delete, Libs
<1>4. WatchesTyped'
  BY <1>3, WatchesStay DEF DeleteWatch, RequestFails, Uninstalled, Typed, WatchesTyped
<1>5. upset' \in BOOLEAN
  BY DEF DeleteWatch, RequestFails, Typed, OthersTyped
<1> QED
  BY <1>1, <1>2, <1>4, <1>5, RowsStay DEF DeleteWatch, RequestFails, Typed, OthersTyped

(* Steps that leave every request where it is.                               *)
LEMMA RequestsStay ==
    ASSUME Typed, UNCHANGED <<lists, requests>>
    PROVE  /\ RequestsTyped' /\ ConfigTyped' /\ \A r \in Requests : Knows(r)'
           /\ \A r \in Requests : Same(r)
<1>1. \A r \in Requests : Same(r) /\ (Knows(r)' <=> Knows(r)) /\ (Dropped(r)' <=> Dropped(r))
  BY DEF requests, lists, Same, Knows, Dropped
<1>2. (Mutex' <=> Mutex) /\ (Unlocked' <=> Unlocked)
  BY DEF requests, Mutex, Unlocked
<1> QED
  BY <1>1, <1>2 DEF lists, requests, Typed, RequestsTyped, ConfigTyped, Unique

LEMMA ScansTyped ==
    ASSUME Typed, NEW s \in Scanners, StartScan(s) \/ ScanFile(s) \/ EndScan(s)
    PROVE  Typed'
<1>1. scan' \in [Scanners -> Scan \cup {Nothing}] /\ foreign' \in BOOLEAN /\ upset' \in BOOLEAN
  <2>1. CASE StartScan(s)
    <3>1. PICK l \in cfg : scan' = [scan EXCEPT ![s] = [lib |-> l, id |-> 0, orphan |-> FALSE]]
      BY <2>1 DEF StartScan
    <3>2. [lib |-> l, id |-> 0, orphan |-> FALSE] \in Scan
      BY DEF Typed, ConfigTyped, Scan
    <3> QED
      BY <2>1, <3>1, <3>2 DEF StartScan, Typed, OthersTyped
  <2>2. CASE ScanFile(s) \/ EndScan(s)
    BY <2>2 DEF ScanFile, EndScan, Typed, OthersTyped
  <2> QED
    BY <2>1, <2>2
<1>2. UNCHANGED <<lists, requests, db, present, watches>>
  BY DEF StartScan, ScanFile, EndScan
<1> QED
  BY <1>1, <1>2, RequestsStay, RowsStay, WatchesStay DEF Typed, OthersTyped

LEMMA EnterScanTyped ==
    ASSUME Typed, NEW s \in Scanners, EnterScan(s)
    PROVE  Typed'
<1>1. PICK i \in Ids : SavesOne(scan[s].lib, i) /\ scan' = [scan EXCEPT ![s].id = i]
  BY DEF EnterScan
<1>2. scan[s] \in Scan /\ scan[s].lib \in Libs
  BY DEF EnterScan, Scan, Typed, OthersTyped
<1>3. RowsTyped'
  BY <1>1, <1>2, SavesOneIs DEF Typed
<1>4. scan' \in [Scanners -> Scan \cup {Nothing}]
  <2>1. [scan[s] EXCEPT !.id = i] \in Scan
    BY <1>2 DEF Scan
  <2> QED
    BY <1>1, <2>1 DEF Typed, OthersTyped
<1>5. upset' \in BOOLEAN
  BY DEF EnterScan, Typed, OthersTyped
<1> QED
  BY <1>3, <1>4, <1>5, RequestsStay, WatchesStay DEF EnterScan, Typed, OthersTyped

LEMMA MountTyped ==
    ASSUME Typed, NEW d \in Dirs, Mount(d)
    PROVE  Typed'
<1>1. WatchesTyped'
  BY DEF Mount, watches, Typed, WatchesTyped
<1> QED
  BY <1>1, RequestsStay, RowsStay DEF Mount, Typed, OthersTyped

LEMMA RestartTyped ==
    ASSUME Typed, Restart
    PROVE  Typed'
<1>1. RequestsTyped' /\ \A r \in Requests : Knows(r)'
  BY DEF Restart, Idle, RequestsTyped, Steps, Knows, Put, Edit, Delete
<1>2. file \in SUBSET Libs /\ Unique(file)
  BY DEF Typed, ConfigTyped
<1>3. \A r \in Requests : pc'[r] = "idle"
  BY DEF Restart, Idle
<1>4. Unlocked' /\ Mutex' /\ \A r \in Requests : Dropped(r)'
  BY <1>3 DEF Unlocked, Mutex, Dropped, Saving
<1>5. ConfigTyped'
  BY <1>2, <1>4 DEF Restart, ConfigTyped, Unique
<1>6. RowsTyped'
  <2>1. CASE Reconcile
    <3>1. PICK at \in [file -> Ids] : Saves(file, at)
      BY <2>1 DEF Reconcile
    <3> QED
      BY <1>2, <3>1, SavesIs DEF Typed, RowsTyped, Unique
  <2>2. CASE UNCHANGED db
    BY <2>2, RowsStay
  <2> QED
    BY <2>1, <2>2 DEF Restart
<1>7. WatchesTyped'
  BY <1>2 DEF Restart, PathsOf, Libs, Typed, WatchesTyped
<1>8. OthersTyped'
  BY DEF Restart, Typed, OthersTyped
<1> QED
  BY <1>1, <1>5, <1>6, <1>7, <1>8 DEF Typed

LEMMA StartsTyped == Init => Typed
<1> SUFFICES ASSUME Init PROVE Typed
  OBVIOUS
<1>1. RequestsTyped /\ \A r \in Requests : Knows(r)
  BY DEF Init, Idle, RequestsTyped, Knows, Put, Edit, Delete, Steps
<1>2. Live = {}
  BY DEF Init, Live
<1>3. RowsTyped
  BY <1>2 DEF Init, RowsTyped
<1>4. \A r \in Requests : pc[r] = "idle"
  BY DEF Init, Idle
<1>5. Unlocked /\ Mutex /\ \A r \in Requests : Dropped(r)
  BY <1>4 DEF Unlocked, Mutex, Dropped, Saving
<1>6. ConfigTyped
  BY <1>5 DEF Init, ConfigTyped, Unique
<1>7. WatchesTyped /\ OthersTyped
  BY DEF Init, WatchesTyped, OthersTyped
<1> QED
  BY <1>1, <1>3, <1>6, <1>7 DEF Typed

LEMMA StaysTyped ==
    ASSUME Typed, [Next]_vars
    PROVE  Typed'
<1>1. CASE UNCHANGED vars
  <2>1. OthersTyped'
    BY <1>1 DEF vars, Typed, OthersTyped
  <2> QED
    BY <1>1, <2>1, RequestsStay, RowsStay, WatchesStay DEF vars, Typed
<1>2. ASSUME NEW r \in Requests, Request(r)
      PROVE  Typed'
  <2>1. CASE Persist(r) \/ PersistFails(r)
    BY <2>1, PersistTyped, PersistFailsTyped
  <2>2. CASE \/ \E l \in Libs : CreateLibrary(r, l)
             \/ CreateConfig(r) \/ CreateRow(r) \/ CreateWatch(r)
    BY <2>2, CreateLibraryTyped, CreateConfigTyped, CreateRowTyped, CreateWatchTyped
  <2>3. CASE \/ \E i \in Ids, l \in Libs : UpdateLibrary(r, i, l)
             \/ UpdateConfig(r) \/ UpdateAdd(r) \/ UpdateRow(r) \/ UpdateWatch(r)
    BY <2>3, UpdateLibraryTyped, UpdateConfigTyped, UpdateAddTyped, UpdateRowTyped,
       UpdateWatchTyped
  <2>4. CASE \/ \E i \in Ids, purge \in BOOLEAN : DeleteLibrary(r, i, purge)
             \/ DeleteConfig(r) \/ DeleteWatch(r) \/ RequestFails(r)
    BY <2>4, DeleteLibraryTyped, DeleteConfigTyped, EndingTyped
  <2> QED
    BY <1>2, <2>1, <2>2, <2>3, <2>4 DEF Request
<1>3. ASSUME NEW s \in Scanners, StartScan(s) \/ EnterScan(s) \/ ScanFile(s) \/ EndScan(s)
      PROVE  Typed'
  BY <1>3, ScansTyped, EnterScanTyped
<1> QED
  BY <1>1, <1>2, <1>3, MountTyped, RestartTyped DEF Next

(* config.yaml is what runs, and while a change is being saved it is what    *)
(* the list would be put back to; one request saves at a time, no name is    *)
(* configured twice and no two rows have one, whatever fails or restarts.    *)
THEOREM ListStands == Spec => []ListOK
<1>1. Typed => ListOK
  BY DEF Typed, RequestsTyped, ConfigTyped, RowsTyped, WatchesTyped, OthersTyped, Unique, Mutex,
         ListOK, TypeOK, ListMatchesFile
<1> QED
  BY <1>1, StartsTyped, StaysTyped, PTL DEF Spec

-----------------------------------------------------------------------------
(* Between requests, the rows and the watcher follow config.yaml             *)

InRow(l) == \E i \in Live : db[i] = l

(* What a request has under way about the library l or the path p: a row to  *)
(* write, a path to watch, a path to let go. One that is saving its change   *)
(* counts in the list that runs (S = Saving), not in the saved one (S = {}). *)
Counted(r, S) == pc[r] \notin Saving \/ pc[r] \in S
Lists(r, l, S) ==
    \/ /\ Counted(r, S) /\ body[r] = l
       /\ pc[r] \in {"create save", "create row", "update save", "update row"}
    \/ pc[r] \in {"delete config", "delete save"} /\ got[r] = l
Brings(r, p, S) ==
    /\ Counted(r, S) /\ body[r].path = p
    /\ pc[r] \in Put \/ (pc[r] \in Edit /\ got[r].path # p)
Takes(r, p, S) ==
    /\ Counted(r, S) /\ got[r].path = p
    /\ pc[r] \in {"delete save", "delete watch"} \/ (pc[r] \in Edit /\ body[r].path # p)

Listed(l, S) == InRow(l) \/ \E r \in Requests : Lists(r, l, S)
Watches(p, S) == p \in watched \cup missed \/ \E r \in Requests : Brings(r, p, S)
Claimed(p, S) == \E r \in Requests : Takes(r, p, S)

(* A library of the list has its row, and its watch unless that was missed,  *)
(* and a watch has its library, or a request under way will see to it.       *)
FollowsIn(libs, S) ==
    /\ \A l \in libs : Listed(l, S) /\ Watches(l.path, S)
    /\ \A p \in watched : p \in PathsOf(libs) \/ Claimed(p, S)

Views == {Saving, {}}
Follows == FollowsIn(cfg, Saving) /\ FollowsIn(file, {})

Even == ~upset => Follows

LEMMA SameGoesOn ==
    ASSUME NEW r \in Requests, Same(r)
    PROVE  /\ \A l, S : Lists(r, l, S)' <=> Lists(r, l, S)
           /\ \A p, S : Brings(r, p, S)' <=> Brings(r, p, S)
           /\ \A p, S : Takes(r, p, S)' <=> Takes(r, p, S)
BY DEF Same, Lists, Brings, Takes, Counted

(* What a step of r has to show of it, the other requests staying.           *)
LEMMA ListedStays ==
    ASSUME NEW r \in Requests, \A q \in Requests \ {r} : Same(q), NEW S, NEW l, Listed(l, S),
           InRow(l) => Listed(l, S)', Lists(r, l, S) => Listed(l, S)'
    PROVE  Listed(l, S)'
<1>1. ASSUME NEW q \in Requests, q # r, Lists(q, l, S)
      PROVE  Listed(l, S)'
  BY <1>1, SameGoesOn DEF Listed
<1> QED
  BY <1>1 DEF Listed

LEMMA WatchHolds ==
    ASSUME NEW r \in Requests, \A q \in Requests \ {r} : Same(q), NEW S, NEW p, Watches(p, S),
           p \in watched \cup missed => Watches(p, S)', Brings(r, p, S) => Watches(p, S)'
    PROVE  Watches(p, S)'
<1>1. ASSUME NEW q \in Requests, q # r, Brings(q, p, S)
      PROVE  Watches(p, S)'
  BY <1>1, SameGoesOn DEF Watches
<1> QED
  BY <1>1 DEF Watches

LEMMA ClaimedStays ==
    ASSUME NEW r \in Requests, \A q \in Requests \ {r} : Same(q), NEW S, NEW p, Claimed(p, S),
           Takes(r, p, S) => Claimed(p, S)'
    PROVE  Claimed(p, S)'
<1>1. ASSUME NEW q \in Requests, q # r, Takes(q, p, S)
      PROVE  Claimed(p, S)'
  BY <1>1, SameGoesOn DEF Claimed
<1> QED
  BY <1>1 DEF Claimed

(* A step of r that writes no row and moves no watch.                        *)
LEMMA Onward ==
    ASSUME NEW r \in Requests, \A q \in Requests \ {r} : Same(q), NEW S,
           UNCHANGED <<db, watched>>, \A p \in missed : p \in missed',
           \A l : Lists(r, l, S) => Listed(l, S)',
           \A p : Brings(r, p, S) => Watches(p, S)',
           \A p : Takes(r, p, S) => Claimed(p, S)'
    PROVE  /\ \A l : Listed(l, S) => Listed(l, S)'
           /\ \A p : Watches(p, S) => Watches(p, S)'
           /\ \A p : Claimed(p, S) => Claimed(p, S)'
<1>1. \A l : InRow(l) => Listed(l, S)'
  BY DEF InRow, Live, Listed
<1>2. \A p : p \in watched \cup missed => Watches(p, S)'
  BY DEF Watches
<1>3. ASSUME NEW l, Listed(l, S) PROVE Listed(l, S)'
  BY <1>1, <1>3, ListedStays
<1>4. ASSUME NEW p, Watches(p, S) PROVE Watches(p, S)'
  BY <1>2, <1>4, WatchHolds
<1>5. ASSUME NEW p, Claimed(p, S) PROVE Claimed(p, S)'
  BY <1>5, ClaimedStays
<1> QED
  BY <1>3, <1>4, <1>5

(* A step that leaves both lists as they are.                                *)
LEMMA FollowOn ==
    ASSUME Follows, UNCHANGED <<cfg, file>>,
           \A S \in Views : \A l \in cfg \cup file : Listed(l, S) => Listed(l, S)',
           \A S \in Views : \A p \in PathsOf(cfg \cup file) : Watches(p, S) => Watches(p, S)',
           \A p \in watched' : \/ p \in PathsOf(cfg) /\ p \in PathsOf(file)
                               \/ p \in watched /\ \A S \in Views : Claimed(p, S) => Claimed(p, S)'
    PROVE  Follows'
<1>1. Saving \in Views /\ {} \in Views
  BY DEF Views
<1>2. \A l \in cfg \cup file : l.path \in PathsOf(cfg \cup file)
  BY DEF PathsOf
<1>3. \A l \in cfg : Listed(l, Saving)' /\ Watches(l.path, Saving)'
  BY <1>1, <1>2 DEF Follows, FollowsIn
<1>4. \A l \in file : Listed(l, {})' /\ Watches(l.path, {})'
  BY <1>1, <1>2 DEF Follows, FollowsIn
<1>5. \A p \in watched' : p \in PathsOf(cfg) \/ Claimed(p, Saving)'
  BY <1>1 DEF Follows, FollowsIn
<1>6. \A p \in watched' : p \in PathsOf(file) \/ Claimed(p, {})'
  BY <1>1 DEF Follows, FollowsIn
<1>7. PathsOf(cfg)' = PathsOf(cfg) /\ PathsOf(file)' = PathsOf(file)
  BY DEF PathsOf
<1>8. (\A l \in cfg' : Listed(l, Saving)' /\ Watches(l.path, Saving)')
      /\ (\A l \in file' : Listed(l, {})' /\ Watches(l.path, {})')
  BY <1>3, <1>4
<1> QED
  BY <1>5, <1>6, <1>7, <1>8 DEF Follows, FollowsIn

(* A request that has nothing under way yet stops or goes on.                *)
Early == {"idle", "create config", "update config", "update add"}

LEMMA EarlyIs ==
    ASSUME NEW r \in Requests, pc[r] \in Early
    PROVE  \A x, S : ~Lists(r, x, S) /\ ~Brings(r, x, S) /\ ~Takes(r, x, S)
BY DEF Early, Lists, Brings, Takes, Put, Edit

LEMMA NothingMoves ==
    ASSUME Follows, UNCHANGED <<cfg, file, db, watches>>, NEW r \in Requests, pc[r] \in Early,
           \A q \in Requests \ {r} : Same(q)
    PROVE  Follows'
<1>1. ASSUME NEW S
      PROVE  /\ \A l : Listed(l, S) => Listed(l, S)'
             /\ \A p : Watches(p, S) => Watches(p, S)'
             /\ \A p : Claimed(p, S) => Claimed(p, S)'
  BY EarlyIs, Onward DEF watches
<1>2. \A p \in watched' : p \in watched
  BY DEF watches
<1>3. \A p \in watched' : \/ p \in PathsOf(cfg) /\ p \in PathsOf(file)
                          \/ p \in watched /\ \A S \in Views : Claimed(p, S) => Claimed(p, S)'
  BY <1>1, <1>2
<1> QED
  BY <1>1, <1>3, FollowOn

LEMMA RequestsWait ==
    ASSUME Follows, UNCHANGED <<cfg, file, db, watches, requests>>
    PROVE  Follows'
<1>1. \A q \in Requests : Same(q)
  BY DEF requests, Same
<1>2. \A l : InRow(l) => InRow(l)'
  BY DEF InRow, Live
<1>3. /\ \A S, l : Listed(l, S) => Listed(l, S)'
      /\ \A S, p : Watches(p, S) => Watches(p, S)'
      /\ \A S, p : Claimed(p, S) => Claimed(p, S)'
  BY <1>1, <1>2, SameGoesOn DEF Listed, Watches, Claimed, watches
<1>4. \A p \in watched' : p \in watched
  BY DEF watches
<1> QED
  BY <1>3, <1>4, FollowOn

(* The saved list while r changes the one that runs: nothing is lost of it.  *)
LEMMA SavedWaits ==
    ASSUME FollowsIn(file, {}), file' = file, UNCHANGED <<db, watched>>,
           \A p \in missed : p \in missed', NEW r \in Requests,
           pc[r] \in Early \cup {"delete config"}, \A q \in Requests \ {r} : Same(q),
           pc[r] = "delete config" => pc'[r] = "delete save" /\ got'[r] = got[r]
    PROVE  FollowsIn(file, {})'
<1>1. \A l : Lists(r, l, {}) => Listed(l, {})'
  BY EarlyIs DEF Lists, Listed
<1>2. \A p : ~Brings(r, p, {}) /\ ~Takes(r, p, {})
  BY DEF Early, Brings, Takes, Put, Edit
<1>3. /\ \A l : Listed(l, {}) => Listed(l, {})'
      /\ \A p : Watches(p, {}) => Watches(p, {})'
      /\ \A p : Claimed(p, {}) => Claimed(p, {})'
  BY <1>1, <1>2, Onward
<1>4. PathsOf(file)' = PathsOf(file)
  BY DEF PathsOf
<1> QED
  BY <1>3, <1>4 DEF FollowsIn

LEMMA PersistFollows ==
    ASSUME Typed, Even, NEW r \in Requests, Persist(r), ~upset'
    PROVE  Follows'
<1>1. FollowsIn(cfg, Saving)
  BY DEF Persist, Even, Follows
<1>2. /\ \A s \in Requests \ {r} : Same(s) /\ pc[s] \notin Saving
      /\ pc'[r] \notin Saving
      /\ \/ pc[r] = "create save" /\ pc'[r] = "create row"
         \/ pc[r] = "update save" /\ pc'[r] = "update row"
         \/ pc[r] = "delete save" /\ pc'[r] = "delete watch"
      /\ body'[r] = body[r] /\ got'[r] = got[r] /\ Dropped(r)
  BY PersistTyped DEF Persist, Typed, ConfigTyped
<1>3. \A S \in Views : \A l \in cfg : Lists(r, l, Saving) => Lists(r, l, S)'
  BY <1>2 DEF Lists, Counted, Dropped
<1>4. \A S \in Views : \A p : /\ Brings(r, p, Saving) => Brings(r, p, S)'
                              /\ Takes(r, p, Saving) => Takes(r, p, S)'
  BY <1>2 DEF Brings, Takes, Counted, Put, Edit
<1>5. ASSUME NEW S \in Views, NEW l \in cfg, Listed(l, Saving)
      PROVE  Listed(l, S)'
  <2>1. InRow(l) => InRow(l)'
    BY DEF Persist, InRow, Live
  <2>2. ASSUME NEW q \in Requests
        PROVE  Lists(q, l, Saving) => Lists(q, l, S)'
    <3>1. CASE q = r
      BY <1>3, <3>1
    <3>2. CASE q # r
      BY <1>2, <3>2 DEF Same, Lists, Counted
    <3> QED
      BY <3>1, <3>2
  <2> QED
    BY <1>5, <2>1, <2>2 DEF Listed
<1>6. ASSUME NEW S \in Views, NEW p, Watches(p, Saving)
      PROVE  Watches(p, S)'
  <2>1. p \in watched \cup missed => p \in watched' \cup missed'
    BY DEF Persist, watches
  <2>2. ASSUME NEW q \in Requests
        PROVE  Brings(q, p, Saving) => Brings(q, p, S)'
    <3>1. CASE q = r
      BY <1>4, <3>1
    <3>2. CASE q # r
      BY <1>2, <3>2 DEF Same, Brings, Counted
    <3> QED
      BY <3>1, <3>2
  <2> QED
    BY <1>6, <2>1, <2>2 DEF Watches
<1>7. ASSUME NEW S \in Views, NEW p, Claimed(p, Saving)
      PROVE  Claimed(p, S)'
  <2>1. ASSUME NEW q \in Requests
        PROVE  Takes(q, p, Saving) => Takes(q, p, S)'
    <3>1. CASE q = r
      BY <1>4, <3>1
    <3>2. CASE q # r
      BY <1>2, <3>2 DEF Same, Takes, Counted
    <3> QED
      BY <3>1, <3>2
  <2> QED
    BY <1>7, <2>1 DEF Claimed
<1>8. cfg' = cfg /\ file' = cfg /\ watched' = watched
  BY DEF Persist, watches
<1>9. PathsOf(cfg)' = PathsOf(cfg) /\ PathsOf(file)' = PathsOf(cfg)
  BY <1>8 DEF PathsOf
<1>10. Saving \in Views /\ {} \in Views
  BY DEF Views
<1>11. \A S \in Views : /\ \A l \in cfg : Listed(l, S)' /\ Watches(l.path, S)'
                        /\ \A p \in watched : p \in PathsOf(cfg) \/ Claimed(p, S)'
  BY <1>1, <1>5, <1>6, <1>7 DEF FollowsIn
<1>12. /\ \A l \in cfg : Listed(l, Saving)' /\ Watches(l.path, Saving)'
       /\ \A p \in watched : p \in PathsOf(cfg) \/ Claimed(p, Saving)'
  BY <1>10, <1>11
<1>13. /\ \A l \in cfg : Listed(l, {})' /\ Watches(l.path, {})'
       /\ \A p \in watched : p \in PathsOf(cfg) \/ Claimed(p, {})'
  BY <1>10, <1>11
<1> QED
  BY <1>8, <1>9, <1>12, <1>13 DEF Follows, FollowsIn

LEMMA PersistFailsFollows ==
    ASSUME Typed, Even, NEW r \in Requests, PersistFails(r), ~upset'
    PROVE  Follows'
<1>1. FollowsIn(file, {}) /\ (pc[r] = "delete save" => db[id[r]] = got[r])
  BY DEF PersistFails, PersistFailed, At, Even, Follows, Typed, OthersTyped
<1>2. /\ \A s \in Requests \ {r} : Same(s) /\ pc[s] \notin Saving
      /\ pc'[r] = "idle" /\ cfg' = file /\ file' = file /\ watched' = watched /\ pc[r] \in Saving
  BY PersistFailsTyped DEF PersistFails, PersistFailed, watches
<1>3. \A l : Lists(r, l, {}) => InRow(l)
  BY <1>1, <1>2 DEF Lists, Counted, InRow, Live, Typed, Knows, Delete, Saving
<1>4. \A p : ~Brings(r, p, {}) /\ ~Takes(r, p, {})
  BY <1>2 DEF Brings, Takes, Counted
<1>5. ASSUME NEW S \in Views, NEW l, Listed(l, {})
      PROVE  Listed(l, S)'
  <2>1. InRow(l) => InRow(l)'
    BY DEF PersistFails, PersistFailed, InRow, Live
  <2>2. ASSUME NEW q \in Requests
        PROVE  Lists(q, l, {}) => Lists(q, l, S)' \/ InRow(l)
    <3>1. CASE q = r
      BY <1>3, <3>1
    <3>2. CASE q # r
      BY <1>2, <3>2 DEF Same, Lists, Counted
    <3> QED
      BY <3>1, <3>2
  <2> QED
    BY <1>5, <2>1, <2>2 DEF Listed
<1>6. ASSUME NEW S \in Views, NEW p, Watches(p, {})
      PROVE  Watches(p, S)'
  <2>1. p \in watched \cup missed => p \in watched' \cup missed'
    BY DEF PersistFails, PersistFailed, watches
  <2>2. ASSUME NEW q \in Requests
        PROVE  Brings(q, p, {}) => Brings(q, p, S)'
    <3>1. CASE q = r
      BY <1>4, <3>1
    <3>2. CASE q # r
      BY <1>2, <3>2 DEF Same, Brings, Counted
    <3> QED
      BY <3>1, <3>2
  <2> QED
    BY <1>6, <2>1, <2>2 DEF Watches
<1>7. ASSUME NEW S \in Views, NEW p, Claimed(p, {})
      PROVE  Claimed(p, S)'
  <2>1. ASSUME NEW q \in Requests
        PROVE  Takes(q, p, {}) => Takes(q, p, S)'
    <3>1. CASE q = r
      BY <1>4, <3>1
    <3>2. CASE q # r
      BY <1>2, <3>2 DEF Same, Takes, Counted
    <3> QED
      BY <3>1, <3>2
  <2> QED
    BY <1>7, <2>1 DEF Claimed
<1>8. PathsOf(cfg)' = PathsOf(file) /\ PathsOf(file)' = PathsOf(file)
  BY <1>2 DEF PathsOf
<1>9. Saving \in Views /\ {} \in Views
  BY DEF Views
<1>10. \A S \in Views : /\ \A l \in file : Listed(l, S)' /\ Watches(l.path, S)'
                        /\ \A p \in watched : p \in PathsOf(file) \/ Claimed(p, S)'
  BY <1>1, <1>5, <1>6, <1>7 DEF FollowsIn
<1>11. /\ \A l \in file : Listed(l, Saving)' /\ Watches(l.path, Saving)'
       /\ \A p \in watched : p \in PathsOf(file) \/ Claimed(p, Saving)'
  BY <1>9, <1>10
<1>12. /\ \A l \in file : Listed(l, {})' /\ Watches(l.path, {})'
       /\ \A p \in watched : p \in PathsOf(file) \/ Claimed(p, {})'
  BY <1>9, <1>10
<1> QED
  BY <1>2, <1>8, <1>11, <1>12 DEF Follows, FollowsIn

LEMMA CreateLibraryFollows ==
    ASSUME Typed, Even, NEW r \in Requests, NEW l \in Libs, CreateLibrary(r, l), ~upset'
    PROVE  Follows'
<1>1. Follows
  BY DEF CreateLibrary, Even
<1>2. /\ pc[r] \in Early /\ UNCHANGED <<cfg, file, db, watches>>
      /\ \A q \in Requests \ {r} : Same(q)
  BY CreateLibraryTyped DEF CreateLibrary, Early, lists
<1> QED
  BY <1>1, <1>2, NothingMoves

LEMMA CreateConfigFollows ==
    ASSUME Typed, Even, NEW r \in Requests, CreateConfig(r), ~upset'
    PROVE  Follows'
<1>1. /\ Follows /\ pc[r] = "create config" /\ body[r] \in Libs
      /\ \A q \in Requests \ {r} : Same(q)
  BY CreateConfigTyped DEF CreateConfig, Even, At, Typed, Knows
<1>2. UNCHANGED <<db, watched, missed>>
  BY DEF CreateConfig, watches
<1>3. CASE Change(r, cfg \cup {body[r]}, "create save")
  <2>1. /\ cfg' = cfg \cup {body[r]} /\ file' = file
        /\ pc'[r] = "create save" /\ body'[r] = body[r]
    BY <1>3 DEF Change, Goto, Typed, RequestsTyped
  <2>2. FollowsIn(file, {})'
    BY <1>1, <1>2, <2>1, SavedWaits DEF Early, Follows
  <2>3. /\ \A l : Listed(l, Saving) => Listed(l, Saving)'
        /\ \A p : Watches(p, Saving) => Watches(p, Saving)'
        /\ \A p : Claimed(p, Saving) => Claimed(p, Saving)'
    BY <1>1, <1>2, EarlyIs, Onward DEF Early
  <2>4. Listed(body[r], Saving)' /\ Watches(body[r].path, Saving)'
    BY <2>1 DEF Listed, Lists, Watches, Brings, Counted, Saving, Put
  <2>5. \A p \in PathsOf(cfg) : p \in PathsOf(cfg)'
    BY <2>1 DEF PathsOf
  <2>6. FollowsIn(cfg, Saving)'
    BY <1>1, <1>2, <2>1, <2>3, <2>4, <2>5 DEF Follows, FollowsIn
  <2> QED
    BY <2>2, <2>6 DEF Follows
<1>4. CASE UNCHANGED lists
  BY <1>1, <1>2, <1>4, NothingMoves DEF Early, lists, watches
<1> QED
  BY <1>3, <1>4 DEF CreateConfig

(* A row saved for a configured library is its row, and takes no other's.    *)
LEMMA SavedFollows ==
    ASSUME Typed, NEW l \in Saved, NEW i \in Ids, SavesOne(l, i), NEW m \in cfg \cup file, InRow(m)
    PROVE  InRow(m)'
<1>1. l \in Libs /\ (m.name = l.name => m = l)
  BY DEF Saved, Typed, ConfigTyped, Unique
<1>2. PICK j \in Live : db[j] = m
  BY DEF InRow
<1>3. RowsTyped
  BY DEF Typed
<1>4. j \in Live' /\ (db'[j] = m \/ (l.name = m.name /\ db'[j] = l))
  BY <1>1, <1>2, <1>3, SavesOneIs
<1> QED
  BY <1>1, <1>4 DEF InRow

LEMMA CreateRowFollows ==
    ASSUME Typed, Even, NEW r \in Requests, CreateRow(r), ~upset'
    PROVE  Follows'
<1>1. Follows /\ body[r] \in Saved /\ body[r] \in Libs
  BY DEF CreateRow, Even, Saved, Typed, ConfigTyped
<1>2. /\ pc[r] = "create row" /\ pc'[r] = "create watch" /\ body'[r] = body[r]
      /\ \A q \in Requests \ {r} : Same(q)
  BY CreateRowTyped DEF CreateRow
<1>3. PICK i \in Ids : SavesOne(body[r], i)
  BY DEF CreateRow
<1>4. InRow(body[r])'
  BY <1>1, <1>2, <1>3, SavesOneIs DEF InRow, Typed
<1>5. ASSUME NEW S, NEW m \in cfg \cup file, Listed(m, S)
      PROVE  Listed(m, S)'
  <2>1. InRow(m) => Listed(m, S)'
    BY <1>1, <1>3, SavedFollows DEF Listed
  <2>2. Lists(r, m, S) => Listed(m, S)'
    BY <1>2, <1>4 DEF Lists, Listed
  <2> QED
    BY <1>2, <1>5, <2>1, <2>2, ListedStays
<1>6. ASSUME NEW S, NEW p, Watches(p, S)
      PROVE  Watches(p, S)'
  <2>1. p \in watched \cup missed => Watches(p, S)'
    BY DEF CreateRow, watches, Watches
  <2>2. Brings(r, p, S) => Watches(p, S)'
    BY <1>2 DEF Brings, Counted, Put, Edit, Saving, Watches
  <2> QED
    BY <1>2, <1>6, <2>1, <2>2, WatchHolds
<1>7. ASSUME NEW S, NEW p, Claimed(p, S)
      PROVE  Claimed(p, S)'
  <2>1. ~Takes(r, p, S)
    BY <1>2 DEF Takes, Edit
  <2> QED
    BY <1>2, <1>7, <2>1, ClaimedStays
<1>8. UNCHANGED <<cfg, file>> /\ watched' = watched
  BY DEF CreateRow, lists, watches
<1> QED
  BY <1>1, <1>5, <1>6, <1>7, <1>8, FollowOn

LEMMA CreateWatchFollows ==
    ASSUME Typed, Even, NEW r \in Requests, CreateWatch(r), ~upset'
    PROVE  Follows'
<1> DEFINE p0 == body[r].path
<1>1. Follows /\ body[r] \in Saved /\ p0 \in PathsOf(cfg) /\ p0 \in PathsOf(file)
  BY DEF CreateWatch, Even, Saved, PathsOf
<1>2. /\ pc[r] = "create watch" /\ \A q \in Requests \ {r} : Same(q)
      /\ UNCHANGED <<cfg, file, db>>
  BY CreateWatchTyped DEF CreateWatch, lists
<1>3. /\ \A p \in watched \cup missed : p \in watched' \cup missed'
      /\ p0 \in watched' \cup missed'
      /\ \A p \in watched' : p \in watched \/ p = p0
  BY DEF CreateWatch, Installed
<1>4. ASSUME NEW S, NEW m \in cfg \cup file, Listed(m, S)
      PROVE  Listed(m, S)'
  <2>1. InRow(m) => Listed(m, S)'
    BY <1>2 DEF InRow, Live, Listed
  <2>2. ~Lists(r, m, S)
    BY <1>2 DEF Lists
  <2> QED
    BY <1>2, <1>4, <2>1, <2>2, ListedStays
<1>5. ASSUME NEW S, NEW p, Watches(p, S)
      PROVE  Watches(p, S)'
  <2>1. p \in watched \cup missed => Watches(p, S)'
    BY <1>3 DEF Watches
  <2>2. Brings(r, p, S) => Watches(p, S)'
    BY <1>3 DEF Brings, Watches
  <2> QED
    BY <1>2, <1>5, <2>1, <2>2, WatchHolds
<1>6. ASSUME NEW S, NEW p, Claimed(p, S)
      PROVE  Claimed(p, S)'
  <2>1. ~Takes(r, p, S)
    BY <1>2 DEF Takes, Edit
  <2> QED
    BY <1>2, <1>6, <2>1, ClaimedStays
<1> QED
  BY <1>1, <1>2, <1>3, <1>4, <1>5, <1>6, FollowOn

LEMMA UpdateLibraryFollows ==
    ASSUME Typed, Even, NEW r \in Requests, NEW i \in Ids, NEW l \in Libs,
           UpdateLibrary(r, i, l), ~upset'
    PROVE  Follows'
<1>1. Follows /\ UNCHANGED <<cfg, file, db, watches>>
  BY DEF UpdateLibrary, Even, lists
<1>2. pc[r] \in Early /\ \A q \in Requests \ {r} : Same(q)
  BY UpdateLibraryTyped DEF Early
<1> QED
  BY <1>1, <1>2, NothingMoves

LEMMA UpdateConfigFollows ==
    ASSUME Typed, Even, NEW r \in Requests, UpdateConfig(r), ~upset'
    PROVE  Follows'
<1> DEFINE others == {l \in cfg : l.name # got[r].name}
<1>1. /\ Follows /\ pc[r] = "update config" /\ body[r] \in Libs /\ got[r] \in Libs
      /\ \A q \in Requests \ {r} : Same(q)
  <2>1. pc[r] = "update config" /\ \A q \in Requests \ {r} : Same(q)
    BY UpdateConfigTyped
  <2>2. ~upset
    BY DEF UpdateConfig, Typed, OthersTyped
  <2> QED
    BY <2>1, <2>2 DEF Even, Typed, Knows
<1>2. UNCHANGED <<db, watched, missed>>
  BY DEF UpdateConfig, watches
<1>3. CASE /\ Change(r, others \cup {body[r]}, "update save") /\ got[r] \in cfg
  <2>1. /\ cfg' = others \cup {body[r]} /\ file' = file
        /\ pc'[r] = "update save" /\ body'[r] = body[r] /\ got'[r] = got[r]
    BY <1>3 DEF Change, Goto, Typed, RequestsTyped
  <2>2. FollowsIn(file, {})'
    BY <1>1, <1>2, <2>1, SavedWaits DEF Early, Follows
  <2>3. /\ \A l : Listed(l, Saving) => Listed(l, Saving)'
        /\ \A p : Watches(p, Saving) => Watches(p, Saving)'
        /\ \A p : Claimed(p, Saving) => Claimed(p, Saving)'
    BY <1>1, <1>2, EarlyIs, Onward DEF Early
  <2>4. \A l \in cfg : l \in others \/ l = got[r]
    BY <1>3 DEF Typed, ConfigTyped, Unique
  <2>5. Listed(body[r], Saving)'
    BY <2>1 DEF Listed, Lists, Counted, Saving
  <2>6. Watches(body[r].path, Saving)'
    <3>1. CASE body[r].path = got[r].path
      BY <1>1, <1>3, <2>1, <2>3, <3>1 DEF Follows, FollowsIn
    <3>2. CASE body[r].path # got[r].path
      BY <2>1, <3>2 DEF Watches, Brings, Counted, Saving, Edit
    <3> QED
      BY <3>1, <3>2
  <2>7. ASSUME NEW p \in PathsOf(cfg)
        PROVE  p \in PathsOf(cfg)' \/ Claimed(p, Saving)'
    <3>1. PICK l \in cfg : l.path = p
      BY DEF PathsOf
    <3>2. CASE l \in others \/ p = body[r].path
      BY <2>1, <3>1, <3>2 DEF PathsOf
    <3>3. CASE l = got[r] /\ p # body[r].path
      BY <2>1, <3>1, <3>3 DEF Claimed, Takes, Counted, Saving, Edit
    <3> QED
      BY <2>4, <3>2, <3>3
  <2>8. \A l \in cfg' : Listed(l, Saving)' /\ Watches(l.path, Saving)'
    BY <1>1, <2>1, <2>3, <2>5, <2>6 DEF Follows, FollowsIn
  <2>9. \A p \in watched' : p \in PathsOf(cfg)' \/ Claimed(p, Saving)'
    BY <1>1, <1>2, <2>3, <2>7 DEF Follows, FollowsIn
  <2> QED
    BY <2>2, <2>8, <2>9 DEF Follows, FollowsIn
<1>4. CASE UNCHANGED lists
  BY <1>1, <1>2, <1>4, NothingMoves DEF Early, lists, watches
<1>5. upset' # FALSE \/ UNCHANGED lists \/ (Change(r, others \cup {body[r]}, "update save") /\ got[r] \in cfg)
  BY DEF UpdateConfig
<1> QED
  BY <1>3, <1>4, <1>5 DEF UpdateConfig

LEMMA UpdateAddFollows ==
    ASSUME Typed, Even, NEW r \in Requests, UpdateAdd(r), ~upset'
    PROVE  Follows'
<1>1. /\ Follows /\ pc[r] = "update add" /\ body[r] \in Libs /\ got[r] \in Libs
      /\ \A q \in Requests \ {r} : Same(q)
  BY UpdateAddTyped DEF UpdateAdd, Even, At, Typed, Knows
<1>2. UNCHANGED <<db, watched>>
  BY DEF UpdateAdd
<1>3. CASE /\ Change(r, cfg \cup {body[r]}, "update save")
           /\ missed' = (missed \cup {p \in {body[r].path} : p = got[r].path}) \ watched
  <2>1. /\ cfg' = cfg \cup {body[r]} /\ file' = file
        /\ pc'[r] = "update save" /\ body'[r] = body[r] /\ got'[r] = got[r]
    BY <1>3 DEF Change, Goto, Typed, RequestsTyped
  <2>2. \A p \in missed : p \in missed'
    BY <1>3 DEF Typed, WatchesTyped
  <2>3. FollowsIn(file, {})'
    BY <1>1, <1>2, <2>1, <2>2, SavedWaits DEF Early, Follows
  <2>4. /\ \A l : Listed(l, Saving) => Listed(l, Saving)'
        /\ \A p : Watches(p, Saving) => Watches(p, Saving)'
        /\ \A p : Claimed(p, Saving) => Claimed(p, Saving)'
    BY <1>1, <1>2, <2>2, EarlyIs, Onward DEF Early
  <2>5. Listed(body[r], Saving)'
    BY <2>1 DEF Listed, Lists, Counted, Saving
  <2>6. Watches(body[r].path, Saving)'
    <3>1. CASE body[r].path = got[r].path
      BY <1>2, <1>3, <2>1, <3>1 DEF Watches
    <3>2. CASE body[r].path # got[r].path
      BY <2>1, <3>2 DEF Watches, Brings, Counted, Saving, Edit
    <3> QED
      BY <3>1, <3>2
  <2>7. \A p \in PathsOf(cfg) : p \in PathsOf(cfg)'
    BY <2>1 DEF PathsOf
  <2>8. FollowsIn(cfg, Saving)'
    BY <1>1, <1>2, <2>1, <2>4, <2>5, <2>6, <2>7 DEF Follows, FollowsIn
  <2> QED
    BY <2>3, <2>8 DEF Follows
<1>4. CASE UNCHANGED <<lists, missed>>
  BY <1>1, <1>2, <1>4, NothingMoves DEF Early, lists, watches
<1> QED
  BY <1>3, <1>4 DEF UpdateAdd

LEMMA UpdateRowFollows ==
    ASSUME Typed, Even, NEW r \in Requests, UpdateRow(r), ~upset'
    PROVE  Follows'
<1> DEFINE i == id[r]
<1>1. /\ Follows /\ i \in Live /\ i \in Ids /\ db[i] = got[r] /\ body[r] \in Saved
      /\ body[r] = got[r] \/ got[r] \notin cfg \cup file
      /\ db' = [db EXCEPT ![i] = Changed(r)]
      /\ Goto(r, "update watch") /\ UNCHANGED <<body, id, got>>
  BY DEF UpdateRow, Even, Live
<1>2. /\ pc[r] = "update row" /\ pc'[r] = "update watch" /\ body'[r] = body[r] /\ got'[r] = got[r]
      /\ \A q \in Requests \ {r} : Same(q)
      /\ UNCHANGED <<cfg, file, watched, missed>>
  BY <1>1, UpdateRowTyped DEF UpdateRow, Goto, Typed, RequestsTyped, lists, watches
<1>3. body[r] \in Libs /\ got[r] \in Libs /\ Changed(r) = body[r]
  BY <1>1, <1>2 DEF Typed, Knows, Edit, Changed, Libs
<1>4. db'[i] = body[r] /\ \A j \in Ids \ {i} : db'[j] = db[j]
  BY <1>1, <1>3 DEF Typed, RowsTyped
<1>5. \A m : (m = body[r] \/ (InRow(m) /\ m # got[r])) => InRow(m)'
  BY <1>1, <1>3, <1>4 DEF InRow, Live
<1>6. ASSUME NEW S, NEW m \in cfg \cup file, Listed(m, S)
      PROVE  Listed(m, S)'
  <2>1. InRow(m) => Listed(m, S)'
    BY <1>1, <1>5 DEF Listed
  <2>2. Lists(r, m, S) => Listed(m, S)'
    BY <1>2, <1>5 DEF Lists, Listed
  <2> QED
    BY <1>2, <1>6, <2>1, <2>2, ListedStays
<1>7. ASSUME NEW S, NEW p, Watches(p, S)
      PROVE  Watches(p, S)'
  <2>1. p \in watched \cup missed => Watches(p, S)'
    BY <1>2 DEF Watches
  <2>2. Brings(r, p, S) => Watches(p, S)'
    BY <1>2 DEF Brings, Counted, Put, Edit, Saving, Watches
  <2> QED
    BY <1>2, <1>7, <2>1, <2>2, WatchHolds
<1>8. ASSUME NEW S, NEW p, Claimed(p, S)
      PROVE  Claimed(p, S)'
  <2>1. Takes(r, p, S) => Claimed(p, S)'
    BY <1>2 DEF Takes, Counted, Edit, Saving, Claimed
  <2> QED
    BY <1>2, <1>8, <2>1, ClaimedStays
<1> QED
  BY <1>1, <1>2, <1>6, <1>7, <1>8, FollowOn

LEMMA UpdateWatchFollows ==
    ASSUME Typed, Even, NEW r \in Requests, UpdateWatch(r), ~upset'
    PROVE  Follows'
<1>1. /\ pc[r] = "update watch" /\ \A q \in Requests \ {r} : Same(q)
      /\ UNCHANGED <<cfg, file, db>>
  BY UpdateWatchTyped DEF UpdateWatch, lists
<1>2. ~upset /\ Follows
  BY DEF UpdateWatch, Even, Typed, OthersTyped
<1>3. ASSUME NEW S, NEW m \in cfg \cup file, Listed(m, S)
      PROVE  Listed(m, S)'
  <2>1. InRow(m) => Listed(m, S)'
    BY <1>1 DEF InRow, Live, Listed
  <2>2. ~Lists(r, m, S)
    BY <1>1 DEF Lists
  <2> QED
    BY <1>1, <1>3, <2>1, <2>2, ListedStays
<1>4. CASE body[r].path = got[r].path
  <2>1. \A S, p : ~Brings(r, p, S) /\ ~Takes(r, p, S)
    BY <1>1, <1>4 DEF Brings, Takes, Put
  <2>2. watched' = watched /\ missed' = missed
    BY <1>4 DEF UpdateWatch, watches
  <2>3. ASSUME NEW S
        PROVE  /\ \A p : Watches(p, S) => Watches(p, S)'
               /\ \A p : Claimed(p, S) => Claimed(p, S)'
    <3>1. \A l : ~Lists(r, l, S)
      BY <1>1 DEF Lists
    <3> QED
      BY <1>1, <2>1, <2>2, <3>1, Onward
  <2> QED
    BY <1>1, <1>2, <1>3, <2>2, <2>3, FollowOn
<1>5. CASE body[r].path # got[r].path
  <2> DEFINE old == got[r].path  new == body[r].path
  <2>1. /\ watched' = Installed(Uninstalled(watched, old), new)
        /\ missed' = (missed \cup {p \in {old} : Taken(p)} \cup {p \in {new} : Skipped(p)}) \ watched'
        /\ body[r] \in Saved
    BY <1>5 DEF UpdateWatch
  <2>2. new \in PathsOf(cfg) /\ new \in PathsOf(file)
    BY <2>1 DEF Saved, PathsOf
  <2>3. /\ \A p \in watched \cup missed : p # old => p \in watched' \cup missed'
        /\ old \in PathsOf(cfg \cup file) => old \in watched' \cup missed'
        /\ new \in watched' \cup missed'
        /\ \A p \in watched' : (p \in watched /\ p # old) \/ p = new
    BY <1>5, <2>1 DEF Installed, Uninstalled, Taken
  <2> HIDE DEF old, new
  <2>4. ASSUME NEW S, NEW p \in PathsOf(cfg \cup file), Watches(p, S)
        PROVE  Watches(p, S)'
    <3>1. p \in watched \cup missed => Watches(p, S)'
      BY <2>3 DEF Watches
    <3>2. Brings(r, p, S) => p = new
      BY DEF Brings, new
    <3>3. Brings(r, p, S) => Watches(p, S)'
      BY <2>3, <3>2 DEF Watches
    <3> QED
      BY <1>1, <2>4, <3>1, <3>3, WatchHolds
  <2>5. ASSUME NEW S, NEW p, p # old, Claimed(p, S)
        PROVE  Claimed(p, S)'
    <3>1. ~Takes(r, p, S)
      BY <2>5 DEF Takes, old
    <3> QED
      BY <1>1, <2>5, <3>1, ClaimedStays
  <2>6. ASSUME NEW p \in watched'
        PROVE  \/ p \in PathsOf(cfg) /\ p \in PathsOf(file)
               \/ p \in watched /\ \A S \in Views : Claimed(p, S) => Claimed(p, S)'
    <3>1. CASE p = new
      BY <2>2, <3>1
    <3>2. CASE p \in watched /\ p # old
      <4>1. \A S \in Views : Claimed(p, S) => Claimed(p, S)'
        BY <2>5, <3>2
      <4> QED
        BY <3>2, <4>1
    <3> QED
      BY <2>3, <3>1, <3>2
  <2> QED
    BY <1>1, <1>2, <1>3, <2>4, <2>6, FollowOn
<1> QED
  BY <1>4, <1>5

LEMMA DeleteLibraryFollows ==
    ASSUME Typed, Even, NEW r \in Requests, NEW i \in Ids, NEW purge \in BOOLEAN,
           DeleteLibrary(r, i, purge), ~upset'
    PROVE  Follows'
<1>1. /\ Follows /\ UNCHANGED <<cfg, file, watched, missed>>
      /\ pc[r] = "idle" /\ \A q \in Requests \ {r} : Same(q)
      /\ pc'[r] = "delete config" /\ got'[r] = db[i]
  BY DeleteLibraryTyped DEF DeleteLibrary, Even, lists, watches
<1>2. \A x, S : ~Lists(r, x, S) /\ ~Brings(r, x, S) /\ ~Takes(r, x, S)
  BY <1>1, EarlyIs DEF Early
<1>3. \A j \in Live \ {i} : j \in Live' /\ db'[j] = db[j]
  <2>1. \A j \in Ids \ {i} : db'[j] = db[j]
    BY DEF DeleteLibrary, Typed, RowsTyped
  <2> QED
    BY <2>1 DEF Live
<1>4. ASSUME NEW S, NEW m \in cfg \cup file, Listed(m, S)
      PROVE  Listed(m, S)'
  <2>1. InRow(m) => Listed(m, S)'
    BY <1>1, <1>3 DEF InRow, Listed, Lists
  <2> QED
    BY <1>1, <1>2, <1>4, <2>1, ListedStays
<1>5. ASSUME NEW S, NEW p, Watches(p, S)
      PROVE  Watches(p, S)'
  <2>1. p \in watched \cup missed => Watches(p, S)'
    BY <1>1 DEF Watches
  <2> QED
    BY <1>1, <1>2, <1>5, <2>1, WatchHolds
<1>6. ASSUME NEW S, NEW p, Claimed(p, S)
      PROVE  Claimed(p, S)'
  BY <1>1, <1>2, <1>6, ClaimedStays
<1> QED
  BY <1>1, <1>4, <1>5, <1>6, FollowOn

LEMMA DeleteConfigFollows ==
    ASSUME Typed, Even, NEW r \in Requests, DeleteConfig(r), ~upset'
    PROVE  Follows'
<1> DEFINE mine == {l \in cfg : l.name = got[r].name}
<1>1. /\ pc[r] = "delete config" /\ got[r] \in Libs
      /\ \A q \in Requests \ {r} : Same(q)
  BY DeleteConfigTyped DEF Typed, Knows, Delete
<1>2. /\ Follows /\ mine \subseteq {got[r]} /\ UNCHANGED <<db, watched, missed>>
  BY DEF DeleteConfig, Even, watches
<1>3. CASE Change(r, cfg \ mine, "delete save")
  <2>1. /\ cfg' = cfg \ mine /\ file' = file
        /\ pc'[r] = "delete save" /\ body'[r] = body[r] /\ got'[r] = got[r]
    BY <1>3 DEF Change, Goto, Typed, RequestsTyped
  <2>2. FollowsIn(file, {})'
    BY <1>1, <1>2, <2>1, SavedWaits DEF Follows
  <2>3. /\ \A l : Listed(l, Saving) => Listed(l, Saving)'
        /\ \A p : Watches(p, Saving) => Watches(p, Saving)'
        /\ \A p : Claimed(p, Saving) => Claimed(p, Saving)'
    <3>1. \A l : Lists(r, l, Saving) => Listed(l, Saving)'
      BY <1>1, <2>1 DEF Lists, Listed
    <3>2. \A p : ~Brings(r, p, Saving) /\ ~Takes(r, p, Saving)
      BY <1>1 DEF Brings, Takes, Put, Edit
    <3> QED
      BY <1>1, <1>2, <3>1, <3>2, Onward
  <2>4. \A p \in PathsOf(cfg) : p \in PathsOf(cfg)' \/ p = got[r].path
    BY <1>2, <2>1 DEF PathsOf
  <2>5. \A p : p = got[r].path => Claimed(p, Saving)'
    BY <2>1 DEF Claimed, Takes, Counted, Saving
  <2>6. \A l \in cfg' : Listed(l, Saving)' /\ Watches(l.path, Saving)'
    BY <1>2, <2>1, <2>3 DEF Follows, FollowsIn
  <2>7. \A p \in watched' : p \in PathsOf(cfg)' \/ Claimed(p, Saving)'
    BY <1>2, <2>3, <2>4, <2>5 DEF Follows, FollowsIn
  <2> QED
    BY <2>2, <2>6, <2>7 DEF Follows, FollowsIn
<1>4. CASE mine = {} /\ Goto(r, "delete watch") /\ UNCHANGED <<lists, body, id, got>>
  <2>1. /\ UNCHANGED <<cfg, file>> /\ cfg = file /\ got[r] \notin cfg
        /\ pc'[r] = "delete watch" /\ got'[r] = got[r]
    BY <1>4 DEF DeleteConfig, lists, Goto, Typed, RequestsTyped, ConfigTyped
  <2>2. ASSUME NEW S, NEW m \in cfg \cup file, Listed(m, S)
        PROVE  Listed(m, S)'
    <3>1. InRow(m) => Listed(m, S)'
      BY <1>2 DEF InRow, Live, Listed
    <3>2. ~Lists(r, m, S)
      BY <1>1, <2>1 DEF Lists
    <3> QED
      BY <1>1, <2>2, <3>1, <3>2, ListedStays
  <2>3. ASSUME NEW S, NEW p, Watches(p, S)
        PROVE  Watches(p, S)'
    <3>1. p \in watched \cup missed => Watches(p, S)'
      BY <1>2 DEF Watches
    <3>2. ~Brings(r, p, S)
      BY <1>1 DEF Brings, Put, Edit
    <3> QED
      BY <1>1, <2>3, <3>1, <3>2, WatchHolds
  <2>4. ASSUME NEW S, NEW p, Claimed(p, S)
        PROVE  Claimed(p, S)'
    <3>1. ~Takes(r, p, S)
      BY <1>1 DEF Takes, Edit
    <3> QED
      BY <1>1, <2>4, <3>1, ClaimedStays
  <2> QED
    BY <1>2, <2>1, <2>2, <2>3, <2>4, FollowOn
<1> QED
  BY <1>3, <1>4 DEF DeleteConfig

LEMMA DeleteWatchFollows ==
    ASSUME Typed, Even, NEW r \in Requests, DeleteWatch(r), ~upset'
    PROVE  Follows'
<1> DEFINE old == got[r].path
<1>1. /\ Follows /\ pc[r] = "delete watch" /\ \A q \in Requests \ {r} : Same(q)
      /\ UNCHANGED <<cfg, file, db>>
  BY EndingTyped DEF DeleteWatch, At, Even, lists
<1>2. /\ \A p \in watched \cup missed : p # old => p \in watched' \cup missed'
      /\ old \in PathsOf(cfg \cup file) => old \in watched' \cup missed'
      /\ \A p \in watched' : p \in watched /\ p # old
  BY DEF DeleteWatch, Uninstalled, Taken
<1>3. ASSUME NEW S, NEW m \in cfg \cup file, Listed(m, S)
      PROVE  Listed(m, S)'
  <2>1. InRow(m) => Listed(m, S)'
    BY <1>1 DEF InRow, Live, Listed
  <2>2. ~Lists(r, m, S)
    BY <1>1 DEF Lists
  <2> QED
    BY <1>1, <1>3, <2>1, <2>2, ListedStays
<1>4. ASSUME NEW S, NEW p \in PathsOf(cfg \cup file), Watches(p, S)
      PROVE  Watches(p, S)'
  <2>1. p \in watched \cup missed => Watches(p, S)'
    BY <1>2 DEF Watches
  <2>2. ~Brings(r, p, S)
    BY <1>1 DEF Brings, Put, Edit
  <2> QED
    BY <1>1, <1>4, <2>1, <2>2, WatchHolds
<1>5. ASSUME NEW S, NEW p, p # old, Claimed(p, S)
      PROVE  Claimed(p, S)'
  <2>1. ~Takes(r, p, S)
    BY <1>5 DEF Takes
  <2> QED
    BY <1>1, <1>5, <2>1, ClaimedStays
<1> QED
  BY <1>1, <1>2, <1>3, <1>4, <1>5, FollowOn

LEMMA ScansFollow ==
    ASSUME Typed, Even, ~upset',
           \/ \E s \in Scanners : StartScan(s) \/ ScanFile(s) \/ EndScan(s)
           \/ \E d \in Dirs : Mount(d)
    PROVE  Follows'
<1>1. Follows /\ UNCHANGED <<cfg, file, db, watches, requests>>
  BY DEF StartScan, ScanFile, EndScan, Mount, Even, lists
<1> QED
  BY <1>1, RequestsWait

LEMMA EnterScanFollows ==
    ASSUME Typed, Even, NEW s \in Scanners, EnterScan(s), ~upset'
    PROVE  Follows'
<1>1. /\ Follows /\ scan[s].lib \in Saved /\ \A q \in Requests : Same(q)
      /\ UNCHANGED <<cfg, file, watched, missed>>
  BY DEF EnterScan, Even, requests, Same, lists, watches
<1>2. PICK i \in Ids : SavesOne(scan[s].lib, i)
  BY DEF EnterScan
<1>3. ASSUME NEW S, NEW m \in cfg \cup file, Listed(m, S)
      PROVE  Listed(m, S)'
  <2>1. InRow(m) => Listed(m, S)'
    BY <1>1, <1>2, SavedFollows DEF Listed
  <2> QED
    BY <1>1, <1>3, <2>1, SameGoesOn DEF Listed
<1>4. /\ \A S, p : Watches(p, S) => Watches(p, S)'
      /\ \A S, p : Claimed(p, S) => Claimed(p, S)'
  BY <1>1, SameGoesOn DEF Watches, Claimed
<1> QED
  BY <1>1, <1>3, <1>4, FollowOn

LEMMA RestartFollows ==
    ASSUME Typed, Restart, ~upset'
    PROVE  Follows'
<1>1. /\ Reconcile /\ cfg' = file /\ file' = file
      /\ watched' \cup missed' = PathsOf(file) /\ watched' \subseteq PathsOf(file)
  BY DEF Restart
<1>2. PICK at \in [file -> Ids] : Saves(file, at)
  BY <1>1 DEF Reconcile
<1>3. file \in SUBSET Libs /\ Unique(file) /\ RowsTyped
  BY DEF Typed, ConfigTyped
<1>4. \A l \in file : InRow(l)'
  BY <1>2, <1>3, SavesIs DEF InRow, Unique
<1>5. \A S : \A l \in file : Listed(l, S)' /\ Watches(l.path, S)'
  BY <1>1, <1>4 DEF Listed, Watches, PathsOf
<1>6. PathsOf(cfg)' = PathsOf(file) /\ PathsOf(file)' = PathsOf(file)
  BY <1>1 DEF PathsOf
<1> QED
  BY <1>1, <1>5, <1>6 DEF Follows, FollowsIn

LEMMA StaysEven ==
    ASSUME Typed, Even, [Next]_vars
    PROVE  Even'
<1> SUFFICES ASSUME ~upset' PROVE Follows'
  BY DEF Even
<1>1. CASE UNCHANGED vars
  BY <1>1, RequestsWait DEF vars, Even, lists
<1>2. ASSUME NEW r \in Requests, Request(r)
      PROVE  Follows'
  <2>1. CASE Persist(r) \/ PersistFails(r)
    BY <2>1, PersistFollows, PersistFailsFollows
  <2>2. CASE \/ \E l \in Libs : CreateLibrary(r, l)
             \/ CreateConfig(r) \/ CreateRow(r) \/ CreateWatch(r)
    BY <2>2, CreateLibraryFollows, CreateConfigFollows, CreateRowFollows, CreateWatchFollows
  <2>3. CASE \/ \E i \in Ids, l \in Libs : UpdateLibrary(r, i, l)
             \/ UpdateConfig(r) \/ UpdateAdd(r) \/ UpdateRow(r) \/ UpdateWatch(r)
    BY <2>3, UpdateLibraryFollows, UpdateConfigFollows, UpdateAddFollows, UpdateRowFollows,
       UpdateWatchFollows
  <2>4. CASE \/ \E i \in Ids, purge \in BOOLEAN : DeleteLibrary(r, i, purge)
             \/ DeleteConfig(r) \/ DeleteWatch(r)
    BY <2>4, DeleteLibraryFollows, DeleteConfigFollows, DeleteWatchFollows
  <2>5. ~RequestFails(r)
    BY DEF RequestFails
  <2> QED
    BY <1>2, <2>1, <2>2, <2>3, <2>4, <2>5 DEF Request
<1>3. ASSUME NEW s \in Scanners, EnterScan(s)
      PROVE  Follows'
  BY <1>3, EnterScanFollows
<1> QED
  BY <1>1, <1>2, <1>3, ScansFollow, RestartFollows DEF Next

LEMMA AlwaysEven == Spec => [](Typed /\ Even)
<1>1. Init => Even
  BY DEF Init, Even, Follows, FollowsIn
<1> QED
  BY <1>1, StartsTyped, StaysTyped, StaysEven, PTL DEF Spec

(* When no request is under way and none failed halfway or met another,      *)
(* every configured library has its row, with its path.                      *)
THEOREM RowsFollowConfig == Spec => []ConfiguredIsListed
<1>1. ASSUME Follows, Quiet
      PROVE  cfg \subseteq {db[i] : i \in Live}
  <2>1. \A r \in Requests, l \in cfg : ~Lists(r, l, Saving)
    BY <1>1 DEF Quiet, Lists
  <2> QED
    BY <1>1, <2>1 DEF Follows, FollowsIn, Listed, InRow
<1>2. Typed /\ Even => ConfiguredIsListed
  BY <1>1 DEF Even, ConfiguredIsListed
<1> QED
  BY <1>2, AlwaysEven, PTL

(* Then the watcher watches the configured directories and no other, but for *)
(* those whose watch is known to have been missed.                           *)
THEOREM WatcherFollowsConfig == Spec => []ConfiguredIsWatched
<1>1. ASSUME Typed, Follows, Quiet
      PROVE  watched = PathsOf(cfg) \ missed
  <2>1. \A r \in Requests : \A p : ~Brings(r, p, Saving) /\ ~Takes(r, p, Saving)
    BY <1>1 DEF Quiet, Brings, Takes, Put, Edit
  <2>2. \A l \in cfg : l.path \in watched \cup missed
    BY <1>1, <2>1 DEF Follows, FollowsIn, Watches
  <2>3. \A p \in watched : p \in PathsOf(cfg) /\ p \notin missed
    BY <1>1, <2>1 DEF Follows, FollowsIn, Claimed, Typed, WatchesTyped
  <2> QED
    BY <2>2, <2>3 DEF PathsOf
<1>2. Typed /\ Even => ConfiguredIsWatched
  BY <1>1 DEF Even, ConfiguredIsWatched
<1> QED
  BY <1>2, AlwaysEven, PTL
=============================================================================
