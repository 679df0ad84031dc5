------------------------------- MODULE Matcher -------------------------------
(***************************************************************************)
(* Which title a file is filed under: the .plexmatch found above it        *)
(* (discovery/walker.py, plexmatch.py), the name guessit parsed, the kind  *)
(* of the library (matching/matcher.py), and what _item_record() and the   *)
(* rows make of it (scanner/service.py).  The files stay where they are;   *)
(* what comes and goes, and what may fail, is in Catalog.                  *)
(***************************************************************************)
EXTENDS Naturals, Sequences, SequencesExt, FiniteSetsExt

CONSTANTS
    Files,
    Folder,         \* [Files -> depth of the file's directory]
    Root,           \* depth of the library's root; of its parent: Root - 1
    Places,         \* depths at which there may be a .plexmatch
    Contents,       \* what it may say
    Parsed,         \* [Files -> what guessit makes of the name]
    ParsedFolder,   \* [Files -> and of the folder's]
    LibraryKind, LibraryName,
    Ids,            \* what a person may give
    Nothing

ParsedTitles == {p.title : p \in Range(Parsed) \cup Range(ParsedFolder)}
Titles == (ParsedTitles \cup {c.title : c \in Contents} \cup {LibraryName}) \ {Nothing}
MatcherFits ==
    /\ Root \in Nat /\ Places \subseteq Nat
    /\ \A f \in Files : Folder[f] \in Nat /\ Folder[f] >= Root
    /\ Files \subseteq DOMAIN Parsed /\ Files \subseteq DOMAIN ParsedFolder
    /\ Nothing \notin Nat /\ Nothing # LibraryName
    /\ LibraryKind \in {"auto", "movie", "tv", "anime"}
    /\ Contents \subseteq [title : Titles \cup {Nothing}, year : Nat \cup {Nothing},
                           guid : BOOLEAN, id : Ids \cup {Nothing}, episodes : BOOLEAN]
    /\ \A p \in Range(Parsed) \cup Range(ParsedFolder) :
          p \in [title : Titles \cup {Nothing}, year : Nat \cup {Nothing},
                 kind : {"movie", "show", "unknown"}, season : Nat \cup {Nothing}]
ASSUME MatcherAssumption == MatcherFits

VARIABLES
    plexmatch,      \* [Places -> what the .plexmatch there says, or Nothing]
    cache,          \* the walk's plexmatch_cache: [Places -> found, absent or unseen]
    todo,           \* the files the walk has yet to come to
    items,          \* the titles of the library, in the order of their ids
    row,            \* [Files -> its item and season, or Nothing]
    seen            \* history: the last walk, and no edit since it began

vars == <<plexmatch, cache, todo, items, row, seen>>

Idle == todo = {}

TypeOK ==
    /\ plexmatch \in [Places -> Contents \cup {Nothing}]
    /\ cache \in [Places -> {"found", "absent", "unseen"}]
    /\ todo \subseteq Files
    /\ items \in Seq([title : Titles, year : Nat \cup {Nothing}, kind : {"movie", "show"},
                      status : {"matched", "unresolved", "unmatched"},
                      id : Ids \cup {Nothing}])
    /\ \A f \in Files : row[f] # Nothing => row[f].item \in DOMAIN items
    /\ seen \in BOOLEAN

Init ==
    /\ plexmatch \in [Places -> Contents \cup {Nothing}]
    /\ cache = [d \in Places |-> "unseen"] /\ todo = {}
    /\ items = <<>> /\ row = [f \in Files |-> Nothing] /\ seen = FALSE

-----------------------------------------------------------------------------
(* Where the .plexmatch of a file is looked for *)

Above(f) == {d \in Places : d <= Folder[f]}
Nearest(D) == IF D = {} THEN Nothing ELSE Max(D)
There(d) == plexmatch[d] # Nothing

(* The walk passes over the root's parent, and over nothing above that.      *)
Walked(f) == Above(f) \ {Root - 1}
Found(f) ==
    Nearest({d \in Walked(f) : cache[d] = "found" \/ (cache[d] = "unseen" /\ There(d))})
Cached(f) ==
    [d \in Places |-> IF d \in Walked(f) /\ (Found(f) # Nothing => d >= Found(f))
                         /\ cache[d] = "unseen"
                      THEN (IF There(d) THEN "found" ELSE "absent") ELSE cache[d]]

(* A rescan stops at the root.                                               *)
FindNearest(f) == Nearest({d \in Above(f) : d >= Root /\ There(d)})

-----------------------------------------------------------------------------
(* The match *)

Or(a, b) == IF a # Nothing THEN a ELSE b
Blank == [title |-> Nothing, year |-> Nothing, guid |-> FALSE, id |-> Nothing, episodes |-> FALSE]
Read(d) == IF d = Nothing \/ ~There(d) THEN Blank ELSE plexmatch[d]
Name(f) ==
    IF Parsed[f].title = Nothing /\ ParsedFolder[f].title # Nothing
    THEN ParsedFolder[f] ELSE Parsed[f]
IsIdentifying(c) == c.guid \/ c.id # Nothing

LibrarySays(lib) == IF lib = "movie" THEN "movie" ELSE "show"
Kind(c, p, lib) ==
    IF c.episodes \/ p.season # Nothing THEN "show"
    ELSE IF p.kind # "unknown" THEN p.kind
    ELSE LibrarySays(lib)

(* With episodes in the .plexmatch the season of the name is dropped; one    *)
(* that identifies nothing lends its episodes to the kind only.              *)
Match(f, c) ==
    LET p == Name(f)
    IN IF IsIdentifying(c)
       THEN [title |-> Or(Or(c.title, p.title), LibraryName), year |-> Or(c.year, p.year),
             kind |-> Kind(c, p, LibraryKind),
             season |-> IF c.episodes THEN Nothing ELSE p.season,
             status |-> "matched", id |-> c.id]
       ELSE [title |-> Or(p.title, LibraryName), year |-> p.year,
             kind |-> Kind(c, p, LibraryKind), season |-> p.season,
             status |-> IF p.title # Nothing THEN "unresolved" ELSE "unmatched",
             id |-> Nothing]

(* The title's row: the one of that year, or else the first of that name     *)
ItemOfExactly(m) ==     \* Mutant: only that of the same year
    Nearest({i \in DOMAIN items : items[i].title = m.title /\ items[i].year = m.year})
ItemOf(m) ==
    LET named == {i \in DOMAIN items : items[i].title = m.title}
        exact == {i \in named : items[i].year = m.year}
    IN IF named = {} THEN Nothing ELSE Min(IF exact # {} THEN exact ELSE named)

UpdatedFreely(item, m) ==       \* Mutant: the last match has it
    [item EXCEPT !.kind = m.kind, !.year = Or(@, m.year),
                 !.id = Or(m.id, @), !.status = m.status]
Updated(item, m) ==
    [item EXCEPT !.kind = m.kind, !.year = Or(@, m.year), !.id = Or(@, m.id),
                 !.status = IF m.status = "matched" THEN "matched" ELSE @]
New(m) == [title |-> m.title, year |-> m.year, kind |-> m.kind, status |-> m.status, id |-> m.id]

(* _process_file(): a file filed under another title or season is not found  *)
(* there and inserted again; the path is taken and the session rolled back.  *)
Process(f, d) ==
    LET m == Match(f, Read(d))
        i == IF ItemOf(m) = Nothing THEN Len(items) + 1 ELSE ItemOf(m)
        place == [item |-> i, season |-> IF m.kind = "show" THEN m.season ELSE Nothing]
    IN IF row[f] \in {Nothing, place}
       THEN /\ items' = IF i > Len(items) THEN Append(items, New(m))
                        ELSE [items EXCEPT ![i] = Updated(@, m)]
            /\ row' = [row EXCEPT ![f] = place]
       ELSE UNCHANGED <<items, row>>

-----------------------------------------------------------------------------
StartScan ==
    /\ Idle
    /\ todo' = Files /\ seen' = TRUE
    /\ cache' = [d \in Places |-> "unseen"]
    /\ UNCHANGED <<plexmatch, items, row>>

ScanFile(f) ==
    /\ f \in todo /\ todo' = todo \ {f}
    /\ cache' = Cached(f)
    /\ Process(f, Found(f))
    /\ UNCHANGED <<plexmatch, seen>>

(* by the watcher or the API; the library's lock is the scan's until its end *)
Rescan(f) ==
    /\ Idle
    /\ Process(f, FindNearest(f))
    /\ UNCHANGED <<plexmatch, cache, todo, seen>>

(* POST /api/items/{id}/identify with an id                                  *)
Identify(i, id) ==
    /\ i \in DOMAIN items
    /\ items' = [items EXCEPT ![i].id = id, ![i].status = "matched"]
    /\ UNCHANGED <<plexmatch, cache, todo, row, seen>>

Edit(d, c) ==
    /\ plexmatch[d] # c /\ plexmatch' = [plexmatch EXCEPT ![d] = c]
    /\ seen' = FALSE
    /\ UNCHANGED <<cache, todo, items, row>>

Next ==
    \/ StartScan
    \/ \E f \in Files : ScanFile(f) \/ Rescan(f)
    \/ \E i \in DOMAIN items, id \in Ids : Identify(i, id)
    \/ \E d \in Places, c \in Contents \cup {Nothing} : Edit(d, c)

Spec == Init /\ [][Next]_vars

-----------------------------------------------------------------------------
(* Properties *)

(* One title is one row, whether its files tell the year or not, and         *)
(* whichever comes first (service.py:90-129).                                *)
TitlesAreUnique == \A i, j \in DOMAIN items : items[i].title = items[j].title => i = j

(* An identity once known outlives the .plexmatch it came from: no scan      *)
(* takes a title's id or its match away (service.py:115-128).                *)
IdentityIsKept ==
    [][\A i \in DOMAIN items :
          /\ \/ items[i].id = Nothing \/ items'[i].id = items[i].id
             \/ \E id \in Ids : Identify(i, id)
          /\ items[i].status = "matched" => items'[i].status = "matched"]_vars

(* A film stays a film in a library of shows and an episode an episode in    *)
(* one of films (matcher.py:6-9, 77-98).                                     *)
NameBeforeFolder ==
    \A f \in DOMAIN Parsed, d \in Places \cup {Nothing} :
        Name(f).kind # "unknown" =>
            \A k, l \in {"auto", "movie", "tv", "anime"} :
                Kind(Read(d), Name(f), k) = Kind(Read(d), Name(f), l)

(* A rescan finds the .plexmatch that the walk finds with what it has cached *)
(* on its way, unless one was edited since the walk began.  They differ in   *)
(* one case: with none in the library's directories above the file, the walk *)
(* may come upon one above the root's parent (walker.py:46-61, 80-92).       *)
RescanLikeScan ==
    seen => \A f \in Files :
        \/ FindNearest(f) = Found(f)
        \/ FindNearest(f) = Nothing /\ Found(f) # Nothing /\ Found(f) + 1 < Root

(* What scans and rescans make of names and .plexmatch files: a row per      *)
(* title, films and shows told apart by name, the same .plexmatch found      *)
(* either way (service.py:90-129, matcher.py:77-98, walker.py:48-92).        *)
TitlesOK == TypeOK /\ TitlesAreUnique /\ NameBeforeFolder /\ RescanLikeScan

(* "a stray .plexmatch above the library can't hijack the match"             *)
(* (walker.py:83-84): with none in the library, names are what titles have.  *)
NothingFromAbove ==
    (\A d \in Places : d < Root)
    => \A i \in DOMAIN items : items[i].title \in ParsedTitles \cup {LibraryName}

(* "Anything that survives without an external ID lands as                   *)
(* match_status=unmatched" (matcher.py:11).                                  *)
MatchedHasId == \A i \in DOMAIN items : items[i].status = "matched" => items[i].id # Nothing

(* ".plexmatch metadata (highest trust)" (matcher.py:4): after a scan that   *)
(* saw it, a file is filed under the title its .plexmatch gives.             *)
FiledAsMatched ==
    Idle /\ seen => \A f \in Files :
        LET c == Read(FindNearest(f))
        IN IsIdentifying(c) /\ c.title # Nothing => items[row[f].item].title = c.title
=============================================================================
