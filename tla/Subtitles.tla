------------------------------ MODULE Subtitles ------------------------------
(***************************************************************************)
(* The subtitles of the episodes of one show: sidecars found beside a      *)
(* video (discovery/walker.py, subtitles.py), the tracks and the summary a *)
(* scan or a rescan stores, which reads a file with ffprobe first and      *)
(* fingerprints it later (scanner/service.py), and the events about them.  *)
(* A file name is the sequence of its dotted parts, the extension aside.   *)
(***************************************************************************)
EXTENDS Naturals, Sequences, SequencesExt, FiniteSets

CONSTANTS
    Videos,         \* the episodes, all in one directory
    Stem,           \* [Videos -> name]
    Contents,       \* what a video may be: [digest, mtime, size, tracks]
    Sidecars,       \* names of subtitle files there may be
    Language,       \* [part of a name -> normalized code, or Nothing]
    Nothing

Flags == {"forced", "sdh", "default"}
Track == [kind : {"audio", "subtitle"}, raw : STRING \cup {Nothing},
          language : STRING \cup {Nothing}, flags : SUBSET Flags,
          sidecar : Sidecars \cup {Nothing}]

SubtitlesFit ==
    /\ \A p \in DOMAIN Language : p \in STRING /\ Language[p] \in STRING \cup {Nothing}
    /\ IsFiniteSet(Sidecars) /\ Sidecars \subseteq Seq(DOMAIN Language)
    /\ \A v \in Videos : Stem[v] \in Seq(DOMAIN Language)
    /\ \A c \in Contents : c.tracks \in Seq([kind : {"audio", "subtitle"},
                                             raw : DOMAIN Language \cup {Nothing},
                                             flags : SUBSET Flags])
    /\ \A c, d \in Contents : c.digest = d.digest => c.size = d.size
    /\ Nothing \notin Seq(Track)
ASSUME SubtitlesAssumption == SubtitlesFit

(* A fingerprint does not tell these apart: what changed is not where the    *)
(* digest looks, and the mtime was kept.                                     *)
Alike(c, d) == c.digest = d.digest /\ c.mtime = d.mtime

VARIABLES
    file,           \* [Videos -> content]
    disk,           \* the sidecars there are
    row,            \* [Videos -> the row of the file, or Nothing]
    told,           \* [Videos -> the tracks of its last event, or Nothing]
    todo,           \* videos the scan has yet to come to
    hand,           \* the video under the library's lock whose probe has begun, and
                    \* the content ffprobe read; or Nothing
    seen,           \* history: a scan has begun and nothing changed since
    beside,         \* history: videos whose sidecars changed since they were probed
    torn,           \* history: videos last stored with one content's tracks and
                    \* another's fingerprint
    missed          \* history: videos the last scan's session failed on

history == <<seen, beside, torn, missed>>
vars == <<file, disk, row, told, todo, hand, history>>

Idle == todo = {} /\ hand = Nothing

TypeOK ==
    /\ file \in [Videos -> Contents] /\ disk \subseteq Sidecars
    /\ \A v \in Videos : row[v] # Nothing =>
          /\ \E c \in Contents : row[v].digest = c.digest /\ row[v].mtime = c.mtime
          /\ row[v].tracks \in Seq(Track)
          /\ told[v] # Nothing
    /\ todo \subseteq Videos /\ hand \in [video : Videos, read : Contents] \cup {Nothing}
    /\ seen \in BOOLEAN /\ beside \cup torn \cup missed \subseteq Videos

Init ==
    /\ file \in [Videos -> Contents] /\ disk \in SUBSET Sidecars
    /\ row = [v \in Videos |-> Nothing] /\ told = row
    /\ todo = {} /\ hand = Nothing
    /\ seen = FALSE /\ beside = {} /\ torn = {} /\ missed = {}

-----------------------------------------------------------------------------
(* Names *)

Collected(v) == {s \in disk : IsPrefix(Stem[v], s)}

Or(a, b) == IF a # Nothing THEN a ELSE b
FlagOf(part) == IF part \in {"sdh", "cc", "hi"} THEN "sdh" ELSE part
(* The first part is the language, known or not and whatever it says; flags  *)
(* are looked for after it, and other parts passed over.                     *)
Parsed(rest) ==
    [raw |-> IF rest = <<>> THEN Nothing ELSE Head(rest),
     language |-> IF rest = <<>> THEN Nothing ELSE Language[Head(rest)],
     flags |-> IF rest = <<>> THEN {} ELSE {FlagOf(p) : p \in ToSet(Tail(rest))} \cap Flags]

SidecarTrack(v, s) ==
    LET p == Parsed(SubSeq(s, Len(Stem[v]) + 1, Len(s)))
    IN [kind |-> "subtitle", raw |-> p.raw, language |-> p.language, flags |-> p.flags,
        sidecar |-> s]
Embedded(c) ==
    [i \in DOMAIN c.tracks |->
        [kind |-> c.tracks[i].kind, raw |-> c.tracks[i].raw,
         language |-> IF c.tracks[i].raw = Nothing THEN Nothing ELSE Language[c.tracks[i].raw],
         flags |-> c.tracks[i].flags, sidecar |-> Nothing]]

-----------------------------------------------------------------------------
(* Rows *)

Summary(kind, tracks) ==
    LET OfKind(t) == t.kind = kind
        some == SelectSeq(tracks, OfKind)
    IN [i \in DOMAIN some |-> Or(some[i].language, some[i].raw)]
SummaryOf(tracks) == Summary("subtitle", tracks)

Added(v) == LET s == SetToSeq(Collected(v)) IN [i \in DOMAIN s |-> SidecarTrack(v, s[i])]

(* _apply_probe() of what ffprobe read and of the fingerprint it takes then, *)
(* _add_sidecars(), _refresh_subtitle_summary()                              *)
StoredOf(v, read, now) ==
    LET tracks == Embedded(read) \o Added(v)
    IN [digest |-> now.digest, mtime |-> now.mtime, size |-> now.size,
        tracks |-> tracks, summary |-> SummaryOf(tracks)]

SameDigest(v) == row[v] # Nothing /\ row[v].digest = file[v].digest      \* Mutant
SameFile(v) ==
    row[v] # Nothing /\ row[v].digest = file[v].digest /\ row[v].mtime = file[v].mtime

(* _has_meaningful_change(): a file of the same fingerprint never has one    *)
Meaningful(old, new) ==
    /\ old.digest # new.digest
    /\ \/ old.size # new.size \/ Len(old.tracks) # Len(new.tracks)
       \/ \E kind \in {"audio", "subtitle"} :
             Summary(kind, old.tracks) # Summary(kind, new.tracks)

StartScan ==
    /\ Idle /\ todo' = Videos /\ seen' = TRUE /\ missed' = {}
    /\ UNCHANGED <<file, disk, row, told, hand, beside, torn>>

(* The fingerprint is the row's: the scan goes on.                           *)
PassOver(v) ==
    /\ v \in todo /\ hand = Nothing /\ SameFile(v)
    /\ todo' = todo \ {v}
    /\ UNCHANGED <<file, disk, row, told, hand, history>>

(* ffprobe, of POST /api/rescan, of the watcher's rescan, of a forced scan,  *)
(* or of one that compared another fingerprint, of a file replaced or not    *)
(* since                                                                     *)
Probe(v) ==
    /\ hand = Nothing /\ (v \in todo \/ todo = {})
    /\ hand' = [video |-> v, read |-> file[v]]
    /\ UNCHANGED <<file, disk, row, told, todo, history>>

LetGo == hand' = Nothing /\ todo' = todo \ {hand.video}

(* the fingerprint, the sidecars and the commit                              *)
Store ==
    /\ hand # Nothing
    /\ LET v == hand.video
           new == StoredOf(v, hand.read, file[v])
       IN /\ row' = [row EXCEPT ![v] = new]
          /\ told' = IF row[v] = Nothing \/ Meaningful(row[v], new)
                     THEN [told EXCEPT ![v] = new.tracks] ELSE told
          /\ beside' = beside \ {v} /\ missed' = missed \ {v}
          /\ torn' = IF Alike(hand.read, file[v]) THEN torn \ {v} ELSE torn \cup {v}
    /\ LetGo
    /\ UNCHANGED <<file, disk, seen>>

(* ffprobe fails or takes too long, the file cannot be read, or the commit   *)
(* fails: the session is rolled back, and a scan goes on with the next.      *)
ProbeError ==
    /\ hand # Nothing
    /\ missed' = missed \cup ({hand.video} \cap todo)
    /\ LetGo
    /\ UNCHANGED <<file, disk, row, told, seen, beside, torn>>

(* The watcher passes over a sidecar that appears; for one that is gone it   *)
(* scans the library, as StartScan may at any time.                          *)
ChangeSidecar(s) ==
    /\ disk' = IF s \in disk THEN disk \ {s} ELSE disk \cup {s}
    /\ seen' = FALSE
    /\ beside' = beside \cup {v \in Videos : IsPrefix(Stem[v], s)}
    /\ UNCHANGED <<file, row, told, todo, hand, torn, missed>>

ReplaceVideo(v, c) ==
    /\ c # file[v] /\ file' = [file EXCEPT ![v] = c]
    /\ seen' = FALSE
    /\ UNCHANGED <<disk, row, told, todo, hand, beside, torn, missed>>

Next ==
    \/ StartScan \/ Store \/ ProbeError
    \/ \E v \in Videos : PassOver(v) \/ Probe(v) \/ \E c \in Contents : ReplaceVideo(v, c)
    \/ \E s \in Sidecars : ChangeSidecar(s)

Spec == Init /\ [][Next]_vars

-----------------------------------------------------------------------------
(* Properties *)

Rows == {v \in Videos : row[v] # Nothing}

(* A scan that saw the files as they are leaves each the tracks, summary and *)
(* fingerprint of its content, or of one that a fingerprint does not tell    *)
(* from it.  Not so for a file whose sidecars alone changed, for one the     *)
(* scan could not read, and for one that was replaced between probe and      *)
(* fingerprint, which every later scan passes over (service.py:225, 346-349, *)
(* 412-447).                                                                 *)
ReplacedIsReprobed ==
    Idle /\ seen => \A v \in Videos \ (beside \cup torn \cup missed) :
        \E c \in Contents : Alike(c, file[v]) /\ row[v] = StoredOf(v, c, c)

TracksOK == TypeOK /\ ReplacedIsReprobed

(* "External [...] sidecars are auto-discovered" (README.md:429-430).        *)
SidecarsAreDiscovered ==
    Idle /\ seen => \A v \in Rows \ missed : \A s \in Collected(v) :
        \E t \in ToSet(row[v].tracks) : t.sidecar = s

(* "Movie.2020.pt-BR.srt -> language=pt-BR (locale preserved)"               *)
(* (README.md:436).                                                          *)
LocaleIsPreserved ==
    \A v \in Rows : \A t \in ToSet(row[v].tracks) : t.raw = "pt-BR" => t.language = "pt-BR"

(* "Every change is delivered as a JSON POST carrying `old` and `new`        *)
(* snapshots" (README.md:289).                                               *)
TracksAreTold == \A v \in Rows : (told[v] = row[v].tracks)
=============================================================================
