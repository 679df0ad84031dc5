----------------------------- MODULE Classifier ------------------------------
(***************************************************************************)
(* What a title is labelled: the evidence of its files and of the metadata *)
(* providers weighed against the kind of its library (classify/            *)
(* classifier.py), what the providers make of their candidates             *)
(* (matching/providers), and which titles count as misfiled.               *)
(* Weights are in hundredths.                                              *)
(***************************************************************************)
EXTENDS Integers, Sequences, SequencesExt

CONSTANTS
    Titles,     \* what is known of titles without asking anybody
    Answers,    \* what the providers answer: candidates, or none
    Nothing

Kinds == {"auto", "movie", "tv", "anime"}
Labels == {"movie", "tv", "anime", "anime_movie"}

Years == Nat \cup {Nothing}
Track == [lang : {"ja", "en", Nothing}, default : BOOLEAN]
Title ==
    [kind : {"movie", "show"}, year : Years, anidb : BOOLEAN,
     files : Seq(Seq(Track)),   \* the audio tracks of each file, in stream order
     subs : BOOLEAN,            \* there are subtitles in another language than Japanese
     name : {"fansub", "bracket", "plain"}, flag : BOOLEAN]     \* the release name

Answer ==       \* the candidates of each provider, as it ranks them
    [anilist : Seq([year : Years, japanese : BOOLEAN, film : BOOLEAN]),
     tmdb : Seq([year : Years, japanese : BOOLEAN, animated : BOOLEAN, imdb : BOOLEAN]),
     tvdb : Seq([year : Years, genres : SUBSET STRING, imdb : BOOLEAN])]

ASSUME ClassifierAssumption ==
    /\ Titles \subseteq Title /\ Answers \subseteq Answer
    /\ Nothing \notin Nat \cup BOOLEAN \cup Labels \cup {"ja", "en"}

VARIABLES
    title,      \* one title
    row,        \* the provider's evidence and the ids stored with it
    kind,       \* of its library
    label,      \* classification_label
    heard       \* history: the answers row was made from

vars == <<title, row, kind, label, heard>>

Silence == [anilist |-> <<>>, tmdb |-> <<>>, tvdb |-> <<>>]

TypeOK ==
    /\ title \in Titles
    /\ row \in [asked : BOOLEAN, anime : BOOLEAN \cup {Nothing}, tvdb : BOOLEAN, imdb : BOOLEAN]
    /\ ~row.asked => row.anime = Nothing
    /\ kind \in Kinds /\ label \in Labels \cup {Nothing}
    /\ heard \in Answers \cup {Silence}

-----------------------------------------------------------------------------
(* What the providers make of their candidates *)

YearMatchesAlways(a, b) == TRUE     \* Mutant
YearMatches(a, b) == a = Nothing \/ b = Nothing \/ a - b \in -1..1

(* the first whose year fits, or else the first                              *)
Best(candidates, year) ==
    LET fit == {i \in DOMAIN candidates : YearMatches(year, candidates[i].year)}
    IN candidates[IF year # Nothing /\ fit # {} THEN Min(fit) ELSE 1]

AniList(c, year) ==
    [anime |-> c.japanese /\ YearMatches(year, c.year), tvdb |-> FALSE, imdb |-> FALSE]
Tmdb(c) == [anime |-> c.animated /\ c.japanese, tvdb |-> FALSE, imdb |-> c.imdb]
Tvdb(c) ==
    [anime |-> IF c.genres = {} THEN Nothing ELSE "anime" \in c.genres,
     tvdb |-> TRUE, imdb |-> c.imdb]

(* in the order of the registry *)
Reports(a, year) ==
    (IF a.anilist = <<>> THEN <<>> ELSE <<AniList(Best(a.anilist, year), year)>>)
    \o (IF a.tmdb = <<>> THEN <<>> ELSE <<Tmdb(Best(a.tmdb, year))>>)
    \o (IF a.tvdb = <<>> THEN <<>> ELSE <<Tvdb(Best(a.tvdb, year))>>)

Opinions(s) == {i \in DOMAIN s : s[i].anime # Nothing}
Opinion(s) == IF Opinions(s) = {} THEN Nothing ELSE s[Min(Opinions(s))].anime

(* ids only ever fill gaps *)
Stored(r, s) ==
    [asked |-> s # <<>>,
     anime |-> Opinion(s),
     tvdb |-> r.tvdb \/ \E i \in DOMAIN s : s[i].tvdb,
     imdb |-> r.imdb \/ \E i \in DOMAIN s : s[i].imdb]

-----------------------------------------------------------------------------
(* Audio *)

(* of the tracks in some positions of a file                                 *)
Chosen(f, audio) ==
    LET flagged == {i \in audio : f[i].default}
    IN f[Min(IF flagged # {} THEN flagged ELSE audio)].lang

Spoken(f) == {i \in DOMAIN f : f[i].lang # Nothing}

(* tracks without a language are dropped first                               *)
PrimaryAudio(files) == {Chosen(f, Spoken(f)) : f \in {g \in ToSet(files) : Spoken(g) # {}}}

-----------------------------------------------------------------------------
(* The scores *)

Points(n, condition) == IF condition THEN n ELSE 0

(* The provider's answer is replayed from the row, which keeps no kind: what *)
(* the provider "lists this as" is the kind of the title itself.             *)
FilmPoints(t, r) == Points(60, r.asked /\ t.kind = "movie")
SeriesPoints(t, r) == Points(60, r.asked /\ t.kind = "show")

Evidence(t, r) ==
    LET audio == PrimaryAudio(t.files)
    IN [movie |-> Points(40, r.anime = FALSE) + FilmPoints(t, r)
                  + Points(30, t.kind = "movie")
                  + Points(15, Len(t.files) = 1 /\ t.kind # "show"),
        tv |-> Points(40, r.anime = FALSE) + SeriesPoints(t, r)
               + Points(15, t.kind = "show")
               + Points(20, ~t.anidb /\ r.tvdb /\ ~r.imdb)
               + Points(10, audio # {} /\ "ja" \notin audio)
               + Points(5, Len(t.files) > 1),
        anime |-> Points(70, r.anime = TRUE) + SeriesPoints(t, r)
                  + Points(60, t.anidb)
                  + Points(45, "ja" \in audio) + Points(25, "ja" \in audio /\ t.subs)
                  + Points(5, Len(t.files) > 1) + Points(20, t.flag)
                  + Points(40, t.name = "fansub") + Points(15, t.name = "bracket")]

HintWeightOld == 90     \* Mutant: the hint dominates
HintWeight == 15
Scores(t, r, k) ==
    [l \in {"movie", "tv", "anime"} |-> Evidence(t, r)[l] + Points(HintWeight, k = l)]

MovieFormat(t) == t.kind = "movie"

(* Scores equal in hundredths are equal or a rounding apart in the code:     *)
(* either of them may come first, and anime may lead tv or not.              *)
Top(s) == {l \in DOMAIN s : \A m \in DOMAIN s : s[l] >= s[m]}
LeansOnly(s) == {s.anime > s.tv /\ s.anime > s.movie}      \* Mutant: more than the film
Leans(s) == {b \in BOOLEAN : /\ b => s.anime >= s.tv /\ s.anime > 0
                             /\ ~b => s.anime <= s.tv}

Classify(t, r, k) ==
    LET s == Scores(t, r, k)
    IN {IF leans /\ MovieFormat(t) THEN "anime_movie" ELSE l : leans \in Leans(s), l \in Top(s)}

-----------------------------------------------------------------------------
(* Misfiled titles, in Python and in SQL *)

Accepted ==
    [movie |-> {"movie", "anime_movie"}, tv |-> {"tv"}, anime |-> {"anime", "anime_movie"}]

IsMisfiled(k, l) == l # Nothing /\ k \in DOMAIN Accepted /\ l \notin Accepted[k]

(* A comparison with NULL is NULL, and a row is taken if the whole is true.  *)
NotIn(l, set) == IF l = Nothing THEN Nothing ELSE l \notin set
AndSql(a, b) ==
    IF FALSE \in {a, b} THEN FALSE ELSE IF Nothing \in {a, b} THEN Nothing ELSE TRUE
OrSql(S) ==
    IF TRUE \in S THEN TRUE ELSE IF Nothing \in S THEN Nothing ELSE FALSE
MisfiledEverywhere(k, l) ==     \* Mutant: a label must fit every library
    \E a \in DOMAIN Accepted : AndSql(l # Nothing, NotIn(l, Accepted[a])) = TRUE
MisfiledCondition(k, l) ==
    AndSql(l # Nothing,
           OrSql({AndSql(k = a, NotIn(l, Accepted[a])) : a \in DOMAIN Accepted})) = TRUE

-----------------------------------------------------------------------------
Init ==
    /\ title \in Titles /\ kind \in Kinds
    /\ \E known \in BOOLEAN :       \* .plexmatch or a person gave the id
          row = [asked |-> FALSE, anime |-> Nothing, tvdb |-> known, imdb |-> FALSE]
    /\ label = Nothing /\ heard = Silence

Reclassify ==
    /\ label' \in Classify(title, row, kind)
    /\ UNCHANGED <<title, row, kind, heard>>

(* a miss wipes the evidence, not the ids                                    *)
Enrich(a) ==
    /\ row' = Stored(row, Reports(a, title.year))
    /\ label' \in Classify(title, row', kind)
    /\ heard' = a
    /\ UNCHANGED <<title, kind>>

(* PUT /api/libraries/{id} changes the kind and leaves the labels            *)
ChangeKind(k) ==
    /\ k # kind /\ kind' = k
    /\ UNCHANGED <<title, row, label, heard>>

Next == Reclassify \/ (\E a \in Answers : Enrich(a)) \/ \E k \in Kinds : ChangeKind(k)

Spec == Init /\ [][Next]_vars

-----------------------------------------------------------------------------
(* Properties *)

NowCalled(k) == Classify(title, row, k)

(* The library's kind moves a label only where the evidence leaves a lead of *)
(* no more than its weight (classifier.py:31-35, 258-263).                   *)
HintOnlyBreaksTies ==
    LET s == Evidence(title, row)
        clear == \A l, m \in DOMAIN s : l # m => s[l] - s[m] \notin -15..15
    IN clear => \A k \in Kinds : NowCalled(k) = NowCalled("auto")

(* A title a provider identifies as anime is labelled so, whatever folder,   *)
(* language, release or id speaks against it (classifier.py:142-144).        *)
IdentifiedAnimeIsAnime ==
    row.anime = TRUE => NowCalled(kind) \subseteq {"anime", "anime_movie"}

(* What the files themselves say for anime *)
LooksJapanese ==
    "ja" \in PrimaryAudio(title.files) \/ title.anidb \/ title.flag \/ title.name = "fansub"

(* A cartoon that providers say is no anime is not called anime for its      *)
(* folder or a bracket in its name (classifier.py:132-135, 145-151).         *)
CartoonIsNotAnime ==
    row.anime = FALSE /\ ~LooksJapanese => NowCalled(kind) \subseteq {"movie", "tv"}

(* A live-action remake is not called anime for the anime of that title: if  *)
(* all AniList finds is from other years, and nobody else calls it anime,    *)
(* the label is not anime (anilist.py:96-99, http.py:121-131).               *)
RemakeIsNotAnime ==
    /\ heard.anilist # <<>> /\ title.year # Nothing /\ ~LooksJapanese
    /\ \A i \in DOMAIN heard.anilist :
          heard.anilist[i].year # Nothing /\ heard.anilist[i].year - title.year \notin -1..1
    => NowCalled(kind) \subseteq {"movie", "tv"}

(* A Japanese dub in a file whose player picks another language is no        *)
(* evidence (classifier.py:89-113).                                          *)
DubIsNoEvidence ==
    (\A f \in ToSet(title.files) : f # <<>> => Chosen(f, DOMAIN f) = "en")
    => "ja" \notin PrimaryAudio(title.files)

(* A label says what the evidence does: the four above together              *)
(* (classifier.py:86-151).                                                   *)
EvidenceIsHeard ==
    TypeOK /\ IdentifiedAnimeIsAnime /\ CartoonIsNotAnime /\ RemakeIsNotAnime /\ DubIsNoEvidence

(* Who moves a misfiled title to a library that accepts its label is not     *)
(* told to move it again (classify/misfiled.py:18-22; api/app.py:386-392).   *)
RefilingSettles ==
    \A l \in NowCalled(kind), k \in DOMAIN Accepted \ {kind} :
        l \in Accepted[k] => \A m \in NowCalled(k) : ~IsMisfiled(k, m)

(* The SQL the pages and the API filter with finds the titles is_misfiled()  *)
(* names, unlabelled ones included (classify/misfiled.py:25-51).             *)
MisfiledAgrees == MisfiledCondition(kind, label) = IsMisfiled(kind, label)

(* "It decides titles with no evidence at all, and is outvoted by any real   *)
(* signal" (README.md:354-355).                                              *)
EvidenceOutvotesFolder ==
    Top(Evidence(title, row)) \cap {kind} = {} => NowCalled(kind) # {kind}

(* "Primary = the track the player would actually pick: the default-flagged  *)
(* audio track, or failing that the first one by stream position"            *)
(* (classifier.py:98-99).                                                    *)
PrimaryIsPlayed ==
    PrimaryAudio(title.files)
        \subseteq {Chosen(f, DOMAIN f) : f \in {g \in ToSet(title.files) : g # <<>>}}

(* "strong anime evidence [...] and a movie structure (single file, or a     *)
(* provider saying kind: movie) is labelled anime_movie" (README.md:362-365) *)
ListedFilms == {a \in Answers : a.anilist # <<>> /\ \A i \in DOMAIN a.anilist : a.anilist[i].film}
ProviderKindCounts ==
    heard \in ListedFilms /\ row.anime = TRUE => NowCalled(kind) = {"anime_movie"}
=============================================================================
