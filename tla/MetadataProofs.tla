--------------------------- MODULE MetadataProofs ---------------------------
(***************************************************************************)
(* Theorems about what a title is and what is known of it. Of Classifier,  *)
(* for any titles and any answers of the providers: what the weights add   *)
(* up to, and what a label therefore says. Of Providers, the instance P:   *)
(* what a lookup comes to, for any providers, clocks and answers. Of       *)
(* Matcher, the instance M: which title a file is filed under, for any     *)
(* files, names and .plexmatch files.                                      *)
(***************************************************************************)
EXTENDS Classifier, WellFoundedInduction, TLAPS

CONSTANTS Passes, Order, Interval, Backoff, Cap, RetryAfters, MaxAttempts
VARIABLES
    at, call, attempt, asleep, cool, token, valid, found, merged, reports, since, hasty,
    crowded, rejected

P == INSTANCE Providers

CONSTANTS
    Files, Folder, Root, Places, Contents, Parsed, ParsedFolder, LibraryKind, LibraryName, Ids
VARIABLES plexmatch, cache, todo, items, filed, seen

M == INSTANCE Matcher WITH row <- filed

(* The first of several positions                                            *)
LEMMA MinIs ==
    ASSUME NEW S \in SUBSET Nat, S # {}
    PROVE  Min(S) \in S /\ (\A i \in S : Min(S) <= i) 
           /\ P!Min(S) = Min(S) /\ M!Min(S) = Min(S)
<1> DEFINE R == OpToRel(<, Nat)
<1>1. IsWellFoundedOn(R, Nat)
  BY NatLessThanWellFounded
<1>2. \A x, y \in Nat : x < y => <<x, y>> \in R
  BY DEF OpToRel
<1> HIDE DEF R
<1>3. PICK m \in S : \A i \in S : ~(<<i, m>> \in R)
  BY <1>1, WFMin
<1>4. \A i \in S : m <= i
  <2> SUFFICES ASSUME NEW i \in S PROVE m <= i
    OBVIOUS
  <2>1. ~(i < m)
    BY <1>2, <1>3, Zenon
  <2> QED
    BY <2>1
<1> QED
  BY <1>4 DEF Min, P!Min, M!Min

LEMMA MinOf ==
    ASSUME NEW S \in SUBSET Nat, NEW m \in S, \A i \in S : m <= i
    PROVE  Min(S) = m /\ P!Min(S) = m
<1>1. Min(S) \in S /\ Min(S) <= m /\ P!Min(S) = Min(S)
  BY MinIs
<1>2. m <= Min(S) /\ m \in Nat /\ Min(S) \in Nat
  BY <1>1
<1> DEFINE n == Min(S)
<1> HIDE DEF n
<1>3. n = m
  BY <1>1, <1>2 DEF n
<1> QED
  BY <1>1, <1>3 DEF n

USE ClassifierAssumption

LEMMA ElementIs ==
    ASSUME NEW T, NEW s \in Seq(T), NEW i \in DOMAIN s
    PROVE  s[i] \in T
OBVIOUS

-----------------------------------------------------------------------------
(* The scores *)

LEMMA EvidenceType ==
    ASSUME NEW t, NEW r
    PROVE  /\ DOMAIN Evidence(t, r) = {"movie", "tv", "anime"}
           /\ Evidence(t, r).movie \in Nat /\ Evidence(t, r).tv \in Nat
           /\ Evidence(t, r).anime \in Nat
BY DEF Evidence, Points, FilmPoints, SeriesPoints

LEMMA ScoresAre ==
    ASSUME NEW t, NEW r, NEW k \in Kinds
    PROVE  /\ DOMAIN Scores(t, r, k) = {"movie", "tv", "anime"}
           /\ Scores(t, r, k).movie = Evidence(t, r).movie + (IF k = "movie" THEN 15 ELSE 0)
           /\ Scores(t, r, k).tv = Evidence(t, r).tv + (IF k = "tv" THEN 15 ELSE 0)
           /\ Scores(t, r, k).anime = Evidence(t, r).anime + (IF k = "anime" THEN 15 ELSE 0)
BY DEF Scores, HintWeight, Points

(* What a label says of the scores.                                          *)
LEMMA ClassifyIs ==
    ASSUME NEW t, NEW r, NEW k \in Kinds, NEW l \in Classify(t, r, k)
    PROVE  LET s == Scores(t, r, k)
           IN \/ /\ l = "anime_movie" /\ MovieFormat(t)
                 /\ s.anime >= s.tv /\ s.anime > 0
              \/ /\ l \in {"movie", "tv", "anime"}
                 /\ \A m \in {"movie", "tv", "anime"} : s[l] >= s[m]
                 /\ MovieFormat(t) => s.anime <= s.tv
<1> DEFINE s == Scores(t, r, k)
<1>1. DOMAIN s = {"movie", "tv", "anime"}
  BY ScoresAre
<1> HIDE DEF s
<1>2. PICK leans \in Leans(s), m \in Top(s) :
          l = IF leans /\ MovieFormat(t) THEN "anime_movie" ELSE m
  BY DEF Classify, s
<1>3. leans \in BOOLEAN /\ (leans => s.anime >= s.tv /\ s.anime > 0) /\ (~leans => s.anime <= s.tv)
  BY DEF Leans
<1>4. m \in {"movie", "tv", "anime"} /\ \A n \in {"movie", "tv", "anime"} : s[m] >= s[n]
  BY <1>1 DEF Top
<1> QED
  BY <1>2, <1>3, <1>4 DEF s

LEMMA LabelType ==
    ASSUME NEW t, NEW r, NEW k \in Kinds
    PROVE  Classify(t, r, k) \subseteq Labels
BY ClassifyIs DEF Labels

(* A lead of more than the hint stays a lead.                                *)
LEMMA HintDecidesOnlyTies ==
    ASSUME NEW t, NEW r, NEW k \in Kinds,
           \A l, m \in {"movie", "tv", "anime"} :
               l # m => Evidence(t, r)[l] - Evidence(t, r)[m] \notin -15..15
    PROVE  Classify(t, r, k) = Classify(t, r, "auto")
<1> DEFINE e == Evidence(t, r)
           s == Scores(t, r, k)
           a == Scores(t, r, "auto")
<1>1. e.movie \in Nat /\ e.tv \in Nat /\ e.anime \in Nat
  BY EvidenceType
<1>2. /\ DOMAIN s = {"movie", "tv", "anime"} /\ DOMAIN a = {"movie", "tv", "anime"}
      /\ s.movie = e.movie + (IF k = "movie" THEN 15 ELSE 0) /\ a.movie = e.movie
      /\ s.tv = e.tv + (IF k = "tv" THEN 15 ELSE 0) /\ a.tv = e.tv
      /\ s.anime = e.anime + (IF k = "anime" THEN 15 ELSE 0) /\ a.anime = e.anime
  BY <1>1, ScoresAre DEF Kinds
<1>3. /\ e.movie - e.tv \notin -15..15 /\ e.movie - e.anime \notin -15..15
      /\ e.tv - e.anime \notin -15..15
  OBVIOUS
<1> HIDE DEF e, s, a
<1>4. Top(s) = Top(a)
  <2>1. \A l, m \in {"movie", "tv", "anime"} : s[l] >= s[m] <=> a[l] >= a[m]
    BY <1>1, <1>2, <1>3
  <2> QED
    BY <1>2, <2>1 DEF Top
<1>5. Leans(s) = Leans(a)
  BY <1>1, <1>2, <1>3 DEF Leans
<1> QED
  BY <1>4, <1>5 DEF Classify, s, a

(* The title's evidence speaks for its label.                                *)
LEMMA IdentifiedIsAnime ==
    ASSUME NEW t, NEW r, NEW k \in Kinds, r.asked = TRUE, r.anime = TRUE,
           t.kind \in {"movie", "show"}
    PROVE  Classify(t, r, k) \subseteq {"anime", "anime_movie"}
<1> DEFINE e == Evidence(t, r)
           s == Scores(t, r, k)
<1>1. e.movie \in Nat /\ e.tv \in Nat /\ e.anime \in Nat
  BY EvidenceType
<1>2. /\ s.movie = e.movie + (IF k = "movie" THEN 15 ELSE 0)
      /\ s.tv = e.tv + (IF k = "tv" THEN 15 ELSE 0)
      /\ s.anime = e.anime + (IF k = "anime" THEN 15 ELSE 0)
  BY ScoresAre
<1>3. t.kind = "movie" => e.anime >= 70 /\ e.tv <= 35
  BY DEF Evidence, Points, SeriesPoints, FilmPoints
<1>4. t.kind = "show" => e.anime >= 130 /\ e.tv <= 110 /\ e.movie = 0
  BY DEF Evidence, Points, SeriesPoints, FilmPoints
<1> HIDE DEF e
<1>5. s.anime > s.tv
  BY <1>1, <1>2, <1>3, <1>4
<1>6. t.kind = "show" => s.anime > s.movie
  BY <1>1, <1>2, <1>4
<1>7. s.movie \in Nat /\ s.tv \in Nat /\ s.anime \in Nat
  BY <1>1, <1>2
<1> HIDE DEF s
<1> SUFFICES ASSUME NEW l \in Classify(t, r, k), l \notin {"anime", "anime_movie"}
             PROVE  FALSE
  OBVIOUS
<1>8. /\ l \in {"movie", "tv"}
      /\ \A m \in {"movie", "tv", "anime"} : s[l] >= s[m]
      /\ t.kind = "movie" => s.anime <= s.tv
  BY ClassifyIs DEF MovieFormat, s
<1>9. t.kind = "show"
  BY <1>5, <1>7, <1>8
<1>10. s[l] < s.anime
  BY <1>5, <1>6, <1>8, <1>9
<1> QED
  BY <1>7, <1>8, <1>10

LEMMA CartoonIsNot ==
    ASSUME NEW t \in Title, NEW r, NEW k \in Kinds, r.asked = TRUE, r.anime = FALSE,
           "ja" \notin PrimaryAudio(t.files), ~t.anidb, ~t.flag, t.name # "fansub"
    PROVE  Classify(t, r, k) \subseteq {"movie", "tv"}
<1> DEFINE e == Evidence(t, r)
           s == Scores(t, r, k)
<1>0. t.kind \in {"movie", "show"}
  BY DEF Title
<1>1. e.movie \in Nat /\ e.tv \in Nat /\ e.anime \in Nat
  BY EvidenceType
<1>2. /\ s.movie = e.movie + (IF k = "movie" THEN 15 ELSE 0)
      /\ s.tv = e.tv + (IF k = "tv" THEN 15 ELSE 0)
      /\ s.anime = e.anime + (IF k = "anime" THEN 15 ELSE 0)
  BY ScoresAre
<1>3. t.kind = "movie" => e.anime <= 20 /\ e.tv >= 40
  BY DEF Evidence, Points, SeriesPoints, FilmPoints
<1>4. t.kind = "show" => e.anime <= 80 /\ e.tv >= 115
  BY DEF Evidence, Points, SeriesPoints, FilmPoints
<1> HIDE DEF e
<1>5. s.anime < s.tv
  BY <1>0, <1>1, <1>2, <1>3, <1>4
<1>6. s.tv \in Nat /\ s.anime \in Nat
  BY <1>1, <1>2
<1> HIDE DEF s
<1> SUFFICES ASSUME NEW l \in Classify(t, r, k), l \notin {"movie", "tv"}
             PROVE  FALSE
  OBVIOUS
<1>7. \/ s.anime >= s.tv
      \/ l = "anime" /\ \A m \in {"movie", "tv", "anime"} : s[l] >= s[m]
  BY ClassifyIs DEF s
<1> QED
  BY <1>5, <1>6, <1>7

(* A label that another library accepts stays one it accepts there.          *)
LEMMA Settles ==
    ASSUME NEW t \in Title, NEW r, NEW j \in Kinds, NEW k \in {"movie", "tv", "anime"},
           j # k, NEW l \in Classify(t, r, j), l \in Accepted[k],
           NEW m \in Classify(t, r, k)
    PROVE  m \in Accepted[k]
<1> DEFINE e == Evidence(t, r)
           s == Scores(t, r, j)
           z == Scores(t, r, k)
<1>1. e.movie \in Nat /\ e.tv \in Nat /\ e.anime \in Nat
  BY EvidenceType
<1>2. /\ s.movie = e.movie + (IF j = "movie" THEN 15 ELSE 0)
      /\ s.tv = e.tv + (IF j = "tv" THEN 15 ELSE 0)
      /\ s.anime = e.anime + (IF j = "anime" THEN 15 ELSE 0)
  BY ScoresAre
<1>3. /\ z.movie = e.movie + (IF k = "movie" THEN 15 ELSE 0)
      /\ z.tv = e.tv + (IF k = "tv" THEN 15 ELSE 0)
      /\ z.anime = e.anime + (IF k = "anime" THEN 15 ELSE 0)
  BY ScoresAre DEF Kinds
<1>4. \/ l = "anime_movie" /\ MovieFormat(t) /\ s.anime >= s.tv
      \/ /\ l \in {"movie", "tv", "anime"}
         /\ \A n \in {"movie", "tv", "anime"} : s[l] >= s[n]
         /\ MovieFormat(t) => s.anime <= s.tv
  BY ClassifyIs
<1>5. \/ m = "anime_movie" /\ MovieFormat(t) /\ z.anime >= z.tv
      \/ /\ m \in {"movie", "tv", "anime"}
         /\ \A n \in {"movie", "tv", "anime"} : z[m] >= z[n]
         /\ MovieFormat(t) => z.anime <= z.tv
  BY ClassifyIs DEF Kinds
<1>6. MovieFormat(t) => e.movie + 15 > e.tv
  BY DEF MovieFormat, Evidence, Points, SeriesPoints, FilmPoints
<1> HIDE DEF e, s, z
<1>7. CASE k = "movie"
  <2>1. l \in {"movie", "anime_movie"}
    BY <1>7 DEF Accepted
  <2>2. m \in {"movie", "anime_movie"}
    BY <1>1, <1>2, <1>3, <1>4, <1>5, <1>6, <1>7, <2>1
  <2> QED
    BY <1>7, <2>2 DEF Accepted
<1>8. CASE k = "tv"
  <2>1. l = "tv"
    BY <1>8 DEF Accepted
  <2>2. m = "tv"
    BY <1>1, <1>2, <1>3, <1>4, <1>5, <1>8, <2>1
  <2> QED
    BY <1>8, <2>2 DEF Accepted
<1>9. CASE k = "anime"
  <2>1. l \in {"anime", "anime_movie"}
    BY <1>9 DEF Accepted
  <2>2. m \in {"anime", "anime_movie"}
    BY <1>1, <1>2, <1>3, <1>4, <1>5, <1>9, <2>1
  <2> QED
    BY <1>9, <2>2 DEF Accepted
<1> QED
  BY <1>7, <1>8, <1>9

(* NULL is neither, in Python or in SQL.                                     *)
LEMMA MisfiledIs ==
    ASSUME NEW k \in Kinds, NEW l \in Labels \cup {Nothing}
    PROVE  MisfiledCondition(k, l) = IsMisfiled(k, l)
<1>0. Nothing \notin BOOLEAN \cup Labels /\ DOMAIN Accepted = {"movie", "tv", "anime"}
  BY DEF Accepted
<1> DEFINE part(a) == AndSql(k = a, NotIn(l, Accepted[a]))
           parts == {part(a) : a \in DOMAIN Accepted}
<1>1. CASE l = Nothing
  <2>1. MisfiledCondition(k, l) = (AndSql(FALSE, OrSql(parts)) = TRUE)
    BY <1>1 DEF MisfiledCondition
  <2>2. AndSql(FALSE, OrSql(parts)) = FALSE
    BY DEF AndSql
  <2> QED
    BY <1>1, <2>1, <2>2 DEF IsMisfiled
<1>2. CASE l \in Labels
  <2>1. l # Nothing
    BY <1>0, <1>2
  <2>2. \A a \in DOMAIN Accepted :
            part(a) = IF k = a /\ l \notin Accepted[a] THEN TRUE ELSE FALSE
    BY <1>0, <2>1 DEF NotIn, AndSql
  <2>3. parts \subseteq BOOLEAN
    <3>1. \A a \in DOMAIN Accepted : part(a) \in BOOLEAN
      BY <2>2
    <3> HIDE DEF part
    <3> QED
      BY <3>1
  <2>4. TRUE \in parts <=> \E a \in DOMAIN Accepted : k = a /\ l \notin Accepted[a]
    BY <2>2
  <2> DEFINE some == OrSql(parts)
  <2> HIDE DEF parts
  <2>5. some = IF TRUE \in parts THEN TRUE ELSE FALSE
    <3>1. Nothing \notin parts
      BY <1>0, <2>3, Zenon
    <3> QED
      BY <3>1, Zenon DEF OrSql
  <2> HIDE DEF some
  <2>6. MisfiledCondition(k, l) <=> TRUE \in parts
    <3>1. MisfiledCondition(k, l) <=> AndSql(TRUE, some) = TRUE
      BY <2>1 DEF MisfiledCondition, parts, some
    <3>2. AndSql(TRUE, TRUE) = TRUE /\ AndSql(TRUE, FALSE) = FALSE
      BY <1>0 DEF AndSql
    <3> QED
      BY <2>5, <3>1, <3>2
  <2>7. IsMisfiled(k, l) <=> \E a \in DOMAIN Accepted : k = a /\ l \notin Accepted[a]
    BY <2>1 DEF IsMisfiled
  <2>8. MisfiledCondition(k, l) \in BOOLEAN /\ IsMisfiled(k, l) \in BOOLEAN
    BY DEF MisfiledCondition, IsMisfiled
  <2> QED
    <3>1. MisfiledCondition(k, l) <=> IsMisfiled(k, l)
      BY <2>4, <2>6, <2>7
    <3> QED
      BY <2>8, <3>1
<1> QED
  BY <1>1, <1>2

-----------------------------------------------------------------------------
(* What a player picks *)

LEMMA DubIsNone ==
    ASSUME NEW f \in Seq(Track), Spoken(f) # {}, Chosen(f, DOMAIN f) = "en"
    PROVE  Chosen(f, Spoken(f)) = "en"
<1> DEFINE all == {i \in DOMAIN f : f[i].default}
           heardOnes == {i \in Spoken(f) : f[i].default}
           firstOf == IF all # {} THEN all ELSE DOMAIN f
           spokenOf == IF heardOnes # {} THEN heardOnes ELSE Spoken(f)
<1>0. Spoken(f) \subseteq DOMAIN f /\ DOMAIN f \subseteq Nat
  BY DEF Spoken
<1>1. firstOf \subseteq DOMAIN f /\ firstOf # {}
  BY <1>0
<1>2. Min(firstOf) \in firstOf /\ \A i \in firstOf : Min(firstOf) <= i
  <2> HIDE DEF firstOf
  <2> QED
    BY <1>0, <1>1, MinIs
<1>3. f[Min(firstOf)].lang = "en"
  BY DEF Chosen
<1> DEFINE m == Min(firstOf)
<1>4. m \in Spoken(f)
  BY <1>1, <1>2, <1>3 DEF Spoken
<1>5. m \in spokenOf /\ spokenOf \subseteq firstOf
  <2>1. CASE all # {}
    BY <1>0, <1>2, <1>4, <2>1
  <2>2. CASE all = {}
    BY <1>0, <1>2, <1>4, <2>2
  <2> QED
    BY <2>1, <2>2
<1>6. Min(spokenOf) = m
  <2>1. \A i \in spokenOf : m <= i
    BY <1>2, <1>5
  <2>2. spokenOf \in SUBSET Nat
    BY <1>0
  <2> HIDE DEF spokenOf, m
  <2> QED
    BY <1>5, <2>1, <2>2, MinOf
<1> QED
  BY <1>3, <1>6 DEF Chosen

-----------------------------------------------------------------------------
(* What the providers report *)

Report == [anime : BOOLEAN \cup {Nothing}, tvdb : BOOLEAN, imdb : BOOLEAN]

LEMMA BestIs ==
    ASSUME NEW T, NEW c \in Seq(T), c # <<>>, NEW y
    PROVE  \E i \in DOMAIN c : Best(c, y) = c[i]
<1> DEFINE fit == {i \in DOMAIN c : YearMatches(y, c[i].year)}
<1>1. fit \in SUBSET Nat /\ 1 \in DOMAIN c
  OBVIOUS
<1>2. fit # {} => Min(fit) \in fit
  <2> HIDE DEF fit
  <2> QED
    BY <1>1, MinIs
<1> QED
  BY <1>1, <1>2 DEF Best

LEMMA AnswerType == Answers \cup {Silence} \subseteq Answer
<1>1. /\ Silence.anilist = <<>> /\ Silence.tmdb = <<>> /\ Silence.tvdb = <<>>
      /\ \A T : <<>> \in Seq(T)
  BY DEF Silence
<1> QED
  BY <1>1 DEF Answer, Silence

LEMMA ReportsType ==
    ASSUME NEW a \in Answers \cup {Silence}, NEW y \in Years
    PROVE  Reports(a, y) \in Seq(Report)
<1>1. a \in Answer
  BY AnswerType
<1>2. a.anilist # <<>> => AniList(Best(a.anilist, y), y) \in Report
  <2> SUFFICES ASSUME a.anilist # <<>> PROVE AniList(Best(a.anilist, y), y) \in Report
    OBVIOUS
  <2>1. a.anilist \in Seq([year : Years, japanese : BOOLEAN, film : BOOLEAN])
    BY <1>1 DEF Answer
  <2>2. PICK i \in DOMAIN a.anilist : Best(a.anilist, y) = a.anilist[i]
    BY <2>1, BestIs
  <2>3. a.anilist[i] \in [year : Years, japanese : BOOLEAN, film : BOOLEAN]
    BY <2>1, ElementIs, Zenon
  <2> QED
    BY <2>2, <2>3 DEF AniList, Report
<1>3. a.tmdb # <<>> => Tmdb(Best(a.tmdb, y)) \in Report
  <2> SUFFICES ASSUME a.tmdb # <<>> PROVE Tmdb(Best(a.tmdb, y)) \in Report
    OBVIOUS
  <2>1. a.tmdb \in Seq([year : Years, japanese : BOOLEAN, animated : BOOLEAN, imdb : BOOLEAN])
    BY <1>1 DEF Answer
  <2>2. PICK i \in DOMAIN a.tmdb : Best(a.tmdb, y) = a.tmdb[i]
    BY <2>1, BestIs
  <2>3. a.tmdb[i] \in [year : Years, japanese : BOOLEAN, animated : BOOLEAN, imdb : BOOLEAN]
    BY <2>1, ElementIs, Zenon
  <2> QED
    BY <2>2, <2>3 DEF Tmdb, Report
<1>4. a.tvdb # <<>> => Tvdb(Best(a.tvdb, y)) \in Report
  <2> SUFFICES ASSUME a.tvdb # <<>> PROVE Tvdb(Best(a.tvdb, y)) \in Report
    OBVIOUS
  <2>1. a.tvdb \in Seq([year : Years, genres : SUBSET STRING, imdb : BOOLEAN])
    BY <1>1 DEF Answer
  <2>2. PICK i \in DOMAIN a.tvdb : Best(a.tvdb, y) = a.tvdb[i]
    BY <2>1, BestIs
  <2>3. a.tvdb[i] \in [year : Years, genres : SUBSET STRING, imdb : BOOLEAN]
    BY <2>1, ElementIs, Zenon
  <2> QED
    BY <2>2, <2>3 DEF Tvdb, Report
<1> DEFINE x == AniList(Best(a.anilist, y), y)
           w == Tmdb(Best(a.tmdb, y))
           v == Tvdb(Best(a.tvdb, y))
           p == IF a.anilist = <<>> THEN <<>> ELSE <<x>>
           q == IF a.tmdb = <<>> THEN <<>> ELSE <<w>>
           o == IF a.tvdb = <<>> THEN <<>> ELSE <<v>>
<1>5. Reports(a, y) = (p \o q) \o o
  BY DEF Reports
<1> HIDE DEF x, w, v
<1>6. p \in Seq(Report) /\ q \in Seq(Report) /\ o \in Seq(Report)
  BY <1>2, <1>3, <1>4 DEF x, w, v
<1> HIDE DEF p, q, o
<1>7. p \o q \in Seq(Report)
  BY <1>6
<1> QED
  BY <1>5, <1>6, <1>7

(* The first provider with an opinion has it.                                *)
LEMMA OpinionIs ==
    ASSUME NEW s \in Seq(Report)
    PROVE  /\ Opinion(s) \in BOOLEAN \cup {Nothing}
           /\ s = <<>> => Opinion(s) = Nothing
           /\ s # <<>> /\ s[1].anime # Nothing => Opinion(s) = s[1].anime
<1>1. Opinions(s) \in SUBSET Nat /\ Opinions(s) \subseteq DOMAIN s
  BY DEF Opinions
<1>2. Opinions(s) # {} => Min(Opinions(s)) \in Opinions(s)
  BY <1>1, MinIs
<1>3. \A i \in DOMAIN s : s[i].anime \in BOOLEAN \cup {Nothing}
  <2> SUFFICES ASSUME NEW i \in DOMAIN s PROVE s[i].anime \in BOOLEAN \cup {Nothing}
    OBVIOUS
  <2>1. s[i] \in Report
    BY ElementIs, Zenon
  <2> QED
    BY <2>1 DEF Report
<1>4. Opinion(s) \in BOOLEAN \cup {Nothing}
  BY <1>1, <1>2, <1>3 DEF Opinion
<1>5. s = <<>> => Opinion(s) = Nothing
  BY <1>1 DEF Opinion
<1>6. ASSUME s # <<>>, s[1].anime # Nothing PROVE Opinion(s) = s[1].anime
  <2>1. 1 \in DOMAIN s /\ \A i \in DOMAIN s : 1 <= i
    BY <1>6
  <2>2. 1 \in Opinions(s)
    BY <1>6, <2>1 DEF Opinions
  <2>3. Min(Opinions(s)) = 1
    BY <1>1, <2>1, <2>2, MinOf
  <2> QED
    BY <2>2, <2>3 DEF Opinion
<1> QED
  BY <1>4, <1>5, <1>6

(* AniList, which is asked first, does not take another year for the title.  *)
LEMMA OtherYearsAreNoAnime ==
    ASSUME NEW a \in Answers \cup {Silence}, NEW y \in Nat, a.anilist # <<>>,
           \A i \in DOMAIN a.anilist :
               a.anilist[i].year # Nothing /\ a.anilist[i].year - y \notin -1..1
    PROVE  Reports(a, y) # <<>> /\ Opinion(Reports(a, y)) = FALSE
<1> DEFINE x == AniList(Best(a.anilist, y), y)
           q == IF a.tmdb = <<>> THEN <<>> ELSE <<Tmdb(Best(a.tmdb, y))>>
           o == IF a.tvdb = <<>> THEN <<>> ELSE <<Tvdb(Best(a.tvdb, y))>>
<1>1. a.anilist \in Seq([year : Years, japanese : BOOLEAN, film : BOOLEAN])
  BY AnswerType DEF Answer
<1>2. PICK i \in DOMAIN a.anilist : Best(a.anilist, y) = a.anilist[i]
  BY <1>1, BestIs
<1>3. a.anilist[i].year \in Nat /\ a.anilist[i].year - y \notin -1..1
  <2>1. a.anilist[i] \in [year : Years, japanese : BOOLEAN, film : BOOLEAN]
    BY <1>1, ElementIs, Zenon
  <2> QED
    BY <2>1 DEF Years
<1>4. ~YearMatches(y, a.anilist[i].year)
  BY <1>3 DEF YearMatches
<1>5. x.anime = FALSE
  BY <1>2, <1>4 DEF AniList
<1>6. Reports(a, y) = (<<x>> \o q) \o o
  BY DEF Reports
<1> HIDE DEF x
<1>7. Reports(a, y) # <<>> /\ Reports(a, y)[1] = x
  <2> DEFINE w == Tmdb(Best(a.tmdb, y))
             v == Tvdb(Best(a.tvdb, y))
             T == {x, w, v}
  <2>1. q \in Seq(T) /\ o \in Seq(T) /\ <<x>> \in Seq(T)
    <3>1. w \in T /\ v \in T /\ x \in T
      OBVIOUS
    <3> HIDE DEF T
    <3>2. <<w>> \in Seq(T) /\ <<v>> \in Seq(T) /\ <<x>> \in Seq(T) /\ <<>> \in Seq(T)
      <4> HIDE DEF w, v
      <4> QED
        BY <3>1
    <3>3. (q = <<>> \/ q = <<w>>) /\ (o = <<>> \/ o = <<v>>)
      BY Zenon
    <3> HIDE DEF w, v, q, o
    <3> QED
      BY <3>2, <3>3
  <2> HIDE DEF q, o, T
  <2>2. (<<x>> \o q) \in Seq(T) /\ Len(<<x>> \o q) = 1 + Len(q) /\ (<<x>> \o q)[1] = x
    BY <2>1
  <2> DEFINE h == <<x>> \o q
  <2> HIDE DEF h
  <2>3. Len(h \o o) = Len(h) + Len(o) /\ Len(h) >= 1 /\ (h \o o)[1] = h[1]
    BY <2>1, <2>2 DEF h
  <2> QED
    BY <1>6, <2>1, <2>2, <2>3 DEF h
<1>8. Reports(a, y) \in Seq(Report)
  BY ReportsType DEF Years
<1>9. Reports(a, y)[1].anime = FALSE /\ Nothing # FALSE
  BY <1>5, <1>7
<1> QED
  BY <1>7, <1>8, <1>9, OpinionIs

-----------------------------------------------------------------------------
(* The row is what was heard. *)

Heard ==
    /\ TypeOK
    /\ row.anime = Opinion(Reports(heard, title.year))
    /\ row.asked = (Reports(heard, title.year) # <<>>)

LEMMA SilenceSaysNothing ==
    ASSUME NEW y
    PROVE  Reports(Silence, y) = <<>> /\ Opinion(Reports(Silence, y)) = Nothing
<1>1. Reports(Silence, y) = (<<>> \o <<>>) \o <<>>
  BY DEF Reports, Silence
<1>2. (<<>> \o <<>>) \o <<>> = <<>>
  OBVIOUS
<1>3. Opinions(<<>>) = {}
  BY DEF Opinions
<1> QED
  BY <1>1, <1>2, <1>3 DEF Opinion

LEMMA InitHeard == Init => Heard
<1> SUFFICES ASSUME Init PROVE Heard
  OBVIOUS
<1>1. TypeOK
  BY DEF Init, TypeOK
<1>2. Reports(heard, title.year) = <<>> /\ Opinion(Reports(heard, title.year)) = Nothing
  BY SilenceSaysNothing DEF Init
<1>3. row.anime = Nothing /\ row.asked = FALSE
  BY DEF Init
<1> QED
  BY <1>1, <1>2, <1>3 DEF Heard

LEMMA NextHeard == Heard /\ [Next]_vars => Heard'
<1> SUFFICES ASSUME Heard, [Next]_vars PROVE Heard'
  OBVIOUS
<1> USE DEF Heard
<1>1. ASSUME Reclassify PROVE Heard'
  <2>1. label' \in Labels
    BY <1>1, LabelType DEF Reclassify, TypeOK
  <2>2. UNCHANGED <<title, row, kind, heard>>
    BY <1>1 DEF Reclassify
  <2> QED
    BY <2>1, <2>2 DEF TypeOK
<1>2. ASSUME NEW a \in Answers, Enrich(a) PROVE Heard'
  <2> DEFINE s == Reports(a, title.year)
  <2>1. title.year \in Years
    BY DEF TypeOK, Title
  <2>2. s \in Seq(Report)
    BY <2>1, ReportsType
  <2> HIDE DEF s
  <2>3. row' = Stored(row, s) /\ heard' = a /\ UNCHANGED <<title, kind>>
    BY <1>2 DEF Enrich, s
  <2>4. label' \in Labels
    BY <1>2, LabelType DEF Enrich, TypeOK
  <2>5. row'.anime = Opinion(s) /\ row'.asked = (s # <<>>)
    BY <2>3 DEF Stored
  <2>6. row' \in [asked : BOOLEAN, anime : BOOLEAN \cup {Nothing}, tvdb : BOOLEAN, imdb : BOOLEAN]
    <3>1. Opinion(s) \in BOOLEAN \cup {Nothing}
      BY <2>2, OpinionIs
    <3>2. /\ (s # <<>>) \in BOOLEAN
          /\ (row.tvdb \/ \E i \in DOMAIN s : s[i].tvdb) \in BOOLEAN
          /\ (row.imdb \/ \E i \in DOMAIN s : s[i].imdb) \in BOOLEAN
      BY Zenon
    <3> QED
      BY <2>3, <3>1, <3>2 DEF Stored
  <2>7. ~row'.asked => row'.anime = Nothing
    BY <2>2, <2>5, OpinionIs
  <2>8. TypeOK'
    BY <2>3, <2>4, <2>6, <2>7 DEF TypeOK
  <2> QED
    BY <2>3, <2>5, <2>8 DEF s
<1>3. ASSUME NEW k \in Kinds, ChangeKind(k) PROVE Heard'
  BY <1>3 DEF ChangeKind, TypeOK
<1>4. ASSUME UNCHANGED vars PROVE Heard'
  BY <1>4 DEF vars, TypeOK
<1> QED
  BY <1>1, <1>2, <1>3, <1>4 DEF Next

LEMMA AlwaysHeard == Spec => []Heard
BY InitHeard, NextHeard, PTL DEF Spec

-----------------------------------------------------------------------------
(* The theorems about labels *)

(* A label says what the evidence does: an identified anime is one, a        *)
(* cartoon and a remake are none, a dub nobody plays does not count          *)
(* (classifier.py:86-151), for any titles, files and answers.                *)
THEOREM EvidenceStands == Spec => []EvidenceIsHeard
<1>1. Heard => EvidenceIsHeard
  <2> SUFFICES ASSUME Heard PROVE EvidenceIsHeard
    OBVIOUS
  <2>0. TypeOK /\ title \in Title /\ kind \in Kinds /\ Nothing \notin BOOLEAN
    BY DEF Heard, TypeOK
  <2>1. row.anime \in BOOLEAN => row.asked = TRUE
    BY <2>0 DEF TypeOK
  <2>2. IdentifiedAnimeIsAnime
    <3>1. title.kind \in {"movie", "show"}
      BY <2>0 DEF Title
    <3> QED
      BY <2>0, <2>1, <3>1, IdentifiedIsAnime DEF IdentifiedAnimeIsAnime, NowCalled
  <2>3. CartoonIsNotAnime
    BY <2>0, <2>1, CartoonIsNot DEF CartoonIsNotAnime, LooksJapanese, NowCalled
  <2>4. RemakeIsNotAnime
    <3> SUFFICES ASSUME heard.anilist # <<>>, title.year # Nothing, ~LooksJapanese,
                        \A i \in DOMAIN heard.anilist :
                            /\ heard.anilist[i].year # Nothing
                            /\ heard.anilist[i].year - title.year \notin -1..1
                 PROVE  NowCalled(kind) \subseteq {"movie", "tv"}
      BY DEF RemakeIsNotAnime
    <3>1. title.year \in Nat
      BY <2>0 DEF Title, Years
    <3>2. heard \in Answers \cup {Silence}
      BY <2>0 DEF TypeOK
    <3>3. row.anime = FALSE
      BY <3>1, <3>2, OtherYearsAreNoAnime DEF Heard
    <3> QED
      BY <2>3, <3>3 DEF CartoonIsNotAnime
  <2>5. DubIsNoEvidence
    <3> SUFFICES ASSUME \A f \in ToSet(title.files) : f # <<>> => Chosen(f, DOMAIN f) = "en",
                        "ja" \in PrimaryAudio(title.files)
                 PROVE  FALSE
      BY DEF DubIsNoEvidence
    <3>1. PICK f \in ToSet(title.files) : Spoken(f) # {} /\ Chosen(f, Spoken(f)) = "ja"
      BY DEF PrimaryAudio
    <3>2. f \in Seq(Track)
      BY <2>0 DEF Title, ToSet
    <3>3. f # <<>>
      BY <3>1 DEF Spoken
    <3> QED
      BY <3>1, <3>2, <3>3, DubIsNone
  <2> QED
    BY <2>0, <2>2, <2>3, <2>4, <2>5 DEF EvidenceIsHeard
<1> QED
  BY <1>1, AlwaysHeard, PTL

(* The library's kind moves no label that the evidence leads by more than    *)
(* the hint's weight (classifier.py:31-35, 258-263).                         *)
THEOREM HintStaysAHint == Spec => []HintOnlyBreaksTies
<1>1. Heard => HintOnlyBreaksTies
  <2> SUFFICES ASSUME \A l, m \in DOMAIN Evidence(title, row) :
                          l # m => Evidence(title, row)[l] - Evidence(title, row)[m] \notin -15..15,
                      NEW k \in Kinds
               PROVE  NowCalled(k) = NowCalled("auto")
    BY DEF HintOnlyBreaksTies
  <2>1. DOMAIN Evidence(title, row) = {"movie", "tv", "anime"}
    BY EvidenceType
  <2> QED
    BY <2>1, HintDecidesOnlyTies DEF NowCalled
<1> QED
  BY <1>1, AlwaysHeard, PTL

(* A misfiled title that is moved to a library that accepts its label is not *)
(* misfiled there (classify/misfiled.py:18-22; api/app.py:386-392).          *)
THEOREM MovesSettle == Spec => []RefilingSettles
<1>1. Heard => RefilingSettles
  <2> SUFFICES ASSUME Heard, NEW l \in NowCalled(kind), NEW k \in DOMAIN Accepted \ {kind},
                      l \in Accepted[k], NEW m \in NowCalled(k)
               PROVE  ~IsMisfiled(k, m)
    BY DEF RefilingSettles
  <2>1. title \in Title /\ kind \in Kinds /\ k \in {"movie", "tv", "anime"}
    BY DEF Heard, TypeOK, Accepted
  <2>2. m \in Accepted[k]
    BY <2>1, Settles DEF NowCalled
  <2> QED
    BY <2>2 DEF IsMisfiled
<1> QED
  BY <1>1, AlwaysHeard, PTL

(* The SQL filter finds the titles is_misfiled() names, whatever the label   *)
(* (classify/misfiled.py:25-51).                                             *)
THEOREM SqlAgrees == Spec => []MisfiledAgrees
<1>1. Heard => MisfiledAgrees
  BY MisfiledIs DEF Heard, TypeOK, MisfiledAgrees
<1> QED
  BY <1>1, AlwaysHeard, PTL

-----------------------------------------------------------------------------
(* Lookups: the first opinion *)

USE DEF P!ProvidersFits

Fields == {"source", "anime", "imdb"}

LEMMA SignalsAre ==
    ASSUME P!ProvidersFits, NEW s \in P!Signals
    PROVE  s = [f \in Fields |-> s[f]] /\ s.source \in P!Names
BY DEF P!Signals, Fields

LEMMA FirstOfNone ==
    ASSUME P!ProvidersFits
    PROVE \A f \in Fields : P!FirstOf(<<>>, f) = Nothing
BY DEF P!FirstOf

(* One more report changes what is known only where nothing was.             *)
LEMMA FirstOfAppended ==
    ASSUME P!ProvidersFits,
           NEW r \in Seq(P!Signals), NEW s \in P!Signals, NEW f \in Fields
    PROVE  P!FirstOf(Append(r, s), f) =
               IF P!FirstOf(r, f) = Nothing THEN s[f] ELSE P!FirstOf(r, f)
<1> DEFINE x == Append(r, s)
           known == {i \in DOMAIN r : r[i][f] # Nothing}
           more == {i \in DOMAIN x : x[i][f] # Nothing}
           n == Len(r) + 1
<1>1. /\ DOMAIN r = 1..Len(r) /\ DOMAIN x = 1..n /\ Len(r) \in Nat
      /\ \A i \in DOMAIN r : x[i] = r[i]
      /\ x[n] = s
  OBVIOUS
<1> HIDE DEF x
<1>2. known \subseteq Nat /\ more \subseteq Nat
  BY <1>1
<1>3. \A i \in Nat : i \in more <=> i \in known \/ (i = n /\ s[f] # Nothing)
  <2> SUFFICES ASSUME NEW i \in Nat
               PROVE  i \in more <=> i \in known \/ (i = n /\ s[f] # Nothing)
    OBVIOUS
  <2>1. i \in more <=> i \in 1..n /\ x[i][f] # Nothing
    BY <1>1
  <2>2. i \in known <=> i \in 1..Len(r) /\ r[i][f] # Nothing
    BY <1>1
  <2>3. i \in 1..n <=> i \in 1..Len(r) \/ i = n
    BY <1>1
  <2>4. (i \in 1..Len(r) => x[i] = r[i]) /\ (i = n => x[i] = s) /\ ~(n \in 1..Len(r))
    BY <1>1
  <2> HIDE DEF more, known, n
  <2> QED
    BY <2>1, <2>2, <2>3, <2>4
<1>4. \A i \in known : i < n
  BY <1>1
<1>5. \A i \in known : x[i] = r[i] /\ r[i][f] # Nothing
  <2>1. \A i \in known : i \in DOMAIN r /\ r[i][f] # Nothing
    OBVIOUS
  <2> HIDE DEF known
  <2> QED
    BY <1>1, <2>1
<1>6. P!FirstOf(r, f) = IF known = {} THEN Nothing ELSE r[P!Min(known)][f]
  BY DEF P!FirstOf
<1>7. P!FirstOf(x, f) = IF more = {} THEN Nothing ELSE x[P!Min(more)][f]
  BY DEF P!FirstOf
<1>8. n \in Nat
  BY <1>1
<1> HIDE DEF known, more, n
<1>9. CASE known # {}
  <2>1. P!Min(known) \in known /\ \A i \in known : P!Min(known) <= i
    <3>1. P!Min(known) = Min(known)
      BY <1>2, <1>9, MinIs
    <3>2. Min(known) \in known /\ \A i \in known : Min(known) <= i
      BY <1>2, <1>9, MinIs
    <3> QED
      BY <3>1, <3>2, Zenon
  <2> DEFINE m == P!Min(known)
  <2> HIDE DEF m
  <2>2. m \in known /\ \A i \in known : m <= i
    BY <2>1 DEF m
  <2>3. m \in more /\ \A i \in more : m <= i
    BY <1>2, <1>3, <1>4, <1>8, <2>2
  <2>4. P!Min(more) = m
    BY <1>2, <2>3, MinOf
  <2> QED
    BY <1>5, <1>6, <1>7, <1>9, <2>2, <2>3, <2>4 DEF x, m
<1>10. CASE known = {} /\ s[f] # Nothing
  <2>1. n \in more /\ \A i \in more : i = n
    BY <1>2, <1>3, <1>8, <1>10
  <2>2. P!Min(more) = n
    BY <1>2, <1>8, <2>1, MinOf
  <2> QED
    BY <1>1, <1>6, <1>7, <1>10, <2>1, <2>2 DEF x, n
<1>11. CASE known = {} /\ s[f] = Nothing
  <2>1. more = {}
    BY <1>2, <1>3, <1>11
  <2> QED
    BY <1>6, <1>7, <1>11, <2>1 DEF x
<1> QED
  BY <1>9, <1>10, <1>11

LEMMA FirstOfType ==
    ASSUME P!ProvidersFits, NEW r \in Seq(P!Signals)
    PROVE  /\ P!FirstOf(r, "anime") \in BOOLEAN \cup {Nothing}
           /\ P!FirstOf(r, "imdb") \in {"tmdb", "tvdb", Nothing}
           /\ r # <<>> => P!FirstOf(r, "source") \in P!Names
<1> DEFINE known(f) == {i \in DOMAIN r : r[i][f] # Nothing}
<1>1. \A i \in DOMAIN r : r[i] \in P!Signals
  OBVIOUS
<1>2. \A f \in Fields : known(f) # {} => P!Min(known(f)) \in known(f)
  <2> SUFFICES ASSUME NEW f \in Fields, known(f) # {} PROVE P!Min(known(f)) \in known(f)
    OBVIOUS
  <2>1. known(f) \in SUBSET Nat
    OBVIOUS
  <2> HIDE DEF known
  <2> QED
    BY <2>1, MinIs
<1>3. \A f \in Fields : \/ P!FirstOf(r, f) = Nothing /\ known(f) = {}
                        \/ known(f) # {} /\ \E i \in DOMAIN r : P!FirstOf(r, f) = r[i][f]
  <2> SUFFICES ASSUME NEW f \in Fields
               PROVE  \/ P!FirstOf(r, f) = Nothing /\ known(f) = {}
                      \/ known(f) # {} /\ \E i \in DOMAIN r : P!FirstOf(r, f) = r[i][f]
    OBVIOUS
  <2>1. P!FirstOf(r, f) = IF known(f) = {} THEN Nothing ELSE r[P!Min(known(f))][f]
    BY DEF P!FirstOf
  <2>2. known(f) \subseteq DOMAIN r
    OBVIOUS
  <2>3. known(f) # {} => P!Min(known(f)) \in known(f)
    BY <1>2
  <2> HIDE DEF known
  <2> QED
    BY <2>1, <2>2, <2>3
<1>4. r # <<>> => known("source") # {}
  <2> SUFFICES ASSUME r # <<>> PROVE known("source") # {}
    OBVIOUS
  <2>1. 1 \in DOMAIN r
    OBVIOUS
  <2>2. r[1].source \in P!Names
    BY <1>1, <2>1, SignalsAre
  <2>3. r[1].source # Nothing
    BY <2>2
  <2> QED
    BY <2>1, <2>3
<1> HIDE DEF known
<1> QED
  BY <1>1, <1>3, <1>4 DEF P!Signals, Fields

-----------------------------------------------------------------------------
(* What a pass knows: its request, the pace it keeps, its token, its answer. *)

RequestOK ==
    /\ at \in [Passes -> 0..(Len(Order) + 1)]
    /\ call \in [Passes -> {"search", "ids", "login"}]
    /\ attempt \in [Passes -> 0..MaxAttempts] /\ asleep \in [Passes -> 0..P!Longest]
    /\ found \in [Passes -> P!Signals \cup {Nothing}]
    /\ \A p \in Passes : call[p] = "ids" => found[p] # Nothing

PaceOK ==
    /\ cool \in [Passes -> [P!Names -> Nat]] /\ since \in [P!Names -> Nat]
    /\ \A p \in Passes, k \in P!Names : cool[p][k] <= Interval[k]
    /\ \A k \in P!Names : since[k] <= Interval[k]
    /\ hasty = {} /\ crowded \subseteq P!Names

TokenOK ==
    /\ token \in [Passes -> BOOLEAN] /\ valid \in [Passes -> BOOLEAN]
    /\ rejected \in [Passes -> BOOLEAN]
    /\ \A p \in Passes : rejected[p] => ~token[p]

(* each provider reports at most once, and the merge keeps the first opinion *)
Merges(m, r) ==
    m = IF r = <<>> THEN Nothing ELSE [f \in Fields |-> P!FirstOf(r, f)]
AnswerOK ==
    /\ merged \in [Passes -> P!Signals \cup {Nothing}] /\ reports \in [Passes -> Seq(P!Signals)]
    /\ \A p \in Passes : /\ Merges(merged[p], reports[p])
                         /\ IF at[p] = 0 THEN reports[p] = <<>> ELSE Len(reports[p]) < at[p]

Sound == RequestOK /\ PaceOK /\ TokenOK /\ AnswerOK

LEMMA OrderIs ==
    ASSUME P!ProvidersFits
    PROVE Len(Order) \in Nat \ {0} /\ DOMAIN Order = 1..Len(Order)
OBVIOUS

LEMMA LongestIs == ASSUME P!ProvidersFits PROVE
    /\ P!Longest \in Nat /\ Cap <= P!Longest
    /\ \A n \in 0..MaxAttempts : Backoff * n \in 0..P!Longest
<1>1. Backoff * MaxAttempts \in Nat
  OBVIOUS
<1>2. P!Longest \in Nat /\ Cap <= P!Longest /\ Backoff * MaxAttempts <= P!Longest
  BY <1>1 DEF P!Longest
<1>3. ASSUME NEW n \in 0..MaxAttempts
     PROVE  Backoff * n \in Nat /\ Backoff * n <= Backoff * MaxAttempts
  <2>1. MaxAttempts - n \in Nat /\ n \in Nat
    OBVIOUS
  <2>2. \A a, b \in Nat : a * b \in Nat
    OBVIOUS
  <2>3. Backoff * (MaxAttempts - n) \in Nat /\ Backoff * n \in Nat
    BY <2>1, <2>2
  <2>4. Backoff * MaxAttempts = Backoff * n + Backoff * (MaxAttempts - n)
    BY <2>1
  <2> QED
    BY <2>3, <2>4
<1> QED
  BY <1>1, <1>2, <1>3

LEMMA SoundIsEnough == ASSUME P!ProvidersFits PROVE Sound => P!LookupOK /\ P!MergedIsFirst
<1> SUFFICES ASSUME Sound PROVE P!LookupOK /\ P!MergedIsFirst
  OBVIOUS
<1>1. \A p \in Passes, k \in P!Names : cool[p][k] \in P!Ticks(k)
  BY DEF Sound, PaceOK, P!Ticks
<1>2. \A k \in P!Names : since[k] \in P!Ticks(k)
  BY DEF Sound, PaceOK, P!Ticks
<1>3. \A p \in Passes : reports[p] \in Seq(P!Signals) /\ Len(reports[p]) <= Len(Order)
  <2> SUFFICES ASSUME NEW p \in Passes
               PROVE  reports[p] \in Seq(P!Signals) /\ Len(reports[p]) <= Len(Order)
    OBVIOUS
  <2>1. /\ reports[p] \in Seq(P!Signals) /\ at[p] \in 0..(Len(Order) + 1)
        /\ IF at[p] = 0 THEN reports[p] = <<>> ELSE Len(reports[p]) < at[p]
    BY DEF Sound, AnswerOK, RequestOK
  <2>2. Len(reports[p]) \in Nat /\ Len(<<>>) = 0
    BY <2>1
  <2> QED
    BY <2>1, <2>2, OrderIs
<1>4. P!TypeOK
  BY <1>1, <1>2, <1>3 DEF Sound, RequestOK, PaceOK, TokenOK, AnswerOK, P!TypeOK
<1>5. P!MergedIsFirst
  BY DEF Sound, AnswerOK, Merges, P!MergedIsFirst, Fields
<1> QED
  BY <1>4, <1>5 DEF Sound, PaceOK, TokenOK, P!LookupOK, P!OwnPaceKept, P!RefusedTokenIsDropped

-----------------------------------------------------------------------------
(* What the parts of a step do *)

LEMMA GoesToRequest ==
    ASSUME P!ProvidersFits,
           RequestOK, NEW p \in Passes, NEW i \in 0..(Len(Order) + 1), NEW h, P!GoesTo(p, i, h)
    PROVE  RequestOK'
<1>1. P!FirstCall(p, i, h) \in {"search", "login"}
  BY DEF P!FirstCall
<1>2. 0 \in 0..MaxAttempts /\ 0 \in 0..P!Longest
  BY LongestIs
<1>3. /\ at' \in [Passes -> 0..(Len(Order) + 1)]
      /\ call' \in [Passes -> {"search", "ids", "login"}]
      /\ attempt' \in [Passes -> 0..MaxAttempts] /\ asleep' \in [Passes -> 0..P!Longest]
      /\ found' \in [Passes -> P!Signals \cup {Nothing}]
  BY <1>1, <1>2 DEF RequestOK, P!GoesTo
<1>4. \A q \in Passes : call'[q] = "ids" => found'[q] # Nothing
  BY <1>1 DEF RequestOK, P!GoesTo
<1> QED
  BY <1>3, <1>4 DEF RequestOK

LEMMA AskingIs ==
    ASSUME P!ProvidersFits, RequestOK, NEW p \in Passes, P!Asking(p)
    PROVE  /\ at[p] \in 1..Len(Order) /\ at[p] + 1 \in 0..(Len(Order) + 1)
           /\ P!Provider(p) \in P!Names
BY OrderIs DEF RequestOK, P!Asking, P!Provider

LEMMA SendsPaced ==
    ASSUME P!ProvidersFits, PaceOK, RequestOK, NEW p \in Passes, P!Asking(p), P!Sends(p)
    PROVE  PaceOK' /\ attempt[p] < MaxAttempts
<1> DEFINE k == P!Provider(p)
<1>1. k \in P!Names
  BY AskingIs
<1> HIDE DEF k
<1>2. /\ attempt[p] < MaxAttempts /\ cool[p][k] = 0
      /\ cool' = [cool EXCEPT ![p][k] = Interval[k]]
      /\ hasty' = IF cool[p][k] > 0 THEN hasty \cup {k} ELSE hasty
      /\ crowded' = IF since[k] < Interval[k] THEN crowded \cup {k} ELSE crowded
      /\ since' = [since EXCEPT ![k] = 0]
  BY DEF P!Sends, P!Throttled, k
<1>3. /\ cool' \in [Passes -> [P!Names -> Nat]]
      /\ \A q \in Passes, j \in P!Names : cool'[q][j] <= Interval[j]
  BY <1>1, <1>2 DEF PaceOK
<1>4. /\ since' \in [P!Names -> Nat] /\ \A j \in P!Names : since'[j] <= Interval[j]
  BY <1>1, <1>2 DEF PaceOK
<1> QED
  BY <1>1, <1>2, <1>3, <1>4 DEF PaceOK

LEMMA SilentAnswer ==
    ASSUME P!ProvidersFits,
           RequestOK, AnswerOK, NEW p \in Passes, P!Asking(p), NEW h, P!Silent(p, h)
    PROVE  RequestOK' /\ AnswerOK'
<1>1. at[p] \in 1..Len(Order) /\ at[p] + 1 \in 0..(Len(Order) + 1)
  BY AskingIs
<1>2. P!GoesTo(p, at[p] + 1, h) /\ UNCHANGED <<merged, reports>>
  BY DEF P!Silent
<1>3. RequestOK'
  BY <1>1, <1>2, GoesToRequest
<1>4. at' = [at EXCEPT ![p] = at[p] + 1]
  BY <1>2 DEF P!GoesTo
<1>5. \A q \in Passes : IF at'[q] = 0 THEN reports[q] = <<>> ELSE Len(reports[q]) < at'[q]
  <2> SUFFICES ASSUME NEW q \in Passes
               PROVE  IF at'[q] = 0 THEN reports[q] = <<>> ELSE Len(reports[q]) < at'[q]
    OBVIOUS
  <2>1. Len(reports[q]) \in Nat /\ at[q] \in Nat
    BY DEF AnswerOK, RequestOK
  <2>2. at'[q] = IF q = p THEN at[p] + 1 ELSE at[q]
    BY <1>4 DEF RequestOK
  <2> QED
    BY <1>1, <2>1, <2>2 DEF AnswerOK
<1> QED
  BY <1>2, <1>3, <1>5 DEF AnswerOK

(* A report fills the gaps of what is merged.                                *)
LEMMA FilledGapsMerge ==
    ASSUME P!ProvidersFits,
            NEW r \in Seq(P!Signals), NEW m \in P!Signals \cup {Nothing}, Merges(m, r),
            NEW s \in P!Signals
    PROVE  LET n == IF m = Nothing THEN s ELSE P!FilledGaps(m, s)
           IN n \in P!Signals /\ Merges(n, Append(r, s))
<1> DEFINE n == IF m = Nothing THEN s ELSE P!FilledGaps(m, s)
           x == Append(r, s)
<1>1. x # <<>> /\ x \in Seq(P!Signals)
  OBVIOUS
<1> HIDE DEF x
<1>2. \A f \in Fields : P!FirstOf(x, f) =
        IF P!FirstOf(r, f) = Nothing THEN s[f] ELSE P!FirstOf(r, f)
  BY FirstOfAppended DEF x
<1>3. CASE r = <<>>
  <2>1. m = Nothing /\ n = s
    BY <1>3 DEF Merges
  <2>2. \A f \in Fields : P!FirstOf(x, f) = s[f]
    BY <1>2, <1>3, FirstOfNone
  <2>3. s = [f \in Fields |-> s[f]]
    BY SignalsAre
  <2> QED
    BY <1>1, <2>1, <2>2, <2>3 DEF Merges, x
<1>4. CASE r # <<>>
  <2>1. m = [f \in Fields |-> P!FirstOf(r, f)]
    BY <1>4 DEF Merges
  <2>2. /\ P!FirstOf(r, "anime") \in BOOLEAN \cup {Nothing}
        /\ P!FirstOf(r, "imdb") \in {"tmdb", "tvdb", Nothing}
        /\ P!FirstOf(r, "source") \in P!Names /\ P!FirstOf(r, "source") # Nothing
    BY <1>4, FirstOfType
  <2>3. m \in P!Signals
    BY <2>1, <2>2 DEF P!Signals, Fields
  <2>4. m # Nothing /\ n = P!FilledGaps(m, s)
    BY <2>3
  <2> HIDE DEF n
  <2>5. /\ n = [f \in Fields |-> n[f]] /\ n \in P!Signals
        /\ n.source = m.source
        /\ n.anime = IF m.anime = Nothing THEN s.anime ELSE m.anime
        /\ n.imdb = IF m.imdb = Nothing THEN s.imdb ELSE m.imdb
    BY <2>3, <2>4 DEF P!FilledGaps, P!Signals, Fields
  <2>6. \A f \in Fields : n[f] = P!FirstOf(x, f)
    BY <1>2, <2>1, <2>2, <2>5 DEF Fields
  <2>7. n = [f \in Fields |-> P!FirstOf(x, f)]
    BY <2>5, <2>6
  <2> QED
    BY <1>1, <2>5, <2>7 DEF Merges, n, x
<1> QED
  BY <1>3, <1>4

LEMMA ReportsAnswer ==
    ASSUME P!ProvidersFits,
           RequestOK, AnswerOK, NEW p \in Passes, P!Asking(p), NEW s \in P!Signals, P!Reports(p, s)
    PROVE  RequestOK' /\ AnswerOK'
<1>1. at[p] \in 1..Len(Order) /\ at[p] + 1 \in 0..(Len(Order) + 1)
  BY AskingIs
<1> DEFINE m == IF merged[p] = Nothing THEN s ELSE P!FilledGaps(merged[p], s)
           r == Append(reports[p], s)
<1>2. /\ P!GoesTo(p, at[p] + 1, token[p])
      /\ merged' = [merged EXCEPT ![p] = m] /\ reports' = [reports EXCEPT ![p] = r]
  BY DEF P!Reports
<1>3. RequestOK'
  BY <1>1, <1>2, GoesToRequest
<1>4. at' = [at EXCEPT ![p] = at[p] + 1]
  BY <1>2 DEF P!GoesTo
<1>5. /\ reports[p] \in Seq(P!Signals) /\ merged[p] \in P!Signals \cup {Nothing}
      /\ Merges(merged[p], reports[p]) /\ Len(reports[p]) < at[p]
  BY <1>1 DEF AnswerOK
<1>6. m \in P!Signals /\ Merges(m, r)
  BY <1>5, FilledGapsMerge
<1>7. r \in Seq(P!Signals) /\ Len(r) = Len(reports[p]) + 1 /\ Len(reports[p]) \in Nat
  BY <1>5
<1> HIDE DEF m, r
<1>8. merged' \in [Passes -> P!Signals \cup {Nothing}] /\ reports' \in [Passes -> Seq(P!Signals)]
  BY <1>2, <1>6, <1>7 DEF AnswerOK
<1>9. \A q \in Passes : /\ Merges(merged'[q], reports'[q])
                        /\ IF at'[q] = 0 THEN reports'[q] = <<>> ELSE Len(reports'[q]) < at'[q]
  <2> SUFFICES ASSUME NEW q \in Passes
               PROVE  /\ Merges(merged'[q], reports'[q])
                      /\ IF at'[q] = 0 THEN reports'[q] = <<>> ELSE Len(reports'[q]) < at'[q]
    OBVIOUS
  <2>1. CASE q = p
    <3>1. merged'[q] = m /\ reports'[q] = r /\ at'[q] = at[p] + 1
      BY <1>2, <1>4, <2>1 DEF AnswerOK, RequestOK
    <3> QED
      BY <1>1, <1>5, <1>6, <1>7, <3>1
  <2>2. CASE q # p
    <3>1. merged'[q] = merged[q] /\ reports'[q] = reports[q] /\ at'[q] = at[q]
      BY <1>2, <1>4, <2>2 DEF AnswerOK, RequestOK
    <3> QED
      BY <3>1 DEF AnswerOK
  <2> QED
    BY <2>1, <2>2
<1> QED
  BY <1>3, <1>8, <1>9 DEF AnswerOK

LEMMA GivesNothingAnswer ==
    ASSUME P!ProvidersFits,
           RequestOK, AnswerOK, NEW p \in Passes, P!Asking(p), P!GivesNothing(p)
    PROVE  /\ RequestOK' /\ AnswerOK'
           /\ \E h \in {token[p], token[p] /\ P!Provider(p) # "tvdb", FALSE} :
                 token' = [token EXCEPT ![p] = h]
           /\ call[p] = "search" => token' = [token EXCEPT ![p] = token[p] /\ P!Provider(p) # "tvdb"]
<1>1. CASE call[p] = "ids"
  <2>1. P!Reports(p, found[p]) /\ found[p] \in P!Signals
    BY <1>1 DEF P!GivesNothing, RequestOK
  <2> QED
    BY <1>1, <2>1, ReportsAnswer DEF P!Reports, P!GoesTo
<1>2. CASE call[p] = "search"
  <2>1. P!Silent(p, token[p] /\ P!Provider(p) # "tvdb")
    BY <1>2 DEF P!GivesNothing
  <2> QED
    BY <2>1, SilentAnswer DEF P!Silent, P!GoesTo
<1>3. CASE call[p] = "login"
  <2>1. P!Silent(p, FALSE)
    BY <1>3 DEF P!GivesNothing
  <2> QED
    BY <1>3, <2>1, SilentAnswer DEF P!Silent, P!GoesTo
<1> QED
  BY <1>1, <1>2, <1>3 DEF RequestOK

LEMMA SleepsKeep ==
    ASSUME P!ProvidersFits,
           RequestOK, AnswerOK, NEW p \in Passes, NEW limited, NEW d \in 0..P!Longest,
           P!Sleeps(p, limited, d), attempt[p] < MaxAttempts
    PROVE  RequestOK' /\ AnswerOK' /\ UNCHANGED token
<1>1. /\ attempt' = [attempt EXCEPT ![p] = attempt[p] + 1]
      /\ asleep' = [asleep EXCEPT ![p] = d] /\ UNCHANGED <<at, call, token, P!answer>>
  BY DEF P!Sleeps, P!Counted, P!Nth
<1>2. attempt[p] + 1 \in 0..MaxAttempts
  BY DEF RequestOK
<1>3. RequestOK'
  BY <1>1, <1>2 DEF RequestOK, P!answer
<1> QED
  BY <1>1, <1>3 DEF AnswerOK, P!answer

(* The token where an answer ends the request and TVDB's word does not change *)
LEMMA TokenKept ==
    ASSUME P!ProvidersFits, TokenOK, NEW p \in Passes, NEW h \in BOOLEAN, h => token[p],
           token' = [token EXCEPT ![p] = h], UNCHANGED <<valid, rejected>>
    PROVE  TokenOK'
BY DEF TokenOK

-----------------------------------------------------------------------------
(* The steps *)

LEMMA InitSound == ASSUME P!ProvidersFits PROVE P!Init => Sound
<1> SUFFICES ASSUME P!Init PROVE Sound
  OBVIOUS
<1> USE DEF P!Init
<1>1. RequestOK
  BY LongestIs, OrderIs DEF RequestOK
<1>2. PaceOK
  BY DEF PaceOK
<1>3. TokenOK
  BY DEF TokenOK
<1>4. AnswerOK
  <2>1. <<>> \in Seq(P!Signals)
    OBVIOUS
  <2> QED
    BY <2>1 DEF AnswerOK, Merges
<1> QED
  BY <1>1, <1>2, <1>3, <1>4 DEF Sound

LEMMA TickSound == ASSUME P!ProvidersFits PROVE Sound /\ P!Tick => Sound'
<1> SUFFICES ASSUME Sound, P!Tick PROVE Sound'
  OBVIOUS
<1>1. UNCHANGED <<at, call, attempt, token, valid, P!answer, hasty, crowded, rejected>>
  BY DEF P!Tick
<1>2. /\ asleep' = [p \in Passes |-> P!Elapsed(asleep[p])]
      /\ cool' = [p \in Passes |-> [k \in P!Names |-> P!Elapsed(cool[p][k])]]
      /\ since' = [k \in P!Names |-> IF since[k] = Interval[k] THEN since[k] ELSE since[k] + 1]
  BY DEF P!Tick
<1>3. \A n \in Nat : P!Elapsed(n) \in Nat /\ P!Elapsed(n) <= n
  BY DEF P!Elapsed
<1>4. RequestOK'
  <2>1. \A p \in Passes : P!Elapsed(asleep[p]) \in 0..P!Longest
    BY <1>3, LongestIs DEF Sound, RequestOK
  <2> QED
    BY <1>1, <1>2, <2>1 DEF Sound, RequestOK, P!answer
<1>5. PaceOK'
  <2>1. \A p \in Passes, k \in P!Names :
            P!Elapsed(cool[p][k]) \in Nat /\ P!Elapsed(cool[p][k]) <= Interval[k]
    <3> SUFFICES ASSUME NEW p \in Passes, NEW k \in P!Names
                 PROVE  P!Elapsed(cool[p][k]) \in Nat /\ P!Elapsed(cool[p][k]) <= Interval[k]
      OBVIOUS
    <3>1. cool[p][k] \in Nat /\ cool[p][k] <= Interval[k] /\ Interval[k] \in Nat
      BY DEF Sound, PaceOK
    <3>2. P!Elapsed(cool[p][k]) \in Nat /\ P!Elapsed(cool[p][k]) <= cool[p][k]
      BY <1>3, <3>1
    <3> QED
      BY <3>1, <3>2
  <2>2. /\ cool' \in [Passes -> [P!Names -> Nat]]
        /\ \A p \in Passes, k \in P!Names : cool'[p][k] <= Interval[k]
    BY <1>2, <2>1
  <2>3. since' \in [P!Names -> Nat] /\ \A k \in P!Names : since'[k] <= Interval[k]
    BY <1>2 DEF Sound, PaceOK
  <2> QED
    BY <1>1, <2>2, <2>3 DEF Sound, PaceOK
<1>6. TokenOK'
  BY <1>1 DEF Sound, TokenOK
<1>7. AnswerOK'
  BY <1>1 DEF Sound, AnswerOK, P!answer
<1> QED
  BY <1>4, <1>5, <1>6, <1>7 DEF Sound

LEMMA BeginsSound ==
    ASSUME P!ProvidersFits, Sound, NEW p \in Passes, P!Lookup(p) \/ P!Finish(p)
    PROVE  Sound'
<1> USE DEF Sound
<1>1. PaceOK'
  BY DEF P!Lookup, P!Finish, PaceOK, P!history
<1>2. UNCHANGED token
  BY DEF P!Lookup, P!Finish, P!GoesTo, TokenOK
<1>3. TokenOK'
  BY <1>2 DEF P!Lookup, P!Finish, TokenOK, P!history
<1>4. 0 \in 0..(Len(Order) + 1) /\ 1 \in 0..(Len(Order) + 1) /\ <<>> \in Seq(P!Signals)
  BY OrderIs
<1>5. RequestOK'
  BY <1>4, GoesToRequest DEF P!Lookup, P!Finish
<1>6. CASE P!Lookup(p)
  <2>1. /\ at[p] = 0 /\ at' = [at EXCEPT ![p] = 1] /\ UNCHANGED <<merged, reports>>
    BY <1>6 DEF P!Lookup, P!GoesTo
  <2>2. \A q \in Passes : IF at'[q] = 0 THEN reports[q] = <<>> ELSE Len(reports[q]) < at'[q]
    <3>1. reports[p] = <<>> /\ Len(<<>>) = 0
      BY <2>1 DEF AnswerOK
    <3> QED
      BY <2>1, <3>1 DEF AnswerOK, RequestOK
  <2> QED
    BY <1>1, <1>3, <1>5, <2>1, <2>2 DEF AnswerOK
<1>7. CASE P!Finish(p)
  <2>1. /\ at' = [at EXCEPT ![p] = 0] /\ merged' = [merged EXCEPT ![p] = Nothing]
        /\ reports' = [reports EXCEPT ![p] = <<>>]
    BY <1>7 DEF P!Finish, P!GoesTo
  <2>2. Merges(Nothing, <<>>)
    BY DEF Merges
  <2>3. merged' \in [Passes -> P!Signals \cup {Nothing}] /\ reports' \in [Passes -> Seq(P!Signals)]
    BY <1>4, <2>1 DEF AnswerOK
  <2>4. \A q \in Passes : /\ Merges(merged'[q], reports'[q])
                          /\ IF at'[q] = 0 THEN reports'[q] = <<>> ELSE Len(reports'[q]) < at'[q]
    <3> SUFFICES ASSUME NEW q \in Passes
                 PROVE  /\ Merges(merged'[q], reports'[q])
                        /\ IF at'[q] = 0 THEN reports'[q] = <<>> ELSE Len(reports'[q]) < at'[q]
      OBVIOUS
    <3>1. CASE q = p
      BY <2>1, <2>2, <3>1 DEF AnswerOK, RequestOK
    <3>2. CASE q # p
      BY <2>1, <3>2 DEF AnswerOK, RequestOK
    <3> QED
      BY <3>1, <3>2
  <2> QED
    BY <1>1, <1>3, <1>5, <2>3, <2>4 DEF AnswerOK
<1> QED
  BY <1>6, <1>7

LEMMA TokenOf ==
    ASSUME P!ProvidersFits, TokenOK, NEW p \in Passes, NEW x,
           \E h \in {token[p], token[p] /\ x, FALSE} : token' = [token EXCEPT ![p] = h],
           UNCHANGED <<valid, rejected>>
    PROVE  TokenOK'
<1>1. PICK h \in {token[p], token[p] /\ x, FALSE} : token' = [token EXCEPT ![p] = h]
  OBVIOUS
<1>2. h \in BOOLEAN /\ (h => token[p])
  <2>1. token[p] \in BOOLEAN
    BY DEF TokenOK
  <2> QED
    BY <1>1, <2>1
<1> QED
  BY <1>1, <1>2, TokenKept

(* A request without an answer, at the pace the limiter keeps                *)
LEMMA FailsSound ==
    ASSUME P!ProvidersFits,
           Sound, NEW p \in Passes, P!Error(p) \/ P!Limited(p) \/ P!GiveUp(p)
    PROVE  Sound'
<1> USE DEF Sound
<1>1. CASE P!Error(p)
  <2>1. PaceOK' /\ attempt[p] < MaxAttempts /\ P!Asking(p) /\ UNCHANGED <<valid, rejected>>
    BY <1>1, SendsPaced DEF P!Error
  <2>2. CASE P!Nth(p) = MaxAttempts
    BY <1>1, <2>1, <2>2, GivesNothingAnswer, TokenOf DEF P!Error
  <2>3. CASE P!Nth(p) # MaxAttempts
    <3>1. P!Sleeps(p, FALSE, Backoff * P!Nth(p))
      BY <1>1, <2>3 DEF P!Error
    <3>2. P!Nth(p) \in 0..MaxAttempts
      BY <2>1 DEF P!Nth, RequestOK
    <3>3. Backoff * P!Nth(p) \in 0..P!Longest
      BY <3>2, LongestIs
    <3>4. RequestOK' /\ AnswerOK' /\ UNCHANGED token
      BY <2>1, <3>1, <3>3, SleepsKeep
    <3> QED
      BY <2>1, <3>4 DEF TokenOK
  <2> QED
    BY <2>2, <2>3
<1>2. CASE P!Limited(p)
  <2>1. PaceOK' /\ attempt[p] < MaxAttempts /\ UNCHANGED <<valid, rejected>>
    BY <1>2, SendsPaced DEF P!Limited
  <2>2. PICK d \in P!Delays : P!Sleeps(p, TRUE, d)
    BY <1>2 DEF P!Limited
  <2>3. d \in 0..P!Longest
    <3>1. CASE d = Backoff
      <4>1. 1 \in 0..MaxAttempts /\ Backoff * 1 = Backoff
        OBVIOUS
      <4>2. Backoff * 1 \in 0..P!Longest
        BY <4>1, LongestIs, Zenon
      <4> QED
        BY <3>1, <4>1, <4>2
    <3>2. CASE d # Backoff
      <4>1. PICK r \in RetryAfters : d = IF r > Cap THEN Cap ELSE r
        BY <2>2, <3>2 DEF P!Delays
      <4> QED
        BY <4>1, LongestIs
    <3> QED
      BY <3>1, <3>2
  <2>4. RequestOK' /\ AnswerOK' /\ UNCHANGED token
    BY <2>1, <2>2, <2>3, SleepsKeep
  <2> QED
    BY <2>1, <2>4 DEF TokenOK
<1>3. CASE P!GiveUp(p)
  <2>1. P!Asking(p) /\ P!GivesNothing(p) /\ UNCHANGED <<cool, valid, P!history>>
    BY <1>3 DEF P!GiveUp
  <2>2. PaceOK' /\ UNCHANGED <<valid, rejected>>
    BY <2>1 DEF PaceOK, P!history
  <2> QED
    BY <2>1, <2>2, GivesNothingAnswer, TokenOf
<1> QED
  BY <1>1, <1>2, <1>3

(* TVDB forgets a token with the search that was refused.                    *)
LEMMA RefusedSound ==
    ASSUME P!ProvidersFits, Sound, NEW p \in Passes, P!Refused(p)
    PROVE  Sound'
<1> USE DEF Sound
<1>1. /\ P!Asking(p) /\ P!Sends(p) /\ P!GivesNothing(p) /\ UNCHANGED valid
      /\ rejected' = [rejected EXCEPT ![p] = rejected[p] \/ ~P!Accepted(p)]
  BY DEF P!Refused
<1>2. PaceOK' /\ RequestOK' /\ AnswerOK'
  BY <1>1, SendsPaced, GivesNothingAnswer
<1>3. PICK h \in {token[p], token[p] /\ P!Provider(p) # "tvdb", FALSE} :
           token' = [token EXCEPT ![p] = h]
  BY <1>1, GivesNothingAnswer
<1>4. token[p] \in BOOLEAN /\ rejected[p] \in BOOLEAN /\ (rejected[p] => ~token[p])
  BY DEF TokenOK
<1>5. h \in BOOLEAN /\ (h => token[p])
  BY <1>3, <1>4
<1>6. ~P!Accepted(p) => token' = [token EXCEPT ![p] = FALSE]
  <2> SUFFICES ASSUME ~P!Accepted(p) PROVE token' = [token EXCEPT ![p] = FALSE]
    OBVIOUS
  <2>1. call[p] = "search" /\ P!Provider(p) = "tvdb"
    BY DEF P!Accepted
  <2>2. token' = [token EXCEPT ![p] = token[p] /\ P!Provider(p) # "tvdb"]
    BY <1>1, <2>1, GivesNothingAnswer
  <2>3. (token[p] /\ P!Provider(p) # "tvdb") = FALSE
    BY <2>1
  <2> QED
    BY <2>2, <2>3
<1>7. TokenOK'
  <2>1. (rejected[p] \/ ~P!Accepted(p)) \in BOOLEAN
    BY Zenon
  <2>2. CASE P!Accepted(p)
    <3>1. (rejected[p] \/ ~P!Accepted(p)) = rejected[p]
      BY <1>4, <2>2
    <3>2. UNCHANGED rejected
      BY <1>1, <3>1 DEF TokenOK
    <3> QED
      BY <1>1, <1>3, <1>5, <3>2, TokenKept
  <2>3. CASE ~P!Accepted(p)
    <3>1. (rejected[p] \/ ~P!Accepted(p)) = TRUE
      BY <2>3
    <3> QED
      BY <1>1, <1>6, <2>3, <3>1 DEF TokenOK
  <2> QED
    BY <2>2, <2>3
<1> QED
  BY <1>2, <1>7

LEMMA LoggedInSound ==
    ASSUME P!ProvidersFits, Sound, NEW p \in Passes, P!LoggedIn(p)
    PROVE  Sound'
<1> USE DEF Sound
<1>1. PaceOK'
  BY SendsPaced DEF P!LoggedIn
<1>2. RequestOK' /\ AnswerOK'
  BY DEF P!LoggedIn, RequestOK, AnswerOK, P!answer
<1>3. TokenOK'
  BY DEF P!LoggedIn, TokenOK
<1> QED
  BY <1>1, <1>2, <1>3

(* An answer to a search, or to the question for ids                         *)
LEMMA AnswersSound ==
    ASSUME P!ProvidersFits,
           Sound, NEW p \in Passes, P!NoCandidate(p) \/ P!Candidate(p) \/ P!ExternalIds(p)
    PROVE  Sound'
<1> USE DEF Sound
<1>1. PaceOK' /\ P!Asking(p) /\ UNCHANGED <<valid, rejected>>
  BY SendsPaced DEF P!NoCandidate, P!Candidate, P!ExternalIds
<1>2. token[p] \in BOOLEAN
  BY DEF TokenOK
<1>3. CASE P!NoCandidate(p)
  <2>1. P!Silent(p, token[p])
    BY <1>3 DEF P!NoCandidate
  <2>2. RequestOK' /\ AnswerOK' /\ token' = [token EXCEPT ![p] = token[p]]
    BY <1>1, <2>1, SilentAnswer DEF P!Silent, P!GoesTo
  <2> QED
    BY <1>1, <1>2, <2>2, TokenKept
<1>4. CASE P!Candidate(p)
  <2>1. PICK o \in P!Opinions(P!Provider(p)), withId \in BOOLEAN :
          LET s == [source |-> P!Provider(p), anime |-> o,
                    imdb |-> IF P!Provider(p) = "tvdb" /\ withId THEN "tvdb" ELSE Nothing]
          IN IF P!Provider(p) = "tmdb" /\ withId
             THEN /\ call' = [call EXCEPT ![p] = "ids"] /\ found' = [found EXCEPT ![p] = s]
                  /\ attempt' = [attempt EXCEPT ![p] = 0]
                  /\ UNCHANGED <<at, asleep, token, merged, reports>>
             ELSE P!Reports(p, s)
    BY <1>4 DEF P!Candidate
  <2> DEFINE s == [source |-> P!Provider(p), anime |-> o,
                   imdb |-> IF P!Provider(p) = "tvdb" /\ withId THEN "tvdb" ELSE Nothing]
  <2>2. s \in P!Signals
    BY <1>1, AskingIs DEF P!Signals, P!Opinions
  <2> HIDE DEF s
  <2>3. CASE P!Provider(p) = "tmdb" /\ withId
    <3>1. /\ call' = [call EXCEPT ![p] = "ids"] /\ found' = [found EXCEPT ![p] = s]
          /\ attempt' = [attempt EXCEPT ![p] = 0]
          /\ UNCHANGED <<at, asleep, token, merged, reports>>
      BY <2>1, <2>3 DEF s
    <3>2. RequestOK'
      BY <2>2, <3>1 DEF RequestOK
    <3>3. TokenOK' /\ AnswerOK'
      BY <1>1, <3>1 DEF TokenOK, AnswerOK
    <3> QED
      BY <1>1, <3>2, <3>3
  <2>4. CASE ~(P!Provider(p) = "tmdb" /\ withId)
    <3>1. P!Reports(p, s)
      BY <2>1, <2>4 DEF s
    <3>2. RequestOK' /\ AnswerOK' /\ token' = [token EXCEPT ![p] = token[p]]
      BY <1>1, <2>2, <3>1, ReportsAnswer DEF P!Reports, P!GoesTo
    <3> QED
      BY <1>1, <1>2, <3>2, TokenKept
  <2> QED
    BY <2>3, <2>4
<1>5. CASE P!ExternalIds(p)
  <2> DEFINE s == [found[p] EXCEPT !.imdb = "tmdb"]
  <2>1. P!Reports(p, s) /\ found[p] \in P!Signals
    BY <1>5 DEF P!ExternalIds, RequestOK
  <2>2. s \in P!Signals
    BY <2>1 DEF P!Signals
  <2> HIDE DEF s
  <2>3. RequestOK' /\ AnswerOK' /\ token' = [token EXCEPT ![p] = token[p]]
    BY <1>1, <2>1, <2>2, ReportsAnswer DEF P!Reports, P!GoesTo
  <2> QED
    BY <1>1, <1>2, <2>3, TokenKept
<1> QED
  BY <1>3, <1>4, <1>5

LEMMA NextSound == ASSUME P!ProvidersFits PROVE Sound /\ [P!Next]_(P!vars) => Sound'
<1> SUFFICES ASSUME Sound, [P!Next]_(P!vars) PROVE Sound'
  OBVIOUS
<1>1. ASSUME NEW p \in Passes, P!ExpireToken(p) PROVE Sound'
  BY <1>1
  DEF P!ExpireToken, Sound, RequestOK, PaceOK, TokenOK, AnswerOK, P!request, P!answer, P!history
<1>2. ASSUME UNCHANGED P!vars PROVE Sound'
  BY <1>2
  DEF Sound, RequestOK, PaceOK, TokenOK, AnswerOK, P!vars, P!request, P!answer, P!history
<1> QED
  BY <1>1, <1>2, TickSound, BeginsSound, FailsSound, RefusedSound, LoggedInSound, AnswersSound
  DEF P!Next, P!Step

LEMMA AlwaysSound == ASSUME P!ProvidersFits PROVE P!Spec => []Sound
BY InitSound, NextSound, PTL DEF P!Spec

(* Whatever the providers answer and however often a request is retried, a   *)
(* pass keeps each provider's interval, a refused token is dropped, and what *)
(* is known of a lookup has its type (http.py:34-104, tvdb.py:59-96).        *)
THEOREM LookupsKeepOrder == ASSUME P!ProvidersFits PROVE P!Spec => []P!LookupOK
BY AlwaysSound, SoundIsEnough, PTL

(* The merged answer is the first opinion and the first id there is, for any *)
(* providers in any order (providers/__init__.py:82-126).                    *)
THEOREM FirstOpinionStands == ASSUME P!ProvidersFits PROVE P!Spec => []P!MergedIsFirst
BY AlwaysSound, SoundIsEnough, PTL

-----------------------------------------------------------------------------
(* Titles: the types of what is read *)

USE DEF M!MatcherFits

Said == [title : M!Titles \cup {Nothing}, year : Years, guid : BOOLEAN,
         id : Ids \cup {Nothing}, episodes : BOOLEAN]
Name4 == [title : M!Titles \cup {Nothing}, year : Years, kind : {"movie", "show", "unknown"},
          season : Years]
Item == [title : M!Titles, year : Years, kind : {"movie", "show"},
         status : {"matched", "unresolved", "unmatched"}, id : Ids \cup {Nothing}]
Matched == [title : M!Titles, year : Years, kind : {"movie", "show"}, season : Years,
            status : {"matched", "unresolved", "unmatched"}, id : Ids \cup {Nothing}]

(* What the walk has cached is so, unless a .plexmatch was edited meanwhile  *)
CacheTells ==
    seen => \A d \in Places : /\ cache[d] = "found" => M!There(d)
                              /\ cache[d] = "absent" => ~M!There(d)

Filed ==
    /\ M!TypeOK /\ filed = [f \in Files |-> filed[f]]
    /\ M!TitlesAreUnique /\ CacheTells

-----------------------------------------------------------------------------
(* The match *)

LEMMA MaxIs ==
    ASSUME NEW S \in SUBSET Nat, S # {}, NEW n \in Nat, \A i \in S : i <= n
    PROVE  M!Max(S) \in S /\ \A i \in S : M!Max(S) >= i
<1> DEFINE T == {n - i : i \in S}
<1>1. T \in SUBSET Nat /\ T # {}
  <2>1. \A i \in S : n - i \in Nat
    OBVIOUS
  <2>2. PICK i \in S : TRUE
    OBVIOUS
  <2> QED
    BY <2>1, <2>2
<1>2. M!Min(T) \in T /\ \A j \in T : M!Min(T) <= j
  <2> HIDE DEF T
  <2> QED
    BY <1>1, MinIs
<1>3. PICK m \in S : M!Min(T) = n - m
  BY <1>2
<1>4. \A i \in S : m >= i
  <2> SUFFICES ASSUME NEW i \in S PROVE m >= i
    OBVIOUS
  <2>1. n - i \in T
    OBVIOUS
  <2> HIDE DEF T
  <2>2. n - m <= n - i
    BY <1>2, <1>3, <2>1
  <2> QED
    BY <2>2
<1> QED
  BY <1>4 DEF M!Max

LEMMA NearestIs ==
    ASSUME M!MatcherFits,
           NEW f \in Files, NEW D \in SUBSET M!Above(f)
    PROVE  M!Nearest(D) \in D \cup {Nothing}
<1>1. D \in SUBSET Nat /\ \A d \in D : d <= Folder[f]
  BY DEF M!Above
<1>2. CASE D # {}
  BY <1>1, <1>2, MaxIs DEF M!Nearest
<1> QED
  BY <1>2 DEF M!Nearest

LEMMA PlaceFound ==
    ASSUME M!MatcherFits,
           NEW f \in Files
    PROVE  M!Found(f) \in Places \cup {Nothing} /\ M!FindNearest(f) \in Places \cup {Nothing}
<1> DEFINE D == {d \in M!Walked(f) : cache[d] = "found" \/ (cache[d] = "unseen" /\ M!There(d))}
           E == {d \in M!Above(f) : d >= Root /\ M!There(d)}
<1>1. D \in SUBSET M!Above(f) /\ E \in SUBSET M!Above(f)
  BY DEF M!Walked
<1>2. M!Found(f) = M!Nearest(D) /\ M!FindNearest(f) = M!Nearest(E)
  BY DEF M!Found, M!FindNearest
<1>3. M!Above(f) \subseteq Places
  BY DEF M!Above
<1> HIDE DEF D, E
<1> QED
  BY <1>1, <1>2, <1>3, NearestIs

LEMMA ReadIs ==
    ASSUME M!MatcherFits,
           M!TypeOK, NEW d \in Places \cup {Nothing}
    PROVE  M!Read(d) \in Said
<1>1. M!Blank \in Said
  BY DEF M!Blank, Said, Years
<1>2. CASE M!Read(d) = plexmatch[d] /\ d \in Places /\ M!There(d)
  BY <1>2 DEF M!TypeOK, M!There, Said, Years
<1> QED
  BY <1>1, <1>2 DEF M!Read

LEMMA NameIs ==
    ASSUME M!MatcherFits,
           NEW f \in Files
    PROVE  M!Name(f) \in Name4
<1>1. Parsed[f] \in M!Range(Parsed) /\ ParsedFolder[f] \in M!Range(ParsedFolder)
  BY DEF M!Range
<1> QED
  BY <1>1 DEF M!Name, Name4, Years

LEMMA OrIs ==
    ASSUME M!MatcherFits,
           NEW S, NEW a \in S \cup {Nothing}, NEW b \in S \cup {Nothing}
    PROVE  M!Or(a, b) \in S \cup {Nothing} /\ (b \in S => M!Or(a, b) \in S)
           /\ (a # Nothing => M!Or(a, b) = a)
BY DEF M!Or

LEMMA MatchIs ==
    ASSUME M!MatcherFits,
           NEW f \in Files, NEW c \in Said
    PROVE  M!Match(f, c) \in Matched
<1> DEFINE p == M!Name(f)
<1>1. p \in Name4
  BY NameIs
<1>2. M!Kind(c, p, LibraryKind) \in {"movie", "show"}
  BY <1>1 DEF M!Kind, M!LibrarySays, Name4
<1>3. LibraryName \in M!Titles
  BY DEF M!Titles
<1>4. p.title \in M!Titles \cup {Nothing} /\ p.year \in Years /\ p.season \in Years
  BY <1>1 DEF Name4
<1>5. c.title \in M!Titles \cup {Nothing} /\ c.year \in Years /\ c.id \in Ids \cup {Nothing}
  BY DEF Said
<1> HIDE DEF p
<1>6. /\ M!Or(M!Or(c.title, p.title), LibraryName) \in M!Titles
      /\ M!Or(p.title, LibraryName) \in M!Titles
  BY <1>3, <1>4, <1>5 DEF M!Or
<1>7. M!Or(c.year, p.year) \in Years
  BY <1>4, <1>5 DEF M!Or
<1>8. M!Match(f, c) =
        IF M!IsIdentifying(c)
        THEN [title |-> M!Or(M!Or(c.title, p.title), LibraryName), year |-> M!Or(c.year, p.year),
              kind |-> M!Kind(c, p, LibraryKind),
              season |-> IF c.episodes THEN Nothing ELSE p.season,
              status |-> "matched", id |-> c.id]
        ELSE [title |-> M!Or(p.title, LibraryName), year |-> p.year,
              kind |-> M!Kind(c, p, LibraryKind), season |-> p.season,
              status |-> IF p.title # Nothing THEN "unresolved" ELSE "unmatched",
              id |-> Nothing]
  BY DEF M!Match, p
<1>9. Nothing \in Years /\ Nothing \in Ids \cup {Nothing}
  BY DEF Years
<1> QED
  BY <1>2, <1>4, <1>5, <1>6, <1>7, <1>8, <1>9 DEF Matched

(* A match is filed under a title of that name if there is one.              *)
LEMMA ItemOfIs ==
    ASSUME M!MatcherFits,
           items \in Seq(Item), NEW m
    PROVE  IF \E i \in DOMAIN items : items[i].title = m.title
           THEN /\ M!ItemOf(m) \in DOMAIN items
                /\ items[M!ItemOf(m)].title = m.title
                /\ M!ItemOf(m) # Nothing
           ELSE M!ItemOf(m) = Nothing
<1> DEFINE named == {i \in DOMAIN items : items[i].title = m.title}
           exact == {i \in named : items[i].year = m.year}
           pick == IF exact # {} THEN exact ELSE named
<1>1. named \subseteq DOMAIN items /\ exact \subseteq named /\ DOMAIN items \subseteq Nat
  OBVIOUS
<1>2. M!ItemOf(m) = IF named = {} THEN Nothing ELSE M!Min(pick)
  BY DEF M!ItemOf
<1>3. \A i \in named : i \in DOMAIN items /\ items[i].title = m.title
  OBVIOUS
<1>4. named = {} <=> ~\E i \in DOMAIN items : items[i].title = m.title
  OBVIOUS
<1>5. named # {} => pick # {} /\ pick \subseteq named
  BY <1>1
<1> HIDE DEF named, exact, pick
<1>6. named # {} => M!Min(pick) \in named /\ M!Min(pick) # Nothing
  BY <1>1, <1>5, MinIs
<1> QED
  BY <1>2, <1>3, <1>4, <1>6

(* An update keeps what IdentityIsKept asks for.                             *)
LEMMA UpdatedIs ==
    ASSUME M!MatcherFits,
           NEW x \in Item, NEW m \in Matched
    PROVE  /\ M!Updated(x, m) \in Item /\ M!Updated(x, m).title = x.title
           /\ x.id # Nothing => M!Updated(x, m).id = x.id
           /\ x.status = "matched" => M!Updated(x, m).status = "matched"
<1>1. M!Or(x.year, m.year) \in Years /\ M!Or(x.id, m.id) \in Ids \cup {Nothing}
  BY DEF Item, Matched, M!Or
<1>2. x.id # Nothing => M!Or(x.id, m.id) = x.id
  BY DEF M!Or
<1> QED
  BY <1>1, <1>2 DEF M!Updated, Item, Matched

(* Processing a file keeps titles apart, ids and matches where they are.     *)
StaysFiled ==
    /\ items' \in Seq(Item) /\ M!TitlesAreUnique'
    /\ filed' = [g \in Files |-> filed'[g]]
    /\ \A g \in Files : filed'[g] # Nothing => filed'[g].item \in DOMAIN items'
    /\ \A i \in DOMAIN items :
          /\ i \in DOMAIN items'
          /\ items[i].id # Nothing => items'[i].id = items[i].id
          /\ items[i].status = "matched" => items'[i].status = "matched"

LEMMA ProcessFiles ==
    ASSUME M!MatcherFits,
           Filed, NEW f \in Files, NEW d \in Places \cup {Nothing}, M!Process(f, d)
    PROVE  StaysFiled
<1> DEFINE m == M!Match(f, M!Read(d))
           i == IF M!ItemOf(m) = Nothing THEN Len(items) + 1 ELSE M!ItemOf(m)
           place == [item |-> i, season |-> IF m.kind = "show" THEN m.season ELSE Nothing]
<1>1. items \in Seq(Item) /\ M!TypeOK /\ filed = [g \in Files |-> filed[g]] /\ M!TitlesAreUnique
  BY DEF Filed, M!TypeOK, Item, Years
<1>2. \A g \in Files : filed[g] # Nothing => filed[g].item \in DOMAIN items
  BY <1>1 DEF M!TypeOK
<1>3. m \in Matched
  BY <1>1, ReadIs, MatchIs
<1>4. /\ DOMAIN items = 1..Len(items) /\ Len(items) \in Nat
      /\ \A j \in DOMAIN items : items[j] \in Item
  BY <1>1
<1>5. \/ UNCHANGED <<items, filed>>
      \/ /\ items' = IF i > Len(items) THEN Append(items, M!New(m))
                     ELSE [items EXCEPT ![i] = M!Updated(items[i], m)]
         /\ filed' = [filed EXCEPT ![f] = place]
  BY DEF M!Process
<1>6. place.item = i
  OBVIOUS
<1> HIDE DEF m, place
<1>7. CASE UNCHANGED <<items, filed>>
  BY <1>1, <1>2, <1>4, <1>7 DEF StaysFiled, M!TitlesAreUnique
<1>8. ASSUME items' \in Seq(Item), DOMAIN items \subseteq DOMAIN items', i \in DOMAIN items',
             filed' = [filed EXCEPT ![f] = place]
      PROVE  /\ filed' = [g \in Files |-> filed'[g]]
             /\ \A g \in Files : filed'[g] # Nothing => filed'[g].item \in DOMAIN items'
  BY <1>1, <1>2, <1>6, <1>8
<1>9. ASSUME M!ItemOf(m) = Nothing,
             items' = IF i > Len(items) THEN Append(items, M!New(m))
                      ELSE [items EXCEPT ![i] = M!Updated(items[i], m)],
             filed' = [filed EXCEPT ![f] = place]
      PROVE  StaysFiled
  <2>0. i = Len(items) + 1
    BY <1>9
  <2> HIDE DEF i
  <2>1. i = Len(items) + 1 /\ items' = Append(items, M!New(m))
    <3>1. i > Len(items)
      BY <1>4, <2>0
    <3> QED
      BY <1>9, <2>0, <3>1, Zenon
  <2>2. M!New(m) \in Item /\ M!New(m).title = m.title
    BY <1>3 DEF M!New, Item, Matched
  <2>3. /\ items' \in Seq(Item) /\ DOMAIN items' = 1..i
        /\ \A j \in DOMAIN items : items'[j] = items[j]
        /\ items'[i] = M!New(m)
    BY <1>1, <2>1, <2>2
  <2>4. \A j \in DOMAIN items : items[j].title # m.title
    BY <1>1, <1>9, ItemOfIs
  <2>5. M!TitlesAreUnique'
    <3> SUFFICES ASSUME NEW j \in DOMAIN items', NEW k \in DOMAIN items',
                        items'[j].title = items'[k].title
                 PROVE  j = k
      BY DEF M!TitlesAreUnique
    <3>1. (j \in DOMAIN items \/ j = i) /\ (k \in DOMAIN items \/ k = i)
      BY <1>4, <2>1, <2>3
    <3> QED
      BY <1>1, <2>2, <2>3, <2>4, <3>1 DEF M!TitlesAreUnique
  <2>6. DOMAIN items \subseteq DOMAIN items' /\ i \in DOMAIN items'
    BY <1>4, <2>1, <2>3
  <2> QED
    BY <1>8, <1>9, <2>3, <2>5, <2>6 DEF StaysFiled
<1>10. ASSUME M!ItemOf(m) # Nothing,
              items' = IF i > Len(items) THEN Append(items, M!New(m))
                       ELSE [items EXCEPT ![i] = M!Updated(items[i], m)],
              filed' = [filed EXCEPT ![f] = place]
       PROVE  StaysFiled
  <2>1. i \in DOMAIN items
    BY <1>1, <1>10, ItemOfIs
  <2> HIDE DEF i
  <2>2. items' = [items EXCEPT ![i] = M!Updated(items[i], m)]
    <3>1. ~(i > Len(items))
      BY <1>4, <2>1
    <3> QED
      BY <1>10, <3>1, Zenon
  <2> DEFINE u == M!Updated(items[i], m)
  <2>3. /\ u \in Item /\ u.title = items[i].title
        /\ items[i].id # Nothing => u.id = items[i].id
        /\ items[i].status = "matched" => u.status = "matched"
    BY <1>3, <1>4, <2>1, UpdatedIs
  <2> HIDE DEF u
  <2>4. /\ items' \in Seq(Item) /\ DOMAIN items' = DOMAIN items
        /\ \A j \in DOMAIN items : items'[j] = IF j = i THEN u ELSE items[j]
    BY <1>1, <2>1, <2>2, <2>3 DEF u
  <2>5. \A j \in DOMAIN items : items'[j].title = items[j].title
    BY <2>3, <2>4
  <2>6. M!TitlesAreUnique'
    BY <1>1, <2>4, <2>5 DEF M!TitlesAreUnique
  <2> QED
    BY <1>8, <1>10, <2>1, <2>3, <2>4, <2>6 DEF StaysFiled
<1> QED
  BY <1>5, <1>7, <1>9, <1>10

(* The walk's cache: what it adds of a file's folders is what is there       *)
LEMMA CachedTells ==
    ASSUME M!MatcherFits,
           M!TypeOK, CacheTells, NEW f \in Files
    PROVE  /\ M!Cached(f) \in [Places -> {"found", "absent", "unseen"}]
           /\ seen => \A d \in Places : /\ M!Cached(f)[d] = "found" => M!There(d)
                                        /\ M!Cached(f)[d] = "absent" => ~M!There(d)
BY DEF M!TypeOK, CacheTells, M!Cached

(* Of what the walk comes upon, that in the library comes first, and is what *)
(* a rescan comes upon; what else there is lies above the root's parent.     *)
LEMMA RescansLikeScans ==
    ASSUME M!MatcherFits,
           M!TypeOK, CacheTells
    PROVE  M!RescanLikeScan
<1> SUFFICES ASSUME seen, NEW f \in Files
             PROVE  \/ M!FindNearest(f) = M!Found(f)
                    \/ /\ M!FindNearest(f) = Nothing /\ M!Found(f) # Nothing
                       /\ M!Found(f) + 1 < Root
  BY DEF M!RescanLikeScan
<1> DEFINE D == {d \in M!Walked(f) : cache[d] = "found" \/ (cache[d] = "unseen" /\ M!There(d))}
           E == {d \in M!Above(f) : d >= Root /\ M!There(d)}
<1>1. /\ M!Above(f) \subseteq Places /\ M!Above(f) \in SUBSET Nat
      /\ \A d \in M!Above(f) : d <= Folder[f]
      /\ Folder[f] \in Nat /\ Root \in Nat
  BY DEF M!Above
<1>2. \A d \in M!Above(f) : d \in M!Walked(f) <=> d # Root - 1
  BY DEF M!Walked
<1>3. \A d \in Places :
        M!There(d) <=> cache[d] = "found" \/ (cache[d] = "unseen" /\ M!There(d))
  BY DEF CacheTells, M!TypeOK
<1>4. M!Walked(f) \subseteq M!Above(f)
  BY DEF M!Walked
<1>5. \A d \in M!Above(f) : d \in D <=> d # Root - 1 /\ M!There(d)
  BY <1>1, <1>2, <1>3, <1>4
<1>6. \A d \in M!Above(f) : d \in E <=> d \in D /\ d >= Root
  BY <1>1, <1>5
<1>7. M!Found(f) = M!Nearest(D) /\ M!FindNearest(f) = M!Nearest(E)
  BY DEF M!Found, M!FindNearest
<1>8. D \in SUBSET M!Above(f) /\ E \in SUBSET M!Above(f) /\ Root - 1 \notin D
  BY <1>2, <1>4
<1> HIDE DEF D, E
<1>9. CASE D = {}
  <2>1. E = {}
    BY <1>6, <1>8, <1>9
  <2> QED
    BY <1>7, <1>9, <2>1
<1>10. CASE D # {}
  <2>1. M!Max(D) \in D /\ \A i \in D : M!Max(D) >= i
    BY <1>1, <1>8, <1>10, MaxIs
  <2>2. M!Found(f) = M!Max(D) /\ M!Max(D) \in Nat
    BY <1>1, <1>7, <1>8, <1>10, <2>1 DEF M!Nearest
  <2>3. CASE E = {}
    <3>1. ~(M!Max(D) >= Root) /\ M!Max(D) # Root - 1
      BY <1>6, <1>8, <2>1, <2>3
    <3>2. M!Max(D) + 1 < Root
      BY <1>1, <2>2, <3>1
    <3>3. M!FindNearest(f) = Nothing
      BY <1>7, <2>3 DEF M!Nearest
    <3> QED
      BY <2>2, <3>2, <3>3
  <2>4. CASE E # {}
    <3>1. M!Max(E) \in E /\ \A i \in E : M!Max(E) >= i
      BY <1>1, <1>8, <2>4, MaxIs
    <3>2. M!Max(E) \in D /\ M!Max(E) >= Root /\ M!Max(E) \in Nat
      BY <1>1, <1>6, <1>8, <3>1
    <3>3. M!Max(D) >= Root
      BY <1>1, <2>1, <2>2, <3>2
    <3>4. M!Max(D) \in E
      BY <1>6, <1>8, <2>1, <3>3
    <3>5. M!Max(D) = M!Max(E)
      BY <2>1, <2>2, <3>1, <3>2, <3>4
    <3>6. M!FindNearest(f) = M!Max(E)
      BY <1>7, <2>4 DEF M!Nearest
    <3> QED
      BY <2>2, <3>5, <3>6
  <2> QED
    BY <2>3, <2>4
<1> QED
  BY <1>9, <1>10

LEMMA NamesDecide ==
    ASSUME M!MatcherFits
    PROVE  M!NameBeforeFolder
BY DEF M!NameBeforeFolder, M!Kind

LEMMA TypeIs ==
    ASSUME M!MatcherFits
    PROVE  M!TypeOK <=> /\ plexmatch \in [Places -> Contents \cup {Nothing}]
                        /\ cache \in [Places -> {"found", "absent", "unseen"}]
                        /\ todo \subseteq Files /\ items \in Seq(Item)
                        /\ \A f \in Files : filed[f] # Nothing => filed[f].item \in DOMAIN items
                        /\ seen \in BOOLEAN
BY DEF M!TypeOK, Item, Years

LEMMA InitFiled ==
    ASSUME M!MatcherFits
    PROVE  M!Init => Filed
<1> SUFFICES ASSUME M!Init PROVE Filed
  OBVIOUS
<1>1. M!TypeOK
  <2>1. <<>> \in Seq(Item)
    OBVIOUS
  <2>2. /\ plexmatch \in [Places -> Contents \cup {Nothing}]
        /\ cache = [d \in Places |-> "unseen"] /\ todo = {} /\ items = <<>>
        /\ filed = [f \in Files |-> Nothing] /\ seen = FALSE
    BY DEF M!Init
  <2> QED
    BY <2>1, <2>2, TypeIs
<1>2. filed = [f \in Files |-> filed[f]]
  BY DEF M!Init
<1>3. M!TitlesAreUnique /\ CacheTells
  BY DEF M!Init, M!TitlesAreUnique, CacheTells
<1> QED
  BY <1>1, <1>2, <1>3 DEF Filed

(* What a step does to titles is what IdentityIsKept allows                  *)
Keeps ==
    \A i \in DOMAIN items :
        /\ \/ items[i].id = Nothing \/ items'[i].id = items[i].id
           \/ \E id \in Ids : M!Identify(i, id)
        /\ items[i].status = "matched" => items'[i].status = "matched"

LEMMA StepFiled ==
    ASSUME M!MatcherFits,
           Filed, [M!Next]_(M!vars)
    PROVE  Filed' /\ Keeps
<1>1. M!TypeOK /\ CacheTells /\ items \in Seq(Item) /\ filed = [f \in Files |-> filed[f]]
      /\ M!TitlesAreUnique
  BY TypeIs DEF Filed
<1>2. CASE M!StartScan
  BY <1>1, <1>2 DEF M!StartScan, Filed, M!TypeOK, M!TitlesAreUnique, CacheTells, Keeps
<1>3. ASSUME NEW f \in Files, M!ScanFile(f)
      PROVE  Filed' /\ Keeps
  <2>1. StaysFiled
    BY <1>3, PlaceFound, ProcessFiles DEF M!ScanFile
  <2>2. /\ plexmatch' = plexmatch /\ seen' = seen /\ todo' \subseteq Files
        /\ cache' = M!Cached(f)
    BY <1>1, <1>3 DEF M!ScanFile, M!TypeOK
  <2>3. CacheTells'
    <3> SUFFICES ASSUME seen', NEW d \in Places
                 PROVE  /\ cache'[d] = "found" => M!There(d)'
                        /\ cache'[d] = "absent" => ~M!There(d)'
      BY DEF CacheTells
    <3>1. M!There(d)' = M!There(d) /\ seen /\ cache'[d] = M!Cached(f)[d]
      BY <2>2 DEF M!There
    <3>2. (M!Cached(f)[d] = "found" => M!There(d)) /\ (M!Cached(f)[d] = "absent" => ~M!There(d))
      BY <1>1, <3>1, CachedTells
    <3> QED
      BY <3>1, <3>2
  <2>4. M!TypeOK'
    BY <1>1, <2>1, <2>2, CachedTells, TypeIs DEF StaysFiled, M!TypeOK, Item, Years
  <2>5. Filed'
    BY <2>1, <2>3, <2>4 DEF Filed, StaysFiled
  <2> QED
    BY <2>1, <2>5 DEF StaysFiled, Keeps
<1>4. ASSUME NEW f \in Files, M!Rescan(f)
      PROVE  Filed' /\ Keeps
  <2>1. StaysFiled
    BY <1>4, PlaceFound, ProcessFiles DEF M!Rescan
  <2>2. UNCHANGED <<plexmatch, cache, todo, seen>>
    BY <1>4 DEF M!Rescan
  <2>3. CacheTells'
    BY <1>1, <2>2 DEF CacheTells, M!There
  <2>4. M!TypeOK'
    BY <1>1, <2>1, <2>2 DEF StaysFiled, M!TypeOK, Item, Years
  <2>5. Filed'
    BY <2>1, <2>3, <2>4 DEF Filed, StaysFiled
  <2> QED
    BY <2>1, <2>5 DEF StaysFiled, Keeps
<1>5. ASSUME NEW i \in DOMAIN items, NEW id \in Ids, M!Identify(i, id)
      PROVE  Filed' /\ Keeps
  <2> DEFINE x == [items[i] EXCEPT !.id = id, !.status = "matched"]
  <2>1. items' = [items EXCEPT ![i] = x] /\ UNCHANGED <<plexmatch, cache, todo, filed, seen>>
    BY <1>1, <1>5 DEF M!Identify
  <2>2. items[i] \in Item
    BY <1>1
  <2>3. x \in Item /\ x.title = items[i].title /\ x.status = "matched"
    BY <2>2 DEF Item
  <2> HIDE DEF x
  <2>4. /\ items' \in Seq(Item) /\ DOMAIN items' = DOMAIN items
        /\ \A j \in DOMAIN items : items'[j] = IF j = i THEN x ELSE items[j]
    BY <1>1, <2>1, <2>3
  <2>5. M!TitlesAreUnique'
    BY <1>1, <2>3, <2>4 DEF M!TitlesAreUnique
  <2>6. M!TypeOK' /\ CacheTells'
    BY <1>1, <2>1, <2>4 DEF M!TypeOK, CacheTells, M!There, Item, Years
  <2>7. Filed'
    BY <1>1, <2>1, <2>5, <2>6 DEF Filed
  <2>8. Keeps
    BY <1>5, <2>3, <2>4 DEF Keeps
  <2> QED
    BY <2>7, <2>8
<1>6. ASSUME NEW d \in Places, NEW c \in Contents \cup {Nothing}, M!Edit(d, c)
      PROVE  Filed' /\ Keeps
  BY <1>1, <1>6 DEF M!Edit, Filed, M!TypeOK, M!TitlesAreUnique, CacheTells, Keeps
<1>7. CASE UNCHANGED M!vars
  BY <1>1, <1>7 DEF M!vars, Filed, M!TypeOK, M!TitlesAreUnique, CacheTells, M!There, Keeps
<1> QED
  BY <1>2, <1>3, <1>4, <1>5, <1>6, <1>7 DEF M!Next

LEMMA AlwaysFiled ==
    ASSUME M!MatcherFits
    PROVE  M!Spec => []Filed
<1>1. Filed /\ [M!Next]_(M!vars) => Filed'
  BY StepFiled
<1> QED
  BY <1>1, InitFiled, PTL DEF M!Spec

(* Whatever the files are named, whoever comes first and whatever the        *)
(* .plexmatch files say: a title is one row, and what a row holds has its    *)
(* type (service.py:90-129).                                                 *)
THEOREM TitlesStayOne ==
    ASSUME M!MatcherFits
    PROVE  M!Spec => [](M!TypeOK /\ M!TitlesAreUnique /\ M!NameBeforeFolder)
<1>1. Filed => M!TypeOK /\ M!TitlesAreUnique /\ M!NameBeforeFolder
  BY NamesDecide DEF Filed
<1> QED
  BY <1>1, AlwaysFiled, PTL

(* And a rescan finds what the walk finds with what it has cached, but for   *)
(* what lies above the parent of the library's root, which only the walk     *)
(* looks for (walker.py:46-92).                                              *)
THEOREM TitlesStand ==
    ASSUME M!MatcherFits
    PROVE  M!Spec => []M!TitlesOK
<1>1. Filed => M!TitlesOK
  BY RescansLikeScans, NamesDecide DEF Filed, M!TitlesOK
<1> QED
  BY <1>1, AlwaysFiled, PTL

(* No scan takes a title's id or its match away (service.py:115-128).        *)
THEOREM IdentitiesStand ==
    ASSUME M!MatcherFits
    PROVE  M!Spec => M!IdentityIsKept
<1>1. Filed /\ [M!Next]_(M!vars) => [Keeps]_(M!vars)
  BY StepFiled
<1> QED
  BY <1>1, AlwaysFiled, PTL DEF M!Spec, M!IdentityIsKept, Keeps
=============================================================================
