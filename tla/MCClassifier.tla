---- MODULE MCClassifier ----
EXTENDS Classifier

T(l, d) == [lang |-> l, default |-> d]

(* a dub beside the original, flags or none, two files that differ           *)
MCDubs == {<<>>, <<T("ja", TRUE)>>, <<T("en", TRUE), T("ja", FALSE)>>,
           <<T("ja", FALSE), T("en", FALSE)>>, <<T("en", FALSE), T("ja", TRUE)>>}
MCFiles == {<<>>} \cup {<<f>> : f \in MCDubs}
              \cup {<<<<T("en", TRUE)>>, f>> : f \in {<<T("ja", TRUE)>>, <<T("en", FALSE)>>}}
(* an untagged track *)
MCUntagged == {<<f, f>> : f \in {<<T(Nothing, TRUE)>>, <<T(Nothing, TRUE), T("ja", FALSE)>>}}

Known(files, years) ==
    [kind : {"movie", "show"}, year : years, anidb : BOOLEAN, files : files,
     subs : BOOLEAN, name : {"fansub", "bracket", "plain"}, flag : BOOLEAN]

Media(y, jp, f) == [year |-> y, japanese |-> jp, film |-> f]
Found(y, jp, an, i) == [year |-> y, japanese |-> jp, animated |-> an, imdb |-> i]
Series(g, i) == [year |-> Nothing, genres |-> g, imdb |-> i]

MCAniList == {<<>>, <<Media(1999, TRUE, FALSE)>>, <<Media(2023, TRUE, TRUE)>>,
              <<Media(1999, TRUE, TRUE), Media(2024, TRUE, FALSE)>>,
              <<Media(2027, FALSE, FALSE), Media(1999, TRUE, FALSE)>>}
MCTmdb == {<<>>, <<Found(2023, FALSE, FALSE, TRUE)>>, <<Found(2023, TRUE, TRUE, FALSE)>>}
MCTvdb == {<<>>, <<Series({}, TRUE)>>, <<Series({"anime"}, FALSE)>>}
(* every evidence, and titles with little else to go by than the providers   *)
MCBareTitles ==
    {t \in Known({<<<<T("en", TRUE)>>>>, <<<<T("en", TRUE)>>, <<>>>>}, {2023, Nothing}) :
        ~t.anidb /\ ~t.flag /\ ~t.subs}
MCTitles == Known(MCFiles, {2023}) \cup MCBareTitles
(* one of the providers, or AniList beside another that knows ids            *)
MCAnswers ==
    {[Silence EXCEPT !.anilist = a] : a \in MCAniList}
    \cup {[Silence EXCEPT !.tmdb = t] : t \in MCTmdb}
    \cup {[Silence EXCEPT !.tvdb = t] : t \in MCTvdb}
    \cup {[Silence EXCEPT !.anilist = a, !.tvdb = <<Series({}, TRUE)>>] : a \in MCAniList}

MCUntaggedTitles == {t \in Known(MCUntagged, {2023}) : ~t.anidb /\ ~t.flag /\ ~t.subs}
====
