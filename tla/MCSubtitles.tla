---------------------------- MODULE MCSubtitles ----------------------------
EXTENDS Subtitles, TLC

CONSTANTS e1, e2

(* Two episodes, the name of the second of which begins like the first's:    *)
(* the sidecar of the second is taken for one of the first as well.          *)
MCStem == e1 :> <<"show">> @@ e2 :> <<"show", "2">>
MCLanguage ==
    "en" :> "en" @@ "eng" :> "en" @@ "pt-BR" :> "pt" @@ "hi" :> "hi"
    @@ "show" :> Nothing @@ "forced" :> Nothing @@ "2" :> Nothing
MCSidecars == {<<"show", "2", "en", "forced">>}
Regional == {<<"show", "pt-BR">>, <<"show">>}

Audio(raw) == [kind |-> "audio", raw |-> raw, flags |-> {"default"}]
Sub(raw) == [kind |-> "subtitle", raw |-> raw, flags |-> {}]
Is(d, m, t) == [digest |-> d, mtime |-> m, size |-> d, tracks |-> t]
(* A file; one that no fingerprint tells from it; one tagged afresh where    *)
(* the digest does not look, so that only its mtime differs                  *)
MCContents ==
    {Is(1, 1, <<Audio("eng")>>), Is(1, 1, <<Audio("pt-BR")>>),
     Is(1, 2, <<Audio("eng"), Sub("hi")>>)}
OneContent == {Is(1, 1, <<Audio("eng")>>)}

(* No step and no property but TracksAreTold depends on what was told.       *)
Untold == <<file, disk, row, todo, hand, history>>
=============================================================================
