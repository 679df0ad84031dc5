------------------------------ MODULE MCMatcher ------------------------------
EXTENDS Matcher, TLC

CONSTANTS e1, e2, film, extra

(* Two episodes of one show, one of them with the year; a film in the root   *)
(* of the library; a file whose name says nothing, in the show's folder.     *)
MCFolder == e1 :> 3 @@ e2 :> 3 @@ film :> 2 @@ extra :> 3
Name4(t, y, k, s) == [title |-> t, year |-> y, kind |-> k, season |-> s]
MCParsed ==
    e1 :> Name4("show", Nothing, "show", 1) @@ e2 :> Name4("show", 2010, "show", 1)
    @@ film :> Name4("film", 2014, "movie", Nothing)
    @@ extra :> Name4(Nothing, Nothing, "unknown", Nothing)
MCParsedFolder ==
    film :> Name4(Nothing, Nothing, "unknown", Nothing)
    @@ [f \in {e1, e2, extra} |-> Name4("show", 2010, "unknown", Nothing)]

Says(t, g, i, e) == [title |-> t, year |-> Nothing, guid |-> g, id |-> i, episodes |-> e]
Named == Says("real", FALSE, 7, FALSE)      \* a title and an id
Numbered == Says(Nothing, FALSE, 8, TRUE)   \* an id and episodes
Guid == Says(Nothing, TRUE, Nothing, FALSE)
Usual == {Named, Numbered}
OnlyNamed == {Named}
GuidOrNamed == {Guid, Named}
=============================================================================
