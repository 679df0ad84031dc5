---------------------------- MODULE MCProviders -----------------------------
(* Instances of Providers for TLC. A tick is half a second, as TMDB's and    *)
(* TVDB's limiters space their requests; the cap is far less than in the code *)
EXTENDS Providers

CONSTANTS p1, p2

MCOrder == <<"anilist", "tmdb", "tvdb">>
MCInterval == [anilist |-> 4, tmdb |-> 1, tvdb |-> 1]
=============================================================================
