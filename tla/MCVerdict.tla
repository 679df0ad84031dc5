----------------------------- MODULE MCVerdict ------------------------------
(* Instances of Verdict for TLC. *)
EXTENDS Verdict, TLC

CONSTANTS x, y, tv, anime, sx, g1, h1, t1, t2

(* Only the providers, or an anidb id that a person or a .plexmatch gives,   *)
(* can tell that x is anime; y the providers do not know.                    *)
MCKnown == [z \in Titles |-> IF z = x THEN sx ELSE Nothing]
MCIdOf == sx :> h1
MCClassify ==
    [q \in Titles \X {sx, Nothing} \X {g1, h1, Nothing} |->
        IF q[2] = sx \/ q[3] = g1 THEN anime ELSE tv]

Symmetry == Permutations(Threads)

(* With force an enrichment asks about every title, checked or not: neither  *)
(* that nor who was not heard of decides what else may happen to a title.    *)
Unchecked(f) == [i \in DOMAIN f |-> IF f[i] = Nothing THEN f[i] ELSE [f[i] EXCEPT !.checked = FALSE]]
Whatever ==
    <<Unchecked(rows), kind, todo, heard, [t \in Threads |-> Unchecked(got[t])],
      [t \in Threads |-> Unchecked(put[t])], said, gave, raced, dated>>
=============================================================================
