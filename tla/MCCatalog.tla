----------------------------- MODULE MCCatalog ------------------------------
(* Instances of Catalog for TLC. *)
EXTENDS Catalog, TLC

CONSTANTS p1, p2, s1, s2, t1, t2, a, b, c, sc1, sc2, re1, rm1

(* a and b are two releases, which differ in everything; c is a again after  *)
(* a touch: the same bytes with another mtime                                *)
MCDigest == (a :> "da") @@ (b :> "db") @@ (c :> "da")
MCMtime == (a :> 1) @@ (b :> 2) @@ (c :> 3)
MCFacts == (a :> "fa") @@ (b :> "fb") @@ (c :> "fa")

(* a classifier that tells apart any two sets of facts *)
MCClassify == [S \in SUBSET {"fa", "fb"} |-> S]

OneTitle == (s1 :> t1) @@ (s2 :> t1)
TwoTitles == (s1 :> t1) @@ (s2 :> t2)

(* both files in one season *)
Together == {(p1 :> s1) @@ (p2 :> s1)}
Apart == {(p1 :> s1) @@ (p2 :> s2)}
(* a .plexmatch edit moves p1 from one title to the other *)
Moving == {(p1 :> s1) @@ (p2 :> s2), (p1 :> s2) @@ (p2 :> s2)}
=============================================================================
