---------------------------- MODULE MCLibraries -----------------------------
(* Instances of Libraries for TLC. *)
EXTENDS Libraries, TLC

CONSTANTS n1, n2, d1, d2, r1, r2, s1, s2

Symmetry ==
    Permutations(Names) \cup Permutations(Dirs) \cup Permutations(Requests)
        \cup Permutations(Scanners)

(* bound: two requests at once, or one beside a scan, and one of them alone   *)
(* once something was upset; one directory is missing at a time              *)
AtOnce ==
    /\ Cardinality({r \in Requests : pc[r] # "idle"})
          + Cardinality({s \in Scanners : scan[s] # Nothing}) <= (IF upset THEN 1 ELSE 2)
    /\ Cardinality(Dirs \ present) <= 1

(* foreign is read by NoForeignFiles alone *)
View == <<lists, db, present, watches, requests, scan, upset>>

(* bound, for WatchIsImmediate: no directory is ever missing *)
AllPresent == present = Dirs
=============================================================================
