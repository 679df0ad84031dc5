----------------------------- MODULE MCWatcher ------------------------------
(* Instances of Watcher for TLC. *)
EXTENDS Watcher

CONSTANTS v1, o1, w1, w2
=============================================================================
