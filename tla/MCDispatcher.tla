---------------------------- MODULE MCDispatcher ----------------------------
(* Instances of Dispatcher for TLC. *)
EXTENDS Dispatcher

CONSTANTS w1, x1

Config(web, exec, n) == [web |-> web, exec |-> exec, limit |-> [w \in web |-> n]]

(* Hooks come and go, with two attempts each time: the webhook's limit is as *)
(* many as are made without one.                                             *)
TwoAttempts ==
    {Config({w1}, {x1}, 2), Config({w1}, {}, 2), Config({}, {x1}, 0), Config({}, {}, 0)}
=============================================================================
