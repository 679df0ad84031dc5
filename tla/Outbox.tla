------------------------------- MODULE Outbox -------------------------------
(***************************************************************************)
(* What the transactional outbox promises, without saying how.             *)
(*                                                                         *)
(* An event is recorded once, hooks may hear of it while it is pending,    *)
(* and it is settled once: as sent (some hook heard it), failed (retries   *)
(* are used up) or skipped (nothing to deliver to).  Dispatcher implements *)
(* this module: see Dispatcher!ImplementsOutbox.                           *)
(***************************************************************************)
CONSTANTS
    Events,     \* identities of change_events rows
    Hooks       \* webhooks and exec hooks an event can be delivered to

VARIABLES
    status,     \* delivery status of every event
    heard       \* hooks whose endpoint has received the event

vars == <<status, heard>>

Settled == {"sent", "failed", "skipped"}
Statuses == {"absent", "pending"} \cup Settled

TypeOK ==
    /\ status \in [Events -> Statuses]
    /\ heard \in [Events -> SUBSET Hooks]

Init ==
    /\ status = [e \in Events |-> "absent"]
    /\ heard = [e \in Events |-> {}]

-----------------------------------------------------------------------------
Record(e) ==
    /\ status[e] = "absent"
    /\ status' = [status EXCEPT ![e] = "pending"]
    /\ UNCHANGED heard

Hear(e, h) ==
    /\ status[e] = "pending"
    /\ heard' = [heard EXCEPT ![e] = @ \cup {h}]
    /\ UNCHANGED status

Send(e) ==
    /\ status[e] = "pending"
    /\ heard[e] # {}
    /\ status' = [status EXCEPT ![e] = "sent"]
    /\ UNCHANGED heard

GiveUp(e) ==
    /\ status[e] = "pending"
    /\ status' = [status EXCEPT ![e] = "failed"]
    /\ UNCHANGED heard

(* Skipping is one transaction over every event it concerns. *)
Skip(S) ==
    /\ \A e \in S : status[e] = "pending"
    /\ status' = [e \in Events |-> IF e \in S THEN "skipped" ELSE status[e]]
    /\ UNCHANGED heard

Next ==
    \/ \E e \in Events :
        \/ Record(e) \/ Send(e) \/ GiveUp(e)
        \/ \E h \in Hooks : Hear(e, h)
    \/ \E S \in SUBSET Events : Skip(S)

Spec == Init /\ [][Next]_vars
=============================================================================
