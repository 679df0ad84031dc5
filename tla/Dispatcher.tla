----------------------------- MODULE Dispatcher -----------------------------
(***************************************************************************)
(* The outbox dispatcher: events/dispatcher.py over events/bus.py.         *)
(*                                                                         *)
(* Sessions elsewhere in the program insert change_events rows; a single   *)
(* polling thread reads the due ones, delivers each to every hook, and     *)
(* then, in a transaction of its own, records what happened.  The process  *)
(* may die between any two of these steps, and comes back with whatever    *)
(* hooks its config.yaml then names.                                       *)
(***************************************************************************)
EXTENDS Naturals, FiniteSets, FiniteSetsExt

CONSTANTS
    MaxEvents,        \* bound: events are numbered in created_at order
    Webhooks,         \* webhooks with a url
    ExecHooks,        \* exec hooks with a command
    Configs,          \* the hook sections config.yaml may hold
    DefaultAttempts,  \* the default of max() in drain_once: 10
    MaxFaults,        \* bound: crashes plus failed commits
    None              \* no event is being dispatched

Events == 1..MaxEvents
Hooks == Webhooks \cup ExecHooks

(* max_attempts of drain_once: exec hooks carry no limit of their own *)
Budget(c) ==
    LET limits == {c.limit[w] : w \in c.web}
    IN  IF limits = {} THEN DefaultAttempts ELSE Max(limits)

HooksOf(c) == c.web \cup c.exec

ASSUME BoundsAssumption == MaxEvents \in Nat /\ MaxFaults \in Nat
ASSUME HooksAssumption == Webhooks \cap ExecHooks = {} /\ None \notin Nat
ASSUME ConfigsAssumption ==
    \A c \in Configs :
        c.web \subseteq Webhooks /\ c.exec \subseteq ExecHooks /\ Budget(c) \in Nat

VARIABLES
    row,        \* change_events: delivery_status and delivery_attempts
    stamped,    \* created_at stamps handed out so far
    open,       \* events whose inserting session has not committed yet
    conf,       \* the configuration the process was started with
    batch,      \* events drain_once read and has still to dispatch
    cur,        \* the event _dispatch is working on
    untried,    \* hooks _dispatch has not called yet
    delivered,  \* any_success of _dispatch
    faults      \* crashes and failed commits so far

dispatch == <<batch, cur, untried, delivered>>

VARIABLES       \* history, read by properties only
    tries,      \* deliver() calls per event and hook
    heard,      \* hooks whose endpoint received the event
    acked,      \* hooks whose deliver() returned normally
    broken,     \* dispatches of the event that never reached their commit
    late        \* events committed after an event with a later stamp

history == <<tries, heard, acked, broken, late>>
vars == <<row, stamped, open, conf, dispatch, faults, history>>

Settled == {"sent", "failed", "skipped"}
Statuses == {"absent", "pending"} \cup Settled

TypeOK ==
    /\ row \in [Events -> [status : Statuses, attempts : Nat]]
    /\ stamped \in 0..MaxEvents
    /\ open \subseteq Events
    /\ conf \in Configs
    /\ batch \subseteq Events
    /\ cur \in Events \cup {None}
    /\ untried \subseteq HooksOf(conf)
    /\ delivered \in BOOLEAN
    /\ faults \in 0..MaxFaults
    /\ tries \in [Events -> [Hooks -> Nat]]
    /\ heard \in [Events -> SUBSET Hooks]
    /\ acked \in [Events -> SUBSET Hooks]
    /\ broken \in [Events -> Nat]
    /\ late \subseteq Events

Init ==
    /\ row = [e \in Events |-> [status |-> "absent", attempts |-> 0]]
    /\ stamped = 0
    /\ open = {}
    /\ conf \in Configs
    /\ batch = {}
    /\ cur = None
    /\ untried = {}
    /\ delivered = FALSE
    /\ faults = 0
    /\ tries = [e \in Events |-> [h \in Hooks |-> 0]]
    /\ heard = [e \in Events |-> {}]
    /\ acked = [e \in Events |-> {}]
    /\ broken = [e \in Events |-> 0]
    /\ late = {}

Status(e) == row[e].status
Idle == cur = None /\ batch = {}

Due == {e \in Events : Status(e) = "pending" /\ row[e].attempts < Budget(conf)}

-----------------------------------------------------------------------------
(* Producers. created_at is computed when the INSERT is issued, which may   *)
(* then wait for SQLite's write lock: commits need not follow the stamps.   *)

RecordEvent ==
    /\ stamped < MaxEvents
    /\ stamped' = stamped + 1
    /\ open' = open \cup {stamped'}
    /\ UNCHANGED <<row, conf, dispatch, faults, history>>

CommitEvent(e) ==
    /\ e \in open
    /\ open' = open \ {e}
    /\ row' = [row EXCEPT ![e].status = "pending"]
    /\ late' = IF \E d \in Events : d > e /\ Status(d) # "absent"
               THEN late \cup {e} ELSE late
    /\ UNCHANGED <<stamped, conf, dispatch, faults, tries, heard, acked, broken>>

RollbackEvent(e) ==
    /\ e \in open
    /\ open' = open \ {e}
    /\ UNCHANGED <<row, stamped, conf, dispatch, faults, history>>

-----------------------------------------------------------------------------
(* The dispatcher thread. *)

(* drain_once without hooks: every due event becomes an audit row *)
SkipDue ==
    /\ Idle /\ Due # {}
    /\ HooksOf(conf) = {}
    /\ row' = [e \in Events |->
                 IF e \in Due THEN [row[e] EXCEPT !.status = "skipped"] ELSE row[e]]
    /\ UNCHANGED <<stamped, open, conf, dispatch, faults, history>>

(* drain_once with hooks: the due events are read once per tick *)
ReadDue ==
    /\ Idle /\ Due # {}
    /\ HooksOf(conf) # {}
    /\ batch' = Due
    /\ UNCHANGED <<row, stamped, open, conf, cur, untried, delivered, faults, history>>

(* Mutant: the batch is ordered by created_at descending. *)
NewestFirst(e) == \A d \in batch : d <= e

(* order_by(created_at.asc()) *)
OldestFirst(e) == \A d \in batch : e <= d

(* Mutant: any_success is initialised once, outside _dispatch. *)
BeginStaleFlag(e) ==
    /\ cur = None
    /\ e \in batch
    /\ OldestFirst(e)
    /\ cur' = e
    /\ batch' = batch \ {e}
    /\ untried' = HooksOf(conf)
    /\ UNCHANGED <<row, stamped, open, conf, delivered, faults, history>>

(* the loop of drain_once enters _dispatch with the oldest event left *)
Begin(e) ==
    /\ cur = None
    /\ e \in batch
    /\ OldestFirst(e)
    /\ cur' = e
    /\ batch' = batch \ {e}
    /\ untried' = HooksOf(conf)
    /\ delivered' = FALSE
    /\ UNCHANGED <<row, stamped, open, conf, faults, history>>

(* Mutant: the last hook's result wins. *)
LastResult(ok) == ok

(* any_success after a hook answered, and the hooks still to call *)
AnySuccess(ok) == delivered \/ ok
Rest(h, ok) == untried \ {h}

(* One deliver() call: webhooks before exec hooks. The endpoint may act on   *)
(* the event although the call reports an error (a timeout, an HTTP 500).    *)
Deliver(h, gotIt, ok) ==
    /\ cur # None
    /\ h \in untried
    /\ h \in ExecHooks => untried \cap Webhooks = {}
    /\ ok => gotIt
    /\ untried' = Rest(h, ok)
    /\ delivered' = AnySuccess(ok)
    /\ tries' = [tries EXCEPT ![cur][h] = @ + 1]
    /\ heard' = IF gotIt THEN [heard EXCEPT ![cur] = @ \cup {h}] ELSE heard
    /\ acked' = IF ok THEN [acked EXCEPT ![cur] = @ \cup {h}] ELSE acked
    /\ UNCHANGED <<row, stamped, open, conf, batch, cur, faults, broken, late>>

(* Mutants: mark_failed does not count; giving up is reported as sent; the   *)
(* budget is compared with > instead of >=.                                  *)
OutcomeUncounted(r) ==
    [r EXCEPT !.status = IF delivered THEN "sent" ELSE @]

OutcomeOptimist(r) ==
    LET n == r.attempts + 1
    IN  [status |-> IF delivered \/ n >= Budget(conf) THEN "sent" ELSE r.status,
         attempts |-> n]

OutcomeOffByOne(r) ==
    LET n == r.attempts + 1
    IN  [status |-> IF delivered THEN "sent"
                    ELSE IF n > Budget(conf) THEN "failed"
                    ELSE r.status,
         attempts |-> n]

(* mark_sent, or mark_failed and giving up once the budget is spent *)
Outcome(r) ==
    LET n == r.attempts + 1
    IN  [status |-> IF delivered THEN "sent"
                    ELSE IF n >= Budget(conf) THEN "failed"
                    ELSE r.status,
         attempts |-> n]

(* the closing transaction of _dispatch *)
Settle ==
    /\ cur # None
    /\ untried = {}
    /\ row' = [row EXCEPT ![cur] = Outcome(@)]
    /\ cur' = None
    /\ UNCHANGED <<stamped, open, conf, batch, untried, delivered, faults, history>>

(* Mutant: the hook loop's position survives the abandoned dispatch. *)
InterruptedKeepsHooks ==
    /\ faults < MaxFaults
    /\ faults' = faults + 1
    /\ batch' = {}
    /\ cur' = None
    /\ broken' = IF cur = None THEN broken ELSE [broken EXCEPT ![cur] = @ + 1]
    /\ UNCHANGED <<row, stamped, untried, delivered, tries, heard, acked, late>>

(* What the thread had in memory is gone: the tick is abandoned. *)
Interrupted ==
    /\ faults < MaxFaults
    /\ faults' = faults + 1
    /\ batch' = {}
    /\ cur' = None
    /\ untried' = {}
    /\ broken' = IF cur = None THEN broken ELSE [broken EXCEPT ![cur] = @ + 1]
    /\ UNCHANGED <<row, stamped, delivered, tries, heard, acked, late>>

(* that transaction fails to commit: the exception leaves drain_once, and    *)
(* with it the rest of the tick                                              *)
SettleFails ==
    /\ cur # None
    /\ untried = {}
    /\ Interrupted
    /\ UNCHANGED <<open, conf>>

(* the process dies and is started again, perhaps with other hooks *)
Restart(c) ==
    /\ Interrupted
    /\ open' = {}
    /\ conf' = c

-----------------------------------------------------------------------------
Produce == RecordEvent \/ \E e \in Events : CommitEvent(e) \/ RollbackEvent(e)

Dispatch ==
    \/ SkipDue \/ ReadDue \/ Settle
    \/ \E e \in Events : Begin(e)
    \/ \E h \in Hooks, gotIt, ok \in BOOLEAN : Deliver(h, gotIt, ok)

Next == Produce \/ Dispatch \/ SettleFails \/ \E c \in Configs : Restart(c)

Spec == Init /\ [][Next]_vars

(* The thread runs until the process dies: it polls again after every tick,  *)
(* every hook call has a timeout, and an open session commits or rolls back. *)
FairSpec == Spec /\ WF_vars(Dispatch)

-----------------------------------------------------------------------------
(* Properties *)

(* An event marked sent really reached the endpoint of some hook. The mark   *)
(* is written in a later transaction than the calls, from a flag that must   *)
(* not survive from one event to the next (dispatcher.py:95, 121).           *)
SentWasHeard == \A e \in Events : Status(e) = "sent" => heard[e] # {}

(* An event given up on was never acknowledged, unless a crash or a failed   *)
(* commit threw the acknowledgement away (dispatcher.py:117-126).            *)
FailedWasNotAcked ==
    \A e \in Events : Status(e) = "failed" /\ broken[e] = 0 => acked[e] = {}

(* One hook's failure does not hide the event from another: a recorded       *)
(* attempt is an attempt on every hook the configuration always has.         *)
AttemptsCoverEveryHook ==
    \A e \in Events, h \in Hooks :
        (\A c \in Configs : h \in HooksOf(c)) => row[e].attempts <= tries[e][h]

(* Redelivery is bounded: a hook is called for an event once per recorded    *)
(* attempt, plus once per dispatch that was cut off before its commit.       *)
RedeliveryIsBounded ==
    \A e \in Events, h \in Hooks :
        tries[e][h] <= row[e].attempts + broken[e] + (IF cur = e THEN 1 ELSE 0)

(* With one retry budget throughout, a pending event is always within it, so *)
(* the next due_events will find it.                                         *)
PendingIsDue ==
    (\A c, d \in Configs : Budget(c) = Budget(d)) /\ Budget(conf) > 0
        => \A e \in Events : Status(e) = "pending" => e \in Due

(* Hooks first hear of events in created_at order, except for an event whose *)
(* commit was overtaken by a later one.                                      *)
FirstTriesInOrder ==
    \A d, e \in Events :
        /\ d < e /\ d \notin late
        /\ Status(d) = "pending"
        /\ \E h \in Hooks : tries[e][h] > 0
        => \E h \in Hooks : tries[d][h] > 0

(* A settled event is settled for good, and an attempt is never forgotten.   *)
SettledForGood ==
    [][\A e \in Events :
          /\ Status(e) \in Settled => row'[e] = row[e]
          /\ row'[e].attempts >= row[e].attempts]_vars

(* Whatever the hooks do, retries end: every pending event is settled. Needs *)
(* a configuration that stays the same across restarts.                      *)
EveryEventSettles ==
    \A e \in Events : Status(e) = "pending" ~> Status(e) \in Settled

(* Every step of the dispatcher is a step of the abstract outbox. *)
O == INSTANCE Outbox WITH status <- [e \in Events |-> row[e].status]
ImplementsOutbox == O!Spec
=============================================================================
