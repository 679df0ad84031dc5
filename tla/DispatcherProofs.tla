-------------------------- MODULE DispatcherProofs --------------------------
(***************************************************************************)
(* Theorems about Dispatcher, for any number of events, any hooks, any     *)
(* configurations and any number of faults.                                *)
(*                                                                         *)
(* The argument goes in layers, each an invariant of its own: types, then  *)
(* which phase of its life an event is in while the dispatcher holds it,   *)
(* then what the history says of it.                                       *)
(***************************************************************************)
EXTENDS Dispatcher, TLAPS

USE BoundsAssumption

LEMMA OutcomeType ==
    ASSUME NEW r \in [status : Statuses, attempts : Nat]
    PROVE  Outcome(r) \in [status : Statuses, attempts : Nat]
BY DEF Outcome, Statuses, Settled

LEMMA BudgetType ==
    ASSUME NEW c \in Configs
    PROVE  Budget(c) \in Nat /\ HooksOf(c) \subseteq Hooks
BY ConfigsAssumption DEF HooksOf, Hooks

(* Every variable keeps its type: the state read back from the table is one  *)
(* the dispatcher understands.                                               *)
THEOREM TypeInvariant == Spec => []TypeOK
<1>1. Init => TypeOK
  <2> SUFFICES ASSUME Init PROVE TypeOK
    OBVIOUS
  <2>1. /\ row \in [Events -> [status : Statuses, attempts : Nat]]
        /\ tries \in [Events -> [Hooks -> Nat]]
        /\ broken \in [Events -> Nat]
        /\ heard \in [Events -> SUBSET Hooks]
        /\ acked \in [Events -> SUBSET Hooks]
    BY DEF Init, Statuses
  <2>2. stamped \in 0..MaxEvents /\ faults \in 0..MaxFaults
    BY DEF Init
  <2>4. delivered \in BOOLEAN
    BY DEF Init
  <2>3. open \subseteq Events /\ batch \subseteq Events /\ late \subseteq Events
    BY DEF Init
  <2> QED
    BY <2>1, <2>2, <2>3, <2>4 DEF Init, TypeOK
<1>2. TypeOK /\ [Next]_vars => TypeOK'
  <2> SUFFICES ASSUME TypeOK, [Next]_vars PROVE TypeOK'
    OBVIOUS
  <2> USE DEF TypeOK, Events
  <2>1. CASE RecordEvent
    BY <2>1 DEF RecordEvent, dispatch, history
  <2>2. ASSUME NEW e \in Events, CommitEvent(e) PROVE TypeOK'
    BY <2>2 DEF CommitEvent, dispatch, Statuses
  <2>3. ASSUME NEW e \in Events, RollbackEvent(e) PROVE TypeOK'
    BY <2>3 DEF RollbackEvent, dispatch, history
  <2>4. CASE SkipDue
    BY <2>4 DEF SkipDue, dispatch, history, Statuses, Settled
  <2>5. CASE ReadDue
    BY <2>5 DEF ReadDue, Due, history
  <2>6. CASE Settle
    <3>1. cur \in Events
      BY <2>6 DEF Settle
    <3>2. row' \in [Events -> [status : Statuses, attempts : Nat]]
      BY <2>6, <3>1, OutcomeType DEF Settle
    <3> QED
      BY <2>6, <3>2 DEF Settle, history
  <2>7. ASSUME NEW e \in Events, Begin(e) PROVE TypeOK'
    BY <2>7 DEF Begin, OldestFirst, history
  <2>8. ASSUME NEW h \in Hooks, NEW gotIt \in BOOLEAN, NEW ok \in BOOLEAN,
               Deliver(h, gotIt, ok)
        PROVE  TypeOK'
    <3>1. cur \in Events
      BY <2>8 DEF Deliver, Rest, AnySuccess
    <3>2. tries' \in [Events -> [Hooks -> Nat]]
      BY <2>8, <3>1 DEF Deliver, Rest, AnySuccess
    <3>3. heard' \in [Events -> SUBSET Hooks] /\ acked' \in [Events -> SUBSET Hooks]
      BY <2>8, <3>1 DEF Deliver, Rest, AnySuccess
    <3>4. delivered' \in BOOLEAN /\ untried' \subseteq HooksOf(conf)'
      BY <2>8 DEF Deliver, Rest, AnySuccess
    <3> QED
      BY <2>8, <3>2, <3>3, <3>4 DEF Deliver, Rest, AnySuccess
  <2>9. CASE SettleFails
    BY <2>9 DEF SettleFails, Interrupted
  <2>10. ASSUME NEW c \in Configs, Restart(c) PROVE TypeOK'
    BY <2>10 DEF Restart, Interrupted
  <2>11. CASE UNCHANGED vars
    BY <2>11 DEF vars, dispatch, history
  <2> QED
    BY <2>1, <2>2, <2>3, <2>4, <2>5, <2>6, <2>7, <2>8, <2>9, <2>10, <2>11
    DEF Next, Produce, Dispatch
<1> QED
  BY <1>1, <1>2, PTL DEF Spec

-----------------------------------------------------------------------------
(* Where an event is while the producers and the dispatcher hold it. *)
Phase ==
    /\ \A e \in open : Status(e) = "absent" /\ e <= stamped
    /\ \A e \in Events : e > stamped => Status(e) = "absent"
    /\ \A e \in Events : Status(e) = "absent" => row[e].attempts = 0
    /\ \A e \in batch : Status(e) = "pending"
    /\ cur \notin batch
    /\ cur # None => Status(cur) = "pending"
    /\ cur = None => untried = {}
    /\ cur # None \/ batch # {} => HooksOf(conf) # {}

(* What the flag any_success stands for, and what it leaves behind. *)
Acks ==
    /\ \A e \in Events : acked[e] \subseteq heard[e]
    /\ cur # None /\ delivered => acked[cur] # {}
    /\ SentWasHeard
    /\ \A e \in Events :
        /\ Status(e) \in {"absent", "pending", "failed"}
        /\ broken[e] = 0
        /\ acked[e] # {}
        => cur = e /\ delivered

(* 1 when the dispatch in progress has already called h for e *)
Called(e, h) == IF cur = e /\ h \in HooksOf(conf) \ untried THEN 1 ELSE 0

Counts ==
    \A e \in Events, h \in Hooks :
        /\ tries[e][h] <= row[e].attempts + broken[e] + Called(e, h)
        /\ (\A c \in Configs : h \in HooksOf(c))
              => row[e].attempts + Called(e, h) <= tries[e][h]

LEMMA PhaseInductive ==
    ASSUME TypeOK, TypeOK', Phase, [Next]_vars
    PROVE  Phase'
<1> USE DEF TypeOK, Phase, Status, Events
<1>1. CASE RecordEvent
  BY <1>1, BoundsAssumption DEF RecordEvent, dispatch, history
<1>2. ASSUME NEW e \in Events, CommitEvent(e) PROVE Phase'
  BY <1>2 DEF CommitEvent, dispatch, Statuses
<1>3. ASSUME NEW e \in Events, RollbackEvent(e) PROVE Phase'
  BY <1>3 DEF RollbackEvent, dispatch, history
<1>4. CASE SkipDue
  <2>1. \A e \in Events : Status(e)' = IF e \in Due THEN "skipped" ELSE Status(e)
    BY <1>4 DEF SkipDue
  <2>2. \A e \in Events : row'[e].attempts = row[e].attempts
    BY <1>4 DEF SkipDue
  <2>3. \A e \in Due : Status(e) = "pending"
    BY DEF Due
  <2> QED
    BY <1>4, <2>1, <2>2, <2>3 DEF SkipDue, dispatch, history, Idle
<1>5. CASE ReadDue
  BY <1>5, HooksAssumption DEF ReadDue, Due, history, Idle
<1>6. CASE Settle
  <2>1. cur \in Events /\ cur \notin open /\ cur <= stamped
    BY <1>6 DEF Settle
  <2>2. \A e \in Events : e # cur => row'[e] = row[e]
    BY <1>6, <2>1 DEF Settle
  <2>3. Outcome(row[cur]).status # "absent"
    BY <2>1, <1>6 DEF Outcome, Settle
  <2>4. row'[cur] = Outcome(row[cur])
    BY <1>6, <2>1 DEF Settle
  <2> QED
    BY <1>6, <2>1, <2>2, <2>3, <2>4, HooksAssumption DEF Settle, history
<1>7. ASSUME NEW e \in Events, Begin(e) PROVE Phase'
  BY <1>7, HooksAssumption DEF Begin, OldestFirst, history
<1>8. ASSUME NEW h \in Hooks, NEW gotIt \in BOOLEAN, NEW ok \in BOOLEAN,
             Deliver(h, gotIt, ok)
      PROVE  Phase'
  BY <1>8 DEF Deliver, Rest, AnySuccess
<1>9. CASE SettleFails
  BY <1>9 DEF SettleFails, Interrupted
<1>10. ASSUME NEW c \in Configs, Restart(c) PROVE Phase'
  BY <1>10 DEF Restart, Interrupted
<1>11. CASE UNCHANGED vars
  BY <1>11 DEF vars, dispatch, history
<1> QED
  BY <1>1, <1>2, <1>3, <1>4, <1>5, <1>6, <1>7, <1>8, <1>9, <1>10, <1>11
  DEF Next, Produce, Dispatch

LEMMA PhaseInvariant == Spec => []Phase
<1>1. Init => Phase
  BY DEF Init, Phase, Status
<1>2. TypeOK /\ TypeOK' /\ Phase /\ [Next]_vars => Phase'
  BY PhaseInductive
<1> QED
  BY <1>1, <1>2, TypeInvariant, PTL DEF Spec

-----------------------------------------------------------------------------
LEMMA AcksInductive ==
    ASSUME TypeOK, TypeOK', Phase, Acks, [Next]_vars
    PROVE  Acks'
<1> USE DEF TypeOK, Acks, Status, SentWasHeard
<1>1. CASE RecordEvent
  BY <1>1 DEF RecordEvent, dispatch, history
<1>2. ASSUME NEW e \in Events, CommitEvent(e) PROVE Acks'
  BY <1>2 DEF CommitEvent, dispatch, Phase
<1>3. ASSUME NEW e \in Events, RollbackEvent(e) PROVE Acks'
  BY <1>3 DEF RollbackEvent, dispatch, history
<1>4. CASE SkipDue
  <2>1. \A e \in Events : Status(e)' = IF e \in Due THEN "skipped" ELSE Status(e)
    BY <1>4 DEF SkipDue
  <2> QED
    BY <1>4, <2>1 DEF SkipDue, dispatch, history
<1>5. CASE ReadDue
  BY <1>5 DEF ReadDue, history, Idle
<1>6. CASE Settle
  <2>1. cur \in Events /\ Status(cur) = "pending"
    BY <1>6 DEF Settle, Phase
  <2>2. \A e \in Events : e # cur => row'[e] = row[e]
    BY <1>6, <2>1 DEF Settle
  <2>3. row'[cur].status = IF delivered THEN "sent"
                           ELSE IF row[cur].attempts + 1 >= Budget(conf) THEN "failed"
                           ELSE "pending"
    BY <1>6, <2>1 DEF Settle, Outcome
  <2>4. UNCHANGED <<acked, heard, broken, delivered>> /\ cur' = None
    BY <1>6 DEF Settle, history
  <2>5. delivered => heard[cur] # {}
    BY <1>6, <2>1 DEF Settle
  <2> QED
    BY <2>1, <2>2, <2>3, <2>4, <2>5
<1>7. ASSUME NEW e \in Events, Begin(e) PROVE Acks'
  BY <1>7, HooksAssumption DEF Begin, OldestFirst, history, Events
<1>8. ASSUME NEW h \in Hooks, NEW gotIt \in BOOLEAN, NEW ok \in BOOLEAN,
             Deliver(h, gotIt, ok)
      PROVE  Acks'
  <2>1. cur \in Events /\ UNCHANGED <<cur, row, broken>>
    BY <1>8 DEF Deliver, Rest, AnySuccess
  <2>2. \A e \in Events : heard[e] \subseteq heard'[e]
    BY <1>8, <2>1 DEF Deliver, Rest, AnySuccess
  <2>3. CASE ok
    <3>1. acked' = [acked EXCEPT ![cur] = @ \cup {h}]
      BY <1>8, <2>3 DEF Deliver, Rest, AnySuccess
    <3>2. heard' = [heard EXCEPT ![cur] = @ \cup {h}] /\ delivered' = TRUE
      BY <1>8, <2>3 DEF Deliver, Rest, AnySuccess
    <3> QED
      BY <2>1, <2>2, <3>1, <3>2
  <2>4. CASE ~ok
    <3>1. acked' = acked /\ delivered' = delivered
      BY <1>8, <2>4 DEF Deliver, Rest, AnySuccess
    <3> QED
      BY <2>1, <2>2, <3>1
  <2> QED
    BY <2>3, <2>4
<1>9. CASE SettleFails
  BY <1>9 DEF SettleFails, Interrupted
<1>10. ASSUME NEW c \in Configs, Restart(c) PROVE Acks'
  BY <1>10 DEF Restart, Interrupted
<1>11. CASE UNCHANGED vars
  BY <1>11 DEF vars, dispatch, history
<1> QED
  BY <1>1, <1>2, <1>3, <1>4, <1>5, <1>6, <1>7, <1>8, <1>9, <1>10, <1>11
  DEF Next, Produce, Dispatch

LEMMA AcksInvariant == Spec => []Acks
<1>1. Init => Acks
  BY DEF Init, Acks, Status, SentWasHeard
<1>2. TypeOK /\ TypeOK' /\ Phase /\ Acks /\ [Next]_vars => Acks'
  BY AcksInductive
<1> QED
  BY <1>1, <1>2, TypeInvariant, PhaseInvariant, PTL DEF Spec

(* An event marked sent reached an endpoint (dispatcher.py:117-121).         *)
THEOREM SentHeard == Spec => []SentWasHeard
<1>1. Acks => SentWasHeard
  BY DEF Acks
<1> QED
  BY <1>1, AcksInvariant, PTL

(* An event given up on was never acknowledged in a dispatch that reached    *)
(* its commit (dispatcher.py:122-126).                                       *)
THEOREM FailedUnacked == Spec => []FailedWasNotAcked
<1>1. TypeOK /\ Phase /\ Acks => FailedWasNotAcked
  BY HooksAssumption DEF Events, Phase, Acks, FailedWasNotAcked, Status
<1> QED
  BY <1>1, TypeInvariant, PhaseInvariant, AcksInvariant, PTL

-----------------------------------------------------------------------------
LEMMA CountsInductive ==
    ASSUME TypeOK, TypeOK', Phase, Counts, [Next]_vars
    PROVE  Counts'
<1> SUFFICES ASSUME NEW e \in Events, NEW h \in Hooks
             PROVE  /\ tries'[e][h] <= row'[e].attempts + broken'[e] + Called(e, h)'
                    /\ (\A c \in Configs : h \in HooksOf(c))
                          => row'[e].attempts + Called(e, h)' <= tries'[e][h]
  BY DEF Counts
<1>0. /\ tries[e][h] <= row[e].attempts + broken[e] + Called(e, h)
      /\ (\A c \in Configs : h \in HooksOf(c))
            => row[e].attempts + Called(e, h) <= tries[e][h]
  BY DEF Counts
<1>00. /\ row[e].attempts \in Nat /\ broken[e] \in Nat /\ tries[e][h] \in Nat
       /\ e # None
  <2>1. row[e] \in [status : Statuses, attempts : Nat] /\ tries[e] \in [Hooks -> Nat]
    BY DEF TypeOK
  <2>2. e \in Nat
    BY DEF Events
  <2> QED
    BY <2>1, <2>2, HooksAssumption DEF TypeOK
<1>1. ASSUME UNCHANGED <<tries, broken, conf, untried, cur>>,
             row'[e].attempts = row[e].attempts
      PROVE  UNCHANGED <<tries[e][h], row[e].attempts, broken[e], Called(e, h)>>
  BY <1>1 DEF Called
<1>2. CASE Produce \/ UNCHANGED vars
  <2>1. row'[e].attempts = row[e].attempts
    <3>1. ASSUME NEW d \in Events, CommitEvent(d)
          PROVE  row'[e].attempts = row[e].attempts
      BY <3>1 DEF CommitEvent, TypeOK
    <3>2. ASSUME UNCHANGED row
          PROVE  row'[e].attempts = row[e].attempts
      BY <3>2
    <3> QED
      BY <1>2, <3>1, <3>2 DEF Produce, RecordEvent, RollbackEvent, vars
  <2>2. UNCHANGED <<tries, broken, conf, untried, cur>>
    BY <1>2
    DEF Produce, RecordEvent, CommitEvent, RollbackEvent, vars, dispatch, history
  <2> QED
    BY <1>0, <1>1, <2>1, <2>2
<1>3. CASE SkipDue \/ ReadDue
  <2>1. row'[e].attempts = row[e].attempts
    BY <1>3 DEF SkipDue, ReadDue, TypeOK
  <2> QED
    BY <1>0, <1>1, <1>3, <2>1 DEF SkipDue, ReadDue, dispatch, history
<1>4. CASE Settle
  <2>1. CASE cur = e
    <3>1. row'[e].attempts = row[e].attempts + 1
      BY <1>4, <2>1 DEF Settle, Outcome, TypeOK
    <3>2. Called(e, h)' = 0
      BY <1>4, <1>00 DEF Settle, Called
    <3>3. /\ Called(e, h) \in {0, 1}
          /\ (\A c \in Configs : h \in HooksOf(c)) => Called(e, h) = 1
      BY <1>4, <2>1 DEF Settle, Called, TypeOK
    <3>4. UNCHANGED <<tries, broken>>
      BY <1>4 DEF Settle, history
    <3> QED
      BY <1>0, <1>00, <3>1, <3>2, <3>3, <3>4
  <2>2. CASE cur # e
    <3>1. row'[e] = row[e]
      BY <1>4, <2>2 DEF Settle, TypeOK
    <3>2. Called(e, h) = 0 /\ Called(e, h)' = 0
      BY <1>4, <1>00, <2>2 DEF Settle, Called
    <3> QED
      BY <1>0, <1>4, <3>1, <3>2 DEF Settle, history
  <2> QED
    BY <2>1, <2>2
<1>5. ASSUME NEW d \in Events, Begin(d) PROVE UNCHANGED <<tries, broken, row>> /\ Called(e, h)' = 0 /\ Called(e, h) = 0
  BY <1>5, <1>00 DEF Begin, OldestFirst, Called, history
<1>6. ASSUME NEW g \in Hooks, NEW gotIt \in BOOLEAN, NEW ok \in BOOLEAN,
             Deliver(g, gotIt, ok)
      PROVE  tries'[e][h] - Called(e, h)' = tries[e][h] - Called(e, h)
  <2>1. CASE cur = e /\ g = h
    <3>1. Called(e, h) = 0 /\ Called(e, h)' = 1
      BY <1>6, <2>1 DEF Deliver, Rest, AnySuccess, Called, TypeOK
    <3>2. tries'[e][h] = tries[e][h] + 1
      BY <1>6, <2>1 DEF Deliver, Rest, AnySuccess, TypeOK
    <3> QED
      BY <1>00, <3>1, <3>2
  <2>2. CASE ~(cur = e /\ g = h)
    <3>1. Called(e, h)' = Called(e, h)
      BY <1>6, <2>2 DEF Deliver, Rest, AnySuccess, Called, TypeOK
    <3>2. tries'[e][h] = tries[e][h]
      BY <1>6, <2>2 DEF Deliver, Rest, AnySuccess, TypeOK
    <3> QED
      BY <1>00, <3>1, <3>2
  <2> QED
    BY <2>1, <2>2
<1>7. ASSUME NEW g \in Hooks, NEW gotIt \in BOOLEAN, NEW ok \in BOOLEAN,
             Deliver(g, gotIt, ok)
      PROVE  UNCHANGED <<row, broken>> /\ tries'[e][h] \in Nat
  BY <1>7 DEF Deliver, Rest, AnySuccess, TypeOK
<1>8. ASSUME Interrupted
      PROVE  /\ UNCHANGED <<tries, row>>
             /\ Called(e, h)' = 0
             /\ broken'[e] = IF cur = e THEN broken[e] + 1 ELSE broken[e]
  BY <1>8, <1>00 DEF Interrupted, Called, TypeOK
<1>9. Called(e, h) \in {0, 1} /\ (cur # e => Called(e, h) = 0) /\ Called(e, h)' \in {0, 1}
  BY DEF Called
<1>10. CASE SettleFails \/ \E c \in Configs : Restart(c)
  BY <1>0, <1>00, <1>8, <1>9, <1>10 DEF SettleFails, Restart
<1>11. CASE \E d \in Events : Begin(d)
  BY <1>0, <1>5, <1>11
<1>12. CASE \E g \in Hooks, gotIt, ok \in BOOLEAN : Deliver(g, gotIt, ok)
  BY <1>0, <1>00, <1>6, <1>7, <1>9, <1>12
<1> QED
  BY <1>2, <1>3, <1>4, <1>10, <1>11, <1>12 DEF Next, Dispatch

LEMMA CountsInvariant == Spec => []Counts
<1>1. Init => Counts
  BY HooksAssumption DEF Init, Counts, Called, Events
<1>2. TypeOK /\ TypeOK' /\ Phase /\ Counts /\ [Next]_vars => Counts'
  BY CountsInductive
<1> QED
  BY <1>1, <1>2, TypeInvariant, PhaseInvariant, PTL DEF Spec

(* A hook is called for an event once per recorded attempt, plus once per    *)
(* dispatch that was cut off before its commit (dispatcher.py:83-121).       *)
THEOREM BoundedRedelivery == Spec => []RedeliveryIsBounded
<1>1. TypeOK /\ Counts => RedeliveryIsBounded
  <2> SUFFICES ASSUME TypeOK, Counts, NEW e \in Events, NEW h \in Hooks
               PROVE  tries[e][h] <= row[e].attempts + broken[e] + (IF cur = e THEN 1 ELSE 0)
    BY DEF RedeliveryIsBounded
  <2>1. /\ tries[e][h] \in Nat /\ row[e].attempts \in Nat /\ broken[e] \in Nat
        /\ tries[e][h] <= row[e].attempts + broken[e] + Called(e, h)
    BY DEF TypeOK, Counts
  <2> QED
    BY <2>1 DEF Called
<1> QED
  BY <1>1, TypeInvariant, CountsInvariant, PTL

(* A recorded attempt is an attempt on every hook the configuration always   *)
(* has: a failing hook does not hide the event from the next one             *)
(* (dispatcher.py:97-115).                                                   *)
THEOREM EveryHookAttempted == Spec => []AttemptsCoverEveryHook
<1>1. TypeOK /\ Counts => AttemptsCoverEveryHook
  <2> SUFFICES ASSUME TypeOK, Counts, NEW e \in Events, NEW h \in Hooks,
                      \A c \in Configs : h \in HooksOf(c)
               PROVE  row[e].attempts <= tries[e][h]
    BY DEF AttemptsCoverEveryHook
  <2>1. /\ tries[e][h] \in Nat /\ row[e].attempts \in Nat
        /\ row[e].attempts + Called(e, h) <= tries[e][h]
    BY DEF TypeOK, Counts
  <2> QED
    BY <2>1 DEF Called
<1> QED
  BY <1>1, TypeInvariant, CountsInvariant, PTL

-----------------------------------------------------------------------------
(* What a step may do to the row of one event, whoever takes it. *)
LEMMA RowStep ==
    ASSUME TypeOK, Phase, [Next]_vars, NEW e \in Events, row'[e] # row[e]
    PROVE  \/ /\ Status(e) = "absent" /\ Status(e)' = "pending"
              /\ row'[e].attempts = row[e].attempts
           \/ /\ HooksOf(conf) = {} /\ e \in Due
              /\ Status(e)' = "skipped"
              /\ row'[e].attempts = row[e].attempts
           \/ /\ Settle /\ cur = e /\ Status(e) = "pending"
              /\ row'[e] = Outcome(row[e])
<1> USE DEF TypeOK, Phase, Status
<1>1. ASSUME NEW d \in Events, CommitEvent(d)
      PROVE  /\ Status(e) = "absent" /\ Status(e)' = "pending"
             /\ row'[e].attempts = row[e].attempts
  BY <1>1 DEF CommitEvent
<1>2. CASE SkipDue
  BY <1>2 DEF SkipDue, Due
<1>3. CASE Settle
  <2>1. cur \in Events /\ row' = [row EXCEPT ![cur] = Outcome(@)]
    BY <1>3 DEF Settle
  <2> QED
    BY <1>3, <2>1, HooksAssumption DEF Events
<1>4. UNCHANGED row => FALSE
  OBVIOUS
<1> QED
  BY <1>1, <1>2, <1>3, <1>4
  DEF Next, Produce, Dispatch, RecordEvent, RollbackEvent, ReadDue, Begin, Deliver,
      SettleFails, Restart, Interrupted, vars

(* A settled event is settled for good, and attempts only grow               *)
(* (dispatcher.py:117-126, bus.py:69-91).                                    *)
THEOREM Settlement == Spec => SettledForGood
<1>1. TypeOK /\ Phase /\ [Next]_vars
        => [\A e \in Events :
              /\ Status(e) \in Settled => row'[e] = row[e]
              /\ row'[e].attempts >= row[e].attempts]_vars
  <2> SUFFICES ASSUME TypeOK, Phase, [Next]_vars, NEW e \in Events
               PROVE  /\ Status(e) \in Settled => row'[e] = row[e]
                      /\ row'[e].attempts >= row[e].attempts
    OBVIOUS
  <2>1. row[e].attempts \in Nat
    BY DEF TypeOK
  <2>2. CASE row'[e] = row[e]
    BY <2>1, <2>2
  <2>3. CASE row'[e] # row[e]
    <3>1. Status(e) \notin Settled
      BY <2>3, RowStep DEF Settled, Due
    <3>2. row'[e].attempts \in {row[e].attempts, row[e].attempts + 1}
      <4>1. Outcome(row[e]).attempts = row[e].attempts + 1
        BY DEF Outcome
      <4> QED
        BY <2>3, <4>1, RowStep
    <3> QED
      BY <2>1, <3>1, <3>2
  <2> QED
    BY <2>2, <2>3
<1> QED
  BY <1>1, TypeInvariant, PhaseInvariant, PTL DEF Spec, SettledForGood

(* With one retry budget, a pending event stays within it: a restart, a      *)
(* crash or a failed commit never strands it (dispatcher.py:64-67, 124).     *)
THEOREM NeverStranded == Spec => []PendingIsDue
<1> DEFINE Within == (\A c, d \in Configs : Budget(c) = Budget(d)) /\ Budget(conf) > 0
                       => \A e \in Events : Status(e) = "pending" => row[e].attempts < Budget(conf)
<1>1. Init => Within
  BY DEF Init, Status
<1>2. TypeOK /\ TypeOK' /\ Phase /\ Within /\ [Next]_vars => Within'
  <2> SUFFICES ASSUME TypeOK, TypeOK', Phase, Within, [Next]_vars,
                      \A c, d \in Configs : Budget(c) = Budget(d),
                      Budget(conf)' > 0,
                      NEW e \in Events, Status(e)' = "pending"
               PROVE  row'[e].attempts < Budget(conf)'
    OBVIOUS
  <2>1. Budget(conf)' = Budget(conf) /\ Budget(conf) \in Nat
    <3>1. conf \in Configs /\ conf' \in Configs
      BY DEF TypeOK
    <3>2. Budget(conf') = Budget(conf)
      BY <3>1
    <3> QED
      BY <3>1, <3>2, BudgetType DEF Budget
  <2>2. row[e].attempts \in Nat
    BY DEF TypeOK
  <2>3. CASE row'[e] = row[e]
    BY <2>1, <2>3 DEF Status
  <2>4. CASE row'[e] # row[e]
    <3>1. CASE Status(e) = "absent"
      BY <2>1, <2>4, <3>1, RowStep DEF Phase, Settled
    <3>2. CASE Status(e) = "pending" /\ row'[e] = Outcome(row[e])
      BY <2>1, <2>2, <3>2 DEF Outcome, Status
    <3> QED
      BY <2>4, <3>1, <3>2, RowStep
  <2> QED
    BY <2>3, <2>4
<1>3. Within => PendingIsDue
  BY DEF PendingIsDue, Due
<1> QED
  BY <1>1, <1>2, <1>3, TypeInvariant, PhaseInvariant, PTL DEF Spec

-----------------------------------------------------------------------------
Tried == {e \in Events : \E h \in Hooks : tries[e][h] > 0}

(* Order of first tries: once a tick holds e, an earlier event it does not   *)
(* hold has had its try; the tick itself works in order.                     *)
Order ==
    /\ \A e \in Events : e \in Tried => Status(e) # "absent"
    /\ \A e \in Events : row[e].attempts > 0 => e \in Tried
    /\ cur # None => (untried = HooksOf(conf) \/ cur \in Tried)
    /\ cur # None => \A d \in batch : cur < d
    /\ \A d, e \in Events :
        /\ d < e /\ d \notin late /\ Status(d) = "pending"
        /\ e \in Tried \/ ((e \in batch \/ e = cur) /\ d \notin batch /\ d # cur)
        => d \in Tried

LEMMA OrderInductive ==
    ASSUME TypeOK, TypeOK', Phase, Order, [Next]_vars
    PROVE  Order'
<1> USE DEF Order, Status
<1>0. ASSUME UNCHANGED tries PROVE UNCHANGED Tried
  BY <1>0 DEF Tried
<1>1. CASE RecordEvent
  BY <1>0, <1>1 DEF RecordEvent, dispatch, history, Status
<1>2. ASSUME NEW c \in Events, CommitEvent(c) PROVE Order'
  <2>1. /\ UNCHANGED <<tries, batch, cur, untried, conf>>
        /\ late \subseteq late'
        /\ \A e \in Events : row'[e].attempts = row[e].attempts
        /\ \A e \in Events : e # c => Status(e)' = Status(e)
        /\ Status(c) = "absent" /\ Status(c)' = "pending"
    BY <1>2 DEF CommitEvent, dispatch, TypeOK, Phase, Status
  <2>2. \A e \in Events : c < e /\ Status(e) # "absent" => c \in late'
    BY <1>2 DEF CommitEvent, Events
  <2>3. c \notin batch /\ c # cur /\ c \notin Tried
    BY <2>1, HooksAssumption DEF Phase, Events
  <2>4. \A e \in Events : e \in Tried \/ e \in batch \/ e = cur => Status(e) # "absent"
    BY HooksAssumption DEF Phase, Events
  <2> QED
    BY <1>0, <2>1, <2>2, <2>3, <2>4
<1>3. ASSUME NEW c \in Events, RollbackEvent(c) PROVE Order'
  BY <1>0, <1>3 DEF RollbackEvent, dispatch, history, Status
<1>4. CASE SkipDue
  <2>1. /\ UNCHANGED <<tries, batch, cur, untried, conf, late>>
        /\ \A e \in Events : row'[e].attempts = row[e].attempts
        /\ \A e \in Events : (Status(e)' = Status(e))
                             \/ (Status(e) = "pending" /\ Status(e)' = "skipped")
    BY <1>4 DEF SkipDue, dispatch, history, TypeOK, Status, Due
  <2> QED
    BY <1>0, <2>1
<1>5. CASE ReadDue
  <2>1. /\ UNCHANGED <<tries, row, cur, untried, conf, late>> /\ cur = None /\ batch = {}
        /\ batch' = Due
    BY <1>5 DEF ReadDue, history, Idle
  <2>2. \A d, e \in Events :
            Status(d) = "pending" /\ d \notin Due /\ e \in Due => d \in Tried
    <3> SUFFICES ASSUME NEW d \in Events, NEW e \in Events,
                        Status(d) = "pending", d \notin Due, e \in Due
                 PROVE  d \in Tried
      OBVIOUS
    <3>1. row[d].attempts \in Nat /\ row[e].attempts \in Nat /\ Budget(conf) \in Nat
      BY BudgetType DEF TypeOK
    <3>2. row[d].attempts >= Budget(conf) /\ row[e].attempts < Budget(conf)
      BY <3>1 DEF Due
    <3> QED
      BY <3>1, <3>2
  <2> QED
    BY <1>0, <2>1, <2>2, HooksAssumption DEF Status, Events
<1>6. CASE Settle
  <2>1. /\ UNCHANGED <<tries, batch, untried, conf, late>> /\ cur' = None
        /\ cur \in Events /\ untried = {}
    BY <1>6 DEF Settle, history, TypeOK
  <2>2. cur \in Tried /\ Status(cur) = "pending"
    BY <1>6, <2>1 DEF Phase, Settle
  <2>3. /\ \A e \in Events : e # cur => row'[e] = row[e]
        /\ row'[cur].status # "absent"
    <3>1. row' = [row EXCEPT ![cur] = Outcome(@)] /\ cur \in Events
      BY <1>6, <2>1 DEF Settle
    <3>2. Outcome(row[cur]).status # "absent"
      BY <2>2 DEF Outcome
    <3> QED
      BY <3>1, <3>2 DEF TypeOK
  <2>4. cur \in Tried' /\ UNCHANGED Tried /\ None \notin Events
    BY <1>0, <2>1, <2>2, HooksAssumption DEF Events
  <2>5. \A d \in Events : Status(d)' = "pending" => Status(d) = "pending"
    BY <2>2, <2>3
  <2>6. \A e \in Events : row'[e].attempts > 0 => e \in Tried
    BY <2>2, <2>3
  <2>7. \A e \in Events : e \in Tried => Status(e)' # "absent"
    BY <2>3
  <2> QED
    BY <2>1, <2>2, <2>4, <2>5, <2>6, <2>7
<1>7. ASSUME NEW c \in Events, Begin(c) PROVE Order'
  <2>1. /\ UNCHANGED <<tries, row, conf, late>> /\ cur = None /\ cur' = c
        /\ c \in batch /\ batch' = batch \ {c} /\ untried' = HooksOf(conf)
    BY <1>7 DEF Begin, OldestFirst, history
  <2>2. \A d \in batch' : c < d
    BY <1>7, <2>1 DEF Begin, OldestFirst, TypeOK, Events
  <2> QED
    BY <1>0, <2>1, <2>2, HooksAssumption DEF Status, Events
<1>8. ASSUME NEW h \in Hooks, NEW gotIt \in BOOLEAN, NEW ok \in BOOLEAN,
             Deliver(h, gotIt, ok)
      PROVE  Order'
  <2>1. cur \in Events /\ UNCHANGED <<row, conf, batch, cur, late>>
    BY <1>8 DEF Deliver, Rest, AnySuccess, TypeOK
  <2>2. tries' = [tries EXCEPT ![cur][h] = @ + 1]
    BY <1>8 DEF Deliver, Rest, AnySuccess
  <2>3. cur \in Tried'
    BY <2>1, <2>2 DEF Tried, TypeOK
  <2>4. \A e \in Events : e # cur => (e \in Tried' <=> e \in Tried)
    BY <2>1, <2>2 DEF Tried, TypeOK
  <2>5. \A d \in Events : d < cur => d \notin batch
    BY <1>8, <2>1 DEF Deliver, Rest, AnySuccess, Events
  <2>6. Status(cur) = "pending"
    BY <1>8 DEF Deliver, Rest, AnySuccess, Phase
  <2> QED
    BY <2>1, <2>3, <2>4, <2>5, <2>6 DEF Status, Events
<1>9. CASE Interrupted
  <2>1. UNCHANGED <<tries, row, late>> /\ batch' = {} /\ cur' = None
    BY <1>9 DEF Interrupted
  <2> QED
    BY <1>0, <2>1, HooksAssumption DEF Status, Events
<1>10. CASE UNCHANGED vars
  BY <1>0, <1>10 DEF vars, dispatch, history, Status
<1> QED
  BY <1>1, <1>2, <1>3, <1>4, <1>5, <1>6, <1>7, <1>8, <1>9, <1>10
  DEF Next, Produce, Dispatch, SettleFails, Restart

(* Hooks first hear of events in created_at order, save for an event whose   *)
(* commit was overtaken by a later one (bus.py:69-79, dispatcher.py:83).     *)
THEOREM FirstTries == Spec => []FirstTriesInOrder
<1>1. Init => Order
  BY HooksAssumption DEF Init, Order, Tried, Status, Events
<1>2. TypeOK /\ TypeOK' /\ Phase /\ Order /\ [Next]_vars => Order'
  BY OrderInductive
<1>3. Order => FirstTriesInOrder
  BY DEF Order, FirstTriesInOrder, Tried
<1> QED
  BY <1>1, <1>2, <1>3, TypeInvariant, PhaseInvariant, PTL DEF Spec

-----------------------------------------------------------------------------
LEMMA OutboxStep ==
    ASSUME TypeOK, Phase, Acks, [Next]_vars
    PROVE  [O!Next]_(O!vars)
<1> DEFINE status == [e \in Events |-> row[e].status]
<1> USE DEF TypeOK, Phase, Status
<1>1. ASSUME UNCHANGED <<row, heard>> PROVE [O!Next]_(O!vars)
  BY <1>1 DEF O!vars
<1>2. ASSUME NEW e \in Events, CommitEvent(e) PROVE [O!Next]_(O!vars)
  <2>1. /\ status' = [status EXCEPT ![e] = "pending"] /\ UNCHANGED heard
        /\ status[e] = "absent"
    BY <1>2 DEF CommitEvent
  <2>2. O!Record(e)
    BY <1>2, <2>1 DEF O!Record
  <2> QED
    BY <2>2 DEF O!Next
<1>3. CASE SkipDue
  <2>1. status' = [e \in Events |-> IF e \in Due THEN "skipped" ELSE status[e]]
    BY <1>3 DEF SkipDue
  <2>2. \A e \in Due : status[e] = "pending"
    BY DEF Due
  <2>3. PICK S \in SUBSET Events : S = Due
    BY DEF Due
  <2>4. O!Skip(S)
    BY <1>3, <2>1, <2>2, <2>3 DEF O!Skip, SkipDue, history
  <2> QED
    BY <2>4 DEF O!Next
<1>4. CASE Settle
  <2>1. PICK e \in Events : e = cur
    BY <1>4 DEF Settle
  <2>2. /\ status[e] = "pending" /\ UNCHANGED heard
        /\ row' = [row EXCEPT ![e] = Outcome(@)]
    BY <1>4, <2>1 DEF Settle, history
  <2>3. status' = [status EXCEPT ![e] = Outcome(row[e]).status]
    BY <2>2
  <2>4. CASE delivered
    <3>1. heard[e] # {}
      BY <1>4, <2>1, <2>4 DEF Acks, Settle
    <3>2. O!Send(e)
      BY <2>2, <2>3, <2>4, <3>1 DEF O!Send, Outcome
    <3> QED
      BY <3>2 DEF O!Next
  <2>5. CASE ~delivered /\ row[e].attempts + 1 >= Budget(conf)
    <3>1. O!GiveUp(e)
      BY <2>2, <2>3, <2>5 DEF O!GiveUp, Outcome
    <3> QED
      BY <3>1 DEF O!Next
  <2>6. CASE ~delivered /\ ~(row[e].attempts + 1 >= Budget(conf))
    BY <2>2, <2>3, <2>6 DEF Outcome, O!vars
  <2> QED
    BY <2>4, <2>5, <2>6
<1>5. ASSUME NEW h \in Hooks, NEW gotIt \in BOOLEAN, NEW ok \in BOOLEAN,
             Deliver(h, gotIt, ok)
      PROVE  [O!Next]_(O!vars)
  <2>1. CASE gotIt
    <3>1. O!Hear(cur, h) /\ cur \in Events
      BY <1>5, <2>1 DEF Deliver, Rest, AnySuccess, O!Hear
    <3> QED
      BY <3>1 DEF O!Next
  <2>2. CASE ~gotIt
    BY <1>1, <1>5, <2>2 DEF Deliver, Rest, AnySuccess
  <2> QED
    BY <2>1, <2>2
<1> QED
  BY <1>1, <1>2, <1>3, <1>4, <1>5
  DEF Next, Produce, Dispatch, RecordEvent, RollbackEvent, ReadDue, Begin,
      SettleFails, Restart, Interrupted, vars, history

(* The dispatcher, with its crashes, lost commits and duplicate deliveries,  *)
(* implements the outbox: every event is settled at most once, and as sent   *)
(* only if somebody heard it.                                                *)
THEOREM Refinement == Spec => ImplementsOutbox
<1>1. Init => O!Init
  BY DEF Init, O!Init
<1>2. TypeOK /\ Phase /\ Acks /\ [Next]_vars => [O!Next]_(O!vars)
  BY OutboxStep
<1> QED
  BY <1>1, <1>2, TypeInvariant, PhaseInvariant, AcksInvariant, PTL
  DEF Spec, ImplementsOutbox, O!Spec
=============================================================================
