------------------------------ MODULE Watcher -------------------------------
(***************************************************************************)
(* From a change on disk to a rescan: watchdog's event queue, one          *)
(* library's debounced handler (scanner/watcher.py) with its timer         *)
(* threads, and the callback the API hands it (api/app.py:154-210).        *)
(***************************************************************************)
EXTENDS Naturals, Sequences, FiniteSets, SequencesExt

CONSTANTS
    Videos, Rest,   \* paths with a video's suffix, and all others, directories too
    RootIsLink,     \* the library's configured root is a symbolic link
    Timers,         \* bound: threading.Timer threads alive at once
    MaxQueue,       \* bound: events watchdog holds
    Nothing

Paths == Videos \cup Rest

PathsFit ==
    /\ Videos \cap Rest = {} /\ Nothing \notin Paths \cup Timers
    /\ RootIsLink \in BOOLEAN /\ MaxQueue \in Nat
ASSUME PathsAssumption == PathsFit

VARIABLES
    there,      \* the paths that exist
    events,     \* watchdog's queue: each event a source and perhaps a destination
    feeding,    \* what the observer thread has yet to feed of one event
    passed,     \* it has passed feed()'s test of _stop for the first of these
    pending,    \* the paths in _pending
    timer,      \* _timer
    stop,       \* "no", "flagged" once _stop is set, "done" when stop() returned
    state,      \* what each timer thread does
    due,        \* the paths a timer thread has taken and is not done with
    owed        \* history: paths changed and since then neither dealt with by a
                \* callback nor dropped by one that raised

observer == <<feeding, passed>>
handler == <<pending, timer, stop>>
threads == <<state, due>>
vars == <<there, events, observer, handler, threads, owed>>

TypeOK ==
    /\ there \subseteq Paths
    /\ events \in Seq(Seq(Paths)) /\ Len(events) <= MaxQueue
    /\ feeding \in Seq(Paths) /\ passed \in BOOLEAN
    /\ pending \subseteq Paths
    /\ timer \in Timers \cup {Nothing} /\ stop \in {"no", "flagged", "done"}
    /\ state \in [Timers -> {"idle", "waiting", "expired", "running"}]
    /\ due \in [Timers -> SUBSET Paths]
    /\ owed \subseteq Paths

Init ==
    /\ there = Paths /\ events = <<>> /\ feeding = <<>> /\ passed = FALSE
    /\ pending = {} /\ timer = Nothing /\ stop = "no"
    /\ state = [w \in Timers |-> "idle"] /\ due = [w \in Timers |-> {}]
    /\ owed = {}

-----------------------------------------------------------------------------
(* The disk and watchdog *)

Change(event, exists) ==
    /\ Len(events) < MaxQueue
    /\ events' = Append(events, event)
    /\ there' = exists
    /\ owed' = owed \cup ToSet(event)
    /\ UNCHANGED <<observer, handler, threads>>

Touch(p) == p \in there /\ Change(<<p>>, there)
Appear(p) == p \notin there /\ Change(<<p>>, there \cup {p})
Disappear(p) == p \in there /\ Change(<<p>>, there \ {p})
Rename(p, q) == p \in there /\ q \notin there /\ Change(<<p, q>>, (there \ {p}) \cup {q})

(* _WatchdogBridge.dispatch feeds both ends of a move                        *)
Source(event) == <<Head(event)>>    \* Mutant: the destination is forgotten
Ends(event) == event
Dispatch ==
    /\ feeding = <<>> /\ events # <<>>
    /\ feeding' = Ends(Head(events)) /\ events' = Tail(events)
    /\ UNCHANGED <<there, passed, handler, threads, owed>>

-----------------------------------------------------------------------------
(* The debounced handler *)

(* feed() reads _stop before it takes the lock                               *)
CheckStop ==
    /\ feeding # <<>> /\ ~passed
    /\ IF stop = "no" THEN passed' = TRUE /\ UNCHANGED feeding
                      ELSE feeding' = Tail(feeding) /\ UNCHANGED passed
    /\ UNCHANGED <<there, events, handler, threads, owed>>

StartTimer ==
    \E w \in Timers :
        /\ state[w] = "idle"
        /\ timer' = w
        /\ state' = [state EXCEPT ![w] = "waiting"]

Feed ==
    /\ passed
    /\ passed' = FALSE /\ feeding' = Tail(feeding)
    /\ pending' = pending \cup {Head(feeding)}
    /\ IF timer = Nothing THEN StartTimer ELSE UNCHANGED <<timer, state>>
    /\ UNCHANGED <<there, events, stop, due, owed>>

Expire(w) ==
    /\ state[w] = "waiting"
    /\ state' = [state EXCEPT ![w] = "expired"]
    /\ UNCHANGED <<there, events, observer, handler, due, owed>>

FireKeepsTimer(w) ==    \* Mutant: _timer is not reset
    /\ state[w] = "expired"
    /\ due' = [due EXCEPT ![w] = pending] /\ pending' = {}
    /\ state' = [state EXCEPT ![w] = "running"]
    /\ UNCHANGED <<there, events, observer, timer, stop, owed>>

(* _fire takes everything pending and lets the next feed start a timer       *)
Fire(w) ==
    /\ state[w] = "expired"
    /\ due' = [due EXCEPT ![w] = pending] /\ pending' = {} /\ timer' = Nothing
    /\ state' = [state EXCEPT ![w] = "running"]
    /\ UNCHANGED <<there, events, observer, stop, owed>>

SetStop ==
    /\ stop = "no" /\ stop' = "flagged"
    /\ UNCHANGED <<there, events, observer, pending, timer, threads, owed>>

(* cancel() reaches a timer that still waits, not one that has expired       *)
CancelTimer ==
    /\ stop = "flagged" /\ stop' = "done"
    /\ timer' = Nothing
    /\ state' = [w \in Timers |->
                    IF w = timer /\ state[w] = "waiting" THEN "idle" ELSE state[w]]
    /\ UNCHANGED <<there, events, observer, pending, due, owed>>

-----------------------------------------------------------------------------
(* The callback, _debounced_rescan *)

Done(w, taken, settled) ==
    /\ due' = [due EXCEPT ![w] = @ \ taken]
    /\ owed' = owed \ settled
    /\ UNCHANGED <<there, events, observer, handler, state>>

(* one video, there or gone: manual_rescan_path or handle_missing_path, whose *)
(* failures are logged                                                       *)
RescanVideo(w) == \E p \in due[w] \cap Videos : Done(w, {p}, {p})

(* a directory, or anything else that is gone: its library is scanned. What  *)
(* _lib_for resolves is the path but not the root, so below a root that is a *)
(* link no library owns a directory.                                         *)
NeedsScan(p, directory) ==
    /\ p \in Rest
    /\ p \notin there \/ (directory /\ ~RootIsLink)
ScanLibrary(w) ==
    \E p \in due[w], d \in BOOLEAN : NeedsScan(p, d) /\ Done(w, {p}, Paths)

(* an exception there ends the thread, and with it what else was due         *)
ScanRaises(w) ==
    \E p \in due[w], d \in BOOLEAN : NeedsScan(p, d) /\ Done(w, due[w], due[w])

(* a sidecar or the like                                                     *)
Ignore(w) ==
    \E p \in due[w] \cap Rest, d \in BOOLEAN :
        ~NeedsScan(p, d) /\ Done(w, {p}, IF d THEN {} ELSE {p})

Finish(w) ==
    /\ state[w] = "running" /\ due[w] = {}
    /\ state' = [state EXCEPT ![w] = "idle"]
    /\ UNCHANGED <<there, events, observer, handler, due, owed>>

-----------------------------------------------------------------------------
World ==
    \/ \E p \in Paths : Touch(p) \/ Appear(p) \/ Disappear(p)
    \/ \E p, q \in Paths : Rename(p, q)

Observe == Dispatch \/ CheckStop \/ Feed

TimerThread(w) ==
    \/ Expire(w) \/ Fire(w) \/ RescanVideo(w) \/ ScanLibrary(w)
    \/ ScanRaises(w) \/ Ignore(w) \/ Finish(w)

Next == World \/ Observe \/ SetStop \/ CancelTimer \/ \E w \in Timers : TimerThread(w)

Spec == Init /\ [][Next]_vars

(* The threads run; nothing is assumed of the disk or of who calls stop().   *)
FairSpec ==
    /\ Spec
    /\ WF_vars(Observe) /\ WF_vars(CancelTimer)
    /\ \A w \in Timers : WF_vars(TimerThread(w))

-----------------------------------------------------------------------------
(* Properties *)

Underway ==
    (UNION {ToSet(e) : e \in ToSet(events)}) \cup ToSet(feeding) \cup pending
        \cup (UNION {due[w] : w \in Timers})

(* Until the watcher is stopped, a path that changed is on its way to a      *)
(* callback, whatever the threads interleave: between the event queue, the   *)
(* feed, the pending set and the timers it is in nobody's hands at no time   *)
(* (watcher.py:62-80, 187-195; app.py:154-191).                              *)
NothingForgotten == stop = "no" /\ ~RootIsLink => owed \subseteq Underway

(* What is pending has a timer that will fire for it, it is the one the      *)
(* handler can cancel, and no second one waits (watcher.py:66-77).           *)
PendingIsArmed ==
    stop = "no" =>
        /\ pending # {} => timer # Nothing
        /\ {w \in Timers : state[w] \in {"waiting", "expired"}} = {timer} \ {Nothing}

(* The handler's state is sound: of its types, never without a timer for     *)
(* what is pending, and no change is forgotten (watcher.py:56-95).           *)
HandlerOK == TypeOK /\ PendingIsArmed /\ NothingForgotten

(* However often files change, a callback takes up each change in the end: a *)
(* steady stream of events cannot put that off for ever (watcher.py:66-80).  *)
EveryChangeIsSeen ==
    ~RootIsLink =>
        \A p \in Paths : p \in owed ~> (p \notin owed \/ stop # "no")
=============================================================================
