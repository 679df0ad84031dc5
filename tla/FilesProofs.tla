----------------------------- MODULE FilesProofs -----------------------------
(***************************************************************************)
(* Theorems about what a library makes of the files on disk. Of Subtitles, *)
(* for any names, contents and languages: the stored tracks are the        *)
(* file's. Of Watcher, an instance W here, for any paths, any number of    *)
(* timer threads and a queue of any length: the handler loses no change    *)
(* between the event queue and the callbacks.                              *)
(***************************************************************************)
EXTENDS Subtitles, FiniteSetTheorems, TLAPS

CONSTANTS Rest, RootIsLink, Timers, MaxQueue
VARIABLES there, events, feeding, passed, pending, timer, stop, state, due, owed

W == INSTANCE Watcher

-----------------------------------------------------------------------------
(* The watcher: timers and batches *)

USE DEF W!PathsFit

(* What a timer thread has taken it is at work on: _fire finds nothing of an *)
(* earlier batch that it would overwrite.                                    *)
BatchesEnd == \A w \in Timers : state[w] # "running" => due[w] = {}

(* feed() is past its test of _stop with a path in hand.                     *)
InHand == passed => feeding # <<>>

Handled == W!TypeOK /\ W!PendingIsArmed /\ BatchesEnd /\ InHand
Kept == Handled /\ W!NothingForgotten

-----------------------------------------------------------------------------
(* Sequences and their members *)

LEMMA Appended ==
    ASSUME NEW S, NEW s \in Seq(S), NEW e \in S
    PROVE  W!ToSet(Append(s, e)) = W!ToSet(s) \cup {e}
<1>1. /\ Append(s, e) \in Seq(S) /\ Len(Append(s, e)) = Len(s) + 1
      /\ Append(s, e)[Len(s) + 1] = e /\ Len(s) \in Nat
      /\ \A i \in 1..Len(s) : Append(s, e)[i] = s[i]
  OBVIOUS
<1>2. DOMAIN Append(s, e) = DOMAIN s \cup {Len(s) + 1} /\ DOMAIN s = 1..Len(s)
  BY <1>1
<1>3. \A x \in W!ToSet(Append(s, e)) : x \in W!ToSet(s) \cup {e}
  BY <1>1, <1>2 DEF W!ToSet
<1>4. \A x \in W!ToSet(s) \cup {e} : x \in W!ToSet(Append(s, e))
  BY <1>1, <1>2 DEF W!ToSet
<1> QED
  BY <1>3, <1>4

LEMMA Split ==
    ASSUME NEW S, NEW s \in Seq(S), s # <<>>
    PROVE  /\ Head(s) \in S /\ Tail(s) \in Seq(S) /\ Len(Tail(s)) = Len(s) - 1
           /\ W!ToSet(s) = {Head(s)} \cup W!ToSet(Tail(s))
<1>1. /\ Head(s) = s[1] /\ Tail(s) \in Seq(S) /\ Len(Tail(s)) = Len(s) - 1
      /\ Len(s) \in Nat \ {0} /\ \A i \in 1..(Len(s) - 1) : Tail(s)[i] = s[i + 1]
  OBVIOUS
<1>2. DOMAIN s = 1..Len(s) /\ DOMAIN Tail(s) = 1..(Len(s) - 1)
  BY <1>1
<1>3. Head(s) \in S
  BY <1>1, <1>2
<1>4. \A x \in W!ToSet(s) : x \in {Head(s)} \cup W!ToSet(Tail(s))
  <2> SUFFICES ASSUME NEW i \in 1..Len(s), i # 1 PROVE s[i] \in W!ToSet(Tail(s))
    BY <1>1, <1>2 DEF W!ToSet
  <2>1. i - 1 \in 1..(Len(s) - 1) /\ Tail(s)[i - 1] = s[i]
    BY <1>1
  <2> QED
    BY <2>1, <1>2 DEF W!ToSet
<1>5. \A x \in {Head(s)} \cup W!ToSet(Tail(s)) : x \in W!ToSet(s)
  <2>1. 1 \in DOMAIN s /\ \A i \in 1..(Len(s) - 1) : i + 1 \in DOMAIN s
    BY <1>1, <1>2
  <2> QED
    BY <2>1, <1>1, <1>2 DEF W!ToSet
<1> QED
  BY <1>1, <1>3, <1>4, <1>5

LEMMA MembersType ==
    ASSUME NEW S, NEW s \in Seq(S)
    PROVE  W!ToSet(s) \subseteq S
BY DEF W!ToSet

-----------------------------------------------------------------------------
(* Types, timers and batches *)

LEMMA ChangeHandled ==
    ASSUME W!PathsFit,
           Handled, NEW e \in Seq(W!Paths), NEW exists \in SUBSET W!Paths, W!Change(e, exists)
    PROVE  Handled'
<1>1. events' \in Seq(Seq(W!Paths)) /\ Len(events') <= MaxQueue
  BY DEF Handled, W!TypeOK, W!Change
<1>2. owed' \subseteq W!Paths
  BY MembersType DEF Handled, W!TypeOK, W!Change
<1> QED
  BY <1>1, <1>2
  DEF Handled, W!TypeOK, W!PendingIsArmed, BatchesEnd, InHand, W!Change, W!observer,
      W!handler, W!threads

LEMMA WorldChanges ==
    ASSUME W!PathsFit,
           W!TypeOK, W!World
    PROVE  \E e \in Seq(W!Paths), exists \in SUBSET W!Paths : W!Change(e, exists)
<1> USE DEF W!TypeOK
<1>1. ASSUME NEW p \in W!Paths, W!Touch(p) \/ W!Appear(p) \/ W!Disappear(p)
      PROVE  \E exists \in SUBSET W!Paths : W!Change(<<p>>, exists)
  BY <1>1 DEF W!Touch, W!Appear, W!Disappear
<1>2. ASSUME NEW p \in W!Paths, NEW q \in W!Paths, W!Rename(p, q)
      PROVE  \E exists \in SUBSET W!Paths : W!Change(<<p, q>>, exists)
  BY <1>2 DEF W!Rename
<1>3. CASE \E p \in W!Paths : W!Touch(p) \/ W!Appear(p) \/ W!Disappear(p)
  <2>1. PICK p \in W!Paths, exists \in SUBSET W!Paths : W!Change(<<p>>, exists)
    BY <1>1, <1>3
  <2>2. <<p>> \in Seq(W!Paths)
    OBVIOUS
  <2> QED
    BY <2>1, <2>2
<1>4. CASE \E p, q \in W!Paths : W!Rename(p, q)
  <2>1. PICK p \in W!Paths, q \in W!Paths, exists \in SUBSET W!Paths :
              W!Change(<<p, q>>, exists)
    BY <1>2, <1>4
  <2>2. <<p, q>> \in Seq(W!Paths)
    OBVIOUS
  <2> QED
    BY <2>1, <2>2
<1> QED
  BY <1>3, <1>4 DEF W!World

LEMMA DoneHandled ==
    ASSUME W!PathsFit,
           Handled, NEW w \in Timers, NEW taken, NEW settled,
           NEW p \in due[w], W!Done(w, taken, settled)
    PROVE  Handled'
BY DEF Handled, W!TypeOK, W!PendingIsArmed, BatchesEnd, InHand, W!Done, W!observer, W!handler

(* The steps of the callback are all of one form.                            *)
Callback(w) == W!RescanVideo(w) \/ W!ScanLibrary(w) \/ W!ScanRaises(w) \/ W!Ignore(w)

LEMMA CallbackIsDone ==
    ASSUME W!PathsFit,
           NEW w \in Timers, Callback(w)
    PROVE  \E p \in due[w] : \E taken, settled : W!Done(w, taken, settled)
BY DEF Callback, W!RescanVideo, W!ScanLibrary, W!ScanRaises, W!Ignore

LEMMA StepHandled ==
    ASSUME W!PathsFit,
           Handled, [W!Next]_(W!vars)
    PROVE  Handled'
<1> USE DEF Handled
<1>1. CASE W!World
  <2>1. PICK e \in Seq(W!Paths), exists \in SUBSET W!Paths : W!Change(e, exists)
    BY <1>1, WorldChanges
  <2> QED
    BY <2>1, ChangeHandled
<1>2. CASE W!Dispatch
  <2>1. feeding' \in Seq(W!Paths) /\ events' \in Seq(Seq(W!Paths)) /\ Len(events') <= MaxQueue
    <3>1. Len(events) \in Nat /\ Len(events) <= MaxQueue
      BY DEF W!TypeOK
    <3> QED
      BY <1>2, <3>1, Split DEF W!Dispatch, W!Ends, W!TypeOK
  <2> QED
    BY <1>2, <2>1
    DEF W!Dispatch, W!TypeOK, W!PendingIsArmed, BatchesEnd, InHand, W!handler, W!threads
<1>3. CASE W!CheckStop
  <2>1. feeding' \in Seq(W!Paths)
    BY <1>3, Split DEF W!CheckStop, W!TypeOK
  <2> QED
    BY <1>3, <2>1
    DEF W!CheckStop, W!TypeOK, W!PendingIsArmed, BatchesEnd, InHand, W!handler, W!threads
<1>4. CASE W!Feed
  <2>1. feeding # <<>>
    BY <1>4 DEF W!Feed, InHand
  <2>2. feeding' \in Seq(W!Paths) /\ Head(feeding) \in W!Paths
    BY <1>4, <2>1, Split DEF W!Feed, W!TypeOK
  <2>3. CASE timer # Nothing
    BY <1>4, <2>2, <2>3 DEF W!Feed, W!TypeOK, W!PendingIsArmed, BatchesEnd, InHand
  <2>4. CASE timer = Nothing
    <3>1. PICK w \in Timers : /\ state[w] = "idle" /\ timer' = w
                              /\ state' = [state EXCEPT ![w] = "waiting"]
      BY <1>4, <2>4 DEF W!Feed, W!StartTimer
    <3>2. W!TypeOK'
      BY <1>4, <2>2, <3>1 DEF W!Feed, W!TypeOK
    <3>3. W!PendingIsArmed'
      BY <1>4, <2>4, <3>1 DEF W!Feed, W!TypeOK, W!PendingIsArmed
    <3>4. BatchesEnd' /\ InHand'
      BY <1>4, <3>1 DEF W!Feed, W!TypeOK, BatchesEnd, InHand
    <3> QED
      BY <3>2, <3>3, <3>4
  <2> QED
    BY <2>3, <2>4
<1>5. ASSUME NEW w \in Timers, W!TimerThread(w) PROVE Handled'
  <2>1. CASE W!Expire(w)
    BY <2>1
    DEF W!Expire, W!TypeOK, W!PendingIsArmed, BatchesEnd, InHand, W!observer, W!handler
  <2>2. CASE W!Fire(w)
    <3>1. W!TypeOK' /\ BatchesEnd' /\ InHand'
      BY <2>2 DEF W!Fire, W!TypeOK, BatchesEnd, InHand, W!observer
    <3>2. W!PendingIsArmed'
      BY <2>2 DEF W!Fire, W!TypeOK, W!PendingIsArmed
    <3> QED
      BY <3>1, <3>2
  <2>3. CASE Callback(w)
    BY <2>3, CallbackIsDone, DoneHandled
  <2>4. CASE W!Finish(w)
    BY <2>4
    DEF W!Finish, W!TypeOK, W!PendingIsArmed, BatchesEnd, InHand, W!observer, W!handler
  <2> QED
    BY <1>5, <2>1, <2>2, <2>3, <2>4 DEF W!TimerThread, Callback
<1>6. CASE W!SetStop
  BY <1>6 DEF W!SetStop, W!TypeOK, W!PendingIsArmed, BatchesEnd, InHand, W!observer, W!threads
<1>7. CASE W!CancelTimer
  BY <1>7 DEF W!CancelTimer, W!TypeOK, W!PendingIsArmed, BatchesEnd, InHand, W!observer
<1>8. CASE UNCHANGED W!vars
  BY <1>8
  DEF W!vars, W!TypeOK, W!PendingIsArmed, BatchesEnd, InHand, W!observer, W!handler,
      W!threads
<1> QED
  BY <1>1, <1>2, <1>3, <1>4, <1>5, <1>6, <1>7, <1>8 DEF W!Next, W!Observe

-----------------------------------------------------------------------------
(* Changes on their way *)

LEMMA Members ==
    ASSUME NEW S, NEW p
    PROVE  p \in UNION {W!ToSet(e) : e \in S} <=> \E e \in S : p \in W!ToSet(e)
OBVIOUS

(* A step that leaves every change it does not settle somewhere on its way   *)
(* forgets none.                                                             *)
LEMMA Carried ==
    ASSUME W!PathsFit,
           W!NothingForgotten, stop' = "no" => stop = "no",
           ~RootIsLink /\ stop' = "no" =>
               \A p \in owed' : (p \in owed => p \in W!Underway) => p \in W!Underway'
    PROVE  W!NothingForgotten'
BY DEF W!NothingForgotten

LEMMA StepCarries ==
    ASSUME W!PathsFit,
           Kept, [W!Next]_(W!vars)
    PROVE  W!NothingForgotten'
<1> USE DEF Kept
<1>0. W!TypeOK
  BY DEF Handled
<1>1. CASE W!World
  <2>1. PICK e \in Seq(W!Paths), exists \in SUBSET W!Paths : W!Change(e, exists)
    BY <1>1, <1>0, WorldChanges
  <2>2. W!ToSet(events') = W!ToSet(events) \cup {e}
    BY <2>1, <1>0, Appended DEF W!Change, W!TypeOK
  <2> QED
    BY <2>1, <2>2, Carried DEF W!Change, W!Underway, W!observer, W!handler, W!threads
<1>2. CASE W!Dispatch
  <2>1. W!ToSet(events) = {feeding'} \cup W!ToSet(events')
    BY <1>2, <1>0, Split DEF W!Dispatch, W!Ends, W!TypeOK
  <2>2. W!ToSet(feeding) = {}
    BY <1>2 DEF W!Dispatch, W!ToSet
  <2>3. \A p : (\E e \in W!ToSet(events) : p \in W!ToSet(e)) =>
               p \in W!ToSet(feeding') \/ \E e \in W!ToSet(events') : p \in W!ToSet(e)
    BY <2>1, Zenon
  <2>4. \A p : p \in UNION {W!ToSet(e) : e \in W!ToSet(events)} =>
               p \in (UNION {W!ToSet(e) : e \in W!ToSet(events')}) \cup W!ToSet(feeding')
    BY <2>3, Members
  <2> QED
    BY <1>2, <2>2, <2>4, Carried DEF W!Dispatch, W!Underway, W!handler, W!threads
<1>3. CASE W!CheckStop
  BY <1>3, Carried DEF W!CheckStop, W!Underway, W!handler, W!threads
<1>4. CASE W!Feed
  <2>1. W!ToSet(feeding) = {Head(feeding)} \cup W!ToSet(feeding')
    BY <1>4, <1>0, Split DEF W!Feed, W!TypeOK, Handled, InHand
  <2> QED
    BY <1>4, <2>1, Carried DEF W!Feed, W!Underway
<1>5. ASSUME NEW w \in Timers, W!TimerThread(w) PROVE W!NothingForgotten'
  <2>1. CASE W!Expire(w)
    BY <2>1, Carried DEF W!Expire, W!Underway, W!observer, W!handler
  <2>2. CASE W!Fire(w)
    <3>1. due[w] = {}
      BY <2>2 DEF W!Fire, Handled, BatchesEnd
    <3>2. due'[w] = pending /\ \A u \in Timers \ {w} : due'[u] = due[u]
      BY <2>2, <1>0 DEF W!Fire, W!TypeOK
    <3>3. \A p : p \in pending \/ (\E u \in Timers : p \in due[u]) =>
                 \E u \in Timers : p \in due'[u]
      BY <3>1, <3>2
    <3>4. \A p : p \in pending \cup (UNION {due[u] : u \in Timers}) =>
                 p \in UNION {due'[u] : u \in Timers}
      BY <3>3
    <3> QED
      BY <2>2, <3>4, Carried DEF W!Fire, W!Underway, W!observer
  <2>3. ASSUME NEW taken, NEW settled, W!Done(w, taken, settled),
               ~RootIsLink => \A p \in owed \cap taken : p \in settled
        PROVE  W!NothingForgotten'
    <3>1. due'[w] = due[w] \ taken /\ \A u \in Timers \ {w} : due'[u] = due[u]
      BY <2>3, <1>0 DEF W!Done, W!TypeOK
    <3>2. \A p : (\E u \in Timers : p \in due[u]) /\ p \notin taken =>
                 \E u \in Timers : p \in due'[u]
      BY <3>1
    <3>3. \A p : p \in UNION {due[u] : u \in Timers} /\ p \notin taken =>
                 p \in UNION {due'[u] : u \in Timers}
      BY <3>2
    <3>4. ~RootIsLink => \A p \in owed' : p \in owed /\ p \notin taken
      BY <2>3 DEF W!Done
    <3>5. /\ events' = events /\ feeding' = feeding /\ pending' = pending /\ stop' = stop
      BY <2>3 DEF W!Done, W!observer, W!handler
    <3>6. \A p : p \in W!Underway /\ p \notin taken => p \in W!Underway'
      <4> SUFFICES ASSUME NEW p, p \in W!Underway, p \notin taken,
                          p \notin UNION {due[u] : u \in Timers}
                   PROVE  p \in W!Underway'
        BY <3>3 DEF W!Underway
      <4> QED
        BY <3>5 DEF W!Underway
    <3> QED
      BY <3>4, <3>5, <3>6, Carried
  <2>4. CASE Callback(w)
    <3>1. CASE W!RescanVideo(w)
      BY <2>3, <3>1 DEF W!RescanVideo
    <3>2. CASE W!ScanLibrary(w)
      <4>1. owed \subseteq W!Paths
        BY <1>0 DEF W!TypeOK
      <4> QED
        BY <2>3, <3>2, <4>1 DEF W!ScanLibrary
    <3>3. CASE W!ScanRaises(w)
      BY <2>3, <3>3 DEF W!ScanRaises
    <3>4. CASE W!Ignore(w)
      <4>1. PICK p \in due[w] \cap Rest, d \in BOOLEAN :
                ~W!NeedsScan(p, d) /\ W!Done(w, {p}, IF d THEN {} ELSE {p})
        BY <3>4 DEF W!Ignore
      <4>2. ~RootIsLink => ~d
        BY <4>1 DEF W!NeedsScan
      <4> QED
        BY <2>3, <4>1, <4>2
    <3> QED
      BY <2>4, <3>1, <3>2, <3>3, <3>4 DEF Callback
  <2>5. CASE W!Finish(w)
    BY <2>5, Carried DEF W!Finish, W!Underway, W!observer, W!handler
  <2> QED
    BY <1>5, <2>1, <2>2, <2>4, <2>5 DEF W!TimerThread, Callback
<1>6. CASE W!SetStop
  BY <1>6, Carried DEF W!SetStop
<1>7. CASE W!CancelTimer
  BY <1>7, Carried DEF W!CancelTimer
<1>8. CASE UNCHANGED W!vars
  BY <1>8, Carried DEF W!vars, W!Underway, W!observer, W!handler, W!threads
<1> QED
  BY <1>1, <1>2, <1>3, <1>4, <1>5, <1>6, <1>7, <1>8 DEF W!Next, W!Observe

(* However the threads interleave, what is pending has the one timer that    *)
(* will fire for it, and until stop() no change is lost between the event    *)
(* queue and the callbacks (watcher.py:56-95, 187-195; app.py:154-191).      *)
THEOREM HandlerSound ==
    ASSUME W!PathsFit
    PROVE  W!Spec => []W!HandlerOK
<1>1. W!Init => Kept
  <2> SUFFICES ASSUME W!Init PROVE Kept
    OBVIOUS
  <2>1. W!TypeOK
    <3>1. events \in Seq(Seq(W!Paths)) /\ feeding \in Seq(W!Paths) /\ Len(events) <= MaxQueue
      BY DEF W!Init
    <3>2. /\ state \in [Timers -> {"idle", "waiting", "expired", "running"}]
          /\ due \in [Timers -> SUBSET W!Paths]
      BY DEF W!Init
    <3> QED
      BY <3>1, <3>2 DEF W!Init, W!TypeOK
  <2>2. W!PendingIsArmed /\ BatchesEnd /\ InHand /\ W!NothingForgotten
    BY DEF W!Init, W!PendingIsArmed, BatchesEnd, InHand, W!NothingForgotten
  <2> QED
    BY <2>1, <2>2 DEF Kept, Handled
<1>2. Kept /\ [W!Next]_(W!vars) => Kept'
  BY StepHandled, StepCarries DEF Kept
<1>3. Kept => W!HandlerOK
  BY DEF Kept, Handled, W!HandlerOK
<1> QED
  BY <1>1, <1>2, <1>3, PTL DEF W!Spec

-----------------------------------------------------------------------------
(* Rows and what a fingerprint tells of them *)

USE DEF SubtitlesFit
USE SubtitlesAssumption

Fits(r) ==
    /\ \E c \in Contents : r.digest = c.digest /\ r.mtime = c.mtime
    /\ r.tracks \in Seq(Track)

(* A row is what was stored of one content of its video, if its tracks and   *)
(* its fingerprint were not torn apart; of one that the fingerprint does not *)
(* tell from the present one, if a scan has passed it since anything changed.*)
Probed ==
    /\ file \in [Videos -> Contents] /\ disk \subseteq Sidecars
    /\ row = [v \in Videos |-> row[v]] /\ told = [v \in Videos |-> told[v]]
    /\ todo \subseteq Videos /\ hand \in [video : Videos, read : Contents] \cup {Nothing}
    /\ seen \in BOOLEAN /\ beside \cup torn \cup missed \subseteq Videos
    /\ \A v \in Videos : row[v] # Nothing => Fits(row[v]) /\ told[v] # Nothing
    /\ \A v \in Videos \ (beside \cup torn) :
          row[v] # Nothing => \E c \in Contents : row[v] = StoredOf(v, c, c)
    /\ seen => \A v \in Videos \ (beside \cup torn \cup missed \cup todo) :
          \E c \in Contents : Alike(c, file[v]) /\ row[v] = StoredOf(v, c, c)

-----------------------------------------------------------------------------
(* What is stored *)

LEMMA Listed ==
    ASSUME NEW S, IsFiniteSet(S)
    PROVE  SetToSeq(S) \in Seq(S)
<1> DEFINE n == Cardinality(S)
<1>1. n \in Nat /\ ExistsBijection(1..n, S)
  BY FS_CardinalityType
<1>2. \E f \in [1..n -> S] : IsInjective(f)
  BY <1>1 DEF ExistsBijection, Bijection, Injection
<1>3. SetToSeq(S) \in [1..n -> S]
  BY <1>2 DEF SetToSeq
<1> HIDE DEF n
<1> QED
  BY <1>1, <1>3

LEMMA SidecarIsTrack ==
    ASSUME NEW v \in Videos, NEW s \in Sidecars
    PROVE  SidecarTrack(v, s) \in Track
<1> DEFINE rest == SubSeq(s, Len(Stem[v]) + 1, Len(s))
<1>1. rest \in Seq(DOMAIN Language)
  <2>1. s \in Seq(DOMAIN Language) /\ Len(s) \in Nat /\ Len(Stem[v]) \in Nat
    OBVIOUS
  <2> QED
    BY <2>1
<1>2. rest # <<>> => Head(rest) \in DOMAIN Language
  <2> HIDE DEF rest
  <2> QED
    BY <1>1
<1> HIDE DEF rest
<1>3. /\ Parsed(rest).raw \in STRING \cup {Nothing}
      /\ Parsed(rest).language \in STRING \cup {Nothing}
      /\ Parsed(rest).flags \in SUBSET Flags
  BY <1>2 DEF Parsed
<1>4. SidecarTrack(v, s) =
        [kind |-> "subtitle", raw |-> Parsed(rest).raw, language |-> Parsed(rest).language,
         flags |-> Parsed(rest).flags, sidecar |-> s]
  BY DEF SidecarTrack, rest
<1> QED
  BY <1>3, <1>4 DEF Track

LEMMA EmbeddedIs ==
    ASSUME NEW c \in Contents
    PROVE  Embedded(c) \in Seq(Track)
<1> DEFINE T == [kind : {"audio", "subtitle"}, raw : DOMAIN Language \cup {Nothing},
                 flags : SUBSET Flags]
           t == c.tracks
           L(i) == IF t[i].raw = Nothing THEN Nothing ELSE Language[t[i].raw]
<1>1. t \in Seq(T)
  OBVIOUS
<1>2. Len(t) \in Nat /\ DOMAIN t = 1..Len(t) /\ \A i \in DOMAIN t : t[i] \in T
  <2> HIDE DEF t, T
  <2> QED
    BY <1>1
<1>3. Embedded(c) = [i \in 1..Len(t) |->
                       [kind |-> t[i].kind, raw |-> t[i].raw, language |-> L(i),
                        flags |-> t[i].flags, sidecar |-> Nothing]]
  BY <1>2 DEF Embedded
<1> HIDE DEF t
<1>4. \A i \in 1..Len(t) :
        [kind |-> t[i].kind, raw |-> t[i].raw, language |-> L(i), flags |-> t[i].flags,
         sidecar |-> Nothing] \in Track
  BY <1>2 DEF Track
<1> QED
  BY <1>2, <1>3, <1>4

LEMMA AddedIs ==
    ASSUME NEW v \in Videos, disk \subseteq Sidecars
    PROVE  Added(v) \in Seq(Track)
<1> DEFINE C == Collected(v)
           s == SetToSeq(C)
<1>1. C \subseteq Sidecars /\ IsFiniteSet(C)
  BY FS_Subset DEF Collected
<1>2. s \in Seq(C)
  <2> HIDE DEF C
  <2> QED
    BY <1>1, Listed
<1>3. Added(v) = [i \in DOMAIN s |-> SidecarTrack(v, s[i])]
  BY DEF Added
<1> HIDE DEF s, C
<1>4. Len(s) \in Nat /\ DOMAIN s = 1..Len(s) /\ \A i \in DOMAIN s : s[i] \in Sidecars
  BY <1>1, <1>2
<1>5. \A i \in DOMAIN s : SidecarTrack(v, s[i]) \in Track
  BY <1>4, SidecarIsTrack
<1> QED
  BY <1>3, <1>4, <1>5

LEMMA StoredFits ==
    ASSUME NEW v \in Videos, NEW c \in Contents, NEW d \in Contents, disk \subseteq Sidecars
    PROVE  Fits(StoredOf(v, c, d)) /\ StoredOf(v, c, d).tracks # Nothing
<1>1. /\ StoredOf(v, c, d).digest = d.digest /\ StoredOf(v, c, d).mtime = d.mtime
      /\ StoredOf(v, c, d).tracks = Embedded(c) \o Added(v)
  BY DEF StoredOf
<1>2. Embedded(c) \o Added(v) \in Seq(Track)
  <2>1. Embedded(c) \in Seq(Track) /\ Added(v) \in Seq(Track)
    BY EmbeddedIs, AddedIs
  <2> QED
    BY <2>1
<1> QED
  BY <1>1, <1>2 DEF Fits

(* If the file was not replaced between probe and fingerprint, or only by    *)
(* one alike, then what is stored is of one content, the one ffprobe read.   *)
LEMMA StoredOfOne ==
    ASSUME NEW v \in Videos, NEW c \in Contents, NEW d \in Contents, Alike(c, d)
    PROVE  StoredOf(v, c, d) = StoredOf(v, c, c)
<1>1. c.digest = d.digest /\ c.mtime = d.mtime /\ c.size = d.size
  BY DEF Alike
<1> QED
  BY <1>1 DEF StoredOf

-----------------------------------------------------------------------------
(* What a step does to a row *)

LEMMA StoredStays ==
    ASSUME UNCHANGED disk, NEW v \in Videos
    PROVE  \A c, d \in Contents : StoredOf(v, c, d)' = StoredOf(v, c, d)
<1>1. Collected(v)' = Collected(v)
  BY DEF Collected
<1>2. Added(v)' = Added(v)
  BY <1>1 DEF Added
<1> QED
  BY <1>2 DEF StoredOf

LEMMA InitProbed == Init => Probed
<1> SUFFICES ASSUME Init PROVE Probed
  OBVIOUS
<1>1. /\ file \in [Videos -> Contents] /\ disk \subseteq Sidecars
      /\ row = [v \in Videos |-> Nothing] /\ told = row
      /\ todo = {} /\ hand = Nothing
      /\ seen = FALSE /\ beside = {} /\ torn = {} /\ missed = {}
  BY DEF Init
<1>2. \A v \in Videos : row[v] = Nothing
  BY <1>1
<1> QED
  BY <1>1, <1>2 DEF Probed

LEMMA StoreKeepsProbed ==
    ASSUME Probed, Store
    PROVE  Probed'
<1>1. /\ file \in [Videos -> Contents] /\ disk \subseteq Sidecars
      /\ row = [w \in Videos |-> row[w]] /\ told = [w \in Videos |-> told[w]]
      /\ todo \subseteq Videos /\ seen \in BOOLEAN
      /\ beside \cup torn \cup missed \subseteq Videos
  BY DEF Probed
<1> DEFINE v == hand.video
           c == hand.read
           r == StoredOf(v, c, file[v])
<1>2. v \in Videos /\ c \in Contents /\ file[v] \in Contents
  BY <1>1 DEF Probed, Store
<1>3. Fits(r) /\ r.tracks # Nothing
  BY <1>1, <1>2, StoredFits
<1>4. /\ row' = [row EXCEPT ![v] = r]
      /\ told' = [told EXCEPT ![v] = r.tracks] \/ (told' = told /\ row[v] # Nothing)
      /\ beside' = beside \ {v} /\ missed' = missed \ {v}
      /\ torn' = IF Alike(c, file[v]) THEN torn \ {v} ELSE torn \cup {v}
      /\ todo' = todo \ {v} /\ hand' = Nothing
      /\ UNCHANGED <<file, disk, seen>>
  BY DEF Store, LetGo
<1>5. \A w \in Videos : \A d \in Contents : StoredOf(w, d, d)' = StoredOf(w, d, d)
  BY <1>4, StoredStays
<1>6. v \notin torn' => r = StoredOf(v, c, c) /\ Alike(c, file[v])
  BY <1>2, <1>4, StoredOfOne
<1> HIDE DEF r, v, c
<1>7. /\ row' = [w \in Videos |-> row'[w]] /\ told' = [w \in Videos |-> told'[w]]
      /\ \A w \in Videos : row'[w] = IF w = v THEN r ELSE row[w]
      /\ \A w \in Videos : w # v => told'[w] = told[w]
      /\ told'[v] = r.tracks \/ (told'[v] = told[v] /\ row[v] # Nothing)
  BY <1>1, <1>2, <1>4
<1>8. \A w \in Videos : row'[w] # Nothing => Fits(row'[w]) /\ told'[w] # Nothing
  BY <1>3, <1>7 DEF Probed
<1>9. ASSUME NEW w \in Videos \ (beside' \cup torn'), row'[w] # Nothing
      PROVE  \E d \in Contents : row'[w] = StoredOf(w, d, d)'
  <2>1. CASE w = v
    BY <1>2, <1>5, <1>6, <1>7, <1>9, <2>1
  <2>2. CASE w # v
    <3>1. w \in Videos \ (beside \cup torn) /\ row'[w] = row[w]
      BY <1>4, <1>7, <1>9, <2>2
    <3> QED
      BY <1>5, <1>9, <3>1 DEF Probed
  <2> QED
    BY <2>1, <2>2
<1>10. ASSUME seen', NEW w \in Videos \ (beside' \cup torn' \cup missed' \cup todo')
       PROVE  \E d \in Contents : Alike(d, file'[w]) /\ row'[w] = StoredOf(w, d, d)'
  <2>1. CASE w = v
    BY <1>2, <1>4, <1>5, <1>6, <1>7, <1>10, <2>1
  <2>2. CASE w # v
    <3>1. /\ w \in Videos \ (beside \cup torn \cup missed \cup todo)
          /\ row'[w] = row[w] /\ seen /\ file'[w] = file[w]
      BY <1>4, <1>7, <1>10, <2>2
    <3> QED
      BY <1>5, <3>1 DEF Probed
  <2> QED
    BY <2>1, <2>2
<1>11. hand' \in [video : Videos, read : Contents] \cup {Nothing} /\ todo' \subseteq Videos
       /\ beside' \cup torn' \cup missed' \subseteq Videos
  BY <1>1, <1>2, <1>4
<1> QED
  BY <1>1, <1>4, <1>7, <1>8, <1>9, <1>10, <1>11 DEF Probed

-----------------------------------------------------------------------------
(* The other steps of scans and rescans, and of the disk *)

(* Steps that leave the disk and the rows, and take no video off the list    *)
(* that the scan has not passed over or failed on.                           *)
LEMMA RowsKeepProbed ==
    ASSUME Probed, UNCHANGED <<file, disk, row, told, beside, torn>>,
           todo' \subseteq Videos, missed' \subseteq Videos, seen' \in BOOLEAN,
           hand' \in [video : Videos, read : Contents] \cup {Nothing},
           seen' => \A v \in Videos \ (beside \cup torn \cup missed' \cup todo') :
              \E c \in Contents : Alike(c, file[v]) /\ row[v] = StoredOf(v, c, c)
    PROVE  Probed'
<1>1. \A w \in Videos : \A d \in Contents : StoredOf(w, d, d)' = StoredOf(w, d, d)
  BY StoredStays
<1>2. \A w \in Videos \ (beside' \cup torn') :
        row'[w] # Nothing => \E c \in Contents : row'[w] = StoredOf(w, c, c)'
  BY <1>1 DEF Probed
<1>3. seen' => \A w \in Videos \ (beside' \cup torn' \cup missed' \cup todo') :
        \E c \in Contents : Alike(c, file'[w]) /\ row'[w] = StoredOf(w, c, c)'
  BY <1>1
<1>4. /\ file' \in [Videos -> Contents] /\ disk' \subseteq Sidecars
      /\ row' = [v \in Videos |-> row'[v]] /\ told' = [v \in Videos |-> told'[v]]
      /\ beside' \cup torn' \cup missed' \subseteq Videos
      /\ \A v \in Videos : row'[v] # Nothing => Fits(row'[v]) /\ told'[v] # Nothing
  BY DEF Probed
<1> QED
  BY <1>2, <1>3, <1>4 DEF Probed

(* The row of a video passed over is of a content that its fingerprint does  *)
(* not tell from the file's.                                                 *)
LEMMA PassedIsAlike ==
    ASSUME Probed, NEW v \in Videos \ (beside \cup torn), SameFile(v)
    PROVE  \E c \in Contents : Alike(c, file[v]) /\ row[v] = StoredOf(v, c, c)
<1>1. /\ row[v] # Nothing
      /\ row[v].digest = file[v].digest /\ row[v].mtime = file[v].mtime
  BY DEF SameFile
<1>2. PICK c \in Contents : row[v] = StoredOf(v, c, c)
  BY <1>1 DEF Probed
<1>3. StoredOf(v, c, c).digest = c.digest /\ StoredOf(v, c, c).mtime = c.mtime
  BY DEF StoredOf
<1> QED
  BY <1>1, <1>2, <1>3 DEF Alike

LEMMA PassOverKeepsProbed ==
    ASSUME Probed, NEW v \in Videos, PassOver(v)
    PROVE  Probed'
<1>1. /\ SameFile(v) /\ todo' = todo \ {v}
      /\ UNCHANGED <<file, disk, row, told, hand, seen, beside, torn, missed>>
  BY DEF PassOver, history
<1>2. ASSUME seen', NEW w \in Videos \ (beside \cup torn \cup missed' \cup todo')
      PROVE  \E c \in Contents : Alike(c, file[w]) /\ row[w] = StoredOf(w, c, c)
  <2>1. CASE w = v
    BY <1>1, <1>2, <2>1, PassedIsAlike
  <2>2. CASE w # v
    <3>1. w \in Videos \ (beside \cup torn \cup missed \cup todo) /\ seen
      BY <1>1, <1>2, <2>2
    <3> QED
      BY <3>1 DEF Probed
  <2> QED
    BY <2>1, <2>2
<1>3. /\ todo' \subseteq Videos /\ missed' \subseteq Videos /\ seen' \in BOOLEAN
      /\ hand' \in [video : Videos, read : Contents] \cup {Nothing}
  BY <1>1 DEF Probed
<1> QED
  BY <1>1, <1>2, <1>3, RowsKeepProbed

LEMMA ProbeErrorKeepsProbed ==
    ASSUME Probed, ProbeError
    PROVE  Probed'
<1>1. /\ missed' = missed \cup ({hand.video} \cap todo) /\ todo' = todo \ {hand.video}
      /\ hand' = Nothing /\ UNCHANGED <<file, disk, row, told, seen, beside, torn>>
  BY DEF ProbeError, LetGo
<1>2. missed \cup todo = missed' \cup todo'
  BY <1>1
<1>3. /\ todo' \subseteq Videos /\ missed' \subseteq Videos /\ seen' \in BOOLEAN
      /\ hand' \in [video : Videos, read : Contents] \cup {Nothing}
  BY <1>1 DEF Probed
<1>4. ASSUME seen', NEW w \in Videos \ (beside \cup torn \cup missed' \cup todo')
      PROVE  \E c \in Contents : Alike(c, file[w]) /\ row[w] = StoredOf(w, c, c)
  <2>1. w \in Videos \ (beside \cup torn \cup missed \cup todo) /\ seen
    BY <1>1, <1>2, <1>4
  <2> QED
    BY <2>1 DEF Probed
<1> QED
  BY <1>1, <1>3, <1>4, RowsKeepProbed

LEMMA OthersKeepProbed ==
    ASSUME Probed, StartScan \/ (\E v \in Videos : Probe(v)) \/ UNCHANGED vars
    PROVE  Probed'
<1>1. /\ UNCHANGED <<file, disk, row, told, beside, torn>>
      /\ todo' = Videos \/ UNCHANGED <<todo, seen, missed>>
      /\ todo' \subseteq Videos /\ missed' \subseteq Videos /\ seen' \in BOOLEAN
      /\ hand' \in [video : Videos, read : Contents] \cup {Nothing}
  <2>1. CASE StartScan
    BY <2>1 DEF StartScan, Probed
  <2>2. ASSUME NEW v \in Videos, Probe(v)
        PROVE  /\ UNCHANGED <<file, disk, row, told, todo, seen, beside, torn, missed>>
               /\ hand' = [video |-> v, read |-> file[v]] /\ file[v] \in Contents
    BY <2>2 DEF Probe, history, Probed
  <2>3. CASE UNCHANGED vars
    BY <2>3 DEF vars, history, Probed
  <2> QED
    BY <2>1, <2>2, <2>3 DEF Probed
<1>2. seen' => \A v \in Videos \ (beside \cup torn \cup missed' \cup todo') :
        \E c \in Contents : Alike(c, file[v]) /\ row[v] = StoredOf(v, c, c)
  <2>1. CASE todo' = Videos
    BY <2>1
  <2>2. CASE UNCHANGED <<todo, seen, missed>>
    BY <2>2 DEF Probed
  <2> QED
    BY <1>1, <2>1, <2>2
<1> QED
  BY <1>1, <1>2, RowsKeepProbed

(* A sidecar comes or goes: the rows of the videos it belongs to are beside. *)
LEMMA SidecarsAreBeside ==
    ASSUME Probed, NEW s \in Sidecars, ChangeSidecar(s)
    PROVE  Probed'
<1>1. /\ disk' = IF s \in disk THEN disk \ {s} ELSE disk \cup {s}
      /\ seen' = FALSE /\ UNCHANGED <<file, row, told, todo, hand, torn, missed>>
      /\ beside' = beside \cup {v \in Videos : IsPrefix(Stem[v], s)}
  BY DEF ChangeSidecar
<1>2. \A v \in Videos \ beside' : \A c \in Contents : StoredOf(v, c, c)' = StoredOf(v, c, c)
  <2> SUFFICES ASSUME NEW v \in Videos \ beside', NEW c \in Contents
               PROVE  StoredOf(v, c, c)' = StoredOf(v, c, c)
    OBVIOUS
  <2>1. ~IsPrefix(Stem[v], s)
    BY <1>1
  <2>2. Collected(v)' = Collected(v)
    BY <1>1, <2>1 DEF Collected
  <2>3. Added(v)' = Added(v)
    BY <2>2 DEF Added
  <2> QED
    BY <2>3 DEF StoredOf
<1>3. \A v \in Videos \ (beside' \cup torn') :
        row'[v] # Nothing => \E c \in Contents : row'[v] = StoredOf(v, c, c)'
  BY <1>1, <1>2 DEF Probed
<1>4. disk' \subseteq Sidecars /\ beside' \subseteq Videos
  BY <1>1 DEF Probed
<1> QED
  BY <1>1, <1>3, <1>4 DEF Probed

LEMMA ReplacedIsUnseen ==
    ASSUME Probed, NEW v \in Videos, NEW c \in Contents, ReplaceVideo(v, c)
    PROVE  Probed'
<1>1. /\ file' = [file EXCEPT ![v] = c] /\ seen' = FALSE
      /\ UNCHANGED <<disk, row, told, todo, hand, beside, torn, missed>>
  BY DEF ReplaceVideo
<1>2. \A w \in Videos : \A d \in Contents : StoredOf(w, d, d)' = StoredOf(w, d, d)
  BY <1>1, StoredStays
<1>3. file' \in [Videos -> Contents]
  BY <1>1 DEF Probed
<1>4. \A w \in Videos \ (beside' \cup torn') :
        row'[w] # Nothing => \E d \in Contents : row'[w] = StoredOf(w, d, d)'
  BY <1>1, <1>2 DEF Probed
<1> QED
  BY <1>1, <1>3, <1>4 DEF Probed

LEMMA NextProbed == Probed /\ [Next]_vars => Probed'
BY StoreKeepsProbed, PassOverKeepsProbed, ProbeErrorKeepsProbed, OthersKeepProbed,
   SidecarsAreBeside, ReplacedIsUnseen DEF Next

-----------------------------------------------------------------------------
(* The theorem about tracks *)

(* Through scans, rescans, failures and replacements, also of a file between *)
(* its probe and its fingerprint: an undisturbed scan leaves the tracks of   *)
(* what each file has, or of what its fingerprint does not tell from it, but *)
(* where sidecars alone changed, where the scan failed, and where tracks and *)
(* fingerprint were torn apart (service.py:206-275, 346-349, 412-476).       *)
THEOREM TracksStand == Spec => []TracksOK
<1>1. Probed => TypeOK
  BY DEF Probed, Fits, TypeOK
<1>2. Probed => ReplacedIsReprobed
  BY DEF Probed, ReplacedIsReprobed, Idle
<1>3. Probed => TracksOK
  BY <1>1, <1>2 DEF TracksOK
<1> QED
  BY <1>3, InitProbed, NextProbed, PTL DEF Spec
=============================================================================
