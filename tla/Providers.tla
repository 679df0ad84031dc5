----------------------------- MODULE Providers ------------------------------
(***************************************************************************)
(* Looking a title up: each pass of enrich_all asks the enabled providers  *)
(* in registry order and merges their answers (matching/providers/         *)
(* __init__.py). Every request is throttled and retried (http.py); TMDB    *)
(* takes a second request for the IMDB id, TVDB a login before the first.  *)
(***************************************************************************)
EXTENDS Integers, Sequences, SequencesExt, FiniteSetsExt

CONSTANTS
    Passes,         \* enrichments under way, each with provider objects of its own
    Order,          \* the enabled providers, in registry order
    Interval,       \* of each provider: the limiter's _min_interval, in ticks
    Backoff,        \* _BACKOFF_SECONDS, in ticks
    Cap,            \* _MAX_RETRY_AFTER, in ticks
    RetryAfters,    \* values of the Retry-After header
    MaxAttempts,    \* _MAX_ATTEMPTS
    Nothing

Names == {"anilist", "tmdb", "tvdb"}

(* TMDB and AniList always have an opinion, TVDB if it knows a genre         *)
Opinions(k) == IF k = "tvdb" THEN BOOLEAN \cup {Nothing} ELSE BOOLEAN
Signals ==
    [source : Names, anime : BOOLEAN \cup {Nothing}, imdb : {"tmdb", "tvdb", Nothing}]

ProvidersFits ==
    /\ Order \in Seq(Names) /\ \A i, j \in DOMAIN Order : Order[i] = Order[j] => i = j
    /\ Order # <<>>
    /\ Interval \in [Names -> Nat \ {0}] /\ Backoff \in Nat /\ Cap \in Nat
    /\ RetryAfters \subseteq Nat /\ MaxAttempts \in Nat \ {0}
    /\ Nothing \notin Names /\ Nothing \notin BOOLEAN /\ Nothing \notin Signals
ASSUME ProvidersAssumption == ProvidersFits

VARIABLES
    at,         \* the provider a pass asks: its place in Order, past the end when all were
    call,       \* which request of that provider
    attempt,    \* how often that was sent
    asleep,     \* ticks until the retry
    cool,       \* ticks until the pass's limiter lets a request to a provider pass
    token,      \* the pass's TVDB object has a token
    valid,      \* and TVDB accepts it
    found,      \* what TMDB's search found, while the IMDB id is asked for
    merged,     \* lookup_all's merged answer
    reports,    \* history: the answers it was merged from
    since,      \* history: ticks since any pass sent a request to a provider
    hasty,      \* history: the providers a pass asked again before its interval was over
    crowded,    \* history: those any two passes asked so
    rejected    \* history: the pass's token has been refused

request == <<at, call, attempt, asleep>>
answer == <<found, merged, reports>>
history == <<since, hasty, crowded, rejected>>
vars == <<request, cool, token, valid, answer, history>>

Longest == IF Backoff * MaxAttempts > Cap THEN Backoff * MaxAttempts ELSE Cap
Ticks(k) == 0..Interval[k]

TypeOK ==
    /\ at \in [Passes -> 0..(Len(Order) + 1)]
    /\ call \in [Passes -> {"search", "ids", "login"}]
    /\ attempt \in [Passes -> 0..MaxAttempts]
    /\ asleep \in [Passes -> 0..Longest]
    /\ \A p \in Passes, k \in Names : cool[p][k] \in Ticks(k)
    /\ token \in [Passes -> BOOLEAN] /\ valid \in [Passes -> BOOLEAN]
    /\ found \in [Passes -> Signals \cup {Nothing}]
    /\ merged \in [Passes -> Signals \cup {Nothing}]
    /\ \A p \in Passes : reports[p] \in Seq(Signals) /\ Len(reports[p]) <= Len(Order)
    /\ \A k \in Names : since[k] \in Ticks(k)
    /\ hasty \subseteq Names /\ crowded \subseteq Names
    /\ rejected \in [Passes -> BOOLEAN]

Init ==
    /\ at = [p \in Passes |-> 0] /\ call = [p \in Passes |-> "search"]
    /\ attempt = [p \in Passes |-> 0] /\ asleep = [p \in Passes |-> 0]
    /\ cool = [p \in Passes |-> [k \in Names |-> 0]]
    /\ token = [p \in Passes |-> FALSE] /\ valid = [p \in Passes |-> FALSE]
    /\ found = [p \in Passes |-> Nothing] /\ merged = [p \in Passes |-> Nothing]
    /\ reports = [p \in Passes |-> <<>>]
    /\ since = Interval /\ hasty = {} /\ crowded = {}
    /\ rejected = [p \in Passes |-> FALSE]

-----------------------------------------------------------------------------
(* Time *)

Elapsed(n) == IF n = 0 THEN 0 ELSE n - 1

Tick ==
    /\ asleep' = [p \in Passes |-> Elapsed(asleep[p])]
    /\ cool' = [p \in Passes |-> [k \in Names |-> Elapsed(cool[p][k])]]
    /\ since' = [k \in Names |-> IF since[k] = Interval[k] THEN since[k] ELSE since[k] + 1]
    /\ UNCHANGED <<at, call, attempt, token, valid, answer, hasty, crowded, rejected>>

ExpireToken(p) ==
    /\ valid[p] /\ valid' = [valid EXCEPT ![p] = FALSE]
    /\ UNCHANGED <<request, cool, token, answer, history>>

-----------------------------------------------------------------------------
(* lookup_all *)

Asking(p) == at[p] \in DOMAIN Order
Provider(p) == Order[at[p]]

FirstCall(p, i, hasToken) ==
    IF i \in DOMAIN Order /\ Order[i] = "tvdb" /\ ~hasToken THEN "login" ELSE "search"

(* on to the provider at place i, with the token the pass then has           *)
GoesTo(p, i, hasToken) ==
    /\ at' = [at EXCEPT ![p] = i]
    /\ call' = [call EXCEPT ![p] = FirstCall(p, i, hasToken)]
    /\ attempt' = [attempt EXCEPT ![p] = 0] /\ asleep' = [asleep EXCEPT ![p] = 0]
    /\ token' = [token EXCEPT ![p] = hasToken]
    /\ found' = [found EXCEPT ![p] = Nothing]

Lookup(p) ==
    /\ at[p] = 0
    /\ GoesTo(p, 1, token[p])
    /\ UNCHANGED <<cool, valid, merged, reports, history>>

FilledByLast(m, s) ==       \* Mutant: the last opinion wins
    [m EXCEPT !.anime = IF s.anime # Nothing THEN s.anime ELSE @,
              !.imdb = IF @ = Nothing THEN s.imdb ELSE @]

FilledGaps(m, s) ==
    [m EXCEPT !.anime = IF @ = Nothing THEN s.anime ELSE @,
              !.imdb = IF @ = Nothing THEN s.imdb ELSE @]

(* the provider answers with signals s, and the next is asked                *)
Reports(p, s) ==
    /\ merged' = [merged EXCEPT ![p] = IF @ = Nothing THEN s ELSE FilledGaps(@, s)]
    /\ reports' = [reports EXCEPT ![p] = Append(@, s)]
    /\ GoesTo(p, at[p] + 1, token[p])

Silent(p, hasToken) ==
    /\ GoesTo(p, at[p] + 1, hasToken)
    /\ UNCHANGED <<merged, reports>>

(* the merged answer is stored with the title                                *)
Finish(p) ==
    /\ at[p] = Len(Order) + 1
    /\ GoesTo(p, 0, token[p])
    /\ merged' = [merged EXCEPT ![p] = Nothing] /\ reports' = [reports EXCEPT ![p] = <<>>]
    /\ UNCHANGED <<cool, valid, history>>

-----------------------------------------------------------------------------
(* request_json *)

Throttled(p) == cool[p][Provider(p)] = 0

Sends(p) ==
    LET k == Provider(p)
    IN /\ asleep[p] = 0 /\ attempt[p] < MaxAttempts /\ Throttled(p)
       /\ cool' = [cool EXCEPT ![p][k] = Interval[k]]
       /\ hasty' = IF cool[p][k] > 0 THEN hasty \cup {k} ELSE hasty
       /\ crowded' = IF since[k] < Interval[k] THEN crowded \cup {k} ELSE crowded
       /\ since' = [since EXCEPT ![k] = 0]

Nth(p) == attempt[p] + 1
NthUnlessLimited(p, limited) == IF limited THEN attempt[p] ELSE Nth(p)   \* Mutant
Counted(p, limited) == Nth(p)

GivesNothingKeepsToken(p) ==    \* Mutant: the token is kept
    IF call[p] = "ids" THEN Reports(p, found[p]) ELSE Silent(p, token[p])

(* a call returned None: TVDB forgets its token when a search does, TMDB     *)
(* does without the IMDB id when that request does                           *)
GivesNothing(p) ==
    CASE call[p] = "ids" -> Reports(p, found[p])
      [] call[p] = "search" -> Silent(p, token[p] /\ Provider(p) # "tvdb")
      [] call[p] = "login" -> Silent(p, FALSE)

Sleeps(p, limited, ticks) ==
    /\ attempt' = [attempt EXCEPT ![p] = Counted(p, limited)]
    /\ asleep' = [asleep EXCEPT ![p] = ticks]
    /\ UNCHANGED <<at, call, token, answer>>

(* no answer, or a server error                                              *)
Error(p) ==
    /\ Asking(p) /\ Sends(p)
    /\ IF Nth(p) = MaxAttempts THEN GivesNothing(p) ELSE Sleeps(p, FALSE, Backoff * Nth(p))
    /\ UNCHANGED <<valid, rejected>>

Delays == {IF r > Cap THEN Cap ELSE r : r \in RetryAfters} \cup {Backoff}

(* 429: the last attempt sleeps too, and then gives up                       *)
Limited(p) ==
    /\ Asking(p) /\ Sends(p)
    /\ \E d \in Delays : Sleeps(p, TRUE, d)
    /\ UNCHANGED <<valid, rejected>>

GiveUp(p) ==
    /\ Asking(p) /\ attempt[p] = MaxAttempts /\ asleep[p] = 0
    /\ GivesNothing(p)
    /\ UNCHANGED <<cool, valid, history>>

Accepted(p) == call[p] = "search" /\ Provider(p) = "tvdb" => valid[p]

(* any other status, or a body that is no object                             *)
Refused(p) ==
    /\ Asking(p) /\ Sends(p)
    /\ GivesNothing(p)
    /\ rejected' = [rejected EXCEPT ![p] = @ \/ ~Accepted(p)]
    /\ UNCHANGED valid

(* a body: a token, candidates or none, an id; what lookup() raises on is    *)
(* logged by lookup_all                                                      *)
LoggedIn(p) ==
    /\ Asking(p) /\ call[p] = "login" /\ Sends(p)
    /\ token' = [token EXCEPT ![p] = TRUE] /\ valid' = [valid EXCEPT ![p] = TRUE]
    /\ rejected' = [rejected EXCEPT ![p] = FALSE]
    /\ call' = [call EXCEPT ![p] = "search"] /\ attempt' = [attempt EXCEPT ![p] = 0]
    /\ UNCHANGED <<at, asleep, answer>>

NoCandidate(p) ==
    /\ Asking(p) /\ call[p] = "search" /\ Accepted(p) /\ Sends(p)
    /\ Silent(p, token[p])
    /\ UNCHANGED <<valid, rejected>>

Candidate(p) ==
    /\ Asking(p) /\ call[p] = "search" /\ Accepted(p) /\ Sends(p)
    /\ \E o \in Opinions(Provider(p)), withId \in BOOLEAN :
          LET s == [source |-> Provider(p), anime |-> o,
                    imdb |-> IF Provider(p) = "tvdb" /\ withId THEN "tvdb" ELSE Nothing]
          IN IF Provider(p) = "tmdb" /\ withId
             THEN /\ call' = [call EXCEPT ![p] = "ids"] /\ found' = [found EXCEPT ![p] = s]
                  /\ attempt' = [attempt EXCEPT ![p] = 0]
                  /\ UNCHANGED <<at, asleep, token, merged, reports>>
             ELSE Reports(p, s)
    /\ UNCHANGED <<valid, rejected>>

ExternalIds(p) ==
    /\ Asking(p) /\ call[p] = "ids" /\ Sends(p)
    /\ Reports(p, [found[p] EXCEPT !.imdb = "tmdb"])
    /\ UNCHANGED <<valid, rejected>>

-----------------------------------------------------------------------------
Step(p) ==
    \/ Error(p) \/ Limited(p) \/ GiveUp(p) \/ Refused(p)
    \/ LoggedIn(p) \/ NoCandidate(p) \/ Candidate(p) \/ ExternalIds(p)
    \/ Finish(p)

Next == Tick \/ \E p \in Passes : Lookup(p) \/ ExpireToken(p) \/ Step(p)

Spec == Init /\ [][Next]_vars

(* Time passes, and a pass that can go on does.                              *)
FairSpec == Spec /\ WF_vars(Tick) /\ \A p \in Passes : WF_vars(Step(p))

-----------------------------------------------------------------------------
(* Properties *)

(* Whatever is retried, and for whatever request, a pass leaves each         *)
(* provider its interval (http.py:34-53, 78-80).                             *)
OwnPaceKept == hasty = {}

(* A TVDB token that was refused is not used again: the next lookup logs in  *)
(* (tvdb.py:4-6, 92-96).                                                     *)
RefusedTokenIsDropped == \A p \in Passes : rejected[p] => ~token[p]

(* Pace, token and what is known of the lookup are in order throughout a     *)
(* lookup (http.py:34-104, tvdb.py:59-96).                                   *)
LookupOK == TypeOK /\ OwnPaceKept /\ RefusedTokenIsDropped

(* What lookup_all makes of the answers: the first opinion there is, and the *)
(* first IMDB id (providers/__init__.py:82-126).                             *)
FirstOf(s, field) ==
    LET known == {i \in DOMAIN s : s[i][field] # Nothing}
    IN IF known = {} THEN Nothing ELSE s[Min(known)][field]

MergedIsFirst ==
    \A p \in Passes :
        merged[p] = IF reports[p] = <<>> THEN Nothing
                    ELSE [f \in {"source", "anime", "imdb"} |-> FirstOf(reports[p], f)]

(* "A provider must never fail a scan": whatever the providers do, a lookup  *)
(* comes to its end (http.py:5-8).                                           *)
LookupEnds == \A p \in Passes : at[p] > 0 ~> at[p] = 0

(* "Respect the rate limits": "Requests are throttled client-side"           *)
(* (http.py:10-13).                                                          *)
RateLimitRespected == crowded = {}
=============================================================================
