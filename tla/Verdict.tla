------------------------------ MODULE Verdict -------------------------------
(***************************************************************************)
(* Who decides what a title is: the classifier, the metadata providers and *)
(* people, each in a database session that reads rows, computes, and       *)
(* writes the columns it changed when it commits (scanner/service.py:      *)
(* 552-790, api/app.py: identify and override, cli.py: resolve).           *)
(***************************************************************************)
EXTENDS Naturals, Sequences, FiniteSets, SequencesExt, FiniteSetsExt, Functions

CONSTANTS
    Titles, Labels,
    Signals,    \* answers of the providers
    Known,      \* what they know of each title: a signal or Nothing
    IdOf,       \* the external id in each signal
    GivenIds,   \* ids a person or a .plexmatch may give
    Classify,   \* classify(), of a title and of the signals and the id stored with it
    Threads,    \* request handlers, the scheduler, CLI processes
    MaxRow,     \* bound: ids
    Nothing, Outage, Unasked

Maybe(S) == S \cup {Nothing}
ExtIds == GivenIds \cup {IdOf[s] : s \in Signals}
Ids == 1..MaxRow

Columns == {"title", "sig", "checked", "ext", "label", "override"}

Row ==
    [title : Titles, sig : Maybe(Signals),
     checked : BOOLEAN,     \* provider_checked_at is within cache_ttl_days
     ext : Maybe(ExtIds), label : Maybe(Labels), override : BOOLEAN]

ASSUME VerdictAssumption ==
    /\ Known \in [Titles -> Maybe(Signals)] /\ Nothing \notin Signals \cup ExtIds \cup Labels
    /\ Classify \in [Titles \X Maybe(Signals) \X Maybe(ExtIds) -> Labels]
    /\ MaxRow \in Nat /\ Nothing \notin Row
    /\ {Outage, Unasked} \cap Maybe(Signals) = {} /\ Outage # Unasked

VARIABLES
    rows,       \* media_items
    kind,       \* what each thread does
    todo,       \* enrich_all: the ids and titles it has yet to look up
    heard,      \* the answer for the first of these
    got, put,   \* the rows an open session read, and what it made of them
    said,       \* history: the last label a person gave each row
    gave,       \* history: the id a person gave it, unless a commit raced with that
    raced,      \* history: rows whose label two sessions decided at once
    dated,      \* history: rows whose id changed since, or while, one decided their label
    unheard     \* history: rows whose last lookup was an outage

threads == <<kind, todo, heard, got, put>>
history == <<said, gave, raced, dated, unheard>>
vars == <<rows, threads, history>>

Live == {i \in Ids : rows[i] # Nothing}

TypeOK ==
    /\ rows \in [Ids -> Maybe(Row)]
    /\ kind \in [Threads -> {"idle", "match", "reclassify", "enrich", "identify", "verdict"}]
    /\ todo \in [Threads -> Seq([id : Ids, title : Titles])]
    /\ heard \in [Threads -> Maybe(Signals) \cup {Outage, Unasked}]
    /\ \A t \in Threads :
          /\ DOMAIN got[t] \subseteq Ids /\ DOMAIN put[t] = DOMAIN got[t]
          /\ Range(got[t]) \cup Range(put[t]) \subseteq Row
          /\ todo[t] # <<>> => kind[t] = "enrich"
          /\ heard[t] # Unasked => todo[t] # <<>>
    /\ said \in [Ids -> Maybe(Labels)] /\ gave \in [Ids -> Maybe(GivenIds)]
    /\ raced \cup dated \cup unheard \subseteq Ids

Init ==
    /\ rows = [i \in Ids |-> Nothing]
    /\ kind = [t \in Threads |-> "idle"]
    /\ todo = [t \in Threads |-> <<>>] /\ heard = [t \in Threads |-> Unasked]
    /\ got = [t \in Threads |-> <<>>] /\ put = [t \in Threads |-> <<>>]
    /\ said = [i \in Ids |-> Nothing] /\ gave = [i \in Ids |-> Nothing]
    /\ raced = {} /\ dated = {} /\ unheard = {}

-----------------------------------------------------------------------------
(* Scans come and go with the rows. A title found first has no label yet; it *)
(* has the id that its .plexmatch gives. SQLite takes the rowid after the    *)
(* largest, which may have been a row's that is gone.                        *)

IsNewId(i) == i - 1 \in {0} \cup Live /\ \A j \in Live : j < i

Create(x, n, e) ==
    /\ \A i \in Live : rows[i].title # x
    /\ IsNewId(n)
    /\ rows' = [rows EXCEPT ![n] =
                   [title |-> x, sig |-> Nothing, checked |-> FALSE, ext |-> e,
                    label |-> Nothing, override |-> FALSE]]
    /\ UNCHANGED <<threads, history>>

Drop(i) ==
    /\ rows[i] # Nothing
    /\ rows' = [rows EXCEPT ![i] = Nothing]
    /\ said' = [said EXCEPT ![i] = Nothing] /\ gave' = [gave EXCEPT ![i] = Nothing]
    /\ raced' = raced \ {i} /\ dated' = dated \ {i} /\ unheard' = unheard \ {i}
    /\ UNCHANGED threads

(* cache_ttl_days pass *)
Age(i) ==
    /\ rows[i] # Nothing /\ rows[i].checked
    /\ rows' = [rows EXCEPT ![i].checked = FALSE]
    /\ UNCHANGED <<threads, history>>

-----------------------------------------------------------------------------
(* What a session makes of a row *)

Verdict(r) == Classify[<<r.title, r.sig, r.ext>>]

ReclassifiedAlways(r) ==    \* Mutant: no test of the override
    [r EXCEPT !.label = Verdict(r)]
Reclassified(r) == IF r.override THEN r ELSE [r EXCEPT !.label = Verdict(r)]

(* a miss wipes the evidence of an earlier hit                               *)
StoredForce(r, s) ==        \* Mutant: ids are overwritten
    IF s = Nothing THEN [r EXCEPT !.checked = TRUE, !.sig = Nothing]
    ELSE [r EXCEPT !.checked = TRUE, !.sig = s, !.ext = IdOf[s]]
Stored(r, s) ==
    IF s = Nothing THEN [r EXCEPT !.checked = TRUE, !.sig = Nothing]
    ELSE [r EXCEPT !.checked = TRUE, !.sig = s,
                   !.ext = IF @ = Nothing THEN IdOf[s] ELSE @]

Labelled(r, l) ==
    IF l = Nothing THEN r ELSE [r EXCEPT !.label = l, !.override = TRUE]
Given(r, e) == IF e = Nothing THEN r ELSE [r EXCEPT !.ext = e]
Filled(r, e) == [r EXCEPT !.ext = IF @ = Nothing THEN e ELSE @]

-----------------------------------------------------------------------------
(* Sessions: the read *)

Idle(t) == kind[t] = "idle"

Opens(t, k, made) ==
    /\ kind' = [kind EXCEPT ![t] = k]
    /\ got' = [got EXCEPT ![t] = Restrict(rows, DOMAIN made)]
    /\ put' = [put EXCEPT ![t] = made]
    /\ UNCHANGED <<rows, history>>

ReclassifyAll(t) ==
    /\ Idle(t) /\ Live # {}
    /\ Opens(t, "reclassify", [i \in Live |-> Reclassified(rows[i])])
    /\ UNCHANGED <<todo, heard>>

(* a scan meets the title again, with an id in a .plexmatch                  *)
Rematch(t, i, e) ==
    /\ Idle(t) /\ i \in Live
    /\ Opens(t, "match", [j \in {i} |-> Filled(rows[j], e)])
    /\ UNCHANGED <<todo, heard>>

(* the API's identify and the CLI's resolve: an id, a label or both          *)
Identify(t, i, e, l) ==
    /\ Idle(t) /\ i \in Live
    /\ Opens(t, IF l = Nothing THEN "identify" ELSE "verdict",
             [j \in {i} |-> Labelled(Given(rows[j], e), l)])
    /\ UNCHANGED <<todo, heard>>

OverrideClassification(t, i, l) ==
    /\ Idle(t) /\ i \in Live
    /\ Opens(t, "verdict", [j \in {i} |-> Labelled(rows[j], l)])
    /\ UNCHANGED <<todo, heard>>

NeedsEnrichment(r, force) == force \/ ~r.checked

(* enrich_all takes its list, in the order the database has the rows in,     *)
(* then asks about each title with no session open, then reads the row again *)
Due(force) == {i \in Live : NeedsEnrichment(rows[i], force)}

EnrichAll(t) ==
    /\ Idle(t)
    /\ \E force \in BOOLEAN : \E order \in SetToSeqs(Due(force)) :
          /\ order # <<>>
          /\ todo' = [todo EXCEPT ![t] =
                [k \in DOMAIN order |-> [id |-> order[k], title |-> rows[order[k]].title]]]
    /\ kind' = [kind EXCEPT ![t] = "enrich"]
    /\ UNCHANGED <<rows, heard, got, put, history>>

Ask(t) ==
    /\ todo[t] # <<>> /\ heard[t] = Unasked
    /\ \E answer \in {Known[Head(todo[t]).title], Outage} :
          heard' = [heard EXCEPT ![t] = answer]
    /\ UNCHANGED <<rows, kind, todo, got, put, history>>

Asked(t) == heard[t] # Unasked /\ got[t] = <<>>

Answer(t) == IF heard[t] = Outage THEN Nothing ELSE heard[t]

OpenUnlabelled(t) ==        \* Mutant: the title is not reclassified
    /\ Asked(t)
    /\ LET i == Head(todo[t]).id
       IN /\ i \in Live
          /\ Opens(t, "enrich", [j \in {i} |-> Stored(rows[j], Answer(t))])
    /\ UNCHANGED <<todo, heard>>

OpenAnswered(t) ==
    /\ Asked(t)
    /\ LET i == Head(todo[t]).id
       IN /\ i \in Live
          /\ Opens(t, "enrich", [j \in {i} |-> Reclassified(Stored(rows[j], Answer(t)))])
    /\ UNCHANGED <<todo, heard>>

(* on to the next title *)
Advance(t) ==
    /\ todo' = [todo EXCEPT ![t] = Tail(@)]
    /\ heard' = [heard EXCEPT ![t] = Unasked]
    /\ kind' = [kind EXCEPT ![t] = IF Len(todo[t]) > 1 THEN "enrich" ELSE "idle"]

DeletedMidRun(t) ==
    /\ Asked(t) /\ Head(todo[t]).id \notin Live
    /\ Advance(t)
    /\ UNCHANGED <<rows, got, put, history>>

-----------------------------------------------------------------------------
(* Sessions: the commit *)

(* provider_checked_at is a new time whatever it was                         *)
Written(t, i) ==
    {c \in Columns : put[t][i][c] # got[t][i][c] \/ (kind[t] = "enrich" /\ c = "checked")}

Touched(t) == {i \in DOMAIN got[t] : Written(t, i) # {}}

Merged(t, i) == [c \in Columns |-> IF c \in Written(t, i) THEN put[t][i][c] ELSE rows[i][c]]

Closed(t) ==
    /\ got' = [got EXCEPT ![t] = <<>>] /\ put' = [put EXCEPT ![t] = <<>>]

Verdicts(r) == <<r.title, r.sig, r.label, r.override>>

(* another session changed what this one decided upon; a person may decide   *)
(* for what the row said already, and then nothing is written                *)
Raced(t) ==
    {i \in DOMAIN got[t] \cap Live :
        /\ i \in Touched(t) \/ kind[t] = "verdict"
        /\ Verdicts(rows[i]) # Verdicts(got[t][i])}

Classifies(t) == kind[t] \in {"reclassify", "enrich"}

(* the rows this session's decision stands for, undisturbed; a verdict that  *)
(* a person gave to a row then deleted does not come back with its rowid     *)
Settled(t) ==
    {i \in DOMAIN got[t] \cap Live :
        /\ Verdicts(rows[i]) = Verdicts(got[t][i])
        /\ \/ kind[t] = "verdict"
           \/ /\ Classifies(t) /\ rows[i].ext = got[t][i].ext
              /\ ~rows[i].override /\ said[i] = Nothing}

(* the rows left with another id than the one their label was decided by     *)
Dated(t) ==
    {i \in Touched(t) : IF Classifies(t) THEN rows[i].ext # got[t][i].ext
                        ELSE "ext" \in Written(t, i)}

Commit(t) ==
    /\ got[t] # <<>> /\ Touched(t) \subseteq Live
    /\ rows' = [i \in Ids |-> IF i \in Touched(t) THEN Merged(t, i) ELSE rows[i]]
    /\ said' = [i \in Ids |->
                   IF kind[t] = "verdict" /\ i \in DOMAIN got[t] \cap Live
                   THEN put[t][i].label ELSE said[i]]
    /\ gave' = [i \in Ids |->
                   IF i \notin Touched(t) \/ "ext" \notin Written(t, i) THEN gave[i]
                   ELSE IF kind[t] \in {"identify", "verdict"} THEN put[t][i].ext
                   ELSE IF rows[i].ext # got[t][i].ext THEN Nothing ELSE gave[i]]
    /\ raced' = (raced \ Settled(t)) \cup Raced(t)
    /\ dated' = (dated \ (IF Classifies(t) THEN Settled(t) ELSE {})) \cup Dated(t)
    /\ unheard' = IF kind[t] # "enrich" THEN unheard
                  ELSE IF heard[t] = Outage THEN unheard \cup DOMAIN got[t]
                  ELSE unheard \ DOMAIN got[t]
    /\ Closed(t)
    /\ IF kind[t] = "enrich" THEN Advance(t)
       ELSE kind' = [kind EXCEPT ![t] = "idle"] /\ UNCHANGED <<todo, heard>>

(* StaleDataError, a lock held too long, the end of the process: nothing is  *)
(* written, and an enrichment ends there                                     *)
Fail(t) ==
    /\ got[t] # <<>>
    /\ Closed(t)
    /\ kind' = [kind EXCEPT ![t] = "idle"]
    /\ todo' = [todo EXCEPT ![t] = <<>>] /\ heard' = [heard EXCEPT ![t] = Unasked]
    /\ UNCHANGED <<rows, history>>

-----------------------------------------------------------------------------
Person(t) ==
    \E i \in Ids :
        \/ \E e \in Maybe(GivenIds), l \in Maybe(Labels) : Identify(t, i, e, l)
        \/ \E l \in Labels : OverrideClassification(t, i, l)

Enrichment(t) == EnrichAll(t) \/ Ask(t) \/ OpenAnswered(t) \/ DeletedMidRun(t)

Next ==
    \/ \E x \in Titles, n \in Ids, e \in Maybe(GivenIds) : Create(x, n, e)
    \/ \E i \in Ids : Drop(i) \/ Age(i)
    \/ \E t \in Threads :
          \/ ReclassifyAll(t) \/ Person(t) \/ Enrichment(t) \/ Commit(t) \/ Fail(t)
          \/ \E i \in Ids, e \in GivenIds : Rematch(t, i, e)

Spec == Init /\ [][Next]_vars

-----------------------------------------------------------------------------
(* Properties *)

(* The label a person gave stands until a person gives another, unless two   *)
(* sessions decided the row's label at once (service.py:590, app.py:511-513, *)
(* 536-538).                                                                 *)
VerdictStands ==
    \A i \in Live \ raced :
        /\ rows[i].override <=> said[i] # Nothing
        /\ rows[i].override => rows[i].label = said[i]

(* A label no person gave is what the evidence stored beside it says: the    *)
(* title, the providers' answer and the ids, whichever sessions interleaved, *)
(* unless they raced; and unless the id changed after, or while, the label   *)
(* was decided: neither a person's identification nor a scan that fills an   *)
(* id in decides it anew (service.py:583-645, 725-790, app.py:499-506).      *)
LabelFollowsEvidence ==
    \A i \in Live \ (raced \cup dated) :
        ~rows[i].override /\ rows[i].label # Nothing => rows[i].label = Verdict(rows[i])

(* Rows and sessions fit together, and the labels fit the evidence           *)
(* (service.py:583-645, 699-790).                                            *)
LabelsOK == TypeOK /\ LabelFollowsEvidence

(* A provider's id never takes the place of one a person gave, unless the    *)
(* person gave it while the answer was being stored (service.py:713-720).    *)
GivenIdStands ==
    \A i \in Live : gave[i] # Nothing => rows[i].ext = gave[i]

(* Signals are stored with the title they were asked about: an item that is  *)
(* gone by then was "deleted mid-run" (service.py:762-767).                  *)
SignalsBelong ==
    \A i \in Live : rows[i].sig # Nothing => rows[i].sig = Known[rows[i].title]

(* "a manual verdict always wins" (service.py:591): no commit but a person's *)
(* moves the label of a row that carries one.                                *)
ManualVerdictWins ==
    [][(\A t \in Threads : kind[t] = "verdict" => kind'[t] = "verdict") =>
           \A i \in Live : rows[i].override /\ rows'[i] # Nothing =>
               rows'[i].label = rows[i].label]_vars

(* After an outage, "give up and try again on the next run" (http.py:30): a  *)
(* title the providers could not be asked about is due the next time.        *)
RetriedNextRun == \A i \in Live \cap unheard : NeedsEnrichment(rows[i], FALSE)
=============================================================================
