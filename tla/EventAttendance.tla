--------------------------- MODULE EventAttendance ---------------------------
(***************************************************************************)
(* Who was at an event.  Devices post location readings, live or later as  *)
(* a batch; once an event is over the sweep, the device's own late posts   *)
(* and directors rule on the registrations, each reading, asking the       *)
(* validator and writing in steps of its own.  What each volunteer is told *)
(* is a set of notices.  Remarks, the first and last reading shown on the  *)
(* roster, permissions and audit rows are left out.                        *)
(***************************************************************************)
EXTENDS Naturals, FiniteSets

CONSTANTS
    Events,      \* event ids
    Fenced,      \* the events that have a geofence
    Rows,        \* registrations, each of one volunteer at one event
    EventOf,     \* EventOf[r]: the event of registration r
    Batches,     \* what the devices post: one live reading, or an offline file
    Owner,       \* Owner[b]: the registration batch b was recorded for
    Tagged,      \* the batches posted with the id of their event
    Inside,      \* the batches with a reading inside the geofence
    Online,      \* the live ones
    Proofs,      \* the sets of batches the validator takes as presence
    Sweeps,      \* runs of the sweep that may overlap
    Directors,   \* manual rulings in flight
    Selections,  \* bound: the sets of registrations directors select
    Window,      \* how many events one sweep takes, 50 in the code
    MaxFaults,   \* bound: the calls that stop half way or fail to notify
    NoRow

ASSUME ConstantsOK ==
    /\ Events \subseteq Nat /\ IsFiniteSet(Events) /\ Fenced \subseteq Events
    /\ EventOf \in [Rows -> Events]
    /\ Owner \in [Batches -> Rows]
    /\ Tagged \subseteq Batches /\ Inside \subseteq Batches /\ Online \subseteq Batches
    /\ Sweeps \cap Batches = {} /\ Selections \subseteq SUBSET Rows
    /\ Window \in Nat \ {0} /\ MaxFaults \in Nat
    /\ NoRow \notin Rows

VARIABLES
    ended,       \* the events that are over
    landed,      \* the batches stored
    row,         \* row[r]: the registration, with the readings its hours come from
    judge,       \* judge[j]: where a sweep, or the ruling behind a post, is
    director,    \* director[d]: where a manual ruling is
    feed,        \* the notices of rulings
    muted,       \* history: the registrations that a ruling was not told of
    faults

vars == <<ended, landed, row, judge, director, feed, muted, faults>>

Judges == Sweeps \cup Batches
IdleJudge == [stage |-> "idle", queue |-> {}, rows |-> {}, read |-> {}, row |-> NoRow]
IdleDirector == [stage |-> "idle", rows |-> {}, row |-> NoRow]
Notices == [row : Rows, key : {"ruled", "manual"}, present : BOOLEAN]

RowType ==
    [status : {"PENDING", "COMPLETED", "ABSENT"},
     method : {"none", "GEOFENCE", "OFFLINE_SYNC", "AWAITING_SYNC", "MANUAL"},
     hours  : {"none", "measured", "scheduled"},
     basis  : SUBSET Batches]
JudgeType ==
    [stage : {"idle", "picked", "listed", "read", "ruling", "telling"},
     queue : SUBSET Events, rows : SUBSET Rows, read : SUBSET Batches,
     row : Rows \cup {NoRow}]
DirectorType ==
    [stage : {"idle", "marking", "telling"}, rows : SUBSET Rows, row : Rows \cup {NoRow}]

TypeOK ==
    /\ ended \subseteq Events /\ landed \subseteq Batches
    /\ row \in [Rows -> RowType]
    /\ judge \in [Judges -> JudgeType]
    /\ director \in [Directors -> DirectorType]
    /\ feed \subseteq Notices
    /\ muted \subseteq Rows
    /\ faults \in 0..MaxFaults

Init ==
    /\ ended = {} /\ landed = {}
    /\ row = [r \in Rows |-> [status |-> "PENDING", method |-> "none",
                              hours |-> "none", basis |-> {}]]
    /\ judge = [j \in Judges |-> IdleJudge]
    /\ director = [d \in Directors |-> IdleDirector]
    /\ feed = {} /\ muted = {}
    /\ faults = 0

\* Seeded fault: rows that were marked silent are not looked at again.
PendingUnmarked(e) ==
    {r \in Rows : EventOf[r] = e /\ row[r].status = "PENDING" /\ row[r].method # "AWAITING_SYNC"}

Of(r) == {b \in Batches : Owner[b] = r}
Pending(e) == {r \in Rows : EventOf[r] = e /\ row[r].status = "PENDING"}

----
(* Time *)

Ends(e) ==
    /\ ended' = ended \cup {e}
    /\ UNCHANGED <<landed, row, judge, director, feed, muted, faults>>

----
(* Readings *)

\* Seeded fault: the source is stored as the post calls it.
SourceAsPosted(b) == IF b \in Online THEN "LIVE" ELSE "OFFLINE_SYNC"

Source(b) == IF b \in Online THEN "GEOFENCE" ELSE "OFFLINE_SYNC"

\* recordPings: a reading inside the fence of a named event says where the row's
\* readings come from, unless something better is there.
Stored(b) ==
    IF b \in Inside \cap Tagged /\ row[Owner[b]].method \in {"none", "AWAITING_SYNC"}
    THEN [row EXCEPT ![Owner[b]].method = Source(b)]
    ELSE row

\* A post, or the repetition of one whose answer was lost; behind the answer a named
\* event is ruled on.  Bound: no repetition while the ruling of the first is going on.
Lands(b) ==
    /\ judge[b] = IdleJudge
    /\ landed' = landed \cup {b}
    /\ row' = Stored(b)
    /\ IF b \in Tagged
       THEN judge' = [judge EXCEPT ![b] = [IdleJudge EXCEPT !.stage = "picked",
                                                           !.queue = {EventOf[Owner[b]]}]]
       ELSE judge' = judge
    /\ UNCHANGED <<ended, director, feed, muted, faults>>

----
(* The validator's ruling: the sweep's, and the one behind a post *)

Waiting == {e \in ended : Pending(e) # {}}

\* The sweep takes the events with the lowest ids.
Picks(j) ==
    /\ judge[j] = IdleJudge
    /\ Waiting # {}
    /\ judge' = [judge EXCEPT ![j] = [IdleJudge EXCEPT
         !.stage = "picked",
         !.queue = {e \in Waiting : Cardinality({f \in Waiting : f < e}) < Window}]]
    /\ UNCHANGED <<ended, landed, row, director, feed, muted, faults>>

Current(j) == CHOOSE e \in judge[j].queue : \A f \in judge[j].queue : e <= f

\* The rest of the queue, once judge j is through with the event it was at.
Onward(j) ==
    LET rest == judge[j].queue \ {Current(j)}
    IN  IF rest = {} THEN IdleJudge
        ELSE [IdleJudge EXCEPT !.stage = "picked", !.queue = rest]

\* findPendingAttendance: of the whole event, or of the volunteer who posted; nothing
\* is done for an event that is still on, has nobody left or has no fence.
Lists(j) ==
    LET e  == Current(j)
        rs == {r \in Pending(e) : j \in Batches => r = Owner[j]}
    IN  /\ judge[j].stage = "picked"
        /\ judge' = [judge EXCEPT ![j] =
             IF rs = {} \/ e \notin ended \cap Fenced THEN Onward(j)
             ELSE [@ EXCEPT !.stage = "listed", !.rows = rs]]
        /\ UNCHANGED <<ended, landed, row, director, feed, muted, faults>>

Reads(j) ==
    /\ judge[j].stage = "listed"
    /\ judge' = [judge EXCEPT ![j].stage = "read",
                              ![j].read = {b \in landed : Owner[b] \in judge[j].rows}]
    /\ UNCHANGED <<ended, landed, row, director, feed, muted, faults>>

Heard(j) == {r \in judge[j].rows : Of(r) \cap judge[j].read # {}}

\* Seeded fault: whoever was silent is marked, whatever the row says by now.
MarkedOver(rs) ==
    [r \in Rows |-> IF r \in rs /\ row[r].status = "PENDING"
                    THEN [row[r] EXCEPT !.method = "AWAITING_SYNC"] ELSE row[r]]

\* markAwaitingSync
Marked(rs) ==
    [r \in Rows |-> IF r \in rs /\ row[r].status = "PENDING" /\ row[r].method = "none"
                    THEN [row[r] EXCEPT !.method = "AWAITING_SYNC"] ELSE row[r]]

\* Seeded fault: those without a reading are sent to the validator too.
MarksSilentAndJudges(j) ==
    /\ judge[j].stage = "read"
    /\ row' = Marked(judge[j].rows \ Heard(j))
    /\ judge' = [judge EXCEPT ![j] = [@ EXCEPT !.stage = "ruling"]]
    /\ UNCHANGED <<ended, landed, director, feed, muted, faults>>

\* Nobody without a reading goes to the validator.
MarksSilent(j) ==
    /\ judge[j].stage = "read"
    /\ row' = Marked(judge[j].rows \ Heard(j))
    /\ judge' = [judge EXCEPT ![j] =
         IF Heard(j) = {} THEN Onward(j)
         ELSE [@ EXCEPT !.stage = "ruling", !.rows = Heard(j)]]
    /\ UNCHANGED <<ended, landed, director, feed, muted, faults>>

\* Judge j has nothing more to do about registration r.
Past(j, r) ==
    IF judge[j].rows = {r} THEN Onward(j)
    ELSE [judge[j] EXCEPT !.stage = "ruling", !.rows = @ \ {r}, !.row = NoRow]

Present(j, r) == Of(r) \cap judge[j].read \in Proofs

\* Seeded fault: the update names the row by its id alone.
RulesUnguarded(j, r) ==
    /\ judge[j].stage = "ruling" /\ r \in judge[j].rows
    /\ row' = [row EXCEPT
         ![r].status = IF Present(j, r) THEN "COMPLETED" ELSE "ABSENT",
         ![r].hours = "measured",
         ![r].basis = Of(r) \cap judge[j].read]
    /\ judge' = [judge EXCEPT ![j].stage = "telling", ![j].row = r]
    /\ UNCHANGED <<ended, landed, director, feed, muted, faults>>

\* applyValidation: only a registration that is still PENDING is written and told.
Rules(j, r) ==
    /\ judge[j].stage = "ruling" /\ r \in judge[j].rows
    /\ IF row[r].status = "PENDING"
       THEN /\ row' = [row EXCEPT
                 ![r].status = IF Present(j, r) THEN "COMPLETED" ELSE "ABSENT",
                 ![r].hours = "measured",
                 ![r].basis = Of(r) \cap judge[j].read]
            /\ judge' = [judge EXCEPT ![j].stage = "telling", ![j].row = r]
       ELSE /\ judge' = [judge EXCEPT ![j] = Past(j, r)]
            /\ row' = row
    /\ UNCHANGED <<ended, landed, director, feed, muted, faults>>

\* A notice is dropped when its volunteer has one with the same key.
Notify(r, key, present) ==
    feed' = IF \E n \in feed : n.row = r /\ n.key = key THEN feed
            ELSE feed \cup {[row |-> r, key |-> key, present |-> present]}

Tells(j) ==
    LET r == judge[j].row
    IN  /\ judge[j].stage = "telling"
        /\ Notify(r, "ruled", Present(j, r))
        /\ judge' = [judge EXCEPT ![j] = Past(j, r)]
        /\ UNCHANGED <<ended, landed, row, director, muted, faults>>

Fault(r) ==
    /\ faults < MaxFaults
    /\ faults' = faults + 1
    /\ muted' = muted \cup ({r} \cap Rows)

\* The score, or the queue, cannot be reached: the failure is logged.
TellsNot(j) ==
    /\ judge[j].stage = "telling"
    /\ Fault(judge[j].row)
    /\ judge' = [judge EXCEPT ![j] = Past(j, judge[j].row)]
    /\ UNCHANGED <<ended, landed, row, director, feed>>

\* The validator cannot be reached, or the process dies: the whole call ends, and of
\* a sweep the events behind the current one with it.
Stops(j) ==
    /\ judge[j].stage # "idle"
    /\ Fault(judge[j].row)
    /\ judge' = [judge EXCEPT ![j] = IdleJudge]
    /\ UNCHANGED <<ended, landed, row, director, feed>>

----
(* Manual presence *)

Direct(d, stage, rs, r) ==
    director' = [director EXCEPT ![d] = [stage |-> stage, rows |-> rs, row |-> r]]

\* markPresentManually reads its rows; those COMPLETED already are skipped.
Selects(d, rs) ==
    /\ director[d].stage = "idle"
    /\ \A r \in rs : EventOf[r] \in ended
    /\ \E r \in rs : row[r].status # "COMPLETED"
    /\ Direct(d, "marking", {r \in rs : row[r].status # "COMPLETED"}, NoRow)
    /\ UNCHANGED <<ended, landed, row, judge, feed, muted, faults>>

Left(d, r) ==
    IF director[d].rows = {r} THEN IdleDirector
    ELSE [stage |-> "marking", rows |-> director[d].rows \ {r}, row |-> NoRow]

\* applyManualPresence
Marks(d, r) ==
    /\ director[d].stage = "marking" /\ r \in director[d].rows
    /\ IF row[r].status # "COMPLETED"
       THEN /\ row' = [row EXCEPT ![r] = [status |-> "COMPLETED", method |-> "MANUAL",
                                          hours |-> "scheduled", basis |-> {}]]
            /\ Direct(d, "telling", director[d].rows, r)
       ELSE /\ director' = [director EXCEPT ![d] = Left(d, r)]
            /\ row' = row
    /\ UNCHANGED <<ended, landed, judge, feed, muted, faults>>

\* Seeded fault: the correction goes out under the key of the ruling.
DirectorTellsPlain(d) ==
    /\ director[d].stage = "telling"
    /\ Notify(director[d].row, "ruled", TRUE)
    /\ director' = [director EXCEPT ![d] = Left(d, director[d].row)]
    /\ UNCHANGED <<ended, landed, row, judge, muted, faults>>

DirectorTells(d) ==
    /\ director[d].stage = "telling"
    /\ Notify(director[d].row, "manual", TRUE)
    /\ director' = [director EXCEPT ![d] = Left(d, director[d].row)]
    /\ UNCHANGED <<ended, landed, row, judge, muted, faults>>

DirectorTellsNot(d) ==
    /\ director[d].stage = "telling"
    /\ Fault(director[d].row)
    /\ director' = [director EXCEPT ![d] = Left(d, director[d].row)]
    /\ UNCHANGED <<ended, landed, row, judge, feed>>

DirectorStops(d) ==
    /\ director[d].stage # "idle"
    /\ Fault(director[d].row)
    /\ director' = [director EXCEPT ![d] = IdleDirector]
    /\ UNCHANGED <<ended, landed, row, judge, feed>>

----
\* What a ruling does when nothing gets in its way.
JudgeStep(j) ==
    \/ Lists(j) \/ Reads(j) \/ MarksSilent(j) \/ Tells(j)
    \/ \E r \in Rows : Rules(j, r)

SweepStep(j) == Picks(j) \/ JudgeStep(j)

Next ==
    \/ \E e \in Events : Ends(e)
    \/ \E b \in Batches : Lands(b)
    \/ \E j \in Sweeps : Picks(j)
    \/ \E j \in Judges : JudgeStep(j) \/ TellsNot(j) \/ Stops(j)
    \/ \E d \in Directors :
         \/ \E rs \in Selections : Selects(d, rs)
         \/ \E r \in Rows : Marks(d, r)
         \/ DirectorTells(d) \/ DirectorTellsNot(d) \/ DirectorStops(d)

Spec == Init /\ [][Next]_vars

\* The sweep comes round every five minutes and its worker runs what is ready.
FairSpec == Spec /\ \A j \in Sweeps : WF_vars(SweepStep(j))

----
(* What must hold *)

\* "Volunteers with nothing recorded are left PENDING as awaiting sync": a row says so
\* only while nothing inside the fence has landed for it, however the mark races with
\* the post.
AwaitingMeansSilent ==
    \A r \in Rows : row[r].method = "AWAITING_SYNC" =>
        landed \cap Of(r) \cap Inside \cap Tagged = {}

\* "Stored as MANUAL so the validator never overrides it": a row marked by hand is
\* present with the scheduled hours, and no other row has those.
ManualStands ==
    \A r \in Rows : row[r].method = "MANUAL" <=>
        row[r].hours = "scheduled" /\ row[r].status = "COMPLETED"

\* The method a row shows is where its standing comes from, whoever wrote there last.
MethodIsTrue == AwaitingMeansSilent /\ ManualStands

\* Nobody is ruled on silence: a measured ruling was taken from readings that had
\* landed, and is the validator's answer to those.
RuledOnReadings ==
    \A r \in Rows : row[r].hours = "measured" =>
        /\ row[r].basis # {} /\ row[r].basis \subseteq landed \cap Of(r)
        /\ row[r].status = IF row[r].basis \in Proofs THEN "COMPLETED" ELSE "ABSENT"

\* Every ruling is told, and a correction of an absence is told on top of it: the
\* notice is in the feed, about to be sent, or its sending failed.
EveryRulingHeard ==
    \A r \in Rows : row[r].status # "PENDING" =>
        \/ [row |-> r, key |-> IF row[r].hours = "scheduled" THEN "manual" ELSE "ruled",
            present |-> row[r].status = "COMPLETED"] \in feed
        \/ row[r].hours = "measured" /\ \E j \in Judges : judge[j].stage = "telling" /\ judge[j].row = r
        \/ row[r].hours = "scheduled" /\ \E d \in Directors :
             director[d].stage = "telling" /\ director[d].row = r
        \/ r \in muted

\* What this module promises to its readers.
Rulings == INSTANCE AttendanceRulings WITH
    status <- [r \in Rows |-> row[r].status],
    hours <- [r \in Rows |-> row[r].hours]
KeepsRulings == Rulings!Spec

\* The sweep could rule on r: it has readings, and its event is over.
Judgeable(r) ==
    /\ row[r].status = "PENDING"
    /\ EventOf[r] \in ended \cap Fenced
    /\ landed \cap Of(r) # {}

\* As many earlier events as a sweep takes still wait, for devices that stay silent
\* or for a fence.
Crowded(r) == Cardinality({e \in Waiting : e < EventOf[r]}) >= Window

\* "Every event that is over and still has un-ruled volunteers" is swept: a row with
\* readings is left unruled for ever only behind a full window of events that wait for
\* ever themselves.
NoRowForgotten == \A r \in Rows : <>[]Judgeable(r) => <>[]Crowded(r)
==============================================================================
