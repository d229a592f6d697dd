----------------------------- MODULE Certificates -----------------------------
(***************************************************************************)
(* Certificates of attendance: a director deploys a template on an event,  *)
(* the sweep cuts a sheet for whoever was present and has answered the     *)
(* questionnaire, and the volunteers open their sheets.  A sweep works     *)
(* from rows it read at its start, and one that outlives its runtime cap   *)
(* goes on beside the next.  Attendance is what AttendanceRulings says of  *)
(* it.  The wording beyond its version, signatures, references, audit rows *)
(* and the tallies of the template are left out.                           *)
(***************************************************************************)
EXTENDS Naturals, FiniteSets

CONSTANTS
    Events,
    Rows,        \* registrations, numbered in the order they were made
    EventOf,     \* EventOf[r]: the event of registration r
    Templates,
    Designs,     \* what a template may say: it stays editable once it is deployed
    Deployments, \* the pairs of a template and an event that are deployed
    TemplateOf, ForEvent,
    Sweeps,      \* runs of the sweep that may overlap
    Directors,   \* director requests in flight
    Viewers,     \* volunteers' requests in flight
    Corrigible,  \* bound: the registrations directors correct
    MaxRequests, \* bound: deploys, changes of status and openings
    MaxFaults,   \* bound: sweeps that outlive their cap, failures to issue, crashes
    Blank, NoDeployment, NoRow

ASSUME ConstantsOK ==
    /\ Rows \subseteq Nat /\ IsFiniteSet(Rows)
    /\ EventOf \in [Rows -> Events]
    /\ TemplateOf \in [Deployments -> Templates] /\ ForEvent \in [Deployments -> Events]
    /\ MaxRequests \in Nat /\ MaxFaults \in Nat
    /\ Blank \notin Designs /\ NoDeployment \notin Deployments /\ NoRow \notin Rows

VARIABLES
    over,        \* the events that have ended
    status,      \* status[r], hours[r]: the ruling on registration r
    hours,
    answered,    \* the registrations whose volunteer answered the questionnaire
    deployment,  \* deployment[d]: the row of deployment d
    sheet,       \* sheet[d][r]: the certificate cut on d for r, number 0 for none
    run,         \* run[j]: where sweep j is, and what it has read
    call,        \* call[c]: a director's request between its read and its write
    open,        \* open[v]: the sheet a volunteer's request is about to claim
    told,        \* the notices that a certificate is ready
    muted,       \* history: notices a failure kept back
    crossed,     \* history: the requests that got in one another's way on a deployment
    requests,
    faults

attendance == <<status, hours>>
vars == <<over, status, hours, answered, deployment, sheet, run, call, open,
          told, muted, crossed, requests, faults>>

Attendance == INSTANCE AttendanceRulings

NoSheet == [number |-> 0, design |-> Blank, hours |-> "none", claimed |-> FALSE]
Undeployed == [status |-> "NONE", design |-> Blank, participants |-> 0,
               distributed |-> 0, claimed |-> 0, byHand |-> FALSE,
               absent |-> {}, dropped |-> {}]
Unread == [design |-> Blank, distributed |-> 0]
IdleRun == [stage |-> "idle", due |-> {}, was |-> [d \in Deployments |-> Unread],
            at |-> NoDeployment, batch |-> [r \in Rows |-> "none"], top |-> 0,
            participants |-> 0, absent |-> {}, distributed |-> 0, claimed |-> 0]
IdleCall == [stage |-> "idle", at |-> NoDeployment, design |-> Blank, status |-> "NONE"]
Closed == [at |-> NoDeployment, row |-> NoRow]

\* History: byHand, for a COMPLETED that a director wrote; and, as the sweep that wrote the
\* row last left it, who was absent on its roster and whom its insert skipped.
Statuses == {"SCHEDULED", "DISTRIBUTING", "PAUSED", "COMPLETED"}
HoursRead == {"none", "measured", "scheduled"}
DeploymentType ==
    [status : Statuses \cup {"NONE"}, design : Designs \cup {Blank},
     participants : Nat, distributed : Nat, claimed : Nat, byHand : BOOLEAN,
     absent : SUBSET Rows, dropped : SUBSET Rows]
SheetType ==
    [number : Nat, design : Designs \cup {Blank}, hours : HoursRead, claimed : BOOLEAN]
ReadType == [design : Designs \cup {Blank}, distributed : Nat]
RunType ==
    [stage : {"idle", "begun", "gathered", "planned", "counted", "telling"},
     due : SUBSET Deployments, was : [Deployments -> ReadType],
     at : Deployments \cup {NoDeployment}, batch : [Rows -> HoursRead], top : Nat,
     participants : Nat, absent : SUBSET Rows, distributed : Nat, claimed : Nat]
CallType ==
    [stage : {"idle", "deploy", "status"}, at : Deployments \cup {NoDeployment},
     design : Designs \cup {Blank}, status : Statuses \cup {"NONE"}]

TypeOK ==
    /\ over \subseteq Events
    /\ Attendance!TypeOK
    /\ answered \subseteq Rows
    /\ deployment \in [Deployments -> DeploymentType]
    /\ sheet \in [Deployments -> [Rows -> SheetType]]
    /\ run \in [Sweeps -> RunType]
    /\ call \in [Directors -> CallType]
    /\ open \in [Viewers -> [at : Deployments \cup {NoDeployment}, row : Rows \cup {NoRow}]]
    /\ told \subseteq Deployments \X Rows /\ muted \subseteq Deployments \X Rows
    /\ crossed \subseteq Deployments \X {"deploy", "count", "open"}
    /\ requests \in 0..MaxRequests /\ faults \in 0..MaxFaults

Init ==
    /\ over = {} /\ answered = {}
    /\ Attendance!Init
    /\ deployment = [d \in Deployments |-> Undeployed]
    /\ sheet = [d \in Deployments |-> [r \in Rows |-> NoSheet]]
    /\ run = [j \in Sweeps |-> IdleRun]
    /\ call = [c \in Directors |-> IdleCall]
    /\ open = [v \in Viewers |-> Closed]
    /\ told = {} /\ muted = {} /\ crossed = {}
    /\ requests = 0 /\ faults = 0

Covered(d) == {r \in Rows : EventOf[r] = ForEvent[d]}
Held(d) == {r \in Rows : sheet[d][r].number # 0}
Claimed(d) == {r \in Held(d) : sheet[d][r].claimed}

----
(* The surroundings *)

Ends(e) ==
    /\ over' = over \cup {e}
    /\ UNCHANGED <<attendance, answered, deployment, sheet, run, call, open,
                   told, muted, crossed, requests, faults>>

\* Attendance is ruled on, or corrected, once the event is over.
Ruled(r) ==
    /\ EventOf[r] \in over
    /\ \/ \E s \in {"COMPLETED", "ABSENT"} : Attendance!Rule(r, s)
       \/ r \in Corrigible /\ Attendance!Correct(r)
    /\ UNCHANGED <<over, answered, deployment, sheet, run, call, open,
                   told, muted, crossed, requests, faults>>

\* submit: only whoever was present may answer.
Answers(r) ==
    /\ status[r] = "COMPLETED"
    /\ answered' = answered \cup {r}
    /\ UNCHANGED <<over, attendance, deployment, sheet, run, call, open,
                   told, muted, crossed, requests, faults>>

----
(* The director *)

Asked == requests < MaxRequests /\ requests' = requests + 1

Request(c, stage, d, g, s) ==
    call' = [call EXCEPT ![c] = [stage |-> stage, at |-> d, design |-> g, status |-> s]]

Sweeping(d) == \E j \in Sweeps : d \in run[j].due

\* What a deploy sent now meets: a sweep at work on the deployment, or a tally that two
\* sweeps left below the sheets there are.
Meets(d) ==
    (IF Sweeping(d) THEN {<<d, "deploy">>} ELSE {})
    \cup (IF deployment[d].distributed # Cardinality(Held(d)) THEN {<<d, "count">>} ELSE {})

\* Seeded fault: a template is deployed again whatever has been handed out.
DeploysOver(c, d, g) ==
    /\ call[c].stage = "idle" /\ Asked
    /\ Request(c, "deploy", d, g, deployment[d].status)
    /\ crossed' = crossed \cup Meets(d)
    /\ UNCHANGED <<over, attendance, answered, deployment, sheet, run, open,
                   told, muted, faults>>

\* deploy reads the template, which says g, and the deployment there may be; with
\* sheets handed out it is a conflict.
Deploys(c, d, g) ==
    /\ call[c].stage = "idle" /\ Asked
    /\ deployment[d].distributed = 0
    /\ Request(c, "deploy", d, g, deployment[d].status)
    /\ crossed' = crossed \cup Meets(d)
    /\ UNCHANGED <<over, attendance, answered, deployment, sheet, run, open,
                   told, muted, faults>>

\* Seeded fault: the status is stored as the portal spells it.
DerivedAsShown(d) == IF ForEvent[d] \in over THEN "distributing" ELSE "scheduled"

Derived(d) == IF ForEvent[d] \in over THEN "DISTRIBUTING" ELSE "SCHEDULED"

\* The row is recut with the status that was read, or created; of two that create it
\* the later fails on the unique key.
Deployed(c) ==
    LET d == call[c].at
    IN  /\ call[c].stage = "deploy"
        /\ deployment' =
             IF call[c].status # "NONE"
             THEN [deployment EXCEPT ![d].status = call[c].status, ![d].design = call[c].design,
                                     ![d].participants = Cardinality(Covered(d)),
                                     ![d].byHand = (call[c].status = "COMPLETED")]
             ELSE IF deployment[d].status = "NONE"
             THEN [deployment EXCEPT ![d].status = Derived(d), ![d].design = call[c].design,
                                     ![d].participants = Cardinality(Covered(d))]
             ELSE deployment
        /\ call' = [call EXCEPT ![c] = IdleCall]
        /\ UNCHANGED <<over, attendance, answered, sheet, run, open,
                       told, muted, crossed, requests, faults>>

\* updateStatus: a deployment read as COMPLETED stays so.
Steers(c, d, s) ==
    /\ call[c].stage = "idle" /\ Asked
    /\ deployment[d].status \notin {"NONE", "COMPLETED", s}
    /\ Request(c, "status", d, Blank, s)
    /\ UNCHANGED <<over, attendance, answered, deployment, sheet, run, open,
                   told, muted, crossed, faults>>

Steered(c) ==
    /\ call[c].stage = "status"
    /\ deployment' = [deployment EXCEPT ![call[c].at].status = call[c].status,
                                        ![call[c].at].byHand = (call[c].status = "COMPLETED")]
    /\ call' = [call EXCEPT ![c] = IdleCall]
    /\ UNCHANGED <<over, attendance, answered, sheet, run, open,
                   told, muted, crossed, requests, faults>>

----
(* The sweep *)

\* Seeded fault: a deployment is released only by a director.
DueDistributing ==
    {d \in Deployments : deployment[d].status = "DISTRIBUTING" /\ ForEvent[d] \in over}

\* findDueDeployments
Due ==
    {d \in Deployments : /\ deployment[d].status \in {"SCHEDULED", "DISTRIBUTING"}
                         /\ ForEvent[d] \in over}

\* The requests on a deployment found due that are between their read and their write.
Crossings ==
    {<<d, "deploy">> : d \in {call[c].at : c \in {b \in Directors : call[b].stage = "deploy"}} \cap Due}
    \cup {<<d, "open">> : d \in {open[v].at : v \in Viewers} \cap Due}

\* A sweep starts beside another when that one has outlived its cap.
Begins(j) ==
    /\ run[j].stage = "idle"
    /\ Due # {}
    /\ IF \A k \in Sweeps : run[k].stage = "idle" THEN faults' = faults
       ELSE faults < MaxFaults /\ faults' = faults + 1
    /\ run' = [run EXCEPT ![j] = [IdleRun EXCEPT !.stage = "begun", !.due = Due,
         !.was = [d \in Deployments |->
                    IF d \in Due THEN [design |-> deployment[d].design,
                                       distributed |-> deployment[d].distributed]
                    ELSE Unread]]]
    /\ crossed' = crossed \cup Crossings
    /\ UNCHANGED <<over, attendance, answered, deployment, sheet, call, open,
                   told, muted, requests>>

\* Seeded fault: the questionnaire is not asked for.
EarnedUnanswered(d) == {r \in Covered(d) : status[r] = "COMPLETED"}

Earned(d) == {r \in Covered(d) : status[r] = "COMPLETED" /\ r \in answered}

\* findEligibleParticipants
Gathers(j, d) ==
    /\ run[j].stage = "begun" /\ d \in run[j].due
    /\ run' = [run EXCEPT ![j].stage = "gathered", ![j].at = d,
         ![j].batch = [r \in Rows |-> IF r \in Earned(d) \ Held(d) THEN hours[r] ELSE "none"]]
    /\ UNCHANGED <<over, attendance, answered, deployment, sheet, call, open,
                   told, muted, crossed, requests, faults>>

InBatch(j) == {r \in Rows : run[j].batch[r] # "none"}

\* Seeded fault: only the registrations ruled COMPLETED count as covered.
RosterPresent(d) == {r \in Covered(d) : status[r] = "COMPLETED"}

\* countCoveredParticipants
Roster(d) == {r \in Covered(d) : status[r] # "ABSENT"}

Highest ==
    LET numbers == {0} \cup {sheet[d][r].number : d \in Deployments, r \in Rows}
    IN  CHOOSE n \in numbers : \A m \in numbers : m <= n

\* The sheets the run believes handed out once its batch is in.
Believed(j) == run[j].was[run[j].at].distributed + Cardinality(InBatch(j))

\* The highest number in use and the roster are read.
Plans(j) ==
    LET n == Cardinality(Roster(run[j].at))
    IN  /\ run[j].stage = "gathered"
        /\ run' = [run EXCEPT ![j].stage = "planned", ![j].top = Highest,
             ![j].participants = IF n >= Believed(j) THEN n ELSE Believed(j),
             ![j].absent = {r \in Covered(run[j].at) : status[r] = "ABSENT"}]
        /\ UNCHANGED <<over, attendance, answered, deployment, sheet, call, open,
                       told, muted, crossed, requests, faults>>

NumberFor(j, r) == run[j].top + Cardinality({q \in InBatch(j) : q <= r})
InUse(n) == \E d \in Deployments, r \in Rows : sheet[d][r].number = n

\* createMany skips a recipient who holds a sheet by now and a number that is taken.
Added(j) == {r \in InBatch(j) \ Held(run[j].at) : ~InUse(NumberFor(j, r))}

\* The batch of run j waits for the one run k has not committed: for the row of the
\* template, or for a number.
Waits(j, k) ==
    /\ InBatch(j) # {} /\ InBatch(k) # {}
    /\ \/ TemplateOf[run[j].at] = TemplateOf[run[k].at]
       \/ \E r \in InBatch(j), q \in Added(k) : NumberFor(j, r) = NumberFor(k, q)

\* Seeded fault: the tally is what the run believes.
CountsBelieved(j) ==
    /\ run[j].stage = "planned"
    /\ \A k \in Sweeps \ {j} : run[k].stage = "counted" => ~Waits(j, k)
    /\ run' = [run EXCEPT ![j].stage = "counted", ![j].distributed = Believed(j),
                          ![j].claimed = Cardinality(Claimed(run[j].at))]
    /\ UNCHANGED <<over, attendance, answered, deployment, sheet, call, open,
                   told, muted, crossed, requests, faults>>

\* issueBatch inserts and counts; what it inserted is seen when it commits.
Counts(j) ==
    /\ run[j].stage = "planned"
    /\ \A k \in Sweeps \ {j} : run[k].stage = "counted" => ~Waits(j, k)
    /\ run' = [run EXCEPT ![j].stage = "counted",
         ![j].distributed = Cardinality(Held(run[j].at) \cup Added(j)),
         ![j].claimed = Cardinality(Claimed(run[j].at))]
    /\ UNCHANGED <<over, attendance, answered, deployment, sheet, call, open,
                   told, muted, crossed, requests, faults>>

Complete(j) == run[j].participants > 0 /\ Believed(j) >= run[j].participants

\* Run j has nothing more to do on the deployment it is at.
Onward(j) ==
    LET rest == run[j].due \ {run[j].at}
    IN  IF rest = {} THEN IdleRun
        ELSE [IdleRun EXCEPT !.stage = "begun", !.due = rest,
                             !.was = [run[j].was EXCEPT ![run[j].at] = Unread]]

Commits(j) ==
    LET d == run[j].at
    IN  /\ run[j].stage = "counted"
        /\ sheet' = [sheet EXCEPT ![d] = [r \in Rows |->
             IF r \in Added(j)
             THEN [number |-> NumberFor(j, r), design |-> run[j].was[d].design,
                   hours |-> run[j].batch[r], claimed |-> FALSE]
             ELSE sheet[d][r]]]
        /\ deployment' = [deployment EXCEPT
             ![d].status = IF Complete(j) THEN "COMPLETED" ELSE "DISTRIBUTING",
             ![d].participants = run[j].participants, ![d].distributed = run[j].distributed,
             ![d].claimed = run[j].claimed, ![d].byHand = FALSE, ![d].absent = run[j].absent,
             ![d].dropped = InBatch(j) \ (Held(d) \cup Added(j))]
        /\ run' = [run EXCEPT ![j] = IF InBatch(j) = {} THEN Onward(j)
                                     ELSE [run[j] EXCEPT !.stage = "telling", !.top = 0,
                                                         !.participants = 0, !.absent = {},
                                                         !.distributed = 0, !.claimed = 0]]
        /\ UNCHANGED <<over, attendance, answered, call, open, told, muted,
                       crossed, requests, faults>>

\* Seeded fault: those are told who were added by the time of the commit.
NoticesLate(j) == {run[j].at} \X Added(j)

Notices(j) == {run[j].at} \X InBatch(j)

\* announce, to everyone of the batch; whoever has the notice does not get it again.
Announces(j) ==
    /\ run[j].stage = "telling"
    /\ told' = told \cup Notices(j)
    /\ run' = [run EXCEPT ![j] = Onward(j)]
    /\ UNCHANGED <<over, attendance, answered, deployment, sheet, call, open,
                   muted, crossed, requests, faults>>

Withheld(j) ==
    /\ faults < MaxFaults
    /\ faults' = faults + 1
    /\ muted' = IF run[j].stage = "telling" THEN muted \cup Notices(j) ELSE muted

\* Issuing for one deployment fails: the sweep logs it and goes on.
Fails(j) ==
    /\ run[j].stage \in {"gathered", "planned", "counted", "telling"}
    /\ Withheld(j)
    /\ run' = [run EXCEPT ![j] = Onward(j)]
    /\ UNCHANGED <<over, attendance, answered, deployment, sheet, call, open,
                   told, crossed, requests>>

\* The process dies.
Dies(j) ==
    /\ run[j].stage # "idle"
    /\ Withheld(j)
    /\ run' = [run EXCEPT ![j] = IdleRun]
    /\ UNCHANGED <<over, attendance, answered, deployment, sheet, call, open,
                   told, crossed, requests>>

----
(* The volunteer *)

\* open reads the sheet; the first opening claims it.
Opens(v, d, r) ==
    /\ open[v] = Closed /\ Asked
    /\ r \in Held(d) /\ ~sheet[d][r].claimed
    /\ open' = [open EXCEPT ![v] = [at |-> d, row |-> r]]
    /\ crossed' = IF Sweeping(d) \/ \E w \in Viewers : open[w] = [at |-> d, row |-> r]
                  THEN crossed \cup {<<d, "open">>} ELSE crossed
    /\ UNCHANGED <<over, attendance, answered, deployment, sheet, run, call,
                   told, muted, faults>>

\* Seeded fault: the tally of claims is left to the next recount.
ClaimsSilently(v) ==
    /\ open[v] # Closed
    /\ sheet' = [sheet EXCEPT ![open[v].at][open[v].row].claimed = TRUE]
    /\ open' = [open EXCEPT ![v] = Closed]
    /\ UNCHANGED <<over, attendance, answered, deployment, run, call, told, muted, crossed,
                   requests, faults>>

\* markClaimed
Claims(v) ==
    /\ open[v] # Closed
    /\ sheet' = [sheet EXCEPT ![open[v].at][open[v].row].claimed = TRUE]
    /\ deployment' = [deployment EXCEPT ![open[v].at].claimed = @ + 1]
    /\ open' = [open EXCEPT ![v] = Closed]
    /\ UNCHANGED <<over, attendance, answered, run, call, told, muted, crossed, requests, faults>>

----
\* What a sweep does when nothing gets in its way.
SweepStep(j) ==
    \/ Begins(j) \/ Plans(j) \/ Counts(j) \/ Commits(j) \/ Announces(j)
    \/ \E d \in Deployments : Gathers(j, d)

Next ==
    \/ \E e \in Events : Ends(e)
    \/ \E r \in Rows : Ruled(r) \/ Answers(r)
    \/ \E j \in Sweeps : SweepStep(j) \/ Fails(j) \/ Dies(j)
    \/ \E c \in Directors :
         \/ \E d \in Deployments , g \in Designs : Deploys(c, d, g)
         \/ \E d \in Deployments, s \in {"DISTRIBUTING", "PAUSED", "COMPLETED"} : Steers(c, d, s)
         \/ Deployed(c) \/ Steered(c)
    \/ \E v \in Viewers :
         \/ \E d \in Deployments, r \in Rows : Opens(v, d, r)
         \/ Claims(v)

Spec == Init /\ [][Next]_vars

\* The sweep comes round every few minutes and its worker runs what is ready.
FairSpec == Spec /\ \A j \in Sweeps : WF_vars(SweepStep(j))

----
(* What must hold *)

\* "The live page never shows more distributed than rows exist", whatever the sweeps
\* that overlap believe they have handed out.
DistributedHaveSheets == \A d \in Deployments : deployment[d].distributed <= Cardinality(Held(d))

\* A sheet is cut for somebody present who answered, for the hours the roster still
\* credits, and under a number nobody else's sheet has.
SheetsEarned ==
    \A d \in Deployments : \A r \in Held(d) :
        /\ status[r] = "COMPLETED" /\ r \in answered \cap Covered(d)
        /\ sheet[d][r].hours = hours[r]
        /\ \A x \in Deployments, q \in Rows :
             sheet[x][q].number = sheet[d][r].number => x = d /\ q = r

\* "A certificate already promised to a volunteer must not change wording underneath
\* them": sheets and deployment say the same, however sweeps overlap, unless a deploy was
\* on its way while a sweep was at work there, or was let through by a tally that two
\* sweeps had left below the sheets there were.
OneWording ==
    \A d \in Deployments :
        (crossed \cap {<<d, "deploy">>, <<d, "count">>} = {}) =>
            \A r \in Held(d) : sheet[d][r].design = deployment[d].design

\* The tally of claims is the number of sheets opened, however sweeps overlap, unless an
\* opening was on its way while a sweep was at work there or another opened that sheet.
ClaimsCounted ==
    \A d \in Deployments :
        <<d, "open">> \notin crossed => deployment[d].claimed = Cardinality(Claimed(d))

\* "Every covered participant now holds theirs": whoever lacks a sheet of a deployment
\* that a sweep completed was absent on the roster that sweep counted, or was in its
\* batch and lost the number to a sweep beside it.
CompletedIsComplete ==
    \A d \in Deployments :
        deployment[d].status = "COMPLETED" /\ ~deployment[d].byHand
        => Covered(d) \ Held(d) \subseteq deployment[d].absent \cup deployment[d].dropped

\* Whoever holds a sheet is told of it, or the telling failed.
HoldersTold ==
    \A d \in Deployments : \A r \in Held(d) :
        \/ <<d, r>> \in told \cup muted
        \/ \E j \in Sweeps : run[j].stage = "telling" /\ <<d, r>> \in Notices(j)

\* r has earned a certificate of d and holds none, though d is neither paused nor done.
Awaits(d, r) ==
    /\ r \in (Covered(d) \cap answered) \ Held(d) /\ status[r] = "COMPLETED"
    /\ deployment[d].status \in {"SCHEDULED", "DISTRIBUTING"}

\* Nobody who has earned a certificate waits for it for ever on a deployment that goes
\* out: the sheet comes, or the deployment is paused or completed again and again.
NobodyLeftWaiting == \A d \in Deployments, r \in Rows : []<>~Awaits(d, r)
==============================================================================
