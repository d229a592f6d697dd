----------------------------- MODULE UserRequests -----------------------------
(***************************************************************************)
(* The review queue around one event: volunteers take and give back slots, *)
(* a role other than Regular is filed for review with the slot,            *)
(* beneficiaries apply for one of the places kept for them, and directors  *)
(* rule on what was filed.  Every call reads first and writes later; a     *)
(* ruling is written by the id of its request alone.  Proofs, reasons, the *)
(* trail and the notices are left out, and so are the requests that are    *)
(* not about an event.                                                     *)
(***************************************************************************)
EXTENDS Naturals, FiniteSets

CONSTANTS
    Volunteers, Beneficiaries,
    Requests,    \* the ids of requests
    FiledBy,     \* FiledBy[q]: who files request q; a volunteer's is for a role
    Roles,       \* what a volunteer may serve as besides Regular
    Slots,       \* max_participants
    Places,      \* max_beneficiaries
    Directors,   \* rulings in flight
    MaxRulings,  \* bound: the rulings directors take up
    Regular, NoRole, NoRequest

ASSUME ConstantsOK ==
    /\ IsFiniteSet(Volunteers) /\ IsFiniteSet(Requests) /\ IsFiniteSet(Directors)
    /\ Volunteers \cap Beneficiaries = {}
    /\ FiledBy \in [Requests -> Volunteers \cup Beneficiaries]
    /\ Slots \in Nat /\ Places \in Nat /\ MaxRulings \in Nat
    /\ Directors # {}
    /\ Regular \notin Roles /\ NoRole \notin Roles \cup {Regular}
    /\ NoRequest \notin Requests

VARIABLES
    phase,        \* where the event stands
    slot,         \* slot[v]: the registration of volunteer v
    participants, \* the event's tally of them
    status,       \* status[q]: where request q stands
    ask,          \* ask[v]: a volunteer's call between its check and its transaction
    desk,         \* desk[d]: a ruling between its checks and its write
    rulings

vars == <<phase, slot, participants, status, ask, desk, rulings>>

Empty == [role |-> NoRole, approval |-> "NONE", filed |-> NoRequest, crossed |-> FALSE]
NoAsk == [call |-> "idle", role |-> NoRole]
NoRuling == [request |-> NoRequest, ruling |-> "NONE"]

Rulings == {"ACCEPTED", "REJECTED", "DELETED", "PENDING"}
\* filed: the request of this very registration; crossed, a history: the ruling on
\* another request moved it.
SlotType ==
    [role : Roles \cup {Regular, NoRole}, approval : {"NONE", "PENDING", "APPROVED", "REJECTED"},
     filed : Requests \cup {NoRequest}, crossed : BOOLEAN]
AskType == [call : {"idle", "register", "unregister"}, role : Roles \cup {Regular, NoRole}]
DeskType == [request : Requests \cup {NoRequest}, ruling : Rulings \cup {"NONE"}]

TypeOK ==
    /\ phase \in {"Upcoming", "Ongoing", "Over"}
    /\ slot \in [Volunteers -> SlotType]
    /\ participants \in Nat
    /\ status \in [Requests -> Rulings \cup {"NONE", "FILING"}]
    /\ ask \in [Volunteers -> AskType]
    /\ desk \in [Directors -> DeskType]
    /\ rulings \in 0..MaxRulings

Init ==
    /\ phase = "Upcoming"
    /\ slot = [v \in Volunteers |-> Empty]
    /\ participants = 0
    /\ status = [q \in Requests |-> "NONE"]
    /\ ask = [v \in Volunteers |-> NoAsk]
    /\ desk = [d \in Directors |-> NoRuling]
    /\ rulings = 0

ForRole(q) == FiledBy[q] \in Volunteers
Open == phase \in {"Upcoming", "Ongoing"}
Registered == {v \in Volunteers : slot[v] # Empty}

----
(* Time *)

Starts ==
    /\ phase = "Upcoming" /\ phase' = "Ongoing"
    /\ UNCHANGED <<slot, participants, status, ask, desk, rulings>>

Finishes ==
    /\ phase = "Ongoing" /\ phase' = "Over"
    /\ UNCHANGED <<slot, participants, status, ask, desk, rulings>>

----
(* The volunteer *)

\* assertOpen
Asks(v, role) ==
    /\ ask[v] = NoAsk
    /\ Open
    /\ ask' = [ask EXCEPT ![v] = [call |-> "register", role |-> role]]
    /\ UNCHANGED <<phase, slot, participants, status, desk, rulings>>

\* register, serializable: who holds a slot keeps it as it is, a full event is left
\* alone, and a role is filed for review together with the slot.
Registers(v) ==
    LET role == ask[v].role
    IN  /\ ask[v].call = "register"
        /\ ask' = [ask EXCEPT ![v] = NoAsk]
        /\ IF slot[v] # Empty \/ Cardinality(Registered) >= Slots
           THEN UNCHANGED <<slot, status>>
           ELSE IF role = Regular
           THEN /\ slot' = [slot EXCEPT ![v] = [role |-> role, approval |-> "APPROVED",
                                                filed |-> NoRequest, crossed |-> FALSE]]
                /\ status' = status
           ELSE \E q \in Requests :
                /\ FiledBy[q] = v /\ status[q] = "NONE"
                /\ status' = [status EXCEPT ![q] = "PENDING"]
                /\ slot' = [slot EXCEPT ![v] = [role |-> role, approval |-> "PENDING",
                                                filed |-> q, crossed |-> FALSE]]
        /\ participants' = Cardinality(Registered')
        /\ UNCHANGED <<phase, desk, rulings>>

\* A slot may be given back until the event starts.
AsksOut(v) ==
    /\ ask[v] = NoAsk
    /\ phase = "Upcoming"
    /\ ask' = [ask EXCEPT ![v] = [call |-> "unregister", role |-> NoRole]]
    /\ UNCHANGED <<phase, slot, participants, status, desk, rulings>>

\* unregister, serializable: what still awaits review is withdrawn with the slot.
Unregisters(v) ==
    /\ ask[v].call = "unregister"
    /\ ask' = [ask EXCEPT ![v] = NoAsk]
    /\ slot' = [slot EXCEPT ![v] = Empty]
    /\ status' = [q \in Requests |->
         IF FiledBy[q] = v /\ status[q] = "PENDING" /\ slot[v] # Empty THEN "DELETED"
         ELSE status[q]]
    /\ participants' = Cardinality(Registered')
    /\ UNCHANGED <<phase, desk, rulings>>

\* The third serialization failure in a row is the caller's.
GivesUp(v) ==
    /\ ask[v] # NoAsk
    /\ ask' = [ask EXCEPT ![v] = NoAsk]
    /\ UNCHANGED <<phase, slot, participants, status, desk, rulings>>

----
(* The beneficiary *)

\* createEventJoin looks for an open application, then stores the proof.
Applies(q) ==
    /\ FiledBy[q] \in Beneficiaries /\ status[q] = "NONE"
    /\ Open
    /\ \A x \in Requests : FiledBy[x] = FiledBy[q] => status[x] # "PENDING"
    /\ status' = [status EXCEPT ![q] = "FILING"]
    /\ UNCHANGED <<phase, slot, participants, ask, desk, rulings>>

Files(q) ==
    /\ FiledBy[q] \in Beneficiaries /\ status[q] = "FILING"
    /\ status' = [status EXCEPT ![q] = "PENDING"]
    /\ UNCHANGED <<phase, slot, participants, ask, desk, rulings>>

----
(* The director *)

Accepted == {q \in Requests : FiledBy[q] \in Beneficiaries /\ status[q] = "ACCEPTED"}

\* Seeded fault: off by one.
PlaceOrOneMore == Open /\ Cardinality(Accepted) <= Places

\* assertBeneficiaryPlace
PlaceLeft == Open /\ Cardinality(Accepted) < Places

\* requireEventRoleAttendance
StillRegistered(q) == slot[FiledBy[q]] # Empty

TakesUp(d, q, ruling) ==
    /\ rulings < MaxRulings /\ rulings' = rulings + 1
    /\ desk[d] = NoRuling
    /\ desk' = [desk EXCEPT ![d] = [request |-> q, ruling |-> ruling]]
    /\ UNCHANGED <<phase, slot, participants, status, ask>>

Accepts(d, q) ==
    /\ status[q] = "PENDING"
    /\ IF ForRole(q) THEN StillRegistered(q) ELSE PlaceLeft
    /\ TakesUp(d, q, "ACCEPTED")

\* Seeded fault: a request that was decided can be rejected.
RejectsAny(d, q) == status[q] \in {"PENDING", "ACCEPTED"} /\ TakesUp(d, q, "REJECTED")

Rejects(d, q) == status[q] = "PENDING" /\ TakesUp(d, q, "REJECTED")

Removes(d, q) == status[q] = "PENDING" /\ TakesUp(d, q, "DELETED")

Restores(d, q) ==
    /\ status[q] = "DELETED"
    /\ ForRole(q) => StillRegistered(q)
    /\ TakesUp(d, q, "PENDING")

\* Seeded fault: the approval is set to the status of the request.
StandingAsIs(s) == s

\* What a request's status makes of the role it is about.
Standing(s) ==
    CASE s = "PENDING"  -> "PENDING"
      [] s = "ACCEPTED" -> "APPROVED"
      [] OTHER          -> "REJECTED"

\* Seeded fault: a removal leaves the registration alone.
RulesUnlessRemoved(d) ==
    LET q == desk[d].request
        v == FiledBy[q]
    IN  /\ desk[d] # NoRuling
        /\ status' = [status EXCEPT ![q] = desk[d].ruling]
        /\ slot' = IF ForRole(q) /\ slot[v] # Empty /\ desk[d].ruling # "DELETED"
                   THEN [slot EXCEPT ![v].approval = Standing(desk[d].ruling),
                                     ![v].crossed = @ \/ slot[v].filed # q]
                   ELSE slot
        /\ desk' = [desk EXCEPT ![d] = NoRuling]
        /\ UNCHANGED <<phase, participants, ask, rulings>>

\* decide and decideEventRole: the request, and whatever slot its volunteer holds now.
Rules(d) ==
    LET q == desk[d].request
        v == FiledBy[q]
    IN  /\ desk[d] # NoRuling
        /\ status' = [status EXCEPT ![q] = desk[d].ruling]
        /\ slot' = IF ForRole(q) /\ slot[v] # Empty
                   THEN [slot EXCEPT ![v].approval = Standing(desk[d].ruling),
                                     ![v].crossed = @ \/ slot[v].filed # q]
                   ELSE slot
        /\ desk' = [desk EXCEPT ![d] = NoRuling]
        /\ UNCHANGED <<phase, participants, ask, rulings>>

\* The process dies, or a deadlock makes the database refuse the write.
Drops(d) ==
    /\ desk[d] # NoRuling
    /\ desk' = [desk EXCEPT ![d] = NoRuling]
    /\ UNCHANGED <<phase, slot, participants, status, ask, rulings>>

----
Next ==
    \/ Starts \/ Finishes
    \/ \E v \in Volunteers :
         \/ \E role \in Roles \cup {Regular} : Asks(v, role)
         \/ AsksOut(v) \/ Registers(v) \/ Unregisters(v) \/ GivesUp(v)
    \/ \E q \in Requests : Applies(q) \/ Files(q)
    \/ \E d \in Directors :
         \/ \E q \in Requests : Accepts(d, q) \/ Rejects(d, q) \/ Removes(d, q) \/ Restores(d, q)
         \/ Rules(d) \/ Drops(d)

Spec == Init /\ [][Next]_vars

----
(* What must hold *)

\* "The app reads the role's standing off the attendance row, the portal off the
\* request, so they must never disagree": a slot stands where the request filed with it
\* does, until somebody rules on a request of an earlier registration.
StandingsAgree ==
    \A v \in Registered : ~slot[v].crossed =>
        slot[v].approval = IF slot[v].filed = NoRequest THEN "APPROVED"
                           ELSE Standing(status[slot[v].filed])

\* "The event's beneficiary cap is enforced against accepted requests": it is overrun by
\* no more places than there are directors beside the one who takes the last.
PlacesKept == Cardinality(Accepted) + 1 <= Places + Cardinality(Directors)

Quiet(q) == \A d \in Directors : desk[d].request # q

\* A decision is final: once a request is accepted or rejected, and nobody has a ruling
\* on it in hand that was taken up before, nobody moves it again.
DecisionsStand ==
    [][\A q \in Requests : status[q] \in {"ACCEPTED", "REJECTED"} /\ Quiet(q) =>
          status'[q] = status[q] /\ Quiet(q)']_vars
==============================================================================
