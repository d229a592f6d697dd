----------------------------- MODULE DonationPayments -----------------------------
(***************************************************************************)
(* Money donations: the checkout a donor opens, the gateway that takes the *)
(* money, and the two paths by which the outcome comes back, the gateway's *)
(* callback (one transaction) and the app's own status poll (no            *)
(* transaction), down to the ledger row and the notice to the donor.       *)
(*                                                                         *)
(* Every createPayment call that reserves a row makes a fresh gateway      *)
(* reference, so the row is named by the request that reserved it.  An     *)
(* await in the code ends an action here.                                  *)
(***************************************************************************)
EXTENDS Naturals

CONSTANTS
    Requests,     \* POST /donations/payments calls, each with an Idempotency-Key
    Keys,         \* the idempotency keys, of one donor
    KeyOf,        \* KeyOf[r]: the key request r carries
    MethodOf,     \* MethodOf[r]: the payment channel r asks for
    EventBacked,  \* the requests whose campaign is an event of the platform
    Pollers,      \* GET /donations/payments/:id calls in flight
    Fragile,      \* the pollers that may stop after they moved a row
    MaxFaults,    \* how many requests may die and callbacks roll back, in all
    NoRequest

Methods == {"GCASH", "QRPH", "CARD"}   \* BANK_TRANSFER runs CARD's code

ASSUME ConstantsOK ==
    /\ KeyOf \in [Requests -> Keys]
    /\ MethodOf \in [Requests -> Methods]
    /\ EventBacked \subseteq Requests
    /\ Fragile \subseteq Pollers
    /\ MaxFaults \in Nat
    /\ NoRequest \notin Requests

VARIABLES
    req,       \* req[r]: where createPayment is in request r
    answer,    \* answer[r]: the row the 200 of r names
    row,       \* row[r]: status of the DonationPayment r reserved
    linked,    \* rows whose checkout the gateway opened and attachCheckout stored
    charge,    \* charge[r]: what became of it at the gateway
    due,       \* callbacks the gateway has to deliver until it reads a 2xx
    recorded,  \* PaymentWebhookEvent: the webhook ids already applied
    hook,      \* hook[r]: how far the transaction applying r's callback is
    poll,      \* poll[p]: how far status poll p is, and with what outcome
    ledger,    \* the rows that have their MONEY Donation
    jobs,      \* publish jobs on the notification queue
    feed,      \* the notices in the donor's feed, by their dedupe key
    faults

vars == <<req, answer, row, linked, charge, due, recorded, hook, poll, ledger,
          jobs, feed, faults>>
checkoutVars == <<req, answer, linked>>
settlementVars == <<due, recorded, hook, poll, ledger, jobs, feed>>

Settled == {"PAID", "FAILED", "EXPIRED"}
InFlight == {"missed", "reserved", "opened", "releasing", "collided"}
Final == {"captured", "short", "failed", "expired"}
Notices == Requests \X Settled
IdlePoll == [stage |-> "idle", ref |-> NoRequest, outcome |-> "none"]

TypeOK ==
    /\ req \in [Requests -> {"new", "done", "failed", "dead"} \cup InFlight]
    /\ answer \in [Requests -> Requests \cup {NoRequest}]
    /\ row \in [Requests -> {"none", "PENDING", "released"} \cup Settled]
    /\ linked \subseteq Requests
    /\ charge \in [Requests -> {"none", "open"} \cup Final]
    /\ due \subseteq Requests
    /\ recorded \subseteq Requests
    /\ hook \in [Requests -> {"idle", "applied", "told"}]
    /\ poll \in [Pollers ->
                   [stage : {"idle", "asking", "settling", "settled", "opened"},
                    ref : Requests \cup {NoRequest},
                    outcome : {"none"} \cup Settled]]
    /\ ledger \subseteq Requests
    /\ jobs \subseteq Notices
    /\ feed \subseteq Notices
    /\ faults \in 0..MaxFaults

Init ==
    /\ req = [r \in Requests |-> "new"]
    /\ answer = [r \in Requests |-> NoRequest]
    /\ row = [r \in Requests |-> "none"]
    /\ linked = {}
    /\ charge = [r \in Requests |-> "none"]
    /\ due = {} /\ recorded = {}
    /\ hook = [r \in Requests |-> "idle"]
    /\ poll = [p \in Pollers |-> IdlePoll]
    /\ ledger = {} /\ jobs = {} /\ feed = {}
    /\ faults = 0

----------------------------------------------------------------------------------
(* createPayment *)

\* The rows the unique (user, idempotency key) index holds for a key.
Rows(k) == {q \in Requests : KeyOf[q] = k /\ row[q] \in {"PENDING"} \cup Settled}

\* A settled or released row is never locked: only a callback that found the
\* row PENDING holds it until its transaction ends.
Locked(r) == hook[r] # "idle" /\ row[r] = "PENDING"

Fault ==
    /\ faults < MaxFaults
    /\ faults' = faults + 1

Goto(r, from, to) ==
    /\ req[r] = from
    /\ req' = [req EXCEPT ![r] = to]

Answer(r, q) == answer' = [answer EXCEPT ![r] = q]

Lookup(r) ==
    /\ \/ /\ Rows(KeyOf[r]) = {}
          /\ Goto(r, "new", "missed")
          /\ UNCHANGED answer
       \/ /\ Goto(r, "new", "done")
          /\ \E q \in Rows(KeyOf[r]) : Answer(r, q)
    /\ UNCHANGED <<row, linked, charge, settlementVars, faults>>

\* Seeded fault: no unique index behind the lookup.
ReserveWithoutIndex(r) ==
    /\ Goto(r, "missed", "reserved")
    /\ row' = [row EXCEPT ![r] = "PENDING"]
    /\ UNCHANGED <<answer, linked, charge, settlementVars, faults>>

\* The insert: the unique index lets one request per key through.
Reserve(r) ==
    /\ \/ /\ Rows(KeyOf[r]) = {}
          /\ Goto(r, "missed", "reserved")
          /\ row' = [row EXCEPT ![r] = "PENDING"]
       \/ /\ Rows(KeyOf[r]) # {}
          /\ Goto(r, "missed", "collided")
          /\ UNCHANGED row
    /\ UNCHANGED <<answer, linked, charge, settlementVars, faults>>

\* The loser of the race reads the winner's row, unless it is gone by now.
FindWinner(r) ==
    /\ \/ /\ Rows(KeyOf[r]) # {}
          /\ Goto(r, "collided", "done")
          /\ \E q \in Rows(KeyOf[r]) : Answer(r, q)
       \/ /\ Rows(KeyOf[r]) = {}
          /\ Goto(r, "collided", "failed")
          /\ UNCHANGED answer
    /\ UNCHANGED <<row, linked, charge, settlementVars, faults>>

\* Seeded fault: the catch block forgets deletePending.
OpenCheckoutNoRelease(r) ==
    /\ \/ /\ Goto(r, "reserved", "opened")
          /\ charge' = [charge EXCEPT ![r] = "open"]
       \/ /\ Goto(r, "reserved", "failed")
          /\ UNCHANGED charge
    /\ UNCHANGED <<answer, row, linked, settlementVars, faults>>

\* The gateway opens a checkout or refuses; an answer lost on the way back, or
\* one without a link, leaves a checkout behind and fails the call all the same.
OpenCheckout(r) ==
    /\ \/ /\ Goto(r, "reserved", "opened")
          /\ charge' = [charge EXCEPT ![r] = "open"]
       \/ /\ Goto(r, "reserved", "releasing")
          /\ \/ UNCHANGED charge
             \/ charge' = [charge EXCEPT ![r] = "open"]
    /\ UNCHANGED <<answer, row, linked, settlementVars, faults>>

\* Seeded fault: one more call that can fail, after the link was stored.
AttachThenFail(r) ==
    /\ ~Locked(r)
    /\ \/ Goto(r, "opened", "done") /\ Answer(r, r)
       \/ Goto(r, "opened", "releasing") /\ UNCHANGED answer
    /\ linked' = linked \cup {r}
    /\ UNCHANGED <<row, charge, settlementVars, faults>>

AttachCheckout(r) ==
    /\ ~Locked(r)
    /\ \/ /\ Goto(r, "opened", "done")
          /\ linked' = linked \cup {r}
          /\ Answer(r, r)
       \/ /\ Goto(r, "opened", "releasing")
          /\ UNCHANGED <<linked, answer>>
    /\ UNCHANGED <<row, charge, settlementVars, faults>>

DeletePending(r) ==
    /\ ~Locked(r)
    /\ Goto(r, "releasing", "failed")
    /\ row' = IF row[r] = "PENDING" THEN [row EXCEPT ![r] = "released"] ELSE row
    /\ UNCHANGED <<answer, linked, charge, settlementVars, faults>>

\* The process dies in the middle of the call; nothing runs its catch block.
RequestDies(r) ==
    /\ Fault
    /\ req[r] \in InFlight
    /\ req' = [req EXCEPT ![r] = "dead"]
    /\ UNCHANGED <<answer, row, linked, charge, settlementVars>>

----------------------------------------------------------------------------------
(* The gateway (external) *)

\* How a checkout may end on each channel.  "short" is a capture of another
\* amount than the donation's.
Endings(m) == CASE m = "GCASH" -> {"captured", "short", "failed"}
                [] m = "QRPH"  -> {"captured", "short", "failed", "expired"}
                [] m = "CARD"  -> {"captured", "short", "expired"}

\* A donor pays or fails to through the link or QR string that was handed out;
\* a checkout nobody got can only run out.  A QR code runs out without a word.
GatewayEnds(r) ==
    /\ charge[r] = "open"
    /\ \E e \in Endings(MethodOf[r]) :
         /\ r \in linked \/ e \in {"failed", "expired"}
         /\ charge' = [charge EXCEPT ![r] = e]
         /\ due' = IF MethodOf[r] = "QRPH" /\ e = "expired" THEN due ELSE due \cup {r}
    /\ UNCHANGED <<checkoutVars, row, recorded, hook, poll, ledger, jobs, feed, faults>>

----------------------------------------------------------------------------------
(* Settling *)

\* Seeded fault: a failed charge is left for later.
VerdictLenient(c) == CASE c = "captured" -> "PAID"
                       [] c = "short" -> "FAILED"
                       [] c = "failed" -> "PENDING"
                       [] c = "expired" -> "EXPIRED"

\* What the code makes of the gateway's final word: applyEwalletStatus,
\* applyQrPayment and applyInvoiceStatus, with their amount checks.
VerdictOn(c) == CASE c = "captured" -> "PAID"
                  [] c \in {"short", "failed"} -> "FAILED"
                  [] c = "expired" -> "EXPIRED"

Verdict(r) == VerdictOn(charge[r])

\* Seeded fault: the update without its status guard.
SettlesAnything(r) == row[r] # "none"

\* The status guard of the update: only a PENDING row moves.
Settles(r) == row[r] = "PENDING"

Credited(r, o) == IF o = "PAID" /\ r \in EventBacked THEN {r} ELSE {}

\* The callback's transaction: the webhook id, the row and the ledger row are
\* written, and stay locked and unseen until the commit.
HookApply(r) ==
    /\ r \in due \ recorded
    /\ hook[r] = "idle"
    /\ hook' = [hook EXCEPT ![r] = "applied"]
    /\ UNCHANGED <<checkoutVars, row, charge, due, recorded, poll, ledger, jobs, feed, faults>>

\* The donor's notice is queued before the transaction commits.
HookNotify(r) ==
    /\ hook[r] = "applied" /\ Settles(r)
    /\ hook' = [hook EXCEPT ![r] = "told"]
    /\ jobs' = jobs \cup {<<r, Verdict(r)>>}
    /\ UNCHANGED <<checkoutVars, row, charge, due, recorded, poll, ledger, feed, faults>>

HookCommit(r) ==
    /\ \/ /\ hook[r] = "told"
          /\ row' = [row EXCEPT ![r] = Verdict(r)]
          /\ ledger' = ledger \cup Credited(r, Verdict(r))
       \/ /\ hook[r] = "applied" /\ ~Settles(r)
          /\ UNCHANGED <<row, ledger>>
    /\ hook' = [hook EXCEPT ![r] = "idle"]
    /\ recorded' = recorded \cup {r}
    /\ UNCHANGED <<checkoutVars, charge, due, poll, jobs, feed, faults>>

\* Seeded fault: the webhook id is recorded outside the transaction.
HookRollsBackRecorded(r) ==
    /\ Fault
    /\ hook[r] # "idle"
    /\ hook' = [hook EXCEPT ![r] = "idle"]
    /\ recorded' = recorded \cup {r}
    /\ UNCHANGED <<checkoutVars, row, charge, due, poll, ledger, jobs, feed>>

\* The enqueue, the transaction's time limit or the commit fails: all of it is
\* undone but the job already queued, and the gateway delivers again.
HookRollsBack(r) ==
    /\ Fault
    /\ hook[r] # "idle"
    /\ hook' = [hook EXCEPT ![r] = "idle"]
    /\ UNCHANGED <<checkoutVars, row, charge, due, recorded, poll, ledger, jobs, feed>>

\* The gateway reads the 200 of the first delivery, or of a repeated one, which
\* fails on the webhook id and changes nothing.
HookAnswers(r) ==
    /\ r \in due \cap recorded
    /\ due' = due \ {r}
    /\ UNCHANGED <<checkoutVars, row, charge, recorded, hook, poll, ledger, jobs, feed, faults>>

----------------------------------------------------------------------------------
(* getPayment: the app's poll *)

Poll(p, s, r, o) == poll' = [poll EXCEPT ![p] = [stage |-> s, ref |-> r, outcome |-> o]]
PollVarsUnchanged == UNCHANGED <<checkoutVars, charge, due, recorded, hook, feed, faults>>

\* The row is read; the gateway is asked only for one that is pending and open.
PollReads(p, r) ==
    /\ poll[p].stage = "idle"
    /\ row[r] = "PENDING" /\ r \in linked
    /\ Poll(p, "asking", r, "none")
    /\ PollVarsUnchanged /\ UNCHANGED <<row, ledger, jobs>>

\* Seeded fault: the app's own clock expires a checkout the gateway still holds open.
PollHearsClock(p) ==
    LET r == poll[p].ref IN
    /\ poll[p].stage = "asking"
    /\ Poll(p, "settling", r, IF charge[r] = "open" THEN "EXPIRED" ELSE Verdict(r))
    /\ PollVarsUnchanged /\ UNCHANGED <<row, ledger, jobs>>

\* Seeded fault: the QR branch's answer on every channel.
PollHearsExpiry(p) ==
    LET r == poll[p].ref IN
    /\ poll[p].stage = "asking" /\ charge[r] \in Final
    /\ Poll(p, "settling", r, "EXPIRED")
    /\ PollVarsUnchanged /\ UNCHANGED <<row, ledger, jobs>>

\* A QR code answers ACTIVE or INACTIVE: one that ended in any way may be
\* INACTIVE, and then the poll means to expire the row.
PollHears(p) ==
    LET r == poll[p].ref IN
    /\ poll[p].stage = "asking"
    /\ \/ /\ charge[r] \in Final
          /\ Poll(p, "settling", r, IF MethodOf[r] = "QRPH" THEN "EXPIRED" ELSE Verdict(r))
       \/ /\ charge[r] = "open" \/ MethodOf[r] = "QRPH"
          /\ poll' = [poll EXCEPT ![p] = IdlePoll]
    /\ PollVarsUnchanged /\ UNCHANGED <<row, ledger, jobs>>

\* settle without a transaction: the guarded update commits on its own.
PollSettles(p) ==
    LET r == poll[p].ref IN
    /\ poll[p].stage = "settling" /\ ~Locked(r)
    /\ \/ /\ Settles(r)
          /\ row' = [row EXCEPT ![r] = poll[p].outcome]
          /\ Poll(p, "settled", r, poll[p].outcome)
       \/ /\ ~Settles(r)
          /\ poll' = [poll EXCEPT ![p] = IdlePoll]
          /\ UNCHANGED row
    /\ PollVarsUnchanged /\ UNCHANGED <<ledger, jobs>>

\* Seeded fault: the poll settles without a word to the donor.
PollCreditsSilently(p) ==
    LET r == poll[p].ref IN
    /\ poll[p].stage = "settled"
    /\ ledger' = ledger \cup Credited(r, poll[p].outcome)
    /\ poll' = [poll EXCEPT ![p] = IdlePoll]
    /\ PollVarsUnchanged /\ UNCHANGED <<row, jobs>>

PollCredits(p) ==
    LET r == poll[p].ref IN
    /\ poll[p].stage = "settled"
    /\ ledger' = ledger \cup Credited(r, poll[p].outcome)
    /\ Poll(p, "opened", r, poll[p].outcome)
    /\ PollVarsUnchanged /\ UNCHANGED <<row, jobs>>

PollNotifies(p) ==
    /\ poll[p].stage = "opened"
    /\ jobs' = jobs \cup {<<poll[p].ref, poll[p].outcome>>}
    /\ poll' = [poll EXCEPT ![p] = IdlePoll]
    /\ PollVarsUnchanged /\ UNCHANGED <<row, ledger>>

\* The lookup fails and reconcile swallows it; so it does an error of the ledger
\* insert or of the enqueue, after the row has moved.
PollGivesUp(p) ==
    /\ \/ poll[p].stage \in {"asking", "settling"}
       \/ poll[p].stage \in {"settled", "opened"} /\ p \in Fragile
    /\ poll' = [poll EXCEPT ![p] = IdlePoll]
    /\ PollVarsUnchanged /\ UNCHANGED <<row, ledger, jobs>>

----------------------------------------------------------------------------------
(* The notification worker *)

\* The insert skips a dedupe key the donor has; a job that fails after it runs again.
Deliver(j) ==
    /\ j \in jobs
    /\ feed' = feed \cup {j}
    /\ jobs' \in {jobs, jobs \ {j}}
    /\ UNCHANGED <<checkoutVars, row, charge, due, recorded, hook, poll, ledger, faults>>

----------------------------------------------------------------------------------
RequestStep(r) ==
    \/ Lookup(r) \/ Reserve(r) \/ FindWinner(r) \/ OpenCheckout(r)
    \/ AttachCheckout(r) \/ DeletePending(r)

HookStep(r) == HookApply(r) \/ HookNotify(r) \/ HookCommit(r) \/ HookAnswers(r)

PollStep(p) == PollHears(p) \/ PollSettles(p) \/ PollCredits(p) \/ PollNotifies(p)

Next ==
    \/ \E r \in Requests : RequestStep(r) \/ RequestDies(r)
    \/ \E r \in Requests : GatewayEnds(r)
    \/ \E r \in Requests : HookStep(r) \/ HookRollsBack(r)
    \/ \E p \in Pollers : (\E r \in Requests : PollReads(p, r)) \/ PollStep(p) \/ PollGivesUp(p)
    \/ \E j \in Notices : Deliver(j)

Spec == Init /\ [][Next]_vars

\* Requests, callbacks and polls that started run on; the gateway delivers until
\* it reads a 2xx; the queue's worker runs.  Nobody has to pay or to poll.
Fairness ==
    /\ \A r \in Requests : WF_vars(RequestStep(r)) /\ WF_vars(HookStep(r))
    /\ \A p \in Pollers : WF_vars(PollStep(p))
    /\ \A j \in Notices : WF_vars(Deliver(j))

FairSpec == Spec /\ Fairness

----------------------------------------------------------------------------------
(* What must hold *)

\* A retried tap or a double press ends on one checkout: however the requests
\* that carry a key interleave, fail and retry, at most one of them leaves behind
\* a checkout that a donor can pay.
OneCheckoutPerKey ==
    \A q, r \in linked : KeyOf[q] = KeyOf[r] => q = r

\* Whatever a donor can still pay has a row for the callback to find.
PayableHasRow ==
    \A r \in linked : row[r] \in {"PENDING"} \cup Settled

\* A key whose reservation has no checkout is about to get one or to be released,
\* unless the process died over it.
NoWedgedKey ==
    \A r \in Requests : row[r] = "PENDING" /\ r \notin linked =>
        req[r] \in {"reserved", "opened", "releasing", "dead"}

\* Callback and poll agree with the gateway, and so with each other, whichever of
\* them settles the row: on every channel that a poll can read the outcome of, and
\* for PAID on all of them.
SettledAsCharged ==
    \A r \in Requests : row[r] \in Settled =>
        /\ charge[r] \in Final
        /\ MethodOf[r] # "QRPH" \/ row[r] = "PAID" => row[r] = Verdict(r)

\* The ledger holds only money that was captured, in full, for an event.
CreditedWasCaptured ==
    \A r \in ledger : row[r] = "PAID" /\ charge[r] = "captured" /\ r \in EventBacked

\* Row, ledger and gateway tell of one charge: whichever of a callback and a poll settles
\* it, the row ends as the gateway ended it, and what is credited was captured.
AgreesWithGateway == SettledAsCharged /\ CreditedWasCaptured

\* The donor never reads two outcomes of one checkout, even when a callback's
\* transaction is undone after its notice went out.  (A QR code is another matter:
\* see NothingChargedOnExpiry.)
OneStory ==
    \A m, n \in feed : m[1] = n[1] /\ MethodOf[m[1]] # "QRPH" => m = n

\* "A settle to PAID also opens the ledger row": a paid, event-backed row is on the
\* ledger, or the poll that settled it is about to put it there.
PaidIsCredited ==
    \A r \in EventBacked : row[r] = "PAID" =>
        \/ r \in ledger
        \/ \E p \in Pollers : poll[p].stage = "settled" /\ poll[p].ref = r

\* "Nothing was charged" is what an expired checkout tells its donor.
NothingChargedOnExpiry ==
    \A r \in Requests : row[r] = "EXPIRED" => charge[r] # "captured"

\* Money captured for an event ends on its ledger.
CapturedIsCredited ==
    \A r \in EventBacked : MethodOf[r] # "QRPH" =>
        (charge[r] = "captured" ~> r \in ledger)

\* Every settlement reaches the donor's feed.
SettledIsTold ==
    \A r \in Requests : \A o \in Settled : row[r] = o ~> <<r, o>> \in feed

\* The promise without the mechanics.
Promise == INSTANCE PaymentSettlement WITH
    Checkouts <- Requests, outcome <- row, credited <- ledger

KeepsPromise == Promise!Spec
====
