---- MODULE DonationPaymentsProofs ----
(***************************************************************************)
(* The safety properties of DonationPayments, for every set of requests,   *)
(* keys and pollers and every number of faults.                            *)
(***************************************************************************)
EXTENDS DonationPayments, TLAPS

(* The invariant is the conjunction of what each part relies on. *)

\* A request that has not inserted yet has no row, and one that opened a checkout
\* has a row until it deletes it itself.
RequestsKnowTheirRow ==
    \A r \in Requests :
        /\ req[r] \in {"new", "missed", "collided"} => row[r] = "none"
        /\ req[r] \in {"reserved", "opened", "releasing"} => row[r] \in {"PENDING"} \cup Settled
        /\ r \in linked => req[r] = "done" /\ row[r] \in {"PENDING"} \cup Settled
        /\ req[r] \in {"new", "missed", "collided", "reserved"} \/ row[r] = "none" =>
              charge[r] = "none"

\* The unique index on the idempotency key.
RowsAreUnique ==
    \A q, r \in Requests :
        /\ row[q] \in {"PENDING"} \cup Settled
        /\ row[r] \in {"PENDING"} \cup Settled
        /\ KeyOf[q] = KeyOf[r]
        => q = r

\* A callback exists only for a checkout that ended, and its transaction holds
\* the row it found PENDING.
HooksFollowCharges ==
    \A r \in Requests :
        /\ r \in due \/ hook[r] # "idle" => charge[r] \in Final
        /\ hook[r] = "told" => row[r] = "PENDING"

\* What a poll may settle a row with.
PollVerdict(r) == IF MethodOf[r] = "QRPH" THEN "EXPIRED" ELSE Verdict(r)

PollsFollowCharges ==
    \A p \in Pollers : LET r == poll[p].ref IN
        /\ poll[p].stage # "idle" => r \in linked
        /\ poll[p].stage \in {"settling", "settled", "opened"} =>
              charge[r] \in Final /\ poll[p].outcome = PollVerdict(r)
        /\ poll[p].stage \in {"settled", "opened"} => row[r] = poll[p].outcome

\* Every notice, queued or read, tells an outcome the gateway's word allows.
NoticesFollowCharges ==
    \A j \in jobs \cup feed :
        MethodOf[j[1]] # "QRPH" => charge[j[1]] \in Final /\ j[2] = Verdict(j[1])

IInv ==
    /\ TypeOK
    /\ RequestsKnowTheirRow
    /\ RowsAreUnique
    /\ NoWedgedKey
    /\ HooksFollowCharges
    /\ PollsFollowCharges
    /\ SettledAsCharged
    /\ CreditedWasCaptured
    /\ NoticesFollowCharges

----------------------------------------------------------------------------------
LEMMA FinalVerdict ==
  \A c \in Final : VerdictOn(c) \in Settled /\ (VerdictOn(c) = "PAID" <=> c = "captured")
  BY DEF Final, VerdictOn, Settled

LEMMA EndingsAreFinal == \A m \in Methods : Endings(m) \subseteq Final
  BY DEF Methods, Endings, Final

LEMMA InitIInv == Init => IInv
  BY ConstantsOK DEF Init, IInv, TypeOK, RequestsKnowTheirRow, RowsAreUnique,
     NoWedgedKey, HooksFollowCharges, PollsFollowCharges, SettledAsCharged,
     CreditedWasCaptured, NoticesFollowCharges, IdlePoll, Settled, InFlight, Final

LEMMA RequestStepIInv ==
  ASSUME IInv, NEW r \in Requests, RequestStep(r) \/ RequestDies(r)
  PROVE  IInv'
<1> USE ConstantsOK, FinalVerdict DEF IInv, TypeOK, Settled, InFlight, Final, Notices, Verdict, PollVerdict, Locked, Fault,
      settlementVars, Rows, Goto, Answer
<1>1. CASE Lookup(r)
  BY <1>1, SMTT(30) DEF Lookup, RequestsKnowTheirRow, RowsAreUnique,
     NoWedgedKey, HooksFollowCharges, PollsFollowCharges, SettledAsCharged,
     CreditedWasCaptured, NoticesFollowCharges
<1>2. CASE Reserve(r)
  BY <1>2, SMTT(30) DEF Reserve, RequestsKnowTheirRow, RowsAreUnique,
     NoWedgedKey, HooksFollowCharges, PollsFollowCharges, SettledAsCharged,
     CreditedWasCaptured, NoticesFollowCharges
<1>3. CASE FindWinner(r)
  BY <1>3, SMTT(30) DEF FindWinner, RequestsKnowTheirRow, RowsAreUnique,
     NoWedgedKey, HooksFollowCharges, PollsFollowCharges, SettledAsCharged,
     CreditedWasCaptured, NoticesFollowCharges
<1>4. CASE OpenCheckout(r)
  <2> USE <1>4 DEF OpenCheckout
  <2>0a. charge[r] = "none" /\ r \notin linked
    BY DEF RequestsKnowTheirRow
  <2> QED
    BY <2>0a, SMTT(30) DEF RequestsKnowTheirRow, RowsAreUnique,
       NoWedgedKey, HooksFollowCharges, PollsFollowCharges, SettledAsCharged,
       CreditedWasCaptured, NoticesFollowCharges
<1>5. CASE AttachCheckout(r)
  BY <1>5, SMTT(30) DEF AttachCheckout, RequestsKnowTheirRow, RowsAreUnique,
     NoWedgedKey, HooksFollowCharges, PollsFollowCharges, SettledAsCharged,
     CreditedWasCaptured, NoticesFollowCharges
<1>6. CASE DeletePending(r)
  BY <1>6, SMTT(30) DEF DeletePending, RequestsKnowTheirRow, RowsAreUnique,
     NoWedgedKey, HooksFollowCharges, PollsFollowCharges, SettledAsCharged,
     CreditedWasCaptured, NoticesFollowCharges
<1>7. CASE RequestDies(r)
  BY <1>7, SMTT(30) DEF RequestDies, RequestsKnowTheirRow, RowsAreUnique,
     NoWedgedKey, HooksFollowCharges, PollsFollowCharges, SettledAsCharged,
     CreditedWasCaptured, NoticesFollowCharges
<1> QED
  BY <1>1, <1>2, <1>3, <1>4, <1>5, <1>6, <1>7 DEF RequestStep

LEMMA GatewayIInv ==
  ASSUME IInv, NEW r \in Requests, GatewayEnds(r)
  PROVE  IInv'
<1> USE ConstantsOK, FinalVerdict DEF IInv, TypeOK, Settled, InFlight, Final, Notices, Verdict, PollVerdict, Locked, Fault, checkoutVars
<1>1. CASE GatewayEnds(r)
  <2> USE <1>1 DEF GatewayEnds
  <2>0a. \E e \in Final : charge' = [charge EXCEPT ![r] = e]
    BY EndingsAreFinal
  <2>0b. due' \subseteq due \cup {r}
    OBVIOUS
  <2> QED
    BY <2>0a, <2>0b, SMTT(30) DEF RequestsKnowTheirRow, RowsAreUnique,
       NoWedgedKey, HooksFollowCharges, PollsFollowCharges, SettledAsCharged,
       CreditedWasCaptured, NoticesFollowCharges
<1> QED
  BY <1>1

LEMMA HookStepIInv ==
  ASSUME IInv, NEW r \in Requests, HookStep(r) \/ HookRollsBack(r)
  PROVE  IInv'
<1> USE ConstantsOK, FinalVerdict DEF IInv, TypeOK, Settled, InFlight, Final, Notices, Verdict, PollVerdict, Locked, Fault,
      checkoutVars, Settles, Credited
<1>1. CASE HookApply(r)
  BY <1>1, SMTT(30) DEF HookApply, RequestsKnowTheirRow, RowsAreUnique,
     NoWedgedKey, HooksFollowCharges, PollsFollowCharges, SettledAsCharged,
     CreditedWasCaptured, NoticesFollowCharges
<1>2. CASE HookNotify(r)
  <2> USE <1>2 DEF HookNotify
  <2>0a. charge[r] \in Final /\ VerdictOn(charge[r]) \in Settled
    BY DEF HooksFollowCharges
  <2> QED
    BY <2>0a, SMTT(30) DEF RequestsKnowTheirRow, RowsAreUnique,
       NoWedgedKey, HooksFollowCharges, PollsFollowCharges, SettledAsCharged,
       CreditedWasCaptured, NoticesFollowCharges
<1>3. CASE HookCommit(r)
  <2> USE <1>3 DEF HookCommit
  <2>0a. charge[r] \in Final /\ VerdictOn(charge[r]) \in Settled
    BY DEF HooksFollowCharges
  <2>0b. hook[r] = "told" => row[r] = "PENDING"
    BY DEF HooksFollowCharges
  <2> QED
    BY <2>0a, <2>0b, SMTT(30) DEF RequestsKnowTheirRow, RowsAreUnique,
       NoWedgedKey, HooksFollowCharges, PollsFollowCharges, SettledAsCharged,
       CreditedWasCaptured, NoticesFollowCharges
<1>4. CASE HookAnswers(r)
  BY <1>4, SMTT(30) DEF HookAnswers, RequestsKnowTheirRow, RowsAreUnique,
     NoWedgedKey, HooksFollowCharges, PollsFollowCharges, SettledAsCharged,
     CreditedWasCaptured, NoticesFollowCharges
<1>5. CASE HookRollsBack(r)
  BY <1>5, SMTT(30) DEF HookRollsBack, RequestsKnowTheirRow, RowsAreUnique,
     NoWedgedKey, HooksFollowCharges, PollsFollowCharges, SettledAsCharged,
     CreditedWasCaptured, NoticesFollowCharges
<1> QED
  BY <1>1, <1>2, <1>3, <1>4, <1>5 DEF HookStep

LEMMA PollStepIInv ==
  ASSUME IInv, NEW p \in Pollers,
         (\E r \in Requests : PollReads(p, r)) \/ PollStep(p) \/ PollGivesUp(p)
  PROVE  IInv'
<1> USE ConstantsOK, FinalVerdict DEF IInv, TypeOK, Settled, InFlight, Final, Notices, Verdict, PollVerdict, Locked, Fault,
      checkoutVars, Settles, Credited, Poll, PollVarsUnchanged, IdlePoll
<1>1. CASE \E r \in Requests : PollReads(p, r)
  BY <1>1, SMTT(30) DEF PollReads, RequestsKnowTheirRow, RowsAreUnique,
     NoWedgedKey, HooksFollowCharges, PollsFollowCharges, SettledAsCharged,
     CreditedWasCaptured, NoticesFollowCharges
<1>2. CASE PollHears(p)
  BY <1>2, SMTT(30) DEF PollHears, RequestsKnowTheirRow, RowsAreUnique,
     NoWedgedKey, HooksFollowCharges, PollsFollowCharges, SettledAsCharged,
     CreditedWasCaptured, NoticesFollowCharges
<1>3. CASE PollSettles(p)
  <2> USE <1>3 DEF PollSettles
  <2>0a. poll[p].ref \in linked /\ charge[poll[p].ref] \in Final /\ poll[p].outcome \in Settled
    BY DEF PollsFollowCharges
  <2>0b. MethodOf[poll[p].ref] # "QRPH" \/ poll[p].outcome = "PAID" =>
          poll[p].outcome = VerdictOn(charge[poll[p].ref])
    BY DEF PollsFollowCharges
  <2>1. TypeOK'
    BY <2>0a, <2>0b, SMTT(30) DEF TypeOK
  <2>2. RequestsKnowTheirRow'
    BY <2>0a, <2>0b, SMTT(30) DEF RequestsKnowTheirRow
  <2>3. RowsAreUnique'
    BY <2>0a, <2>0b, SMTT(30) DEF RowsAreUnique
  <2>4. NoWedgedKey'
    BY <2>0a, <2>0b, SMTT(30) DEF NoWedgedKey
  <2>5. HooksFollowCharges'
    BY <2>0a, <2>0b, SMTT(30) DEF HooksFollowCharges
  <2>6. PollsFollowCharges'
    BY <2>0a, <2>0b, SMTT(30) DEF PollsFollowCharges
  <2>7. SettledAsCharged'
    BY <2>0a, <2>0b, SMTT(30) DEF SettledAsCharged
  <2>8. CreditedWasCaptured'
    BY <2>0a, <2>0b, SMTT(30) DEF CreditedWasCaptured
  <2>9. NoticesFollowCharges'
    BY <2>0a, <2>0b, SMTT(30) DEF NoticesFollowCharges
  <2> QED
    BY <2>1, <2>2, <2>3, <2>4, <2>5, <2>6, <2>7, <2>8, <2>9
<1>4. CASE PollCredits(p)
  <2> USE <1>4 DEF PollCredits
  <2>0a. poll[p].ref \in linked /\ charge[poll[p].ref] \in Final /\ row[poll[p].ref] = poll[p].outcome
    BY DEF PollsFollowCharges
  <2>0b. poll[p].outcome = "PAID" => charge[poll[p].ref] = "captured"
    BY DEF PollsFollowCharges
  <2> QED
    BY <2>0a, <2>0b, SMTT(30) DEF RequestsKnowTheirRow, RowsAreUnique,
       NoWedgedKey, HooksFollowCharges, PollsFollowCharges, SettledAsCharged,
       CreditedWasCaptured, NoticesFollowCharges
<1>5. CASE PollNotifies(p)
  <2> USE <1>5 DEF PollNotifies
  <2>0a. poll[p].ref \in linked /\ charge[poll[p].ref] \in Final /\ poll[p].outcome \in Settled
    BY DEF PollsFollowCharges
  <2>0b. MethodOf[poll[p].ref] # "QRPH" => poll[p].outcome = VerdictOn(charge[poll[p].ref])
    BY DEF PollsFollowCharges
  <2> QED
    BY <2>0a, <2>0b, SMTT(30) DEF RequestsKnowTheirRow, RowsAreUnique,
       NoWedgedKey, HooksFollowCharges, PollsFollowCharges, SettledAsCharged,
       CreditedWasCaptured, NoticesFollowCharges
<1>6. CASE PollGivesUp(p)
  BY <1>6, SMTT(30) DEF PollGivesUp, RequestsKnowTheirRow, RowsAreUnique,
     NoWedgedKey, HooksFollowCharges, PollsFollowCharges, SettledAsCharged,
     CreditedWasCaptured, NoticesFollowCharges
<1> QED
  BY <1>1, <1>2, <1>3, <1>4, <1>5, <1>6 DEF PollStep

LEMMA DeliverIInv ==
  ASSUME IInv, NEW j \in Notices, Deliver(j)
  PROVE  IInv'
<1> USE ConstantsOK, FinalVerdict DEF IInv, TypeOK, Settled, InFlight, Final, Notices, Verdict, PollVerdict, Locked, Fault, checkoutVars
<1>1. CASE Deliver(j)
  BY <1>1, SMTT(30) DEF Deliver, RequestsKnowTheirRow, RowsAreUnique,
     NoWedgedKey, HooksFollowCharges, PollsFollowCharges, SettledAsCharged,
     CreditedWasCaptured, NoticesFollowCharges
<1> QED
  BY <1>1

LEMMA NextIInv == IInv /\ [Next]_vars => IInv'
<1> SUFFICES ASSUME IInv, [Next]_vars PROVE IInv'
  OBVIOUS
<1>1. CASE UNCHANGED vars
  BY <1>1 DEF vars, IInv, TypeOK, RequestsKnowTheirRow, RowsAreUnique, NoWedgedKey,
     HooksFollowCharges, PollsFollowCharges, PollVerdict, SettledAsCharged,
     CreditedWasCaptured, NoticesFollowCharges, Verdict
<1>2. CASE Next
  BY <1>2, RequestStepIInv, GatewayIInv, HookStepIInv, PollStepIInv, DeliverIInv DEF Next
<1> QED
  BY <1>1, <1>2

THEOREM Invariance == Spec => []IInv
  BY InitIInv, NextIInv, PTL DEF Spec

----------------------------------------------------------------------------------
(* What follows from the invariant. *)

\* The variables keep their types.
THEOREM TypeCorrect == Spec => []TypeOK
<1>1. IInv => TypeOK
  BY DEF IInv
<1> QED
  BY <1>1, Invariance, PTL

\* createPayment: at most one checkout per idempotency key can be paid, whatever
\* the number of requests that carry the key and the way they interleave and fail.
THEOREM OneCheckout == Spec => []OneCheckoutPerKey
<1>1. IInv => OneCheckoutPerKey
  BY DEF IInv, TypeOK, RequestsKnowTheirRow, RowsAreUnique, OneCheckoutPerKey
<1> QED
  BY <1>1, Invariance, PTL

\* deletePending never takes the row away from under a checkout a donor can pay.
THEOREM PayableKept == Spec => []PayableHasRow
<1>1. IInv => PayableHasRow
  BY DEF IInv, TypeOK, RequestsKnowTheirRow, PayableHasRow
<1> QED
  BY <1>1, Invariance, PTL

\* A reservation without a checkout is in the hands of its request, or that died.
THEOREM KeysNotWedged == Spec => []NoWedgedKey
<1>1. IInv => NoWedgedKey
  BY DEF IInv
<1> QED
  BY <1>1, Invariance, PTL

\* Callback and poll settle a row the way the gateway ended the charge, and nothing reaches
\* the ledger but money captured in full for an event.
THEOREM Agreement == Spec => []AgreesWithGateway
<1>1. IInv => AgreesWithGateway
  BY DEF IInv, AgreesWithGateway
<1> QED
  BY <1>1, Invariance, PTL

\* Off the QR channel a donor reads one outcome per checkout.
THEOREM ToldOneStory == Spec => []OneStory
<1>1. IInv => OneStory
  <2> SUFFICES ASSUME IInv, NEW m \in feed, NEW n \in feed,
                      m[1] = n[1], MethodOf[m[1]] # "QRPH"
               PROVE  m = n
    BY DEF OneStory
  <2>1. m[2] = Verdict(m[1]) /\ n[2] = Verdict(n[1])
    BY DEF IInv, NoticesFollowCharges
  <2>2. m \in Requests \X Settled /\ n \in Requests \X Settled
    BY DEF IInv, TypeOK, Notices
  <2> QED
    BY <2>1, <2>2
<1> QED
  BY <1>1, Invariance, PTL

----------------------------------------------------------------------------------
(* The refinement. *)

LEMMA StepsKeepPromise == IInv /\ [Next]_vars => [Promise!Next]_(Promise!vars)
<1> SUFFICES ASSUME IInv, [Next]_vars PROVE [Promise!Next]_(Promise!vars)
  OBVIOUS
<1> USE DEF Promise!vars
<1>1. ASSUME NEW r \in Requests, RequestStep(r) \/ RequestDies(r)
      PROVE  Promise!Reserve(r) \/ Promise!Release(r) \/ UNCHANGED Promise!vars
  <2>1. CASE Reserve(r)
    BY <1>1, <2>1 DEF Reserve, Goto, settlementVars, IInv, RequestsKnowTheirRow, Promise!Reserve
  <2>2. CASE DeletePending(r)
    BY <1>1, <2>2 DEF DeletePending, settlementVars, Promise!Release
  <2>3. CASE Lookup(r) \/ FindWinner(r) \/ OpenCheckout(r) \/ AttachCheckout(r) \/ RequestDies(r)
    BY <1>1, <2>3 DEF Lookup, FindWinner, OpenCheckout, AttachCheckout, RequestDies, settlementVars
  <2> QED
    BY <1>1, <2>1, <2>2, <2>3 DEF RequestStep
<1>2. ASSUME NEW r \in Requests, GatewayEnds(r)
      PROVE  UNCHANGED Promise!vars
  BY <1>2 DEF GatewayEnds
<1>3. ASSUME NEW r \in Requests, HookStep(r) \/ HookRollsBack(r)
      PROVE  (\E o \in Promise!Settlements : Promise!Settle(r, o)) \/ UNCHANGED Promise!vars
  <2>1. CASE HookCommit(r) /\ hook[r] = "told"
    <3>1. row[r] = "PENDING" /\ Verdict(r) \in Promise!Settlements
      BY <1>3, <2>1, FinalVerdict
      DEF IInv, HooksFollowCharges, Verdict, Settled, Promise!Settlements
    <3>2. row' = [row EXCEPT ![r] = Verdict(r)] /\ ledger' = ledger \cup Credited(r, Verdict(r))
      BY <2>1 DEF HookCommit
    <3>3. Promise!Settle(r, Verdict(r))
      BY <3>1, <3>2 DEF Credited, Promise!Settle
    <3> QED
      BY <3>1, <3>3
  <2>2. CASE \/ HookApply(r) \/ HookNotify(r) \/ HookAnswers(r) \/ HookRollsBack(r)
             \/ HookCommit(r) /\ hook[r] # "told"
    BY <1>3, <2>2 DEF HookApply, HookNotify, HookAnswers, HookRollsBack, HookCommit
  <2> QED
    BY <1>3, <2>1, <2>2 DEF HookStep
<1>4. ASSUME NEW p \in Pollers,
             (\E r \in Requests : PollReads(p, r)) \/ PollStep(p) \/ PollGivesUp(p)
      PROVE  \/ \E r \in Requests : \/ \E o \in Promise!Settlements : Promise!Settle(r, o)
                                    \/ Promise!Credit(r)
             \/ UNCHANGED Promise!vars
  <2>1. CASE PollSettles(p)
    <3>1. poll[p].ref \in Requests /\ poll[p].outcome \in Promise!Settlements
      BY <2>1, FinalVerdict DEF PollSettles, IInv, TypeOK, PollsFollowCharges, PollVerdict,
         Verdict, Settled, Promise!Settlements
    <3>2. Promise!Settle(poll[p].ref, poll[p].outcome) \/ UNCHANGED Promise!vars
      BY <2>1 DEF PollSettles, Settles, Promise!Settle
    <3> QED
      BY <3>1, <3>2
  <2>2. CASE PollCredits(p)
    <3>1. poll[p].ref \in Requests /\ row[poll[p].ref] = poll[p].outcome
      BY <2>2 DEF PollCredits, IInv, TypeOK, PollsFollowCharges
    <3>2. UNCHANGED row /\ ledger' = ledger \cup Credited(poll[p].ref, poll[p].outcome)
      BY <2>2 DEF PollCredits
    <3>3. Promise!Credit(poll[p].ref) \/ UNCHANGED Promise!vars
      BY <3>1, <3>2 DEF Credited, Promise!Credit
    <3> QED
      BY <3>1, <3>3
  <2>3. CASE (\E r \in Requests : PollReads(p, r)) \/ PollHears(p) \/ PollNotifies(p) \/ PollGivesUp(p)
    BY <2>3 DEF PollReads, PollHears, PollNotifies, PollGivesUp
  <2> QED
    BY <1>4, <2>1, <2>2, <2>3 DEF PollStep
<1>5. ASSUME NEW j \in Notices, Deliver(j)
      PROVE  UNCHANGED Promise!vars
  BY <1>5 DEF Deliver
<1>6. CASE UNCHANGED vars
  BY <1>6 DEF vars
<1> QED
  BY <1>1, <1>2, <1>3, <1>4, <1>5, <1>6 DEF Next, Promise!Next

\* Every behaviour of the two settling paths is one of PaymentSettlement: a checkout
\* settles once and for good, and is credited at most once and only when paid.
THEOREM Refinement == Spec => KeepsPromise
<1>1. Init => Promise!Init
  BY DEF Init, Promise!Init
<1> QED
  BY <1>1, StepsKeepPromise, Invariance, PTL DEF Spec, KeepsPromise, Promise!Spec

----------------------------------------------------------------------------------
(* The ledger row of a paid donation, when no poll fails half way. *)

LEMMA NextPaidIsCredited ==
  ASSUME Fragile = {}, IInv, PaidIsCredited, [Next]_vars
  PROVE  PaidIsCredited'
<1> USE DEF PaidIsCredited
<1>1. ASSUME NEW r \in Requests, RequestStep(r) \/ RequestDies(r)
      PROVE  PaidIsCredited'
  <2>1. poll' = poll /\ ledger' = ledger
    BY <1>1 DEF RequestStep, Lookup, Reserve, FindWinner, OpenCheckout, AttachCheckout,
       DeletePending, RequestDies, settlementVars
  <2>2. \A q \in Requests : row'[q] = "PAID" => row[q] = "PAID"
    BY <1>1 DEF IInv, TypeOK, RequestStep, Lookup, Reserve, FindWinner, OpenCheckout,
       AttachCheckout, DeletePending, RequestDies
  <2> QED
    BY <2>1, <2>2, ConstantsOK
<1>2. ASSUME NEW r \in Requests, GatewayEnds(r)
      PROVE  PaidIsCredited'
  BY <1>2 DEF GatewayEnds
<1>3. ASSUME NEW r \in Requests, HookStep(r) \/ HookRollsBack(r)
      PROVE  PaidIsCredited'
  <2>1. poll' = poll /\ ledger \subseteq ledger'
    BY <1>3 DEF HookStep, HookApply, HookNotify, HookCommit, HookAnswers, HookRollsBack
  <2>2. \A q \in EventBacked : row'[q] = "PAID" => row[q] = "PAID" \/ q \in ledger'
    BY <1>3, ConstantsOK DEF IInv, TypeOK, HookStep, HookApply, HookNotify, HookCommit,
       HookAnswers, HookRollsBack, Credited
  <2> QED
    BY <2>1, <2>2
<1>4. ASSUME NEW p \in Pollers, PollSettles(p)
      PROVE  PaidIsCredited'
  <2>1. CASE Settles(poll[p].ref)
    <3> DEFINE r == poll[p].ref
    <3>1. row' = [row EXCEPT ![r] = poll[p].outcome] /\ ledger' = ledger
      BY <1>4, <2>1 DEF PollSettles
    <3>2. poll'[p].stage = "settled" /\ poll'[p].ref = r
      BY <1>4, <2>1 DEF PollSettles, Poll, IInv, TypeOK
    <3>3. \A x \in Pollers : x # p => poll'[x] = poll[x]
      BY <1>4, <2>1 DEF PollSettles, Poll, IInv, TypeOK
    <3>4. poll[p].stage # "settled"
      BY <1>4 DEF PollSettles
    <3> QED
      BY <3>1, <3>2, <3>3, <3>4, ConstantsOK DEF IInv, TypeOK
  <2>2. CASE ~Settles(poll[p].ref)
    <3>1. row' = row /\ ledger' = ledger /\ poll[p].stage = "settling"
      BY <1>4, <2>2 DEF PollSettles
    <3>2. \A x \in Pollers : x # p => poll'[x] = poll[x]
      BY <1>4, <2>2 DEF PollSettles, IInv, TypeOK
    <3> QED
      BY <3>1, <3>2
  <2> QED
    BY <2>1, <2>2
<1>5. ASSUME NEW p \in Pollers, PollCredits(p)
      PROVE  PaidIsCredited'
  <2> DEFINE r == poll[p].ref
  <2>1. row' = row /\ ledger' = ledger \cup Credited(r, poll[p].outcome)
    BY <1>5 DEF PollCredits
  <2>2. row[r] = poll[p].outcome
    BY <1>5 DEF PollCredits, IInv, PollsFollowCharges
  <2>3. \A x \in Pollers : x # p => poll'[x] = poll[x]
    BY <1>5 DEF PollCredits, Poll, IInv, TypeOK
  <2>4. r \in EventBacked /\ row[r] = "PAID" => r \in ledger'
    BY <2>1, <2>2 DEF Credited
  <2> QED
    BY <2>1, <2>3, <2>4
<1>6. ASSUME NEW p \in Pollers,
             \/ \E r \in Requests : PollReads(p, r)
             \/ PollHears(p) \/ PollNotifies(p) \/ PollGivesUp(p)
      PROVE  PaidIsCredited'
  <2>1. row' = row /\ ledger' = ledger /\ poll[p].stage # "settled"
    BY <1>6 DEF PollReads, PollHears, PollNotifies, PollGivesUp
  <2>2. \A x \in Pollers : x # p => poll'[x] = poll[x]
    BY <1>6 DEF PollReads, PollHears, PollNotifies, PollGivesUp, Poll, IInv, TypeOK
  <2> QED
    BY <2>1, <2>2
<1>7. ASSUME NEW j \in Notices, Deliver(j)
      PROVE  PaidIsCredited'
  BY <1>7 DEF Deliver
<1>8. CASE UNCHANGED vars
  BY <1>8 DEF vars
<1> QED
  BY <1>1, <1>2, <1>3, <1>4, <1>5, <1>6, <1>7, <1>8 DEF Next, PollStep

\* Where no poll stops between its update and its insert, no paid donation is ever
\* without its ledger row but in that gap: the callback's transaction has none.
THEOREM PaidCredited == Fragile = {} => (Spec => []PaidIsCredited)
<1> SUFFICES ASSUME Fragile = {} PROVE Spec => []PaidIsCredited
  OBVIOUS
<1>1. Init => PaidIsCredited
  BY ConstantsOK DEF Init, PaidIsCredited
<1>2. IInv /\ PaidIsCredited /\ [Next]_vars => PaidIsCredited'
  BY NextPaidIsCredited
<1> QED
  BY <1>1, <1>2, Invariance, PTL DEF Spec

----------------------------------------------------------------------------------
(* What is still owed: the safety half of "money captured ends on the ledger, and *)
(* every settlement is told".                                                     *)

\* A charge has ended and its row waits: the gateway still has a callback to deliver
\* whose webhook id nobody has recorded, unless a QR code ran out, of which it says nothing.
CallbackOwed ==
    \A r \in Requests : charge[r] \in Final /\ row[r] = "PENDING" =>
        \/ r \in due \ recorded
        \/ MethodOf[r] = "QRPH" /\ charge[r] = "expired"

RecordedEnded == \A r \in recorded : charge[r] \in Final

LEMMA NextCallbackOwed ==
  ASSUME IInv, CallbackOwed, RecordedEnded, [Next]_vars
  PROVE  CallbackOwed' /\ RecordedEnded'
<1> USE DEF CallbackOwed, RecordedEnded
<1>0. /\ charge \in [Requests -> {"none", "open"} \cup Final] /\ recorded \subseteq Requests
      /\ row \in [Requests -> {"none", "PENDING", "released"} \cup Settled]
      /\ \A r \in Requests : hook[r] # "idle" => charge[r] \in Final
      /\ \A r \in Requests : row[r] = "none" => charge[r] = "none"
  BY DEF IInv, TypeOK, HooksFollowCharges, RequestsKnowTheirRow
<1>1. ASSUME NEW r \in Requests, RequestStep(r) \/ RequestDies(r)
      PROVE  CallbackOwed' /\ RecordedEnded'
  <2>1. UNCHANGED <<due, recorded>>
    BY <1>1 DEF RequestStep, Lookup, Reserve, FindWinner, OpenCheckout, AttachCheckout,
       DeletePending, RequestDies, settlementVars
  <2>2. \A q \in Requests : charge[q] \in Final \/ charge'[q] \in Final => charge'[q] = charge[q]
    <3>1. CASE OpenCheckout(r)
      <4>1. charge[r] \notin Final
        BY <3>1 DEF OpenCheckout, Goto, IInv, RequestsKnowTheirRow, Final
      <4> QED
        BY <3>1, <4>1, <1>0 DEF OpenCheckout, Final
    <3>2. CASE ~OpenCheckout(r)
      BY <3>2, <1>1 DEF RequestStep, Lookup, Reserve, FindWinner, AttachCheckout,
         DeletePending, RequestDies
    <3> QED
      BY <3>1, <3>2
  <2>3. \A q \in Requests : row'[q] = "PENDING" => row[q] = "PENDING" \/ charge[q] = "none"
    BY <1>0, <1>1 DEF RequestStep, Lookup, Reserve, FindWinner, OpenCheckout, AttachCheckout,
       DeletePending, RequestDies, Goto, IInv, RequestsKnowTheirRow
  <2>4. "none" \notin Final
    BY DEF Final
  <2> QED
    BY <2>1, <2>2, <2>3, <2>4, <1>0
<1>2. ASSUME NEW r \in Requests, GatewayEnds(r)
      PROVE  CallbackOwed' /\ RecordedEnded'
  <2>1. row' = row /\ recorded' = recorded /\ charge[r] = "open"
    BY <1>2 DEF GatewayEnds
  <2>2. /\ \A q \in Requests \ {r} : charge'[q] = charge[q] /\ (q \in due => q \in due')
        /\ r \in due' \/ (MethodOf[r] = "QRPH" /\ charge'[r] = "expired")
    BY <1>0, <1>2 DEF GatewayEnds
  <2>3. r \notin recorded
    BY <2>1 DEF Final
  <2> QED
    BY <2>1, <2>2, <2>3, <1>0
<1>3. ASSUME NEW r \in Requests, HookCommit(r)
      PROVE  CallbackOwed' /\ RecordedEnded'
  <2>1. row'[r] # "PENDING" /\ \A q \in Requests \ {r} : row'[q] = row[q]
    BY <1>0, <1>3, FinalVerdict DEF HookCommit, Settles, Verdict, Settled
  <2>2. UNCHANGED <<charge, due>> /\ recorded' = recorded \cup {r} /\ charge[r] \in Final
    BY <1>0, <1>3 DEF HookCommit
  <2> QED
    BY <2>1, <2>2, <1>0
<1>4. ASSUME NEW r \in Requests, HookApply(r) \/ HookNotify(r) \/ HookRollsBack(r)
      PROVE  CallbackOwed' /\ RecordedEnded'
  BY <1>4 DEF HookApply, HookNotify, HookRollsBack
<1>5. ASSUME NEW r \in Requests, HookAnswers(r)
      PROVE  CallbackOwed' /\ RecordedEnded'
  BY <1>5 DEF HookAnswers
<1>6. ASSUME NEW p \in Pollers,
             (\E r \in Requests : PollReads(p, r)) \/ PollStep(p) \/ PollGivesUp(p)
      PROVE  CallbackOwed' /\ RecordedEnded'
  <2>1. UNCHANGED <<charge, due, recorded>>
    BY <1>6 DEF PollReads, PollStep, PollHears, PollSettles, PollCredits, PollNotifies,
       PollGivesUp, PollVarsUnchanged
  <2>2. \A q \in Requests : row'[q] = "PENDING" => row[q] = "PENDING"
    BY <1>0, <1>6 DEF PollReads, PollStep, PollHears, PollSettles, PollCredits, PollNotifies,
       PollGivesUp, Settles
  <2> QED
    BY <2>1, <2>2
<1>7. ASSUME NEW j \in Notices, Deliver(j)
      PROVE  CallbackOwed' /\ RecordedEnded'
  BY <1>7 DEF Deliver
<1>8. CASE UNCHANGED vars
  BY <1>8 DEF vars
<1> QED
  BY <1>1, <1>2, <1>3, <1>4, <1>5, <1>6, <1>7, <1>8 DEF Next, HookStep

\* applyOnce and settle: however often a callback's transaction is undone and whatever a
\* poll does beside it, no ended charge is left with a waiting row and nobody to settle it.
THEOREM CallbacksOwed == Spec => []CallbackOwed
<1>1. Init => CallbackOwed /\ RecordedEnded
  BY DEF Init, CallbackOwed, RecordedEnded, Final
<1>2. IInv /\ CallbackOwed /\ RecordedEnded /\ [Next]_vars => CallbackOwed' /\ RecordedEnded'
  BY NextCallbackOwed
<1> QED
  BY <1>1, <1>2, Invariance, PTL DEF Spec

----------------------------------------------------------------------------------
(* Who opens the ledger row and who tells the donor: the path that moved the row. *)

Carries(p, r) == poll[p].stage \in {"settled", "opened"} /\ poll[p].ref = r

\* Of the polls that asked about a checkout one moved its row, and only while the row is
\* not on the ledger has it still to put it there.
OneCarrier ==
    /\ \A p, q \in Pollers : \A r \in Requests : Carries(p, r) /\ Carries(q, r) => p = q
    /\ \A p \in Pollers : poll[p].stage = "settled" => poll[p].ref \notin ledger

\* Neither path credits a checkout that is on the ledger.
NoSecondCredit ==
    [][/\ \A r \in Requests : hook[r] = "told" /\ HookCommit(r) => r \notin ledger
       /\ \A p \in Pollers : PollCredits(p) => poll[p].ref \notin ledger]_vars

\* Where a poll stands after a step of its own.
LEMMA PollMoves ==
  ASSUME IInv, NEW p \in Pollers,
         (\E r \in Requests : PollReads(p, r)) \/ PollStep(p) \/ PollGivesUp(p)
  PROVE  \A q \in Pollers \ {p} : poll'[q] = poll[q]
BY DEF IInv, TypeOK, PollReads, PollStep, PollHears, PollSettles, PollCredits, PollNotifies,
   PollGivesUp, Poll

LEMMA NextOneCarrier ==
  ASSUME IInv, OneCarrier, [Next]_vars
  PROVE  OneCarrier'
<1> USE DEF OneCarrier, Carries
<1>0. /\ \A p \in Pollers : poll[p].ref \in Requests \cup {NoRequest}
      /\ \A p \in Pollers : poll[p].stage \in {"settled", "opened"} =>
            row[poll[p].ref] \in Settled /\ poll[p].ref \in Requests
      /\ \A r \in ledger : row[r] = "PAID"
      /\ \A r \in Requests : hook[r] = "told" => row[r] = "PENDING"
      /\ "PENDING" \notin Settled
  <2>1. \A p \in Pollers : poll[p].stage \in {"settled", "opened"} =>
            row[poll[p].ref] \in Settled /\ poll[p].ref \in Requests
    BY FinalVerdict DEF IInv, PollsFollowCharges, PollVerdict, Verdict, Settled, TypeOK
  <2> QED
    BY <2>1 DEF IInv, TypeOK, HooksFollowCharges, CreditedWasCaptured, Settled
<1>1. CASE UNCHANGED <<poll, ledger>>
  BY <1>1
<1>2. ASSUME NEW r \in Requests, HookCommit(r)
      PROVE  OneCarrier'
  <2>1. poll' = poll
    BY <1>2 DEF HookCommit
  <2>2. \/ ledger' = ledger
        \/ ledger' \subseteq ledger \cup {r} /\ row[r] = "PENDING"
    BY <1>0, <1>2 DEF HookCommit, Credited
  <2>3. CASE ledger' = ledger
    BY <2>1, <2>3
  <2>4. CASE ledger' \subseteq ledger \cup {r} /\ row[r] = "PENDING"
    <3>1. \A p \in Pollers : poll[p].stage = "settled" => poll[p].ref # r
      BY <1>0, <2>4
    <3> QED
      BY <2>1, <2>4, <3>1
  <2> QED
    BY <2>2, <2>3, <2>4
<1>3. ASSUME NEW p \in Pollers, PollSettles(p)
      PROVE  OneCarrier'
  <2>1. /\ ledger' = ledger /\ \A q \in Pollers \ {p} : poll'[q] = poll[q]
        /\ \/ poll'[p].stage = "idle"
           \/ poll'[p].stage = "settled" /\ poll'[p].ref = poll[p].ref /\ row[poll[p].ref] = "PENDING"
    BY <1>3, PollMoves DEF IInv, TypeOK, PollStep, PollSettles, Settles, Poll, IdlePoll
  <2> QED
    BY <1>0, <2>1
<1>4. ASSUME NEW p \in Pollers, PollCredits(p)
      PROVE  OneCarrier'
  <2>1. /\ ledger' \subseteq ledger \cup {poll[p].ref} /\ poll[p].stage = "settled"
        /\ poll'[p].stage = "opened" /\ poll'[p].ref = poll[p].ref
        /\ \A q \in Pollers \ {p} : poll'[q] = poll[q]
    BY <1>4, PollMoves DEF IInv, TypeOK, PollStep, PollCredits, Poll, Credited
  <2> QED
    BY <1>0, <2>1
<1>5. ASSUME NEW p \in Pollers,
             \/ \E r \in Requests : PollReads(p, r)
             \/ PollHears(p) \/ PollNotifies(p) \/ PollGivesUp(p)
      PROVE  OneCarrier'
  <2>1. ledger' = ledger /\ \A q \in Pollers \ {p} : poll'[q] = poll[q]
    BY <1>5, PollMoves DEF PollStep, PollReads, PollHears, PollNotifies, PollGivesUp
  <2>2. poll'[p].stage \in {"idle", "asking", "settling"}
    BY <1>5 DEF IInv, TypeOK, PollReads, PollHears, PollNotifies, PollGivesUp, Poll, IdlePoll
  <2> QED
    BY <2>1, <2>2
<1>6. ASSUME NEW r \in Requests,
             \/ RequestStep(r) \/ RequestDies(r) \/ GatewayEnds(r)
             \/ HookApply(r) \/ HookNotify(r) \/ HookAnswers(r) \/ HookRollsBack(r)
      PROVE  UNCHANGED <<poll, ledger>>
  BY <1>6 DEF RequestStep, Lookup, Reserve, FindWinner, OpenCheckout, AttachCheckout, DeletePending,
     RequestDies, GatewayEnds, HookApply, HookNotify, HookAnswers, HookRollsBack, settlementVars
<1>7. ASSUME NEW j \in Notices, Deliver(j)
      PROVE  UNCHANGED <<poll, ledger>>
  BY <1>7 DEF Deliver
<1>8. CASE UNCHANGED vars
  BY <1>8, <1>1 DEF vars
<1> QED
  BY <1>1, <1>2, <1>3, <1>4, <1>5, <1>6, <1>7, <1>8 DEF Next, PollStep, HookStep

\* openLedgerRow runs once per payment: the ledger is a set in the model, and nothing hides
\* behind that; whichever of a callback and any number of polls credits finds nothing there.
THEOREM CreditedOnce == Spec => NoSecondCredit
<1>1. Init => OneCarrier
  BY DEF Init, OneCarrier, Carries, IdlePoll
<1>2. IInv /\ OneCarrier /\ [Next]_vars => OneCarrier'
  BY NextOneCarrier
<1>3. ASSUME IInv, OneCarrier
      PROVE  /\ \A r \in Requests : hook[r] = "told" /\ HookCommit(r) => r \notin ledger
             /\ \A p \in Pollers : PollCredits(p) => poll[p].ref \notin ledger
  BY <1>3 DEF IInv, HooksFollowCharges, CreditedWasCaptured, OneCarrier, PollCredits
<1> QED
  BY <1>1, <1>2, <1>3, Invariance, PTL DEF Spec, NoSecondCredit

\* A settled checkout has its notice on the queue or in the feed, or the poll that moved
\* the row is on its way to queue it.
NoticeOwed ==
    \A r \in Requests : row[r] \in Settled =>
        <<r, row[r]>> \in jobs \cup feed \/ \E p \in Pollers : Carries(p, r)

HooksTold == \A r \in Requests : hook[r] = "told" => <<r, Verdict(r)>> \in jobs \cup feed

LEMMA NextNoticeOwed ==
  ASSUME Fragile = {}, IInv, NoticeOwed, HooksTold, [Next]_vars
  PROVE  NoticeOwed' /\ HooksTold'
<1> USE DEF NoticeOwed, HooksTold, Carries
<1>0. /\ \A p \in Pollers : poll[p].stage \in {"settled", "opened"} =>
            row[poll[p].ref] = poll[p].outcome
      /\ \A r \in Requests : hook[r] # "idle" => charge[r] \in Final
      /\ "PENDING" \notin Settled /\ "none" \notin Settled /\ "released" \notin Settled
      /\ row \in [Requests -> {"none", "PENDING", "released"} \cup Settled]
      /\ hook \in [Requests -> {"idle", "applied", "told"}]
      /\ charge \in [Requests -> {"none", "open"} \cup Final]
  BY DEF IInv, TypeOK, HooksFollowCharges, PollsFollowCharges, Settled
<1>1. ASSUME NEW r \in Requests, RequestStep(r) \/ RequestDies(r)
      PROVE  NoticeOwed' /\ HooksTold'
  <2>1. UNCHANGED <<poll, hook, jobs, feed>>
    BY <1>1 DEF RequestStep, Lookup, Reserve, FindWinner, OpenCheckout, AttachCheckout,
       DeletePending, RequestDies, settlementVars
  <2>2. \A q \in Requests : row'[q] \in Settled => row'[q] = row[q]
    BY <1>0, <1>1 DEF RequestStep, Lookup, Reserve, FindWinner, OpenCheckout, AttachCheckout,
       DeletePending, RequestDies
  <2>3. \A q \in Requests : charge[q] \in Final => charge'[q] = charge[q]
    <3>1. CASE OpenCheckout(r)
      <4>1. charge[r] \notin Final
        BY <3>1 DEF OpenCheckout, Goto, IInv, RequestsKnowTheirRow, Final
      <4> QED
        BY <3>1, <4>1, <1>0 DEF OpenCheckout
    <3>2. CASE ~OpenCheckout(r)
      BY <3>2, <1>1 DEF RequestStep, Lookup, Reserve, FindWinner, AttachCheckout,
         DeletePending, RequestDies
    <3> QED
      BY <3>1, <3>2
  <2> QED
    BY <2>1, <2>2, <2>3, <1>0 DEF Verdict
<1>2. ASSUME NEW r \in Requests, GatewayEnds(r)
      PROVE  NoticeOwed' /\ HooksTold'
  <2>1. UNCHANGED <<poll, hook, jobs, feed, row>> /\ charge[r] = "open"
    BY <1>2 DEF GatewayEnds
  <2>2. \A q \in Requests \ {r} : charge'[q] = charge[q]
    BY <1>0, <1>2 DEF GatewayEnds
  <2> QED
    BY <2>1, <2>2, <1>0 DEF Verdict, Final
<1>3. ASSUME NEW r \in Requests, HookStep(r) \/ HookRollsBack(r)
      PROVE  NoticeOwed' /\ HooksTold'
  <2>1. poll' = poll /\ jobs \subseteq jobs' /\ feed' = feed /\ charge' = charge
    BY <1>3 DEF HookStep, HookApply, HookNotify, HookCommit, HookAnswers, HookRollsBack
  <2>2. \A q \in Requests : hook'[q] = "told" => hook[q] = "told" \/ <<q, Verdict(q)>> \in jobs'
    BY <1>0, <1>3 DEF HookStep, HookApply, HookNotify, HookCommit, HookAnswers, HookRollsBack
  <2>3. \A q \in Requests : row'[q] \in Settled =>
            row'[q] = row[q] \/ (hook[q] = "told" /\ row'[q] = Verdict(q))
    BY <1>0, <1>3 DEF HookStep, HookApply, HookNotify, HookCommit, HookAnswers, HookRollsBack
  <2> QED
    BY <2>1, <2>2, <2>3 DEF Verdict
<1>4. ASSUME NEW p \in Pollers, PollSettles(p)
      PROVE  NoticeOwed' /\ HooksTold'
  <2>1. UNCHANGED <<hook, jobs, feed, charge>> /\ \A q \in Pollers \ {p} : poll'[q] = poll[q]
    BY <1>4, PollMoves DEF PollStep, PollSettles, PollVarsUnchanged
  <2>2. \A q \in Requests : row'[q] = row[q] \/ Carries(p, q)'
    BY <1>0, <1>4 DEF IInv, TypeOK, PollSettles, Poll
  <2>3. poll[p].stage = "settling"
    BY <1>4 DEF PollSettles
  <2> QED
    BY <2>1, <2>2, <2>3 DEF Verdict
<1>5. ASSUME NEW p \in Pollers, PollCredits(p)
      PROVE  NoticeOwed' /\ HooksTold'
  <2>1. UNCHANGED <<hook, jobs, feed, charge, row>> /\ \A q \in Pollers \ {p} : poll'[q] = poll[q]
    BY <1>5, PollMoves DEF PollStep, PollCredits, PollVarsUnchanged
  <2>2. poll'[p].stage = "opened" /\ poll'[p].ref = poll[p].ref
    BY <1>5 DEF IInv, TypeOK, PollCredits, Poll
  <2> QED
    BY <2>1, <2>2 DEF Verdict
<1>6. ASSUME NEW p \in Pollers, PollNotifies(p)
      PROVE  NoticeOwed' /\ HooksTold'
  <2>1. UNCHANGED <<hook, feed, charge, row>> /\ \A q \in Pollers \ {p} : poll'[q] = poll[q]
    BY <1>6, PollMoves DEF PollStep, PollNotifies, PollVarsUnchanged
  <2>2. jobs' = jobs \cup {<<poll[p].ref, row[poll[p].ref]>>}
    BY <1>0, <1>6 DEF PollNotifies
  <2> QED
    BY <2>1, <2>2 DEF Verdict
<1>7. ASSUME NEW p \in Pollers,
             (\E r \in Requests : PollReads(p, r)) \/ PollHears(p) \/ PollGivesUp(p)
      PROVE  NoticeOwed' /\ HooksTold'
  <2>1. UNCHANGED <<hook, jobs, feed, charge, row>> /\ \A q \in Pollers \ {p} : poll'[q] = poll[q]
    BY <1>7, PollMoves DEF PollStep, PollReads, PollHears, PollGivesUp, PollVarsUnchanged
  <2>2. poll[p].stage \notin {"settled", "opened"}
    BY <1>7 DEF PollReads, PollHears, PollGivesUp
  <2> QED
    BY <2>1, <2>2 DEF Verdict
<1>8. ASSUME NEW j \in Notices, Deliver(j)
      PROVE  NoticeOwed' /\ HooksTold'
  <2>1. UNCHANGED <<hook, charge, row, poll>> /\ jobs \cup feed \subseteq jobs' \cup feed'
    BY <1>8 DEF Deliver, checkoutVars
  <2> QED
    BY <2>1 DEF Verdict
<1>9. CASE UNCHANGED vars
  BY <1>9 DEF vars, Verdict
<1> QED
  BY <1>1, <1>2, <1>3, <1>4, <1>5, <1>6, <1>7, <1>8, <1>9 DEF Next, PollStep

\* "So the donor hears about it exactly once": the notice is queued before the callback's
\* commit and after the poll's update, and where no poll stops half way no settlement is
\* ever without one that is in the feed, on the queue or in a poll's hand.
THEOREM NoticesOwed == Fragile = {} => (Spec => []NoticeOwed)
<1> SUFFICES ASSUME Fragile = {} PROVE Spec => []NoticeOwed
  OBVIOUS
<1>1. Init => NoticeOwed /\ HooksTold
  BY DEF Init, NoticeOwed, HooksTold, Settled
<1>2. IInv /\ NoticeOwed /\ HooksTold /\ [Next]_vars => NoticeOwed' /\ HooksTold'
  BY NextNoticeOwed
<1> QED
  BY <1>1, <1>2, Invariance, PTL DEF Spec

----------------------------------------------------------------------------------
(* What the promise gives back to the detailed model. *)

SettledForGood ==
    [][/\ \A r \in Requests : row[r] \in Settled => row'[r] = row[r]
       /\ ledger \subseteq ledger']_vars

\* "A zero count means another path already settled it": read off PaymentSettlement, a
\* settled row is never settled again nor released, and no ledger row is taken back.
THEOREM SettlesOnce == Spec => SettledForGood
<1>1. ASSUME IInv, [Next]_vars
      PROVE  /\ \A r \in Requests : row[r] \in Settled => row'[r] = row[r]
             /\ ledger \subseteq ledger'
  <2>1. [Promise!Next]_(Promise!vars)
    BY <1>1, StepsKeepPromise
  <2>2. CASE UNCHANGED Promise!vars
    BY <2>2 DEF Promise!vars
  <2>3. ASSUME NEW c \in Requests,
               \/ Promise!Reserve(c) \/ Promise!Release(c) \/ Promise!Credit(c)
               \/ \E o \in Promise!Settlements : Promise!Settle(c, o)
        PROVE  /\ \A r \in Requests : row[r] \in Settled => row'[r] = row[r]
               /\ ledger \subseteq ledger'
    <3>1. row \in [Requests -> {"none", "PENDING", "released"} \cup Settled]
      BY <1>1 DEF IInv, TypeOK
    <3> QED
      BY <2>3, <3>1 DEF Promise!Reserve, Promise!Release, Promise!Credit, Promise!Settle, Settled
  <2> QED
    BY <2>1, <2>2, <2>3 DEF Promise!Next
<1> QED
  BY <1>1, Invariance, PTL DEF Spec, SettledForGood

\* A row says what became of the charge, QR codes included.
SettledTruly == \A r \in Requests : row[r] \in Settled => row[r] = Verdict(r)

\* NothingChargedOnExpiry fails by a poll of a QR code and by nothing else: where no app
\* polls, or no QR code is offered, an expired checkout was never charged.
THEOREM CallbacksTellTrue ==
  Pollers = {} \/ (\A r \in Requests : MethodOf[r] # "QRPH") => (Spec => []NothingChargedOnExpiry)
<1> SUFFICES ASSUME Pollers = {} \/ \A r \in Requests : MethodOf[r] # "QRPH"
             PROVE  Spec => []NothingChargedOnExpiry
  OBVIOUS
<1>1. Init => SettledTruly
  BY DEF Init, SettledTruly, Settled
<1>2. ASSUME IInv, IInv', SettledTruly, [Next]_vars PROVE SettledTruly'
  <2>1. CASE \A r \in Requests : MethodOf[r] # "QRPH"
    BY <1>2, <2>1 DEF IInv, SettledAsCharged, SettledTruly
  <2>2. CASE Pollers = {}
    <3> USE DEF SettledTruly, Verdict
    <3>0. /\ row \in [Requests -> {"none", "PENDING", "released"} \cup Settled]
          /\ \A q \in Requests : row[q] \in Settled => charge[q] \in Final
          /\ charge \in [Requests -> {"none", "open"} \cup Final]
          /\ "PENDING" \notin Settled /\ "released" \notin Settled
          /\ "open" \notin Final /\ "none" \notin Final
      BY <1>2 DEF IInv, TypeOK, SettledAsCharged, Settled, Final
    <3>1. ASSUME NEW r \in Requests, RequestStep(r) \/ RequestDies(r) PROVE SettledTruly'
      <4>1. \A q \in Requests : row'[q] \in Settled => row'[q] = row[q]
        BY <3>0, <3>1 DEF RequestStep, Lookup, Reserve, FindWinner, OpenCheckout, AttachCheckout,
           DeletePending, RequestDies
      <4>2. \A q \in Requests : charge[q] \in Final => charge'[q] = charge[q]
        <5>1. CASE OpenCheckout(r)
          <6>1. charge[r] = "none"
            BY <1>2, <5>1 DEF OpenCheckout, Goto, IInv, RequestsKnowTheirRow
          <6> QED
            BY <3>0, <5>1, <6>1 DEF OpenCheckout
        <5>2. CASE ~OpenCheckout(r)
          BY <3>1, <5>2 DEF RequestStep, Lookup, Reserve, FindWinner, AttachCheckout,
             DeletePending, RequestDies
        <5> QED
          BY <5>1, <5>2
      <4> QED
        BY <1>2, <3>0, <4>1, <4>2
    <3>2. ASSUME NEW r \in Requests, GatewayEnds(r) PROVE SettledTruly'
      <4>1. row' = row /\ \A q \in Requests : charge[q] \in Final => charge'[q] = charge[q]
        BY <3>0, <3>2 DEF GatewayEnds
      <4> QED
        BY <1>2, <3>0, <4>1
    <3>3. ASSUME NEW r \in Requests, HookStep(r) \/ HookRollsBack(r) PROVE SettledTruly'
      <4>1. charge' = charge /\ \A q \in Requests : row'[q] = row[q] \/ row'[q] = Verdict(q)
        BY <3>0, <3>3 DEF HookStep, HookApply, HookNotify, HookCommit, HookAnswers, HookRollsBack
      <4> QED
        BY <1>2, <4>1
    <3>4. ASSUME NEW j \in Notices, Deliver(j) PROVE SettledTruly'
      BY <1>2, <3>4 DEF Deliver
    <3>5. CASE UNCHANGED vars
      BY <1>2, <3>5 DEF vars
    <3> QED
      BY <1>2, <2>2, <3>1, <3>2, <3>3, <3>4, <3>5 DEF Next
  <2> QED
    BY <2>1, <2>2
<1>3. IInv /\ SettledTruly => NothingChargedOnExpiry
  BY DEF SettledTruly, NothingChargedOnExpiry, Verdict, VerdictOn, Settled
<1> QED
  BY <1>1, <1>2, <1>3, Invariance, PTL DEF Spec
====
