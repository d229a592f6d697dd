---- MODULE DonationLedger ----
(***************************************************************************)
(* The donation ledger once a donation is on it: directors move it along   *)
(* the ladder of its kind, donors edit or withdraw goods they pledged, and *)
(* every call reads the row first and acts on what it read later.  A move  *)
(* writes the status and its trail entry in one transaction, then queues   *)
(* the donor's notice under a dedupe key.                                  *)
(***************************************************************************)
EXTENDS Naturals, Sequences

CONSTANTS
    Donations,
    Directors,    \* changeStatus calls of the portal in flight
    Donors,       \* pledge, edit and cancel calls of the app in flight
    Amounts,      \* the values goods may be credited with
    MaxTrail,     \* bound on the trail of a donation
    NoDonation

ASSUME ConstantsOK ==
    /\ MaxTrail \in Nat
    /\ NoDonation \notin Donations

VARIABLES
    status,     \* status[d]: its rung, or "none" before it is on the ledger
    kind,       \* kind[d]: "GOODS" or "MONEY", once it is on the ledger
    amount,     \* amount[d]: what the campaign and the ranking are credited
    confirmed,  \* the donations with a confirmed_at stamp
    trail,      \* trail[d]: the statuses of its trail entries, in order
    director,   \* director[s]: where changeStatus is in call s, and on what
    donor,      \* donor[t]: where the app's call t is, and on what
    notices     \* the dedupe keys published to the donor

vars == <<status, kind, amount, confirmed, trail, director, donor, notices>>

Statuses == {"PLEDGED", "AWAITING_PICKUP", "VERIFYING", "CONFIRMED", "DECLINED", "CANCELLED"}
Rungs == Statuses \cup {"none"}
IdleDirector == [stage |-> "idle", ref |-> NoDonation, seen |-> "none", to |-> "none", entry |-> 0]
IdleDonor == [stage |-> "idle", ref |-> NoDonation]
Keys == {"status", "goods"} \X Donations \X Statuses \X Nat

TypeOK ==
    /\ status \in [Donations -> Rungs]
    /\ kind \in [Donations -> {"GOODS", "MONEY", "none"}]
    /\ amount \in [Donations -> Amounts]
    /\ confirmed \subseteq Donations
    /\ trail \in [Donations -> Seq(Statuses)]
    /\ director \in [Directors ->
         [stage : {"idle", "moving", "moved"}, ref : Donations \cup {NoDonation},
          seen : Rungs, to : Rungs, entry : Nat]]
    /\ donor \in [Donors ->
         [stage : {"idle", "editing", "cancelling", "pledged", "cancelled"},
          ref : Donations \cup {NoDonation}]]
    /\ notices \subseteq Keys

Init ==
    /\ status = [d \in Donations |-> "none"]
    /\ kind = [d \in Donations |-> "none"]
    /\ amount \in [Donations -> Amounts]
    /\ confirmed = {}
    /\ trail = [d \in Donations |-> <<>>]
    /\ director = [s \in Directors |-> IdleDirector]
    /\ donor = [t \in Donors |-> IdleDonor]
    /\ notices = {}

----
(* The ladders *)

Flow(k) == IF k = "GOODS"
              THEN <<"PLEDGED", "AWAITING_PICKUP", "VERIFYING", "CONFIRMED">>
              ELSE <<"PLEDGED", "VERIFYING", "CONFIRMED">>

\* Seeded fault: any rung further up the ladder is a forward move.
NextRungAnyAhead(k, from, to) ==
    \E i, j \in DOMAIN Flow(k) : i < j /\ Flow(k)[i] = from /\ Flow(k)[j] = to

NextRung(k, from, to) ==
    \E i \in 1..Len(Flow(k)) - 1 : Flow(k)[i] = from /\ Flow(k)[i + 1] = to

\* assertMove: DECLINED from any open rung, PLEDGED again from DECLINED, else one
\* rung up.
AssertMove(k, from, to) ==
    /\ from # to /\ from # "CANCELLED"
    /\ \/ to = "DECLINED" /\ from # "CONFIRMED"
       \/ from = "DECLINED" /\ to = "PLEDGED"
       \/ to # "DECLINED" /\ from # "DECLINED" /\ NextRung(k, from, to)

----
(* Rows and moves *)

\* confirmed_at is set by a move to CONFIRMED and cleared by a move out of it.
Stamp(d, from, to) ==
    confirmed' = IF to = "CONFIRMED" THEN confirmed \cup {d}
                 ELSE IF from = "CONFIRMED" THEN confirmed \ {d} ELSE confirmed

\* Seeded fault: the update without its status guard.
MoveOver(d, from, to) ==
    /\ status' = [status EXCEPT ![d] = to]
    /\ trail' = [trail EXCEPT ![d] = Append(@, to)]
    /\ Stamp(d, from, to)

\* changeStatus of the repository, one transaction: the row is still on the rung
\* the caller read, and moves with its trail entry.
Move(d, from, to) ==
    /\ status[d] = from
    /\ status' = [status EXCEPT ![d] = to]
    /\ trail' = [trail EXCEPT ![d] = Append(@, to)]
    /\ Stamp(d, from, to)

\* A new row and its first trail entry.
OpenRow(d, k, a) ==
    /\ status[d] = "none"
    /\ status' = [status EXCEPT ![d] = "PLEDGED"]
    /\ kind' = [kind EXCEPT ![d] = k]
    /\ amount' = [amount EXCEPT ![d] = a]
    /\ trail' = [trail EXCEPT ![d] = <<"PLEDGED">>]

\* The settled payment opens its row (the gateway's amount, nobody's call).
MoneyArrives(d, a) ==
    /\ OpenRow(d, "MONEY", a)
    /\ UNCHANGED <<confirmed, director, donor, notices>>

----
(* The portal's changeStatus *)

DirectorReads(s, d, to) ==
    /\ director[s].stage = "idle"
    /\ status[d] # "none" /\ AssertMove(kind[d], status[d], to)
    /\ director' = [director EXCEPT ![s] =
         [stage |-> "moving", ref |-> d, seen |-> status[d], to |-> to, entry |-> 0]]
    /\ UNCHANGED <<status, kind, amount, confirmed, trail, donor, notices>>

DirectorMoves(s) ==
    LET c == director[s] IN
    /\ c.stage = "moving"
    /\ Len(trail[c.ref]) < MaxTrail
    /\ Move(c.ref, c.seen, c.to)
    /\ director' = [director EXCEPT ![s] = [c EXCEPT !.stage = "moved", !.entry = Len(trail'[c.ref])]]
    /\ UNCHANGED <<kind, amount, donor, notices>>

\* Someone else moved it first: 409, and the screen reloads.
DirectorConflicts(s) ==
    /\ director[s].stage = "moving"
    /\ status[director[s].ref] # director[s].seen
    /\ director' = [director EXCEPT ![s] = IdleDirector]
    /\ UNCHANGED <<status, kind, amount, confirmed, trail, donor, notices>>

\* Seeded fault: a dedupe key of the donation and its status only.
MoveKeyPlain(s) == <<"status", director[s].ref, director[s].to, 0>>

MoveKey(s) == <<"status", director[s].ref, director[s].to, director[s].entry>>

DirectorNotifies(s) ==
    /\ director[s].stage = "moved"
    /\ notices' = notices \cup {MoveKey(s)}
    /\ director' = [director EXCEPT ![s] = IdleDirector]
    /\ UNCHANGED <<status, kind, amount, confirmed, trail, donor>>

\* The enqueue fails after the move: the move stands.
DirectorFails(s) ==
    /\ director[s].stage = "moved"
    /\ director' = [director EXCEPT ![s] = IdleDirector]
    /\ UNCHANGED <<status, kind, amount, confirmed, trail, donor, notices>>

----
(* The app's pledgeGoods, updateGoods and cancelGoods *)

DonorAt(t, s, d) == donor' = [donor EXCEPT ![t] = [stage |-> s, ref |-> d]]

Editable(d) == kind[d] = "GOODS" /\ status[d] = "PLEDGED"

PledgeGoods(t, d, a) ==
    /\ donor[t].stage = "idle"
    /\ OpenRow(d, "GOODS", a)
    /\ DonorAt(t, "pledged", d)
    /\ UNCHANGED <<confirmed, director, notices>>

\* The row is read and found editable; the goods' value is looked up next.
EditReads(t, d) ==
    /\ donor[t].stage = "idle" /\ Editable(d)
    /\ DonorAt(t, "editing", d)
    /\ UNCHANGED <<status, kind, amount, confirmed, trail, director, notices>>

\* Seeded fault: the edited value is added to the one on the row.
EditWritesAdding(t, a) ==
    /\ donor[t].stage = "editing"
    /\ amount' = [amount EXCEPT ![donor[t].ref] = @ + a]
    /\ donor' = [donor EXCEPT ![t] = IdleDonor]
    /\ UNCHANGED <<status, kind, confirmed, trail, director, notices>>

\* The update names the row and nothing else.
EditWrites(t, a) ==
    /\ donor[t].stage = "editing"
    /\ amount' = [amount EXCEPT ![donor[t].ref] = a]
    /\ donor' = [donor EXCEPT ![t] = IdleDonor]
    /\ UNCHANGED <<status, kind, confirmed, trail, director, notices>>

CancelReads(t, d) ==
    /\ donor[t].stage = "idle" /\ Editable(d)
    /\ DonorAt(t, "cancelling", d)
    /\ UNCHANGED <<status, kind, amount, confirmed, trail, director, notices>>

CancelMoves(t) ==
    LET d == donor[t].ref IN
    /\ donor[t].stage = "cancelling"
    /\ \/ /\ Len(trail[d]) < MaxTrail
          /\ Move(d, "PLEDGED", "CANCELLED")
          /\ DonorAt(t, "cancelled", d)
       \/ /\ status[d] # "PLEDGED"
          /\ donor' = [donor EXCEPT ![t] = IdleDonor]
          /\ UNCHANGED <<status, confirmed, trail>>
    /\ UNCHANGED <<kind, amount, director, notices>>

ReceiptKey(t) ==
    <<"goods", donor[t].ref, IF donor[t].stage = "pledged" THEN "PLEDGED" ELSE "CANCELLED", 0>>

\* notifyGoods: the receipt carries the status of the row the call itself wrote.
DonorTold(t) ==
    /\ donor[t].stage \in {"pledged", "cancelled"}
    /\ notices' = notices \cup {ReceiptKey(t)}
    /\ donor' = [donor EXCEPT ![t] = IdleDonor]
    /\ UNCHANGED <<status, kind, amount, confirmed, trail, director>>

\* The enqueue fails after the write: the write stands.
DonorFails(t) ==
    /\ donor[t].stage \in {"pledged", "cancelled"}
    /\ donor' = [donor EXCEPT ![t] = IdleDonor]
    /\ UNCHANGED <<status, kind, amount, confirmed, trail, director, notices>>

----
Next ==
    \/ \E d \in Donations, a \in Amounts : MoneyArrives(d, a)
    \/ \E s \in Directors :
         \/ \E d \in Donations, to \in Statuses : DirectorReads(s, d, to)
         \/ DirectorMoves(s) \/ DirectorConflicts(s)
         \/ DirectorNotifies(s) \/ DirectorFails(s)
    \/ \E t \in Donors :
         \/ \E d \in Donations, a \in Amounts : PledgeGoods(t, d, a)
         \/ \E d \in Donations : EditReads(t, d) \/ CancelReads(t, d)
         \/ \E a \in Amounts : EditWrites(t, a)
         \/ CancelMoves(t) \/ DonorTold(t) \/ DonorFails(t)

Spec == Init /\ [][Next]_vars

----
(* What must hold *)

\* A director cannot confirm goods that were never handed in: since it was last
\* pledged, a confirmed donation was verified, and goods were expected before that.
ConfirmedWasReceived ==
    \A d \in Donations : status[d] = "CONFIRMED" =>
        LET n == Len(trail[d]) IN
        /\ n > 2 /\ trail[d][n - 1] = "VERIFYING"
        /\ kind[d] = "GOODS" => n > 3 /\ trail[d][n - 2] = "AWAITING_PICKUP"
                                        /\ trail[d][n - 3] = "PLEDGED"
        /\ kind[d] = "MONEY" => trail[d][n - 2] = "PLEDGED"

\* No notice is swallowed by an earlier one's dedupe key: not a move's, however
\* often the donation is declined and reopened, and not the donor's own receipt.
EveryMoveHeard ==
    /\ \A s \in Directors : director[s].stage = "moved" =>
         /\ MoveKey(s) \notin notices
         /\ \A o \in Directors \ {s} :
              director[o].stage = "moved" => MoveKey(o) # MoveKey(s)
    /\ \A t \in Donors : donor[t].stage \in {"pledged", "cancelled"} =>
         /\ ReceiptKey(t) \notin notices
         /\ \A o \in Donors \ {t} :
              donor[o].stage \in {"pledged", "cancelled"} => ReceiptKey(o) # ReceiptKey(t)

\* A withdrawn or confirmed donation never moves again, whatever screen a director
\* or a donor still has open.
EndsAreFinal ==
    [][\A d \in Donations : status[d] \in {"CANCELLED", "CONFIRMED"} => status'[d] = status[d]]_vars

\* "The drop-off leg locks it": once a pledge has moved on, its value stays.
LockedOnceReceived ==
    [][\A d \in Donations : status[d] \notin {"none", "PLEDGED"} => amount'[d] = amount[d]]_vars
====
