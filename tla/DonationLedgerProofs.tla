---- MODULE DonationLedgerProofs ----
(***************************************************************************)
(* The safety properties of DonationLedger, for every set of donations,    *)
(* directors and donors and however long the trails grow.                  *)
(***************************************************************************)
EXTENDS DonationLedger, TLAPS

\* A move some caller may make: a director's, or the donor's withdrawal.
Legal(k, from, to) ==
    \/ AssertMove(k, from, to)
    \/ from = "PLEDGED" /\ to = "CANCELLED"

\* A row on the ledger knows which ladder it climbs.
RowsHaveKind == \A d \in Donations : status[d] # "none" => kind[d] # "none"

\* A trail starts at the pledge and every further entry is a legal move.
TrailClimbs ==
    \A d \in Donations :
        /\ trail[d] # <<>> => trail[d][1] = "PLEDGED"
        /\ \A i \in 1..Len(trail[d]) - 1 : Legal(kind[d], trail[d][i], trail[d][i + 1])

\* What a director's call still holds of the row it read.
DirectorsFollowRows ==
    \A s \in Directors : director[s].stage # "idle" =>
        /\ director[s].ref \in Donations
        /\ director[s].to \in Statuses
        /\ status[director[s].ref] # "none"
        /\ director[s].stage = "moving" =>
             /\ director[s].seen \in Statuses
             /\ AssertMove(kind[director[s].ref], director[s].seen, director[s].to)
        /\ director[s].stage = "moved" =>
             director[s].entry \in 1..Len(trail[director[s].ref])

\* What a donor's call still holds of the row it read or wrote.
DonorsFollowRows ==
    \A t \in Donors : donor[t].stage # "idle" =>
        /\ donor[t].ref \in Donations
        /\ status[donor[t].ref] # "none"
        /\ donor[t].stage = "cancelled" => status[donor[t].ref] = "CANCELLED"

\* The audit trail ends on the rung the row is on.
TrailAgrees ==
    \A d \in Donations :
        IF status[d] = "none" THEN trail[d] = <<>>
        ELSE trail[d] # <<>> /\ trail[d][Len(trail[d])] = status[d]

\* confirmed_at is set exactly while the donation is confirmed.
StampMeansConfirmed == confirmed = {d \in Donations : status[d] = "CONFIRMED"}

\* A notice of a move names an entry of the trail, a receipt names a row.
NoticesFollowTrail ==
    \A d \in Donations, x \in Statuses, n \in Nat :
        /\ <<"status", d, x, n>> \in notices => n <= Len(trail[d])
        /\ <<"goods", d, x, n>> \in notices =>
             status[d] # "none" /\ (x = "CANCELLED" => status[d] = "CANCELLED")

IInv ==
    /\ TypeOK
    /\ RowsHaveKind
    /\ TrailAgrees
    /\ TrailClimbs
    /\ StampMeansConfirmed
    /\ DirectorsFollowRows
    /\ DonorsFollowRows
    /\ NoticesFollowTrail
    /\ EveryMoveHeard

----------------------------------------------------------------------------------
(* The ladders *)

LEMMA LadderTops ==
  ASSUME NEW k \in {"GOODS", "MONEY"}, NEW from \in Statuses, NEW to \in Statuses,
         Legal(k, from, to)
  PROVE  /\ from \notin {"CANCELLED", "CONFIRMED"}
         /\ to = "CONFIRMED" => from = "VERIFYING"
         /\ to = "VERIFYING" => from = IF k = "GOODS" THEN "AWAITING_PICKUP" ELSE "PLEDGED"
         /\ to = "AWAITING_PICKUP" => from = "PLEDGED"
<1>1. CASE k = "GOODS"
  <2>1. Flow(k) = <<"PLEDGED", "AWAITING_PICKUP", "VERIFYING", "CONFIRMED">>
    BY <1>1 DEF Flow
  <2>2. NextRung(k, from, to) => <<from, to>> \in
          {<<"PLEDGED", "AWAITING_PICKUP">>, <<"AWAITING_PICKUP", "VERIFYING">>,
           <<"VERIFYING", "CONFIRMED">>}
    BY <2>1 DEF NextRung
  <2> QED
    BY <1>1, <2>2 DEF Legal, AssertMove
<1>2. CASE k = "MONEY"
  <2>1. Flow(k) = <<"PLEDGED", "VERIFYING", "CONFIRMED">>
    BY <1>2 DEF Flow
  <2>2. NextRung(k, from, to) => <<from, to>> \in
          {<<"PLEDGED", "VERIFYING">>, <<"VERIFYING", "CONFIRMED">>}
    BY <2>1 DEF NextRung
  <2> QED
    BY <1>2, <2>2 DEF Legal, AssertMove
<1> QED
  BY <1>1, <1>2

\* What appending does.
LEMMA AppendFacts ==
  ASSUME NEW S, NEW q \in Seq(S), NEW x \in S
  PROVE  /\ Append(q, x) \in Seq(S)
         /\ Len(q) \in Nat
         /\ Len(Append(q, x)) = Len(q) + 1
         /\ Append(q, x)[Len(q) + 1] = x
         /\ \A i \in 1..Len(q) : Append(q, x)[i] = q[i]
         /\ Append(q, x) # <<>>
<1>1. Append(q, x) \in Seq(S) /\ Len(q) \in Nat /\ Len(Append(q, x)) = Len(q) + 1
  OBVIOUS
<1>2. Append(q, x)[Len(q) + 1] = x
  OBVIOUS
<1>3. \A i \in 1..Len(q) : Append(q, x)[i] = q[i]
  OBVIOUS
<1>4. Append(q, x) # <<>>
  BY <1>1, Len(<<>>) = 0
<1> QED
  BY <1>1, <1>2, <1>3, <1>4

\* What a move does to the trails, and that it keeps what a row says of itself.
LEMMA MoveKeepsRows ==
  ASSUME TypeOK, RowsHaveKind, TrailAgrees, TrailClimbs, StampMeansConfirmed,
         NEW d \in Donations, NEW from \in Statuses, NEW to \in Statuses,
         Legal(kind[d], from, to), Move(d, from, to), kind' = kind
  PROVE  /\ status' \in [Donations -> Rungs]
         /\ trail' \in [Donations -> Seq(Statuses)]
         /\ confirmed' \subseteq Donations
         /\ \A e \in Donations : e # d => trail'[e] = trail[e] /\ status'[e] = status[e]
         /\ Len(trail'[d]) = Len(trail[d]) + 1
         /\ status[d] = from /\ status'[d] = to
         /\ status'[d] # "none" /\ status[d] \notin {"none", "CANCELLED", "CONFIRMED"}
         /\ RowsHaveKind' /\ TrailAgrees' /\ TrailClimbs' /\ StampMeansConfirmed'
<1> USE DEF TypeOK, Move
<1>1. trail[d] \in Seq(Statuses) /\ from # "none" /\ to # "none" /\ Statuses \subseteq Rungs
  BY DEF Statuses, Rungs
<1>2. trail' = [trail EXCEPT ![d] = Append(trail[d], to)]
  OBVIOUS
<1>3. /\ Append(trail[d], to) \in Seq(Statuses)
      /\ Len(Append(trail[d], to)) = Len(trail[d]) + 1
      /\ Append(trail[d], to)[Len(trail[d]) + 1] = to
      /\ \A i \in 1..Len(trail[d]) : Append(trail[d], to)[i] = trail[d][i]
      /\ Append(trail[d], to) # <<>>
      /\ Len(trail[d]) \in Nat
  BY <1>1, AppendFacts
<1>4. kind[d] \in {"GOODS", "MONEY"} /\ from \notin {"CANCELLED", "CONFIRMED"}
  BY <1>1, LadderTops DEF RowsHaveKind
<1>5. trail[d] # <<>> /\ trail[d][Len(trail[d])] = from /\ Len(trail[d]) > 0
  BY <1>1 DEF TrailAgrees
<1>6. /\ status' \in [Donations -> Rungs] /\ trail' \in [Donations -> Seq(Statuses)]
      /\ confirmed' \subseteq Donations
      /\ \A e \in Donations : e # d => trail'[e] = trail[e] /\ status'[e] = status[e]
      /\ trail'[d] = Append(trail[d], to) /\ status'[d] = to
  BY <1>1, <1>2, <1>3 DEF Stamp
<1>7. RowsHaveKind' /\ TrailAgrees'
  BY <1>1, <1>3, <1>4, <1>6 DEF RowsHaveKind, TrailAgrees
<1>8. TrailClimbs'
  <2>1. trail'[d][1] = "PLEDGED"
    BY <1>3, <1>5, <1>6 DEF TrailClimbs
  <2>2. ASSUME NEW i \in 1..Len(trail'[d]) - 1
        PROVE  Legal(kind[d], trail'[d][i], trail'[d][i + 1])
    <3>1. CASE i = Len(trail[d])
      BY <3>1, <1>3, <1>5, <1>6
    <3>2. CASE i # Len(trail[d])
      <4>1. i \in 1..Len(trail[d]) - 1 /\ i \in 1..Len(trail[d]) /\ i + 1 \in 1..Len(trail[d])
        BY <3>2, <1>3, <1>6
      <4> QED
        BY <4>1, <1>3, <1>6 DEF TrailClimbs
    <3> QED
      BY <3>1, <3>2
  <2> QED
    BY <2>1, <2>2, <1>6 DEF TrailClimbs, Legal, AssertMove
<1>9. StampMeansConfirmed'
  BY <1>1, <1>4, <1>6 DEF StampMeansConfirmed, Stamp
<1> QED
  BY <1>1, <1>3, <1>4, <1>6, <1>7, <1>8, <1>9

----------------------------------------------------------------------------------
(* The invariant holds at first and every step keeps it *)

LEMMA InitIInv == Init => IInv
  BY ConstantsOK DEF Init, IInv, TypeOK, RowsHaveKind, TrailAgrees, TrailClimbs,
     StampMeansConfirmed, DirectorsFollowRows, DonorsFollowRows, NoticesFollowTrail,
     EveryMoveHeard, IdleDirector, IdleDonor, Rungs, Statuses

\* A new row: nobody holds it yet and nobody was told of it.
LEMMA OpenRowKeepsRows ==
  ASSUME TypeOK, RowsHaveKind, TrailAgrees, TrailClimbs, StampMeansConfirmed,
         NEW d \in Donations, NEW k \in {"GOODS", "MONEY"}, NEW a \in Amounts,
         OpenRow(d, k, a), confirmed' = confirmed
  PROVE  /\ status' \in [Donations -> Rungs]
         /\ kind' \in [Donations -> {"GOODS", "MONEY", "none"}]
         /\ amount' \in [Donations -> Amounts]
         /\ trail' \in [Donations -> Seq(Statuses)]
         /\ \A e \in Donations : e # d =>
              trail'[e] = trail[e] /\ status'[e] = status[e] /\ kind'[e] = kind[e]
         /\ Len(trail[d]) = 0
         /\ status[d] = "none" /\ status'[d] = "PLEDGED"
         /\ RowsHaveKind' /\ TrailAgrees' /\ TrailClimbs' /\ StampMeansConfirmed'
<1> USE DEF TypeOK, OpenRow
<1>1. "PLEDGED" \in Statuses /\ "PLEDGED" \in Rungs /\ "none" \notin Statuses
  BY DEF Statuses, Rungs
<1>2. /\ <<"PLEDGED">> \in Seq(Statuses) /\ Len(<<"PLEDGED">>) = 1 /\ <<"PLEDGED">> # <<>>
      /\ <<"PLEDGED">>[1] = "PLEDGED"
  BY <1>1
<1>3. /\ status' \in [Donations -> Rungs]
      /\ kind' \in [Donations -> {"GOODS", "MONEY", "none"}]
      /\ amount' \in [Donations -> Amounts]
      /\ trail' \in [Donations -> Seq(Statuses)]
      /\ \A e \in Donations : e # d =>
           trail'[e] = trail[e] /\ status'[e] = status[e] /\ kind'[e] = kind[e]
      /\ status'[d] = "PLEDGED" /\ kind'[d] = k /\ trail'[d] = <<"PLEDGED">>
  BY <1>1, <1>2
<1>4. trail[d] = <<>>
  BY DEF TrailAgrees
<1>5. RowsHaveKind' /\ TrailAgrees' /\ StampMeansConfirmed'
  BY <1>2, <1>3 DEF RowsHaveKind, TrailAgrees, StampMeansConfirmed
<1>6. TrailClimbs'
  <2>1. ASSUME NEW e \in Donations, e # d
        PROVE  /\ trail'[e] # <<>> => trail'[e][1] = "PLEDGED"
               /\ \A i \in 1..Len(trail'[e]) - 1 :
                    Legal(kind'[e], trail'[e][i], trail'[e][i + 1])
    BY <2>1, <1>3 DEF TrailClimbs
  <2>2. 1..Len(trail'[d]) - 1 = {}
    BY <1>2, <1>3
  <2> QED
    BY <2>1, <2>2, <1>2, <1>3 DEF TrailClimbs, Legal, AssertMove
<1> QED
  BY <1>3, <1>4, <1>5, <1>6

LEMMA OpeningIInv ==
  ASSUME IInv, NEW d \in Donations, NEW a \in Amounts,
         \/ MoneyArrives(d, a)
         \/ \E t \in Donors : PledgeGoods(t, d, a)
  PROVE  IInv'
<1> USE DEF IInv
<1>1. PICK k \in {"GOODS", "MONEY"} : OpenRow(d, k, a)
  BY DEF MoneyArrives, PledgeGoods
<1>2. confirmed' = confirmed /\ director' = director /\ notices' = notices
  BY DEF MoneyArrives, PledgeGoods
<1>3. /\ status' \in [Donations -> Rungs]
      /\ kind' \in [Donations -> {"GOODS", "MONEY", "none"}]
      /\ amount' \in [Donations -> Amounts]
      /\ trail' \in [Donations -> Seq(Statuses)]
      /\ \A e \in Donations : e # d =>
           trail'[e] = trail[e] /\ status'[e] = status[e] /\ kind'[e] = kind[e]
      /\ Len(trail[d]) = 0
      /\ status[d] = "none" /\ status'[d] = "PLEDGED"
      /\ RowsHaveKind' /\ TrailAgrees' /\ TrailClimbs' /\ StampMeansConfirmed'
  BY <1>1, <1>2, OpenRowKeepsRows
<1>4. DirectorsFollowRows'
  <2>1. \A s \in Directors : director[s].stage # "idle" => director[s].ref # d
    BY <1>3 DEF DirectorsFollowRows
  <2> QED
    BY <2>1, <1>2, <1>3 DEF DirectorsFollowRows, AssertMove
<1>5. NoticesFollowTrail'
  <2>1. ASSUME NEW e \in Donations, NEW x \in Statuses, NEW n \in Nat
        PROVE  /\ <<"status", e, x, n>> \in notices => n <= Len(trail'[e])
               /\ <<"goods", e, x, n>> \in notices =>
                    status'[e] # "none" /\ (x = "CANCELLED" => status'[e] = "CANCELLED")
    <3>1. CASE e = d
      <4>1. <<"goods", e, x, n>> \notin notices
        BY <3>1, <1>3 DEF NoticesFollowTrail
      <4>2. Len(trail'[e]) \in Nat
        BY <1>3
      <4>3. <<"status", e, x, n>> \in notices => n <= Len(trail[e])
        BY DEF NoticesFollowTrail
      <4>4. <<"status", e, x, n>> \in notices => n <= Len(trail'[e])
        BY <3>1, <4>2, <4>3, <1>3
      <4> QED
        BY <4>1, <4>4
    <3>2. CASE e # d
      BY <3>2, <1>3 DEF NoticesFollowTrail
    <3> QED
      BY <3>1, <3>2
  <2> QED
    BY <2>1, <1>2 DEF NoticesFollowTrail
<1>6. CASE MoneyArrives(d, a)
  <2>1. donor' = donor
    BY <1>6 DEF MoneyArrives
  <2>2. TypeOK'
    BY <2>1, <1>2, <1>3 DEF TypeOK
  <2>3. DonorsFollowRows'
    BY <2>1, <1>3 DEF DonorsFollowRows
  <2>4. EveryMoveHeard'
    BY <2>1, <1>2 DEF EveryMoveHeard, MoveKey, ReceiptKey
  <2> QED
    BY <1>3, <1>4, <1>5, <2>2, <2>3, <2>4
<1>7. CASE \E t \in Donors : PledgeGoods(t, d, a)
  <2>1. PICK t \in Donors : donor[t].stage = "idle" /\ DonorAt(t, "pledged", d)
    BY <1>7 DEF PledgeGoods
  <2>2. /\ donor' \in [Donors -> [stage : {"idle", "editing", "cancelling", "pledged", "cancelled"},
                                  ref : Donations \cup {NoDonation}]]
        /\ donor'[t].stage = "pledged" /\ donor'[t].ref = d
        /\ \A o \in Donors : o # t => donor'[o] = donor[o]
    BY <2>1 DEF DonorAt, TypeOK
  <2>3. TypeOK'
    BY <2>2, <1>2, <1>3 DEF TypeOK
  <2>4. DonorsFollowRows'
    <3>1. ASSUME NEW o \in Donors, o # t, donor[o].stage # "idle"
          PROVE  donor[o].ref \in Donations /\ status'[donor[o].ref] = status[donor[o].ref]
      BY <3>1, <1>3 DEF DonorsFollowRows
    <3> QED
      BY <3>1, <2>2, <1>3 DEF DonorsFollowRows
  <2>5. EveryMoveHeard'
    <3>1. \A s \in Directors : MoveKey(s)' = MoveKey(s)
      BY <1>2 DEF MoveKey
    <3>2. ReceiptKey(t)' = <<"goods", d, "PLEDGED", 0>>
      BY <2>2 DEF ReceiptKey
    <3>3. <<"goods", d, "PLEDGED", 0>> \notin notices
      <4>1. "PLEDGED" \in Statuses /\ 0 \in Nat
        BY DEF Statuses
      <4>2. <<"goods", d, "PLEDGED", 0>> \in notices => status[d] # "none"
        BY <4>1, Zenon DEF NoticesFollowTrail
      <4> QED
        BY <4>2, <1>3
    <3>4. ASSUME NEW o \in Donors, o # t, donor[o].stage \in {"pledged", "cancelled"}
          PROVE  ReceiptKey(o)' = ReceiptKey(o) /\ ReceiptKey(o) # <<"goods", d, "PLEDGED", 0>>
      <4>1. donor[o].ref # d
        BY <3>4, <1>3 DEF DonorsFollowRows
      <4> QED
        BY <3>4, <4>1, <2>2 DEF ReceiptKey
    <3> QED
      BY <3>1, <3>2, <3>3, <3>4, <2>2, <1>2 DEF EveryMoveHeard
  <2> QED
    BY <1>3, <1>4, <1>5, <2>3, <2>4, <2>5
<1> QED
  BY <1>6, <1>7

\* Reading a row, and giving a call up, change nobody else's state.
LEMMA DirectorTurnIInv ==
  ASSUME IInv, NEW s \in Directors,
         \/ \E d \in Donations, to \in Statuses : DirectorReads(s, d, to)
         \/ DirectorConflicts(s) \/ DirectorFails(s)
  PROVE  IInv'
<1> USE ConstantsOK DEF IInv, TypeOK
<1>1. /\ UNCHANGED <<status, kind, amount, confirmed, trail, donor, notices>>
      /\ \A o \in Directors : o # s => director'[o] = director[o]
      /\ director'[s].stage \in {"idle", "moving"}
  BY DEF DirectorReads, DirectorConflicts, DirectorFails, IdleDirector
<1>2. TypeOK' /\ DirectorsFollowRows'
  <2>1. CASE \E d \in Donations, to \in Statuses : DirectorReads(s, d, to)
    <3>1. PICK d \in Donations, to \in Statuses : DirectorReads(s, d, to)
      BY <2>1
    <3>2. status[d] \in Statuses /\ Statuses \subseteq Rungs
      BY <3>1 DEF DirectorReads, Statuses, Rungs
    <3> QED
      BY <1>1, <3>1, <3>2 DEF DirectorReads, DirectorsFollowRows, AssertMove
  <2>2. CASE director' = [director EXCEPT ![s] = IdleDirector]
    BY <1>1, <2>2 DEF IdleDirector, DirectorsFollowRows, AssertMove, Rungs
  <2> QED
    BY <2>1, <2>2 DEF DirectorConflicts, DirectorFails
<1>3. RowsHaveKind' /\ TrailAgrees' /\ TrailClimbs' /\ StampMeansConfirmed'
  BY <1>1 DEF RowsHaveKind, TrailAgrees, TrailClimbs, StampMeansConfirmed, Legal, AssertMove
<1>4. DonorsFollowRows' /\ NoticesFollowTrail'
  BY <1>1 DEF DonorsFollowRows, NoticesFollowTrail
<1>5. EveryMoveHeard'
  <2>1. \A o \in Directors : director'[o].stage = "moved" =>
          o # s /\ director[o].stage = "moved" /\ MoveKey(o)' = MoveKey(o)
    BY <1>1 DEF MoveKey
  <2>2. \A t \in Donors : ReceiptKey(t)' = ReceiptKey(t)
    BY <1>1 DEF ReceiptKey
  <2> QED
    BY <2>1, <2>2, <1>1 DEF EveryMoveHeard
<1> QED
  BY <1>2, <1>3, <1>4, <1>5

LEMMA DirectorMovesIInv ==
  ASSUME IInv, NEW s \in Directors, DirectorMoves(s)
  PROVE  IInv'
<1> USE DEF IInv
<1> DEFINE d == director[s].ref
           from == director[s].seen
           to == director[s].to
<1>1. /\ d \in Donations /\ from \in Statuses /\ to \in Statuses
      /\ Legal(kind[d], from, to) /\ Move(d, from, to)
  BY DEF DirectorMoves, DirectorsFollowRows, Legal
<1>2. UNCHANGED <<kind, amount, donor, notices>>
  BY DEF DirectorMoves
<1>3. /\ status' \in [Donations -> Rungs]
      /\ trail' \in [Donations -> Seq(Statuses)]
      /\ confirmed' \subseteq Donations
      /\ \A e \in Donations : e # d => trail'[e] = trail[e] /\ status'[e] = status[e]
      /\ Len(trail'[d]) = Len(trail[d]) + 1
      /\ status[d] = from /\ status'[d] = to
      /\ status'[d] # "none" /\ status[d] \notin {"none", "CANCELLED", "CONFIRMED"}
      /\ RowsHaveKind' /\ TrailAgrees' /\ TrailClimbs' /\ StampMeansConfirmed'
  BY <1>1, <1>2, MoveKeepsRows, Zenon
<1>4. /\ director'[s] = [director[s] EXCEPT !.stage = "moved", !.entry = Len(trail[d]) + 1]
      /\ \A o \in Directors : o # s => director'[o] = director[o]
  BY <1>3 DEF DirectorMoves, TypeOK
<1>5. Len(trail[d]) \in Nat
  BY <1>1 DEF TypeOK
<1>6. /\ director'[s].stage = "moved" /\ director'[s].ref = d /\ director'[s].to = to
      /\ director'[s].entry = Len(trail[d]) + 1 /\ director'[s].seen = from
      /\ director'[s] \in [stage : {"idle", "moving", "moved"},
                           ref : Donations \cup {NoDonation},
                           seen : Rungs, to : Rungs, entry : Nat]
  <2>1. director[s] \in [stage : {"idle", "moving", "moved"}, ref : Donations \cup {NoDonation},
                         seen : Rungs, to : Rungs, entry : Nat]
    BY DEF TypeOK
  <2>2. director'[s] = [stage |-> "moved", ref |-> d, seen |-> from, to |-> to,
                        entry |-> Len(trail[d]) + 1]
    BY <2>1, <1>4
  <2>3. d \in Donations \cup {NoDonation} /\ from \in Rungs /\ to \in Rungs
    BY <2>1
  <2> HIDE DEF d, from, to
  <2> QED
    BY <2>2, <2>3, <1>5
<1>7. TypeOK'
  <2>1. director' \in [Directors -> [stage : {"idle", "moving", "moved"},
                                     ref : Donations \cup {NoDonation},
                                     seen : Rungs, to : Rungs, entry : Nat]]
    BY <1>4, <1>6 DEF TypeOK, DirectorMoves
  <2> QED
    BY <2>1, <1>2, <1>3 DEF TypeOK
<1>8. \A e \in Donations : Len(trail[e]) \in Nat /\ Len(trail'[e]) >= Len(trail[e])
  <2>1. ASSUME NEW e \in Donations
        PROVE  Len(trail[e]) \in Nat /\ Len(trail'[e]) >= Len(trail[e])
    <3>1. Len(trail[e]) \in Nat
      BY DEF TypeOK
    <3>2. CASE e = d
      BY <3>1, <3>2, <1>3
    <3>3. CASE e # d
      BY <3>1, <3>3, <1>3
    <3> QED
      BY <3>1, <3>2, <3>3
  <2> QED
    BY <2>1
<1>9. DirectorsFollowRows'
  <2>1. ASSUME NEW o \in Directors, o # s, director[o].stage # "idle"
        PROVE  /\ director[o].ref \in Donations
               /\ director[o].to \in Statuses
               /\ status'[director[o].ref] # "none"
               /\ director[o].stage = "moving" =>
                    /\ director[o].seen \in Statuses
                    /\ AssertMove(kind[director[o].ref], director[o].seen, director[o].to)
               /\ director[o].stage = "moved" =>
                    director[o].entry \in 1..Len(trail'[director[o].ref])
    BY <2>1, <1>3, <1>8 DEF DirectorsFollowRows
  <2>2. director'[s].entry \in 1..Len(trail'[d])
    BY <1>3, <1>5, <1>6
  <2>3. ASSUME NEW o \in Directors, director'[o].stage # "idle"
        PROVE  /\ director'[o].ref \in Donations
               /\ director'[o].to \in Statuses
               /\ status'[director'[o].ref] # "none"
               /\ director'[o].stage = "moving" =>
                    /\ director'[o].seen \in Statuses
                    /\ AssertMove(kind'[director'[o].ref], director'[o].seen, director'[o].to)
               /\ director'[o].stage = "moved" =>
                    director'[o].entry \in 1..Len(trail'[director'[o].ref])
    <3>1. CASE o = s
      BY <3>1, <2>2, <1>1, <1>3, <1>6
    <3>2. CASE o # s
      BY <3>2, <2>1, <2>3, <1>2, <1>4
    <3> QED
      BY <3>1, <3>2
  <2> QED
    BY <2>3 DEF DirectorsFollowRows, AssertMove
<1>10. DonorsFollowRows'
  BY <1>2, <1>3 DEF DonorsFollowRows
<1>11. NoticesFollowTrail'
  <2>1. ASSUME NEW e \in Donations, NEW x \in Statuses, NEW n \in Nat
        PROVE  /\ <<"status", e, x, n>> \in notices => n <= Len(trail'[e])
               /\ <<"goods", e, x, n>> \in notices =>
                    status'[e] # "none" /\ (x = "CANCELLED" => status'[e] = "CANCELLED")
    <3>1. <<"status", e, x, n>> \in notices => n <= Len(trail'[e])
      <4>1. <<"status", e, x, n>> \in notices => n <= Len(trail[e])
        BY DEF NoticesFollowTrail
      <4>2. Len(trail[e]) \in Nat /\ Len(trail'[e]) >= Len(trail[e]) /\ Len(trail'[e]) \in Nat
        BY <1>3, <1>8
      <4> QED
        BY <4>1, <4>2
    <3>2. <<"goods", e, x, n>> \in notices =>
            status'[e] # "none" /\ (x = "CANCELLED" => status'[e] = "CANCELLED")
      BY <1>3 DEF NoticesFollowTrail
    <3> QED
      BY <3>1, <3>2
  <2> QED
    BY <2>1, <1>2 DEF NoticesFollowTrail
<1>12. EveryMoveHeard'
  <2>1. MoveKey(s)' = <<"status", d, to, Len(trail[d]) + 1>>
    BY <1>6 DEF MoveKey
  <2>2. <<"status", d, to, Len(trail[d]) + 1>> \notin notices
    <3>1. Len(trail[d]) + 1 \in Nat /\ ~(Len(trail[d]) + 1 <= Len(trail[d]))
      BY <1>5
    <3> QED
      BY <3>1, <1>1, Zenon DEF NoticesFollowTrail
  <2>3. ASSUME NEW o \in Directors, o # s, director[o].stage = "moved"
        PROVE  MoveKey(o)' = MoveKey(o) /\ MoveKey(o) # <<"status", d, to, Len(trail[d]) + 1>>
    <3>1. director[o].ref = d => director[o].entry <= Len(trail[d])
      BY <2>3, <1>5 DEF DirectorsFollowRows
    <3>2. director[o].entry \in Nat
      BY DEF TypeOK
    <3>3. director[o].ref # d \/ director[o].entry # Len(trail[d]) + 1
      BY <3>1, <3>2, <1>5
    <3> QED
      BY <2>3, <3>3, <1>4 DEF MoveKey
  <2>4. \A t \in Donors : ReceiptKey(t)' = ReceiptKey(t)
    BY <1>2 DEF ReceiptKey
  <2> QED
    BY <2>1, <2>2, <2>3, <2>4, <1>2, <1>4, <1>6 DEF EveryMoveHeard
<1> QED
  BY <1>3, <1>7, <1>9, <1>10, <1>11, <1>12

LEMMA DirectorNotifiesIInv ==
  ASSUME IInv, NEW s \in Directors, DirectorNotifies(s)
  PROVE  IInv'
<1> USE DEF IInv
<1> DEFINE d == director[s].ref
<1>1. /\ UNCHANGED <<status, kind, amount, confirmed, trail, donor>>
      /\ \A o \in Directors : o # s => director'[o] = director[o]
      /\ director'[s].stage = "idle"
      /\ notices' = notices \cup {MoveKey(s)}
  BY DEF DirectorNotifies, IdleDirector, TypeOK
<1>2. /\ director[s].stage = "moved" /\ d \in Donations /\ director[s].to \in Statuses
      /\ director[s].entry \in Nat /\ director[s].entry <= Len(trail[d])
  BY DEF DirectorNotifies, DirectorsFollowRows, TypeOK
<1>3. MoveKey(s) = <<"status", d, director[s].to, director[s].entry>>
  BY DEF MoveKey
<1>4. TypeOK'
  <2>1. notices' \subseteq Keys
    BY <1>1, <1>2, <1>3 DEF TypeOK, Keys
  <2>2. IdleDirector \in [stage : {"idle", "moving", "moved"}, ref : Donations \cup {NoDonation},
                          seen : Rungs, to : Rungs, entry : Nat]
    BY DEF IdleDirector, Rungs
  <2>3. director' \in [Directors -> [stage : {"idle", "moving", "moved"},
                                     ref : Donations \cup {NoDonation},
                                     seen : Rungs, to : Rungs, entry : Nat]]
    BY <2>2 DEF DirectorNotifies, TypeOK
  <2> QED
    BY <1>1, <2>1, <2>3 DEF TypeOK
<1>5. RowsHaveKind' /\ TrailAgrees' /\ TrailClimbs' /\ StampMeansConfirmed'
  BY <1>1 DEF RowsHaveKind, TrailAgrees, TrailClimbs, StampMeansConfirmed, Legal, AssertMove
<1>6. DirectorsFollowRows' /\ DonorsFollowRows'
  BY <1>1 DEF DirectorsFollowRows, DonorsFollowRows, AssertMove
<1>7. NoticesFollowTrail'
  <2>1. ASSUME NEW e \in Donations, NEW x \in Statuses, NEW n \in Nat
        PROVE  /\ <<"status", e, x, n>> \in notices' => n <= Len(trail[e])
               /\ <<"goods", e, x, n>> \in notices' =>
                    status[e] # "none" /\ (x = "CANCELLED" => status[e] = "CANCELLED")
    <3>1. <<"goods", e, x, n>> # MoveKey(s)
      BY <1>3
    <3>2. <<"status", e, x, n>> = MoveKey(s) => n <= Len(trail[e])
      BY <1>2, <1>3
    <3>3. /\ <<"status", e, x, n>> \in notices => n <= Len(trail[e])
          /\ <<"goods", e, x, n>> \in notices =>
               status[e] # "none" /\ (x = "CANCELLED" => status[e] = "CANCELLED")
      BY DEF NoticesFollowTrail
    <3> QED
      BY <1>1, <3>1, <3>2, <3>3
  <2> QED
    BY <2>1, <1>1 DEF NoticesFollowTrail
<1>8. EveryMoveHeard'
  <2>1. \A o \in Directors : o # s => MoveKey(o)' = MoveKey(o)
    BY <1>1 DEF MoveKey
  <2>2. \A t \in Donors : ReceiptKey(t)' = ReceiptKey(t) /\ ReceiptKey(t) # MoveKey(s)
    BY <1>1, <1>3 DEF ReceiptKey
  <2> QED
    BY <2>1, <2>2, <1>1, <1>2 DEF EveryMoveHeard
<1> QED
  BY <1>4, <1>5, <1>6, <1>7, <1>8

\* A donor's call that touches no status, trail or notice.
LEMMA DonorTurnIInv ==
  ASSUME IInv, NEW t \in Donors,
         \/ \E d \in Donations : EditReads(t, d) \/ CancelReads(t, d)
         \/ \E a \in Amounts : EditWrites(t, a)
         \/ DonorFails(t)
         \/ CancelMoves(t) /\ UNCHANGED status
  PROVE  IInv'
<1> USE ConstantsOK DEF IInv
<1>1. ~Move(donor[t].ref, "PLEDGED", "CANCELLED") \/ ~UNCHANGED status \/ ~CancelMoves(t)
  BY DEF Move, CancelMoves, TypeOK, DonorsFollowRows
<1>2. /\ UNCHANGED <<status, kind, confirmed, trail, director, notices>>
      /\ amount' \in [Donations -> Amounts]
      /\ \A o \in Donors : o # t => donor'[o] = donor[o]
      /\ donor'[t].stage \in {"idle", "editing", "cancelling"}
      /\ donor'[t].stage # "idle" => donor'[t].ref \in Donations /\ status[donor'[t].ref] # "none"
      /\ donor' \in [Donors -> [stage : {"idle", "editing", "cancelling", "pledged", "cancelled"},
                                ref : Donations \cup {NoDonation}]]
  <2>1. CASE \E d \in Donations : EditReads(t, d) \/ CancelReads(t, d)
    <3>1. PICK d \in Donations, x \in {"editing", "cancelling"} :
            /\ DonorAt(t, x, d) /\ status[d] # "none"
            /\ UNCHANGED <<status, kind, amount, confirmed, trail, director, notices>>
      BY <2>1 DEF EditReads, CancelReads, Editable
    <3> QED
      BY <3>1 DEF DonorAt, TypeOK
  <2>2. CASE donor' = [donor EXCEPT ![t] = IdleDonor]
    <3>1. UNCHANGED <<status, kind, confirmed, trail, director, notices>>
          /\ amount' \in [Donations -> Amounts]
      <4>1. CASE \E d \in Donations : EditReads(t, d) \/ CancelReads(t, d)
        BY <4>1 DEF EditReads, CancelReads, TypeOK
      <4>2. CASE \E a \in Amounts : EditWrites(t, a)
        <5>1. PICK a \in Amounts : EditWrites(t, a)
          BY <4>2
        <5> QED
          BY <5>1 DEF EditWrites, TypeOK
      <4>3. CASE DonorFails(t)
        BY <4>3 DEF DonorFails, TypeOK
      <4>4. CASE CancelMoves(t) /\ UNCHANGED status
        BY <1>1, <4>4 DEF CancelMoves, TypeOK
      <4> QED
        BY <4>1, <4>2, <4>3, <4>4
    <3>2. /\ donor'[t] = IdleDonor
          /\ \A o \in Donors : o # t => donor'[o] = donor[o]
          /\ donor' \in [Donors -> [stage : {"idle", "editing", "cancelling", "pledged", "cancelled"},
                                    ref : Donations \cup {NoDonation}]]
      BY <2>2 DEF IdleDonor, TypeOK
    <3> QED
      BY <3>1, <3>2 DEF IdleDonor
  <2> QED
    BY <1>1, <2>1, <2>2 DEF EditWrites, DonorFails, CancelMoves
<1>3. TypeOK'
  BY <1>2 DEF TypeOK
<1>4. RowsHaveKind' /\ TrailAgrees' /\ TrailClimbs' /\ StampMeansConfirmed'
  <2>1. UNCHANGED <<status, kind, confirmed, trail>>
    BY <1>2
  <2> QED
    BY <2>1 DEF RowsHaveKind, TrailAgrees, TrailClimbs, StampMeansConfirmed, Legal, AssertMove
<1>5. DirectorsFollowRows' /\ DonorsFollowRows' /\ NoticesFollowTrail'
  BY <1>2 DEF DirectorsFollowRows, DonorsFollowRows, NoticesFollowTrail, AssertMove
<1>6. EveryMoveHeard'
  <2>1. \A o \in Donors : donor'[o].stage \in {"pledged", "cancelled"} =>
          o # t /\ donor[o].stage \in {"pledged", "cancelled"} /\ ReceiptKey(o)' = ReceiptKey(o)
    BY <1>2 DEF ReceiptKey
  <2>2. \A s \in Directors : MoveKey(s)' = MoveKey(s)
    BY <1>2 DEF MoveKey
  <2> QED
    BY <2>1, <2>2, <1>2 DEF EveryMoveHeard
<1> QED
  BY <1>3, <1>4, <1>5, <1>6

LEMMA CancelMovesIInv ==
  ASSUME IInv, NEW t \in Donors, CancelMoves(t), Move(donor[t].ref, "PLEDGED", "CANCELLED")
  PROVE  IInv'
<1> USE DEF IInv
<1> DEFINE d == donor[t].ref
<1>1. /\ d \in Donations /\ "PLEDGED" \in Statuses /\ "CANCELLED" \in Statuses
      /\ Legal(kind[d], "PLEDGED", "CANCELLED") /\ Move(d, "PLEDGED", "CANCELLED")
  BY DEF CancelMoves, DonorsFollowRows, Legal, Statuses
<1>2. UNCHANGED <<kind, amount, director, notices>>
  BY DEF CancelMoves
<1>3. /\ status' \in [Donations -> Rungs]
      /\ trail' \in [Donations -> Seq(Statuses)]
      /\ confirmed' \subseteq Donations
      /\ \A e \in Donations : e # d => trail'[e] = trail[e] /\ status'[e] = status[e]
      /\ Len(trail'[d]) = Len(trail[d]) + 1
      /\ status[d] = "PLEDGED" /\ status'[d] = "CANCELLED"
      /\ status'[d] # "none" /\ status[d] \notin {"none", "CANCELLED", "CONFIRMED"}
      /\ RowsHaveKind' /\ TrailAgrees' /\ TrailClimbs' /\ StampMeansConfirmed'
  BY <1>1, <1>2, MoveKeepsRows, Zenon
<1>4. DonorAt(t, "cancelled", d)
  BY <1>3 DEF CancelMoves
<1>5. /\ \A o \in Donors : o # t => donor'[o] = donor[o]
      /\ donor'[t].stage = "cancelled" /\ donor'[t].ref = d
      /\ donor' \in [Donors -> [stage : {"idle", "editing", "cancelling", "pledged", "cancelled"},
                                ref : Donations \cup {NoDonation}]]
  BY <1>1, <1>4 DEF DonorAt, TypeOK
<1>6. TypeOK'
  BY <1>2, <1>3, <1>5 DEF TypeOK
<1>7. \A e \in Donations : /\ Len(trail[e]) \in Nat /\ Len(trail'[e]) \in Nat
                           /\ Len(trail'[e]) >= Len(trail[e])
  <2>1. ASSUME NEW e \in Donations
        PROVE  /\ Len(trail[e]) \in Nat /\ Len(trail'[e]) \in Nat
               /\ Len(trail'[e]) >= Len(trail[e])
    <3>1. Len(trail[e]) \in Nat /\ Len(trail'[e]) \in Nat
      BY <1>3 DEF TypeOK
    <3>2. CASE e = d
      BY <3>1, <3>2, <1>3
    <3>3. CASE e # d
      BY <3>1, <3>3, <1>3
    <3> QED
      BY <3>2, <3>3
  <2> QED
    BY <2>1
<1>8. DirectorsFollowRows'
  <2>1. ASSUME NEW o \in Directors, director[o].stage # "idle"
        PROVE  /\ director[o].ref \in Donations
               /\ director[o].to \in Statuses
               /\ status'[director[o].ref] # "none"
               /\ director[o].stage = "moving" =>
                    /\ director[o].seen \in Statuses
                    /\ AssertMove(kind[director[o].ref], director[o].seen, director[o].to)
               /\ director[o].stage = "moved" =>
                    director[o].entry \in 1..Len(trail'[director[o].ref])
    BY <2>1, <1>3, <1>7 DEF DirectorsFollowRows
  <2> QED
    BY <2>1, <1>2 DEF DirectorsFollowRows, AssertMove
<1>9. DonorsFollowRows'
  <2>1. ASSUME NEW o \in Donors, o # t, donor[o].stage # "idle"
        PROVE  /\ donor[o].ref \in Donations
               /\ status'[donor[o].ref] # "none"
               /\ donor[o].stage = "cancelled" => status'[donor[o].ref] = "CANCELLED"
    BY <2>1, <1>3 DEF DonorsFollowRows
  <2> QED
    BY <2>1, <1>1, <1>3, <1>5 DEF DonorsFollowRows
<1>10. NoticesFollowTrail'
  <2>1. ASSUME NEW e \in Donations, NEW x \in Statuses, NEW n \in Nat
        PROVE  /\ <<"status", e, x, n>> \in notices => n <= Len(trail'[e])
               /\ <<"goods", e, x, n>> \in notices =>
                    status'[e] # "none" /\ (x = "CANCELLED" => status'[e] = "CANCELLED")
    <3>1. /\ <<"status", e, x, n>> \in notices => n <= Len(trail[e])
          /\ <<"goods", e, x, n>> \in notices =>
               status[e] # "none" /\ (x = "CANCELLED" => status[e] = "CANCELLED")
      BY DEF NoticesFollowTrail
    <3>2. <<"status", e, x, n>> \in notices => n <= Len(trail'[e])
      BY <3>1, <1>7
    <3> QED
      BY <3>1, <3>2, <1>3
  <2> QED
    BY <2>1, <1>2 DEF NoticesFollowTrail
<1>11. EveryMoveHeard'
  <2>1. ReceiptKey(t)' = <<"goods", d, "CANCELLED", 0>>
    BY <1>5 DEF ReceiptKey
  <2>2. <<"goods", d, "CANCELLED", 0>> \notin notices
    <3>1. <<"goods", d, "CANCELLED", 0>> \in notices => status[d] = "CANCELLED"
      BY <1>1, 0 \in Nat, Zenon DEF NoticesFollowTrail
    <3> QED
      BY <3>1, <1>3
  <2>3. ASSUME NEW o \in Donors, o # t, donor[o].stage \in {"pledged", "cancelled"}
        PROVE  ReceiptKey(o)' = ReceiptKey(o) /\ ReceiptKey(o) # <<"goods", d, "CANCELLED", 0>>
    <3>1. donor[o].stage = "cancelled" => donor[o].ref # d
      BY <2>3, <1>3 DEF DonorsFollowRows
    <3> QED
      BY <2>3, <3>1, <1>5 DEF ReceiptKey
  <2>4. \A s \in Directors : MoveKey(s)' = MoveKey(s)
    BY <1>2 DEF MoveKey
  <2> QED
    BY <2>1, <2>2, <2>3, <2>4, <1>2, <1>5 DEF EveryMoveHeard
<1> QED
  BY <1>3, <1>6, <1>8, <1>9, <1>10, <1>11

LEMMA DonorToldIInv ==
  ASSUME IInv, NEW t \in Donors, DonorTold(t)
  PROVE  IInv'
<1> USE DEF IInv
<1> DEFINE d == donor[t].ref
           x0 == IF donor[t].stage = "pledged" THEN "PLEDGED" ELSE "CANCELLED"
<1>1. /\ UNCHANGED <<status, kind, amount, confirmed, trail, director>>
      /\ \A o \in Donors : o # t => donor'[o] = donor[o]
      /\ donor'[t].stage = "idle"
      /\ notices' = notices \cup {ReceiptKey(t)}
  BY DEF DonorTold, IdleDonor, TypeOK
<1>2. /\ donor[t].stage \in {"pledged", "cancelled"} /\ d \in Donations /\ x0 \in Statuses
      /\ status[d] # "none" /\ (x0 = "CANCELLED" => status[d] = "CANCELLED")
  BY DEF DonorTold, DonorsFollowRows, Statuses
<1>3. ReceiptKey(t) = <<"goods", d, x0, 0>>
  BY DEF ReceiptKey
<1> HIDE DEF x0
<1>4. TypeOK'
  <2>1. notices' \subseteq Keys
    BY <1>1, <1>2, <1>3 DEF TypeOK, Keys
  <2>2. donor' \in [Donors -> [stage : {"idle", "editing", "cancelling", "pledged", "cancelled"},
                               ref : Donations \cup {NoDonation}]]
    BY DEF DonorTold, IdleDonor, TypeOK
  <2> QED
    BY <1>1, <2>1, <2>2 DEF TypeOK
<1>5. RowsHaveKind' /\ TrailAgrees' /\ TrailClimbs' /\ StampMeansConfirmed'
  BY <1>1 DEF RowsHaveKind, TrailAgrees, TrailClimbs, StampMeansConfirmed, Legal, AssertMove
<1>6. DirectorsFollowRows' /\ DonorsFollowRows'
  BY <1>1 DEF DirectorsFollowRows, DonorsFollowRows, AssertMove
<1>7. NoticesFollowTrail'
  <2>1. ASSUME NEW e \in Donations, NEW x \in Statuses, NEW n \in Nat
        PROVE  /\ <<"status", e, x, n>> \in notices' => n <= Len(trail[e])
               /\ <<"goods", e, x, n>> \in notices' =>
                    status[e] # "none" /\ (x = "CANCELLED" => status[e] = "CANCELLED")
    <3>1. <<"status", e, x, n>> # ReceiptKey(t)
      BY <1>3
    <3>2. <<"goods", e, x, n>> = ReceiptKey(t) =>
            status[e] # "none" /\ (x = "CANCELLED" => status[e] = "CANCELLED")
      BY <1>2, <1>3
    <3>3. /\ <<"status", e, x, n>> \in notices => n <= Len(trail[e])
          /\ <<"goods", e, x, n>> \in notices =>
               status[e] # "none" /\ (x = "CANCELLED" => status[e] = "CANCELLED")
      BY DEF NoticesFollowTrail
    <3> QED
      BY <1>1, <3>1, <3>2, <3>3
  <2> QED
    BY <2>1, <1>1 DEF NoticesFollowTrail
<1>8. EveryMoveHeard'
  <2>1. \A o \in Donors : o # t => ReceiptKey(o)' = ReceiptKey(o)
    BY <1>1 DEF ReceiptKey
  <2>2. \A s \in Directors : MoveKey(s)' = MoveKey(s) /\ MoveKey(s) # ReceiptKey(t)
    BY <1>1, <1>3 DEF MoveKey
  <2> QED
    BY <2>1, <2>2, <1>1, <1>2 DEF EveryMoveHeard
<1> QED
  BY <1>4, <1>5, <1>6, <1>7, <1>8

LEMMA StutterIInv == IInv /\ UNCHANGED vars => IInv'
  BY DEF vars, IInv, TypeOK, RowsHaveKind, TrailAgrees, TrailClimbs, StampMeansConfirmed,
     DirectorsFollowRows, DonorsFollowRows, NoticesFollowTrail, EveryMoveHeard, MoveKey,
     ReceiptKey, Legal, AssertMove

LEMMA StepIInv == IInv /\ [Next]_vars => IInv'
<1> SUFFICES ASSUME IInv, [Next]_vars PROVE IInv'
  OBVIOUS
<1>1. CASE \E d \in Donations, a \in Amounts : MoneyArrives(d, a)
  BY <1>1, OpeningIInv
<1>2. ASSUME NEW s \in Directors,
             \/ \E d \in Donations, to \in Statuses : DirectorReads(s, d, to)
             \/ DirectorMoves(s) \/ DirectorConflicts(s)
             \/ DirectorNotifies(s) \/ DirectorFails(s)
      PROVE  IInv'
  BY <1>2, DirectorTurnIInv, DirectorMovesIInv, DirectorNotifiesIInv
<1>3. ASSUME NEW t \in Donors, CancelMoves(t)
      PROVE  IInv'
  <2>1. Move(donor[t].ref, "PLEDGED", "CANCELLED") \/ UNCHANGED status
    BY <1>3 DEF CancelMoves
  <2> QED
    BY <1>3, <2>1, CancelMovesIInv, DonorTurnIInv
<1>4. ASSUME NEW t \in Donors,
             \/ \E d \in Donations, a \in Amounts : PledgeGoods(t, d, a)
             \/ \E d \in Donations : EditReads(t, d) \/ CancelReads(t, d)
             \/ \E a \in Amounts : EditWrites(t, a)
             \/ DonorTold(t) \/ DonorFails(t)
      PROVE  IInv'
  BY <1>4, OpeningIInv, DonorTurnIInv, DonorToldIInv
<1>5. CASE UNCHANGED vars
  BY <1>5, StutterIInv
<1> QED
  BY <1>1, <1>2, <1>3, <1>4, <1>5 DEF Next

----------------------------------------------------------------------------------
(* The theorems *)

\* The inductive invariant holds in every reachable state.
THEOREM Invariance == Spec => []IInv
  BY InitIInv, StepIInv, PTL DEF Spec

\* Every column and every call keeps its type.
THEOREM TypeCorrect == Spec => []TypeOK
  BY Invariance, PTL DEF IInv

\* The audit trail and the row never disagree on where the donation is, and confirmed_at is
\* set exactly on the confirmed donations.
THEOREM RecordSound == Spec => [](TrailAgrees /\ StampMeansConfirmed)
<1>1. IInv => TrailAgrees /\ StampMeansConfirmed
  BY DEF IInv
<1> QED
  BY <1>1, Invariance, PTL

\* No dedupe key ever swallows a notice that was due.
THEOREM NothingSwallowed == Spec => []EveryMoveHeard
  BY Invariance, PTL DEF IInv

\* Whatever was confirmed was verified, and goods were first awaited, since the
\* donation was last pledged.
THEOREM ReceivedFirst == Spec => []ConfirmedWasReceived
<1>1. IInv => ConfirmedWasReceived
  <2> SUFFICES ASSUME IInv, NEW d \in Donations, status[d] = "CONFIRMED"
               PROVE  LET n == Len(trail[d]) IN
                      /\ n > 2 /\ trail[d][n - 1] = "VERIFYING"
                      /\ kind[d] = "GOODS" => /\ n > 3 /\ trail[d][n - 2] = "AWAITING_PICKUP"
                                              /\ trail[d][n - 3] = "PLEDGED"
                      /\ kind[d] = "MONEY" => trail[d][n - 2] = "PLEDGED"
    BY DEF ConfirmedWasReceived
  <2> USE DEF IInv
  <2> DEFINE n == Len(trail[d])
             t == trail[d]
  <2>1. t \in Seq(Statuses) /\ n \in Nat /\ t # <<>> /\ t[n] = "CONFIRMED" /\ t[1] = "PLEDGED"
    BY DEF TypeOK, TrailAgrees, TrailClimbs
  <2>2. n >= 1
    BY <2>1
  <2>3. kind[d] \in {"GOODS", "MONEY"}
    BY DEF TypeOK, RowsHaveKind
  <2>4. ASSUME NEW i \in 1..n - 1
        PROVE  /\ t[i] \in Statuses /\ t[i + 1] \in Statuses
               /\ Legal(kind[d], t[i], t[i + 1])
    BY <2>1 DEF TrailClimbs
  <2> HIDE DEF n, t
  <2>5. n > 1 /\ t[n - 1] = "VERIFYING"
    <3>1. n > 1
      BY <2>1, <2>2
    <3>2. n - 1 \in 1..n - 1 /\ (n - 1) + 1 = n
      BY <3>1, <2>1
    <3> QED
      BY <3>1, <3>2, <2>1, <2>3, <2>4, LadderTops
  <2>6. n > 2 /\ t[n - 2] = IF kind[d] = "GOODS" THEN "AWAITING_PICKUP" ELSE "PLEDGED"
    <3>1. n > 2
      BY <2>1, <2>5
    <3>2. n - 2 \in 1..n - 1 /\ (n - 2) + 1 = n - 1
      BY <3>1, <2>1
    <3> QED
      BY <3>1, <3>2, <2>3, <2>4, <2>5, LadderTops
  <2>7. kind[d] = "GOODS" => n > 3 /\ t[n - 3] = "PLEDGED"
    <3> SUFFICES ASSUME kind[d] = "GOODS" PROVE n > 3 /\ t[n - 3] = "PLEDGED"
      OBVIOUS
    <3>1. n > 3
      BY <2>1, <2>6
    <3>2. n - 3 \in 1..n - 1 /\ (n - 3) + 1 = n - 2
      BY <3>1, <2>1
    <3> QED
      BY <3>1, <3>2, <2>3, <2>4, <2>6, LadderTops
  <2> QED
    BY <2>3, <2>5, <2>6, <2>7 DEF n, t
<1> QED
  BY <1>1, Invariance, PTL

\* A confirmed or withdrawn donation never moves again.
THEOREM EndsStay == Spec => EndsAreFinal
<1>1. IInv /\ [Next]_vars =>
        [\A d \in Donations : status[d] \in {"CANCELLED", "CONFIRMED"} => status'[d] = status[d]]_vars
  <2> SUFFICES ASSUME IInv, Next, NEW d \in Donations, status[d] \in {"CANCELLED", "CONFIRMED"}
               PROVE  status'[d] = status[d]
    BY DEF vars
  <2> USE DEF IInv
  <2>1. ASSUME NEW e \in Donations, NEW k, NEW a, OpenRow(e, k, a)
        PROVE  status'[d] = status[d]
    BY <2>1 DEF OpenRow, TypeOK
  <2>2. ASSUME NEW s \in Directors, DirectorMoves(s)
        PROVE  status'[d] = status[d]
    <3>1. /\ director[s].ref \in Donations /\ director[s].seen \in Statuses
          /\ director[s].to \in Statuses /\ Move(director[s].ref, director[s].seen, director[s].to)
          /\ Legal(kind[director[s].ref], director[s].seen, director[s].to)
      BY <2>2 DEF DirectorMoves, DirectorsFollowRows, Legal
    <3>2. kind[director[s].ref] \in {"GOODS", "MONEY"}
      BY <3>1 DEF TypeOK, RowsHaveKind, Move, Statuses
    <3>3. director[s].seen \notin {"CANCELLED", "CONFIRMED"}
      BY <3>1, <3>2, LadderTops
    <3> QED
      BY <3>1, <3>3 DEF Move, TypeOK
  <2>3. ASSUME NEW t \in Donors, CancelMoves(t)
        PROVE  status'[d] = status[d]
    BY <2>3 DEF CancelMoves, Move, TypeOK
  <2> QED
    BY <2>1, <2>2, <2>3 DEF Next, MoneyArrives, PledgeGoods, DirectorReads, DirectorConflicts,
       DirectorNotifies, DirectorFails, EditReads, EditWrites, CancelReads, DonorTold, DonorFails
<1> QED
  BY <1>1, Invariance, PTL DEF Spec, EndsAreFinal
----------------------------------------------------------------------------------
(* The value a donation is credited with *)

\* Nobody has donation d open for an edit that was found editable before.
Unedited(d) == \A t \in Donors : donor[t].stage = "editing" => donor[t].ref # d

\* Only goods are edited.
EditorsHoldGoods ==
    \A t \in Donors : donor[t].stage = "editing" =>
        donor[t].ref \in Donations /\ kind[donor[t].ref] = "GOODS" /\ status[donor[t].ref] # "none"

\* What climbs a ladder is on the ledger.
KindsHaveRows == \A d \in Donations : kind[d] # "none" => status[d] # "none"

\* The value of money is never changed, and that of goods that moved on only by an edit
\* that had read them before they did: with none in hand, it stays and none begins.
ValueStays ==
    [][\A d \in Donations :
        /\ kind[d] = "MONEY" => amount'[d] = amount[d]
        /\ status[d] \notin {"none", "PLEDGED"} /\ Unedited(d) =>
             amount'[d] = amount[d] /\ Unedited(d)']_vars

\* What a step does to the rows that were on the ledger before it: none leaves it or
\* changes ladders.
LEMMA RowsStay ==
  ASSUME IInv, [Next]_vars, NEW d \in Donations, status[d] # "none"
  PROVE  status'[d] # "none" /\ kind'[d] = kind[d]
<1> USE DEF IInv
<1>1. ASSUME NEW e \in Donations, NEW k, NEW a, OpenRow(e, k, a)
      PROVE  status'[d] # "none" /\ kind'[d] = kind[d]
  BY <1>1 DEF OpenRow, TypeOK
<1>2. ASSUME NEW s \in Directors, DirectorMoves(s)
      PROVE  status'[d] # "none" /\ kind'[d] = kind[d]
  <2>1. /\ director[s].to \in Statuses
        /\ status' = [status EXCEPT ![director[s].ref] = director[s].to] /\ kind' = kind
    BY <1>2 DEF DirectorMoves, Move, DirectorsFollowRows
  <2> QED
    BY <2>1 DEF TypeOK, Statuses
<1>3. ASSUME NEW t \in Donors, CancelMoves(t)
      PROVE  status'[d] # "none" /\ kind'[d] = kind[d]
  BY <1>3 DEF CancelMoves, Move, TypeOK
<1> QED
  BY <1>1, <1>2, <1>3 DEF Next, vars, MoneyArrives, PledgeGoods, DirectorReads, DirectorConflicts,
     DirectorNotifies, DirectorFails, EditReads, EditWrites, CancelReads, DonorTold, DonorFails

\* Whoever is editing after a step was before it, or has just found the row editable.
LEMMA EditorsCome ==
  ASSUME IInv, [Next]_vars, NEW t \in Donors, donor'[t].stage = "editing"
  PROVE  \/ donor'[t] = donor[t]
         \/ /\ donor'[t].ref \in Donations /\ Editable(donor'[t].ref)
            /\ UNCHANGED <<status, kind, amount>>
<1> USE DEF IInv
<1>1. ASSUME NEW u \in Donors, NEW d \in Donations, EditReads(u, d)
      PROVE  \/ donor'[t] = donor[t]
             \/ /\ donor'[t].ref \in Donations /\ Editable(donor'[t].ref)
                /\ UNCHANGED <<status, kind, amount>>
  BY <1>1 DEF EditReads, DonorAt, TypeOK
<1>2. ASSUME NEW u \in Donors, NEW x, donor' = [donor EXCEPT ![u] = x], x.stage # "editing"
      PROVE  donor'[t] = donor[t]
  BY <1>2 DEF TypeOK
<1>3. ASSUME NEW u \in Donors,
             \/ \E d \in Donations, a \in Amounts : PledgeGoods(u, d, a)
             \/ \E d \in Donations : CancelReads(u, d)
             \/ \E a \in Amounts : EditWrites(u, a)
             \/ CancelMoves(u) \/ DonorTold(u) \/ DonorFails(u)
      PROVE  donor'[t] = donor[t]
  <2>1. \E x : donor' = [donor EXCEPT ![u] = x] /\ x.stage # "editing"
    <3>1. CASE donor' = [donor EXCEPT ![u] = IdleDonor]
      <4>1. IdleDonor.stage # "editing"
        BY DEF IdleDonor
      <4> QED
        BY <3>1, <4>1
    <3>2. ASSUME NEW d, NEW c \in {"pledged", "cancelling", "cancelled"}, DonorAt(u, c, d)
          PROVE  \E x : donor' = [donor EXCEPT ![u] = x] /\ x.stage # "editing"
      <4>1. [stage |-> c, ref |-> d].stage # "editing"
        OBVIOUS
      <4> QED
        BY <3>2, <4>1 DEF DonorAt
    <3> QED
      BY <1>3, <3>1, <3>2 DEF PledgeGoods, CancelReads, EditWrites, CancelMoves, DonorTold, DonorFails
  <2> QED
    BY <1>2, <2>1
<1>4. CASE donor' = donor
  BY <1>4
<1> QED
  BY <1>1, <1>3, <1>4 DEF Next, vars, MoneyArrives, DirectorReads, DirectorMoves, DirectorConflicts,
     DirectorNotifies, DirectorFails

LEMMA EditorsKeep == IInv /\ EditorsHoldGoods /\ [Next]_vars => EditorsHoldGoods'
<1> SUFFICES ASSUME IInv, EditorsHoldGoods, [Next]_vars,
                    NEW t \in Donors, donor'[t].stage = "editing"
             PROVE  /\ donor'[t].ref \in Donations /\ kind'[donor'[t].ref] = "GOODS"
                    /\ status'[donor'[t].ref] # "none"
  BY DEF EditorsHoldGoods
<1>1. CASE donor'[t] = donor[t]
  BY <1>1, RowsStay DEF EditorsHoldGoods
<1>2. CASE /\ donor'[t].ref \in Donations /\ Editable(donor'[t].ref)
           /\ UNCHANGED <<status, kind, amount>>
  BY <1>2 DEF Editable
<1> QED
  BY <1>1, <1>2, EditorsCome

LEMMA KindsKeep == IInv /\ KindsHaveRows /\ [Next]_vars => KindsHaveRows'
<1> SUFFICES ASSUME IInv, KindsHaveRows, [Next]_vars, NEW d \in Donations,
                    kind'[d] # "none", status[d] = "none"
             PROVE  status'[d] # "none"
  BY RowsStay DEF KindsHaveRows
<1>1. kind'[d] # kind[d]
  BY DEF KindsHaveRows
<1>2. ASSUME NEW e \in Donations, NEW k, NEW a, OpenRow(e, k, a)
      PROVE  status'[d] # "none"
  BY <1>1, <1>2 DEF OpenRow, IInv, TypeOK
<1> QED
  BY <1>1, <1>2 DEF Next, vars, MoneyArrives, PledgeGoods, DirectorReads, DirectorMoves,
     DirectorConflicts, DirectorNotifies, DirectorFails, EditReads, EditWrites, CancelReads,
     CancelMoves, DonorTold, DonorFails

\* A value is written when its row opens, and by an edit.
LEMMA ValueMoves ==
  ASSUME IInv, [Next]_vars, NEW d \in Donations, amount'[d] # amount[d]
  PROVE  status[d] = "none" \/ ~ Unedited(d)
<1>1. ASSUME NEW e \in Donations, NEW k, NEW a, OpenRow(e, k, a)
      PROVE  status[d] = "none"
  BY <1>1 DEF OpenRow, IInv, TypeOK
<1>2. ASSUME NEW t \in Donors, NEW a \in Amounts, EditWrites(t, a)
      PROVE  ~ Unedited(d)
  BY <1>2 DEF EditWrites, IInv, TypeOK, Unedited
<1> QED
  BY <1>1, <1>2 DEF Next, vars, MoneyArrives, PledgeGoods, DirectorReads, DirectorMoves,
     DirectorConflicts, DirectorNotifies, DirectorFails, EditReads, CancelReads, CancelMoves,
     DonorTold, DonorFails

\* The exact extent of the unguarded update: a director's move locks the value but for the
\* edits that were open then, and nothing ever changes what a payment brought in.
THEOREM ValueKept == Spec => ValueStays
<1>1. Init => EditorsHoldGoods /\ KindsHaveRows
  BY DEF Init, EditorsHoldGoods, KindsHaveRows, IdleDonor
<1>2. IInv /\ EditorsHoldGoods /\ KindsHaveRows /\ [Next]_vars =>
        [\A d \in Donations :
            /\ kind[d] = "MONEY" => amount'[d] = amount[d]
            /\ status[d] \notin {"none", "PLEDGED"} /\ Unedited(d) =>
                 amount'[d] = amount[d] /\ Unedited(d)']_vars
  <2> SUFFICES ASSUME IInv, EditorsHoldGoods, KindsHaveRows, [Next]_vars, NEW d \in Donations
               PROVE  /\ kind[d] = "MONEY" => amount'[d] = amount[d]
                      /\ status[d] \notin {"none", "PLEDGED"} /\ Unedited(d) =>
                           amount'[d] = amount[d] /\ Unedited(d)'
    OBVIOUS
  <2>1. ASSUME kind[d] = "MONEY" PROVE amount'[d] = amount[d]
    <3>1. Unedited(d)
      BY <2>1 DEF EditorsHoldGoods, Unedited
    <3>2. status[d] # "none"
      BY <2>1 DEF KindsHaveRows
    <3> QED
      BY <3>1, <3>2, ValueMoves
  <2>2. ASSUME status[d] \notin {"none", "PLEDGED"}, Unedited(d)
        PROVE  amount'[d] = amount[d] /\ Unedited(d)'
    <3>1. amount'[d] = amount[d]
      BY <2>2, ValueMoves
    <3>2. ASSUME NEW t \in Donors, donor'[t].stage = "editing", donor'[t].ref = d
          PROVE  FALSE
      <4>1. donor'[t] # donor[t]
        BY <2>2, <3>2 DEF Unedited
      <4> QED
        BY <2>2, <3>2, <4>1, EditorsCome DEF Editable
    <3> QED
      BY <3>1, <3>2 DEF Unedited
  <2> QED
    BY <2>1, <2>2
<1>3. Spec => [](EditorsHoldGoods /\ KindsHaveRows)
  BY <1>1, EditorsKeep, KindsKeep, Invariance, PTL DEF Spec
<1> QED
  BY <1>2, <1>3, Invariance, PTL DEF Spec, ValueStays
====
