-------------------------- MODULE UserRequestsProofs --------------------------
(***************************************************************************)
(* What the review queue keeps for any volunteers, applications, caps and  *)
(* directors, however their calls overlap.                                 *)
(***************************************************************************)
EXTENDS UserRequests, FiniteSetTheorems, TLAPS

\* A ruling in hand is about a request, and says something.
DesksFilled ==
    \A d \in Directors : desk[d] # NoRuling =>
        desk[d].request \in Requests /\ desk[d].ruling \in Rulings

\* The request a slot was filed with is its volunteer's, and is on record.
SlotsFiled ==
    \A v \in Volunteers : slot[v].filed # NoRequest =>
        /\ FiledBy[slot[v].filed] = v
        /\ status[slot[v].filed] \in Rulings

\* The directors with an acceptance in hand that takes a place.
InHand == {d \in Directors : desk[d].ruling = "ACCEPTED" /\ ~ForRole(desk[d].request)}

\* Every acceptance in hand was taken up while a place was left.
PlacesBudget == Cardinality(Accepted) + Cardinality(InHand) + 1 <= Places + Cardinality(Directors)

IInv ==
    /\ TypeOK
    /\ DesksFilled
    /\ SlotsFiled
    /\ StandingsAgree
    /\ PlacesBudget

------------------------------------------------------------------------------
LEMMA Tallies ==
  /\ Cardinality(Directors) \in Nat /\ Cardinality(Directors) > 0
  /\ IsFiniteSet(Accepted) /\ Cardinality(Accepted) \in Nat
  /\ IsFiniteSet(InHand) /\ Cardinality(InHand) \in Nat
  /\ Cardinality(InHand) <= Cardinality(Directors)
<1>1. IsFiniteSet(Directors) /\ Directors # {} /\ IsFiniteSet(Requests)
  BY ConstantsOK
<1>2. Accepted \in SUBSET Requests /\ InHand \in SUBSET Directors
  BY DEF Accepted, InHand
<1>3. IsFiniteSet(Accepted) /\ IsFiniteSet(InHand) /\ Cardinality(InHand) <= Cardinality(Directors)
  BY <1>1, <1>2, FS_Subset
<1>4. /\ Cardinality(Directors) \in Nat /\ Cardinality(Accepted) \in Nat
      /\ Cardinality(InHand) \in Nat
  BY <1>1, <1>3, FS_CardinalityType
<1>5. Cardinality(Directors) # 0
  BY <1>1, FS_EmptySet
<1> QED
  BY <1>3, <1>4, <1>5

\* The same, of the state after a step.
LEMMA TalliesNext ==
  /\ IsFiniteSet(Accepted') /\ Cardinality(Accepted') \in Nat
  /\ IsFiniteSet(InHand') /\ Cardinality(InHand') \in Nat
  /\ Cardinality(InHand') <= Cardinality(Directors)
  /\ Cardinality(Directors) \in Nat
<1>1. IsFiniteSet(Directors) /\ IsFiniteSet(Requests)
  BY ConstantsOK
<1>2. Accepted' \in SUBSET Requests /\ InHand' \in SUBSET Directors
  BY DEF Accepted, InHand
<1>3. /\ IsFiniteSet(Accepted') /\ IsFiniteSet(InHand')
      /\ Cardinality(InHand') <= Cardinality(Directors)
  BY <1>1, <1>2, FS_Subset
<1> QED
  BY <1>1, <1>3, FS_CardinalityType

\* Nothing is overrun by a step that neither accepts nor takes an acceptance up.
LEMMA BudgetKept ==
  ASSUME PlacesBudget, Accepted' \subseteq Accepted, InHand' \subseteq InHand
  PROVE  PlacesBudget'
<1>1. /\ Cardinality(Accepted') <= Cardinality(Accepted)
      /\ Cardinality(InHand') <= Cardinality(InHand)
  BY Tallies, FS_Subset
<1> QED
  BY <1>1, Tallies, TalliesNext, ConstantsOK DEF PlacesBudget

LEMMA InitIInv == Init => IInv
<1> SUFFICES ASSUME Init PROVE IInv
  OBVIOUS
<1> USE ConstantsOK
<1>1. TypeOK
  BY DEF Init, TypeOK, Empty, NoAsk, NoRuling, SlotType, AskType, DeskType
<1>2. DesksFilled /\ SlotsFiled /\ StandingsAgree
  BY DEF Init, DesksFilled, SlotsFiled, StandingsAgree, Registered, Empty
<1>3. Accepted = {} /\ InHand = {}
  BY DEF Init, Accepted, InHand, NoRuling
<1>4. Cardinality(Accepted) = 0 /\ Cardinality(InHand) = 0
  BY <1>3, FS_EmptySet
<1> QED
  BY <1>1, <1>2, <1>4, Tallies DEF IInv, PlacesBudget

------------------------------------------------------------------------------
(* One lemma per kind of step *)

\* Time and the checks a volunteer's call makes touch nothing the invariant speaks of.
LEMMA QuietStep ==
  ASSUME IInv, UNCHANGED <<slot, participants, status, desk, rulings>>,
         phase' \in {"Upcoming", "Ongoing", "Over"}, ask' \in [Volunteers -> AskType]
  PROVE  IInv'
<1>1. TypeOK' /\ DesksFilled' /\ SlotsFiled' /\ StandingsAgree'
  BY DEF IInv, TypeOK, DesksFilled, SlotsFiled, StandingsAgree, Registered
<1>2. Accepted' = Accepted /\ InHand' = InHand
  BY DEF Accepted, InHand
<1> QED
  BY <1>1, <1>2, BudgetKept DEF IInv

LEMMA AskCleared == ASSUME TypeOK, NEW v \in Volunteers PROVE [ask EXCEPT ![v] = NoAsk] \in [Volunteers -> AskType]
  BY DEF TypeOK, AskType, NoAsk

LEMMA RegisteredFinite == Cardinality(Registered') \in Nat
<1>1. IsFiniteSet(Volunteers) /\ Registered' \in SUBSET Volunteers
  BY ConstantsOK DEF Registered
<1> QED
  BY <1>1, FS_Subset, FS_CardinalityType

LEMMA RegistersIInv == ASSUME IInv, NEW v \in Volunteers, Registers(v) PROVE IInv'
<1> USE ConstantsOK
<1>t. /\ slot \in [Volunteers -> SlotType] /\ status \in [Requests -> Rulings \cup {"NONE", "FILING"}]
      /\ ask \in [Volunteers -> AskType]
  BY DEF IInv, TypeOK
<1>u. /\ UNCHANGED <<phase, desk, rulings>> /\ ask' \in [Volunteers -> AskType]
      /\ participants' \in Nat
  BY <1>t, AskCleared, RegisteredFinite DEF Registers, IInv
<1>h. InHand' = InHand
  BY <1>u DEF InHand
<1>1. CASE UNCHANGED <<slot, status>>
  <2>1. Accepted' = Accepted
    BY <1>1 DEF Accepted
  <2> QED
    BY <1>1, <1>u, <1>h, <2>1, BudgetKept DEF IInv, TypeOK, DesksFilled, SlotsFiled,
       StandingsAgree, Registered
<1>2. CASE /\ slot' = [slot EXCEPT ![v] = [role |-> ask[v].role, approval |-> "APPROVED",
                                         filed |-> NoRequest, crossed |-> FALSE]]
           /\ status' = status
  <2> DEFINE x == [role |-> ask[v].role, approval |-> "APPROVED",
                   filed |-> NoRequest, crossed |-> FALSE]
  <2>1. x \in SlotType /\ x.filed = NoRequest /\ x.approval = "APPROVED"
    BY <1>t DEF SlotType, AskType
  <2>2. slot' = [slot EXCEPT ![v] = x]
    BY <1>2
  <2> HIDE DEF x
  <2>3. /\ slot' \in [Volunteers -> SlotType] /\ slot'[v] = x
        /\ \A u \in Volunteers : u # v => slot'[u] = slot[u]
    BY <1>t, <2>1, <2>2
  <2>4. Accepted' = Accepted
    BY <1>2 DEF Accepted
  <2>5. TypeOK' /\ DesksFilled'
    BY <1>u, <1>2, <2>3 DEF IInv, TypeOK, DesksFilled
  <2>6. SlotsFiled' /\ StandingsAgree'
    BY <1>2, <2>1, <2>3 DEF IInv, SlotsFiled, StandingsAgree, Registered
  <2> QED
    BY <2>4, <2>5, <2>6, <1>h, BudgetKept DEF IInv
<1>3. ASSUME NEW q \in Requests, FiledBy[q] = v, status[q] = "NONE",
             status' = [status EXCEPT ![q] = "PENDING"],
             slot' = [slot EXCEPT ![v] = [role |-> ask[v].role, approval |-> "PENDING",
                                          filed |-> q, crossed |-> FALSE]]
      PROVE  IInv'
  <2> DEFINE x == [role |-> ask[v].role, approval |-> "PENDING",
                   filed |-> q, crossed |-> FALSE]
  <2>1. x \in SlotType /\ x.filed = q /\ x.approval = "PENDING"
    BY <1>t, <1>3 DEF SlotType, AskType
  <2>2. slot' = [slot EXCEPT ![v] = x]
    BY <1>3
  <2> HIDE DEF x
  <2>3. /\ slot' \in [Volunteers -> SlotType] /\ slot'[v] = x
        /\ \A u \in Volunteers : u # v => slot'[u] = slot[u]
    BY <1>t, <2>1, <2>2
  <2>4. /\ status' \in [Requests -> Rulings \cup {"NONE", "FILING"}] /\ status'[q] = "PENDING"
        /\ \A y \in Requests : y # q => status'[y] = status[y]
    BY <1>t, <1>3 DEF Rulings
  <2>5. Accepted' \subseteq Accepted
    BY <1>3, <2>4 DEF Accepted
  <2>6. TypeOK' /\ DesksFilled'
    BY <1>u, <2>3, <2>4 DEF IInv, TypeOK, DesksFilled
  <2>7. \A u \in Volunteers : u # v /\ slot[u].filed # NoRequest =>
          /\ FiledBy[slot[u].filed] = u /\ slot[u].filed # q
          /\ status'[slot[u].filed] = status[slot[u].filed]
    <3>1. \A u \in Volunteers : slot[u].filed \in Requests \cup {NoRequest}
      BY <1>t DEF SlotType
    <3> QED
      BY <1>3, <2>4, <3>1 DEF IInv, SlotsFiled
  <2>8. SlotsFiled'
    BY <1>3, <2>1, <2>3, <2>4, <2>7 DEF IInv, SlotsFiled, Rulings
  <2>9. StandingsAgree'
    <3> SUFFICES ASSUME NEW u \in Volunteers, slot'[u] # Empty, ~slot'[u].crossed
                 PROVE  slot'[u].approval = IF slot'[u].filed = NoRequest THEN "APPROVED"
                                            ELSE Standing(status'[slot'[u].filed])
      BY DEF StandingsAgree, Registered, Standing
    <3>1. CASE u = v
      BY <3>1, <2>1, <2>3, <2>4 DEF Standing
    <3>2. CASE u # v
      BY <3>2, <2>3, <2>7 DEF IInv, StandingsAgree, Registered
    <3> QED
      BY <3>1, <3>2
  <2> QED
    BY <2>5, <2>6, <2>8, <2>9, <1>h, BudgetKept DEF IInv
<1> QED
  BY <1>1, <1>2, <1>3 DEF Registers

LEMMA UnregistersIInv == ASSUME IInv, NEW v \in Volunteers, Unregisters(v) PROVE IInv'
<1> USE ConstantsOK
<1>t. /\ slot \in [Volunteers -> SlotType] /\ status \in [Requests -> Rulings \cup {"NONE", "FILING"}]
      /\ ask \in [Volunteers -> AskType]
  BY DEF IInv, TypeOK
<1>u. /\ UNCHANGED <<phase, desk, rulings>> /\ ask' \in [Volunteers -> AskType]
      /\ participants' \in Nat
  BY <1>t, AskCleared, RegisteredFinite DEF Unregisters, IInv
<1>h. InHand' = InHand
  BY <1>u DEF InHand
<1>0. Empty \in SlotType /\ Empty.filed = NoRequest
  BY DEF Empty, SlotType
<1>1. /\ slot' \in [Volunteers -> SlotType] /\ slot'[v] = Empty
      /\ \A u \in Volunteers : u # v => slot'[u] = slot[u]
  BY <1>t, <1>0 DEF Unregisters
<1>2. /\ status' \in [Requests -> Rulings \cup {"NONE", "FILING"}]
      /\ \A q \in Requests : FiledBy[q] # v => status'[q] = status[q]
      /\ \A q \in Requests : status'[q] # status[q] => status'[q] = "DELETED"
  BY <1>t DEF Unregisters, Rulings
<1>3. Accepted' \subseteq Accepted
  BY <1>2 DEF Accepted
<1>4. TypeOK' /\ DesksFilled'
  BY <1>u, <1>1, <1>2 DEF IInv, TypeOK, DesksFilled
<1>5. \A u \in Volunteers : u # v /\ slot[u].filed # NoRequest =>
        FiledBy[slot[u].filed] = u /\ status'[slot[u].filed] = status[slot[u].filed]
  <2>1. \A u \in Volunteers : slot[u].filed \in Requests \cup {NoRequest}
    BY <1>t DEF SlotType
  <2> QED
    BY <1>2, <2>1 DEF IInv, SlotsFiled
<1>6. SlotsFiled'
  BY <1>0, <1>1, <1>5 DEF IInv, SlotsFiled
<1>7. StandingsAgree'
  <2> SUFFICES ASSUME NEW u \in Volunteers, slot'[u] # Empty, ~slot'[u].crossed
               PROVE  slot'[u].approval = IF slot'[u].filed = NoRequest THEN "APPROVED"
                                          ELSE Standing(status'[slot'[u].filed])
    BY DEF StandingsAgree, Registered, Standing
  <2> QED
    BY <1>1, <1>5 DEF IInv, StandingsAgree, Registered
<1> QED
  BY <1>3, <1>4, <1>6, <1>7, <1>h, BudgetKept DEF IInv

\* The steps of an application change the status of a request that is for no role, and
\* that nobody has accepted.
LEMMA ApplicationIInv ==
  ASSUME IInv, NEW q \in Requests, ~ForRole(q), NEW s \in {"FILING", "PENDING"},
         status' = [status EXCEPT ![q] = s],
         UNCHANGED <<phase, slot, participants, ask, desk, rulings>>
  PROVE  IInv'
<1>1. /\ status' \in [Requests -> Rulings \cup {"NONE", "FILING"}] /\ status'[q] = s
      /\ \A y \in Requests : y # q => status'[y] = status[y]
  BY DEF IInv, TypeOK, Rulings
<1>2. \A u \in Volunteers : slot[u].filed # NoRequest =>
        status'[slot[u].filed] = status[slot[u].filed]
  <2>1. \A u \in Volunteers : slot[u].filed \in Requests \cup {NoRequest}
    BY DEF IInv, TypeOK, SlotType
  <2> QED
    BY <1>1, <2>1 DEF IInv, SlotsFiled, ForRole
<1>3. TypeOK' /\ DesksFilled'
  BY <1>1 DEF IInv, TypeOK, DesksFilled
<1>4. SlotsFiled'
  BY <1>2 DEF IInv, SlotsFiled
<1>5. StandingsAgree'
  <2> SUFFICES ASSUME NEW u \in Volunteers, slot'[u] # Empty, ~slot'[u].crossed
               PROVE  slot'[u].approval = IF slot'[u].filed = NoRequest THEN "APPROVED"
                                          ELSE Standing(status'[slot'[u].filed])
    BY DEF StandingsAgree, Registered, Standing
  <2> QED
    BY <1>2 DEF IInv, StandingsAgree, Registered
<1>6. Accepted' \subseteq Accepted /\ InHand' = InHand
  BY <1>1 DEF Accepted, InHand
<1> QED
  BY <1>3, <1>4, <1>5, <1>6, BudgetKept DEF IInv

\* A ruling is taken up; an acceptance that takes a place finds one left.
LEMMA TakesUpIInv ==
  ASSUME IInv, NEW d \in Directors, NEW q \in Requests, NEW r \in Rulings, TakesUp(d, q, r),
         r = "ACCEPTED" /\ ~ForRole(q) => Cardinality(Accepted) < Places
  PROVE  IInv'
<1>1. /\ desk' \in [Directors -> DeskType]
      /\ desk'[d].request = q /\ desk'[d].ruling = r
      /\ \A c \in Directors : c # d => desk'[c] = desk[c]
  <2> DEFINE x == [request |-> q, ruling |-> r]
  <2>1. x \in DeskType /\ x.request = q /\ x.ruling = r
    BY DEF DeskType
  <2>2. desk' = [desk EXCEPT ![d] = x]
    BY DEF TakesUp
  <2> HIDE DEF x
  <2> QED
    BY <2>1, <2>2 DEF IInv, TypeOK
<1>2. TypeOK' /\ DesksFilled' /\ SlotsFiled'
  BY <1>1, ConstantsOK DEF IInv, TypeOK, DesksFilled, SlotsFiled, TakesUp
<1>3. StandingsAgree'
  BY DEF IInv, StandingsAgree, Registered, TakesUp
<1>4. Accepted' = Accepted
  BY DEF Accepted, TakesUp
<1>5. PlacesBudget'
  <2>1. CASE r = "ACCEPTED" /\ ~ForRole(q)
    BY <2>1, <1>4, Tallies, TalliesNext, ConstantsOK DEF PlacesBudget
  <2>2. CASE ~(r = "ACCEPTED" /\ ~ForRole(q))
    <3>1. InHand' \subseteq InHand
      BY <2>2, <1>1 DEF InHand, ForRole
    <3> QED
      BY <1>4, <3>1, BudgetKept DEF IInv
  <2> QED
    BY <2>1, <2>2
<1> QED
  BY <1>2, <1>3, <1>5 DEF IInv

LEMMA DeskCleared ==
  ASSUME TypeOK, NEW d \in Directors, desk' = [desk EXCEPT ![d] = NoRuling]
  PROVE  /\ desk' \in [Directors -> DeskType] /\ desk'[d] = NoRuling
         /\ \A c \in Directors : c # d => desk'[c] = desk[c]
         /\ InHand' = InHand \ {d}
<1>1. NoRuling \in DeskType /\ NoRuling.ruling # "ACCEPTED"
  BY DEF NoRuling, DeskType
<1>2. /\ desk' \in [Directors -> DeskType] /\ desk'[d] = NoRuling
      /\ \A c \in Directors : c # d => desk'[c] = desk[c]
  BY <1>1 DEF TypeOK
<1>3. InHand' = InHand \ {d}
  BY <1>1, <1>2 DEF InHand, ForRole
<1> QED
  BY <1>2, <1>3

LEMMA RulesIInv == ASSUME IInv, NEW d \in Directors, Rules(d) PROVE IInv'
<1> DEFINE q == desk[d].request
           s == desk[d].ruling
           v == FiledBy[q]
<1>t. /\ slot \in [Volunteers -> SlotType]
      /\ status \in [Requests -> Rulings \cup {"NONE", "FILING"}]
  BY DEF IInv, TypeOK
<1>0. q \in Requests /\ s \in Rulings
  BY DEF IInv, DesksFilled, Rules
<1>1. /\ status' \in [Requests -> Rulings \cup {"NONE", "FILING"}] /\ status'[q] = s
      /\ \A y \in Requests : y # q => status'[y] = status[y]
  BY <1>t, <1>0 DEF Rules
<1>2. /\ desk' \in [Directors -> DeskType] /\ desk'[d] = NoRuling
      /\ \A c \in Directors : c # d => desk'[c] = desk[c]
      /\ InHand' = InHand \ {d}
  BY DeskCleared DEF IInv, Rules
<1>3. Standing(s) \in {"PENDING", "APPROVED", "REJECTED"}
  BY <1>0 DEF Standing, Rulings
<1>4. /\ slot' \in [Volunteers -> SlotType]
      /\ \A u \in Volunteers :
           /\ slot'[u].filed = slot[u].filed
           /\ ~(ForRole(q) /\ u = v /\ slot[u] # Empty) => slot'[u] = slot[u]
           /\ ForRole(q) /\ u = v /\ slot[u] # Empty =>
                /\ slot'[u].approval = Standing(s)
                /\ ~slot'[u].crossed => slot[u].filed = q
  <2>1. CASE ForRole(q) /\ slot[v] # Empty
    <3> DEFINE x == [slot[v] EXCEPT !.approval = Standing(s), !.crossed = @ \/ slot[v].filed # q]
    <3>1. slot[v] \in SlotType /\ v \in Volunteers
      BY <1>t, <2>1 DEF ForRole
    <3>2. /\ x \in SlotType /\ x.filed = slot[v].filed /\ x.approval = Standing(s)
          /\ ~x.crossed => slot[v].filed = q
      BY <1>3, <3>1 DEF SlotType
    <3>3. slot' = [slot EXCEPT ![v] = x]
      BY <2>1, <3>1, <1>t DEF Rules
    <3> HIDE DEF x, q, s, v
    <3>4. /\ slot' \in [Volunteers -> SlotType] /\ slot'[v] = x
          /\ \A u \in Volunteers : u # v => slot'[u] = slot[u]
      BY <1>t, <3>1, <3>2, <3>3
    <3>5. /\ slot'[v].filed = slot[v].filed /\ slot'[v].approval = Standing(s)
          /\ ~slot'[v].crossed => slot[v].filed = q
      BY <3>2, <3>4
    <3> QED
      BY <2>1, <3>4, <3>5
  <2>2. CASE ~(ForRole(q) /\ slot[v] # Empty)
    BY <1>t, <2>2 DEF Rules
  <2> QED
    BY <2>1, <2>2
<1>f. \A u \in Volunteers : slot[u].filed \in Requests \cup {NoRequest}
  BY <1>t DEF SlotType
<1>g. \A u \in Volunteers : slot[u].filed = q => ForRole(q) /\ u = v
  BY <1>0, ConstantsOK DEF IInv, SlotsFiled, ForRole
<1> HIDE DEF q, s, v
<1>5. TypeOK' /\ DesksFilled'
  BY <1>1, <1>2, <1>4 DEF IInv, TypeOK, DesksFilled, Rules
<1>6. SlotsFiled'
  BY <1>0, <1>1, <1>4, <1>f DEF IInv, SlotsFiled
<1>7. StandingsAgree'
  <2> SUFFICES ASSUME NEW u \in Volunteers, slot'[u] # Empty, ~slot'[u].crossed
               PROVE  slot'[u].approval = IF slot'[u].filed = NoRequest THEN "APPROVED"
                                          ELSE Standing(status'[slot'[u].filed])
    BY DEF StandingsAgree, Registered, Standing
  <2>1. CASE ForRole(q) /\ u = v /\ slot[u] # Empty
    BY <2>1, <1>0, <1>1, <1>4, ConstantsOK
  <2>2. CASE ~(ForRole(q) /\ u = v /\ slot[u] # Empty)
    <3>1. slot'[u] = slot[u] /\ slot[u] # Empty /\ slot[u].filed # q
      BY <2>2, <1>4, <1>g
    <3> QED
      BY <3>1, <1>1, <1>f DEF IInv, StandingsAgree, Registered
  <2> QED
    BY <2>1, <2>2
<1>8. PlacesBudget'
  <2>1. CASE s = "ACCEPTED" /\ ~ForRole(q)
    <3>1. Accepted' \subseteq Accepted \cup {q}
      BY <1>1 DEF Accepted
    <3>2. d \in InHand
      BY <2>1 DEF InHand, q, s
    <3>3. Cardinality(InHand') = Cardinality(InHand) - 1
      BY <1>2, <3>2, Tallies, FS_RemoveElement
    <3>4. IsFiniteSet(Accepted \cup {q}) /\ Cardinality(Accepted \cup {q}) <= Cardinality(Accepted) + 1
      BY Tallies, FS_AddElement
    <3>5. Cardinality(Accepted') <= Cardinality(Accepted \cup {q})
      BY <3>1, <3>4, FS_Subset
    <3>6. Cardinality(Accepted \cup {q}) \in Nat
      BY <3>4, FS_CardinalityType
    <3> QED
      BY <3>3, <3>4, <3>5, <3>6, Tallies, TalliesNext, ConstantsOK DEF IInv, PlacesBudget
  <2>2. CASE ~(s = "ACCEPTED" /\ ~ForRole(q))
    <3>1. Accepted' \subseteq Accepted
      BY <2>2, <1>1, ConstantsOK DEF Accepted, ForRole
    <3> QED
      BY <3>1, <1>2, BudgetKept DEF IInv
  <2> QED
    BY <2>1, <2>2
<1> QED
  BY <1>5, <1>6, <1>7, <1>8 DEF IInv

LEMMA DropsIInv == ASSUME IInv, NEW d \in Directors, Drops(d) PROVE IInv'
<1>1. /\ desk' \in [Directors -> DeskType] /\ desk'[d] = NoRuling
      /\ \A c \in Directors : c # d => desk'[c] = desk[c]
      /\ InHand' = InHand \ {d}
  BY DeskCleared DEF IInv, Drops
<1>2. TypeOK' /\ DesksFilled' /\ SlotsFiled' /\ StandingsAgree'
  BY <1>1 DEF IInv, TypeOK, DesksFilled, SlotsFiled, StandingsAgree, Registered, Drops
<1>3. Accepted' = Accepted
  BY DEF Drops, Accepted
<1> QED
  BY <1>1, <1>2, <1>3, BudgetKept DEF IInv

LEMMA NextIInv == IInv /\ [Next]_vars => IInv'
<1> SUFFICES ASSUME IInv, [Next]_vars PROVE IInv'
  OBVIOUS
<1>a. TypeOK
  BY DEF IInv
<1>1. CASE UNCHANGED vars
  BY <1>1, <1>a, QuietStep DEF vars, TypeOK
<1>2. CASE Starts \/ Finishes
  BY <1>2, <1>a, QuietStep DEF Starts, Finishes, TypeOK
<1>3. ASSUME NEW v \in Volunteers, NEW role \in Roles \cup {Regular}, Asks(v, role) PROVE IInv'
  <2>1. ask' \in [Volunteers -> AskType]
    BY <1>3, <1>a DEF Asks, TypeOK, AskType
  <2> QED
    BY <1>3, <1>a, <2>1, QuietStep DEF Asks, TypeOK
<1>4. ASSUME NEW v \in Volunteers, AsksOut(v) \/ GivesUp(v) PROVE IInv'
  <2>1. ask' \in [Volunteers -> AskType]
    BY <1>4, <1>a, AskCleared DEF AsksOut, GivesUp, TypeOK, AskType
  <2> QED
    BY <1>4, <1>a, <2>1, QuietStep DEF AsksOut, GivesUp, TypeOK
<1>5. ASSUME NEW q \in Requests, Applies(q) PROVE IInv'
  BY <1>5, ApplicationIInv, ConstantsOK DEF Applies, ForRole
<1>6. ASSUME NEW q \in Requests, Files(q) PROVE IInv'
  BY <1>6, ApplicationIInv, ConstantsOK DEF Files, ForRole
<1>7. ASSUME NEW d \in Directors, NEW q \in Requests,
             Accepts(d, q) \/ Rejects(d, q) \/ Removes(d, q) \/ Restores(d, q)
      PROVE  IInv'
  BY <1>7, TakesUpIInv DEF Accepts, Rejects, Removes, Restores, PlaceLeft, Rulings
<1> QED
  BY <1>1, <1>2, <1>3, <1>4, <1>5, <1>6, <1>7, RegistersIInv, UnregistersIInv, RulesIInv, DropsIInv
     DEF Next

THEOREM Invariance == Spec => []IInv
<1> QED
  BY InitIInv, NextIInv, PTL DEF Spec

------------------------------------------------------------------------------
(* What follows *)

\* Slots, requests and rulings in hand are always of their types: no call of a
\* volunteer, a beneficiary or a director leaves one half written.
THEOREM TypeCorrect == Spec => []TypeOK
<1>1. IInv => TypeOK
  BY DEF IInv
<1> QED
  BY <1>1, Invariance, PTL

\* The standing the app reads off the attendance row and the status the portal reads
\* off the request agree, until a director rules on a request of an earlier registration.
THEOREM Agreement == Spec => []StandingsAgree
<1>1. IInv => StandingsAgree
  BY DEF IInv
<1> QED
  BY <1>1, Invariance, PTL

\* The cap on beneficiaries is overrun by no more than the directors who were accepting
\* at once, less one: the check and the write are not one transaction.
THEOREM Capped == Spec => []PlacesKept
<1>1. IInv => PlacesKept
  BY Tallies, ConstantsOK DEF IInv, PlacesBudget, PlacesKept
<1> QED
  BY <1>1, Invariance, PTL

\* A request that is accepted or rejected, with no ruling on it left in hand, is never
\* moved again, by a director, a withdrawal or a second filing.
THEOREM Stand == Spec => DecisionsStand
<1> DEFINE Stands == \A q \in Requests : status[q] \in {"ACCEPTED", "REJECTED"} /\ Quiet(q) =>
                       status'[q] = status[q] /\ Quiet(q)'
<1>1. IInv /\ [Next]_vars => Stands
  <2> SUFFICES ASSUME IInv, [Next]_vars, NEW q \in Requests,
                      status[q] \in {"ACCEPTED", "REJECTED"}, Quiet(q)
               PROVE  status'[q] = status[q] /\ Quiet(q)'
    OBVIOUS
  <2>t. /\ status \in [Requests -> Rulings \cup {"NONE", "FILING"}]
        /\ desk \in [Directors -> DeskType]
    BY DEF IInv, TypeOK
  <2>1. CASE UNCHANGED <<status, desk>>
    BY <2>1 DEF Quiet
  <2>2. ASSUME NEW v \in Volunteers, Registers(v) PROVE status'[q] = status[q] /\ Quiet(q)'
    BY <2>2, <2>t DEF Registers, Quiet
  <2>3. ASSUME NEW v \in Volunteers, Unregisters(v) PROVE status'[q] = status[q] /\ Quiet(q)'
    BY <2>3, <2>t DEF Unregisters, Quiet
  <2>4. ASSUME NEW x \in Requests, Applies(x) \/ Files(x)
        PROVE  status'[q] = status[q] /\ Quiet(q)'
    BY <2>4, <2>t DEF Applies, Files, Quiet
  <2>5. ASSUME NEW d \in Directors, NEW x \in Requests,
               Accepts(d, x) \/ Rejects(d, x) \/ Removes(d, x) \/ Restores(d, x)
        PROVE  status'[q] = status[q] /\ Quiet(q)'
    <3>1. x # q
      BY <2>5 DEF Accepts, Rejects, Removes, Restores
    <3>2. status' = status
      BY <2>5 DEF Accepts, Rejects, Removes, Restores, TakesUp
    <3>3. \E r \in Rulings : desk' = [desk EXCEPT ![d] = [request |-> x, ruling |-> r]]
      BY <2>5 DEF Accepts, Rejects, Removes, Restores, TakesUp, Rulings
    <3> QED
      BY <3>1, <3>2, <3>3, <2>t DEF Quiet
  <2>6. ASSUME NEW d \in Directors, Rules(d) \/ Drops(d)
        PROVE  status'[q] = status[q] /\ Quiet(q)'
    <3>1. desk' = [desk EXCEPT ![d] = NoRuling]
      BY <2>6 DEF Rules, Drops
    <3>2. Quiet(q)'
      BY <3>1, <2>t, ConstantsOK DEF Quiet, NoRuling
    <3>3. status'[q] = status[q]
      BY <2>6, <2>t DEF Rules, Drops, Quiet
    <3> QED
      BY <3>2, <3>3
  <2>7. CASE UNCHANGED vars
    BY <2>7, <2>1 DEF vars
  <2>8. CASE Starts \/ Finishes
    BY <2>8, <2>1 DEF Starts, Finishes
  <2>9. ASSUME NEW v \in Volunteers,
               (\E role \in Roles \cup {Regular} : Asks(v, role)) \/ AsksOut(v) \/ GivesUp(v)
        PROVE  status'[q] = status[q] /\ Quiet(q)'
    BY <2>9, <2>1 DEF Asks, AsksOut, GivesUp
  <2> QED
    BY <2>2, <2>3, <2>4, <2>5, <2>6, <2>7, <2>8, <2>9 DEF Next
<1> QED
  BY <1>1, Invariance, PTL DEF Spec, DecisionsStand
==============================================================================
