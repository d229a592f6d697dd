---- MODULE SessionRegistryProofs ----
(***************************************************************************)
(* What SessionRegistry keeps for every set of sign-ins, calls and sweeps. *)
(***************************************************************************)
EXTENDS SessionRegistry, FiniteSetTheorems, WellFoundedInduction, TLAPS

\* The stages of a sign-in whose record has been stored.
Past == {"in", "unpruned"} \cup Pruning

\* created_at is stamped after the account check.
BornAfterCheck ==
    \A s \in Sessions : signin[s].stage \in {"new", "refused", "cleared"} => born[s] = 0

\* Whatever is or was in Redis, or is held by a call that read Redis, was stored by its
\* sign-in.
HeldWereStored ==
    \A x \in Sessions :
        \/ x \in live \cup gone
        \/ \E s \in Sessions : x \in signin[s].keys
        \/ \E g \in Requests : request[g].stage # "idle" /\ request[g].sid = x
        => signin[x].stage \in Past

\* A call past the guard's lookup holds a session that is live or was ended since.
RequestsHoldSessions ==
    \A g \in Requests : request[g].stage # "idle" =>
        request[g].sid \in Sessions /\ request[g].sid \in live \cup gone

\* So does a sweep, or a rewrite, that has listed it.
SweepsHoldSessions == \A w \in Sweeps : sweep[w].keys \subseteq live \cup gone

\* The stages of a change of e-mail after its sweep.
Rewriting == {"swept", "rescanning", "rewriting", "setting"}

SweepsKeepOrder ==
    \A w \in Sweeps :
        /\ sweep[w].stage = "new" => sweep[w].keep = NoSession
        /\ sweep[w].stage \in Rewriting => w \in Changes

\* What a restriction may leave alone.
Spared == early \cup (Sessions \ Checking)

\* A restriction in force stops the sign-ins behind it, and its sweep closes in on
\* the sessions before it.
RestrictionClosesIn ==
    restrictor # NoSweep =>
        /\ restrictor \notin Changes
        /\ \A s \in Checking : signin[s].stage \in {"cleared", "stamped"} => s \in early
        /\ sweep[restrictor].stage \in {"started", "scanning", "listed", "done"}
        /\ sweep[restrictor].keep = NoSession
        /\ sweep[restrictor].stage \in {"scanning", "listed"} =>
             live \ gone \subseteq Spared \cup sweep[restrictor].keys
        /\ sweep[restrictor].stage = "done" => live \ gone \subseteq Spared

IInv ==
    /\ TypeOK
    /\ BornAfterCheck
    /\ HeldWereStored
    /\ RequestsHoldSessions
    /\ SweepsHoldSessions
    /\ SweepsKeepOrder
    /\ RestrictionClosesIn

----------------------------------------------------------------------------------
LEMMA CountIsNat ==
  ASSUME TypeOK PROVE Cardinality({x \in Sessions : born[x] > 0}) \in Nat
<1>1. {x \in Sessions : born[x] > 0} \subseteq Sessions
  OBVIOUS
<1> QED
  BY <1>1, ConstantsOK, FS_Subset, FS_CardinalityType

\* With room for two, whatever is doomed has a newer session listed beside it.
LEMMA DoomedIsOlder ==
  ASSUME Limit >= 2, NEW s, NEW l, NEW x \in Doomed(s, l)
  PROVE  \E y \in l : born[y] > born[x]
<1>1. Cardinality({y \in l \ {s} : born[y] > born[x]}) >= Limit - 1
  BY DEF Doomed
<1>2. {y \in l \ {s} : born[y] > born[x]} # {}
  <2> SUFFICES ASSUME {y \in l \ {s} : born[y] > born[x]} = {} PROVE FALSE
    OBVIOUS
  <2>1. Cardinality({y \in l \ {s} : born[y] > born[x]}) = 0
    BY FS_EmptySet
  <2> QED
    BY <2>1, <1>1, ConstantsOK
<1> QED
  BY <1>2

LEMMA InitIInv == Init => IInv
  BY ConstantsOK DEF Init, IInv, TypeOK, BornAfterCheck, HeldWereStored, RequestsHoldSessions,
     SweepsHoldSessions, SweepsKeepOrder, Rewriting, RestrictionClosesIn, IdleRequest, Pruning,
        Addresses

LEMMA SignInIInv ==
  ASSUME IInv, NEW s \in Sessions,
         \/ ChecksAccount(s) \/ Stamps(s) \/ Stores(s) \/ Scans(s) \/ Lists(s)
         \/ Prunes(s) \/ PruneFails(s)
  PROVE  IInv'
<1> USE ConstantsOK DEF IInv, TypeOK, Addresses, Set, SignIn, redisVars, accountVars, Past,
   Pruning
<1>1. CASE ChecksAccount(s)
  <2>1. /\ signin[s].stage = "new" /\ signin'[s].keys = {}
        /\ signin'[s].stage \in {"refused", "cleared"}
        /\ signin'[s].stage = "cleared" /\ s \in Checking => restrictor = NoSweep
        /\ \A q \in Sessions : q # s => signin'[q] = signin[q]
        /\ UNCHANGED <<born, live, gone, astray, request, sweep, accountVars>>
    BY <1>1 DEF ChecksAccount
  <2>2. TypeOK'
    BY <1>1 DEF ChecksAccount
  <2>3. BornAfterCheck' /\ HeldWereStored'
    BY <2>1 DEF BornAfterCheck, HeldWereStored
  <2>4. RequestsHoldSessions' /\ SweepsHoldSessions' /\ SweepsKeepOrder' /\ RestrictionClosesIn'
    BY <2>1 DEF RequestsHoldSessions, SweepsHoldSessions, SweepsKeepOrder, Rewriting,
       RestrictionClosesIn, Spared
  <2> QED
    BY <2>2, <2>3, <2>4
<1>2. CASE Stamps(s)
  <2>1. Cardinality({x \in Sessions : born[x] > 0}) + 1 \in Nat
    BY CountIsNat
  <2> QED
    BY <1>2, <2>1, SMTT(30) DEF Stamps, BornAfterCheck, HeldWereStored, RequestsHoldSessions,
       SweepsHoldSessions, SweepsKeepOrder, Rewriting, RestrictionClosesIn, Spared
<1>3. CASE Stores(s)
  BY <1>3, SMTT(30) DEF Stores, BornAfterCheck, HeldWereStored, RequestsHoldSessions,
     SweepsHoldSessions, SweepsKeepOrder, Rewriting, RestrictionClosesIn, Spared
<1>4. CASE Scans(s)
  BY <1>4, SMTT(30) DEF Scans, BornAfterCheck, HeldWereStored, RequestsHoldSessions,
     SweepsHoldSessions, SweepsKeepOrder, Rewriting, RestrictionClosesIn, Spared
<1>5. CASE Lists(s)
  <2>1. PICK l \in SUBSET live : SignIn(s, "scanning", "listed", Doomed(s, l))
    BY <1>5 DEF Lists, Listings
  <2>2. Doomed(s, l) \subseteq live
    BY <2>1 DEF Doomed
  <2> QED
    BY <1>5, <2>1, <2>2, SMTT(30) DEF Lists, BornAfterCheck, HeldWereStored,
       RequestsHoldSessions, SweepsHoldSessions, SweepsKeepOrder, Rewriting,
          RestrictionClosesIn, Spared
<1>6. CASE Prunes(s)
  BY <1>6, SMTT(30) DEF Prunes, End, BornAfterCheck, HeldWereStored, RequestsHoldSessions,
     SweepsHoldSessions, SweepsKeepOrder, Rewriting, RestrictionClosesIn, Spared
<1>7. CASE PruneFails(s)
  BY <1>7, SMTT(30) DEF PruneFails, BornAfterCheck, HeldWereStored, RequestsHoldSessions,
     SweepsHoldSessions, SweepsKeepOrder, Rewriting, RestrictionClosesIn, Spared
<1> QED
  BY <1>1, <1>2, <1>3, <1>4, <1>5, <1>6, <1>7

LEMMA EndingIInv ==
  ASSUME IInv, NEW s \in Sessions, Expires(s) \/ Revokes(s)
  PROVE  IInv'
<1> USE ConstantsOK DEF IInv, TypeOK, Addresses, Set, End, accountVars
<1> QED
  BY SMTT(30) DEF Expires, Revokes, BornAfterCheck, HeldWereStored, RequestsHoldSessions,
     SweepsHoldSessions, SweepsKeepOrder, Rewriting, RestrictionClosesIn, Spared

LEMMA GuardIInv ==
  ASSUME IInv, NEW g \in Requests,
         \/ \E s \in Sessions : Finds(g, s)
         \/ Rejects(g) \/ Admits(g) \/ ReadsTTL(g) \/ Touches(g)
  PROVE  IInv'
<1> USE ConstantsOK DEF IInv, TypeOK, Addresses, Set, At, Leave, IdleRequest, End,
   guardUnchanged, redisVars,
      accountVars
<1>1. CASE \E s \in Sessions : Finds(g, s)
  BY <1>1, SMTT(30) DEF Finds, BornAfterCheck, HeldWereStored, RequestsHoldSessions,
     SweepsHoldSessions, SweepsKeepOrder, Rewriting, RestrictionClosesIn, Spared
<1>2. CASE Rejects(g)
  BY <1>2, SMTT(30) DEF Rejects, BornAfterCheck, HeldWereStored, RequestsHoldSessions,
     SweepsHoldSessions, SweepsKeepOrder, Rewriting, RestrictionClosesIn, Spared
<1>3. CASE Admits(g)
  BY <1>3, SMTT(30) DEF Admits, BornAfterCheck, HeldWereStored, RequestsHoldSessions,
     SweepsHoldSessions, SweepsKeepOrder, Rewriting, RestrictionClosesIn, Spared
<1>4. CASE ReadsTTL(g)
  BY <1>4, SMTT(30) DEF ReadsTTL, BornAfterCheck, HeldWereStored, RequestsHoldSessions,
     SweepsHoldSessions, SweepsKeepOrder, Rewriting, RestrictionClosesIn, Spared
<1>5. CASE Touches(g)
  BY <1>5, SMTT(30) DEF Touches, BornAfterCheck, HeldWereStored, RequestsHoldSessions,
     SweepsHoldSessions, SweepsKeepOrder, Rewriting, RestrictionClosesIn, Spared
<1> QED
  BY <1>1, <1>2, <1>3, <1>4, <1>5

LEMMA SweepIInv ==
  ASSUME IInv, NEW w \in Sweeps,
         \/ \E keep \in Sessions \cup {NoSession} : StartsSweep(w, keep)
         \/ Restricts(w) \/ ChangesEmail(w)
         \/ SweepScans(w) \/ SweepLists(w) \/ SweepDeletes(w)
  PROVE  IInv'
<1> USE ConstantsOK DEF IInv, TypeOK, Addresses, Set, End, Sweep, redisVars, accountVars
<1>1. CASE \E keep \in Sessions \cup {NoSession} : StartsSweep(w, keep)
  BY <1>1, SMTT(30) DEF StartsSweep, BornAfterCheck, HeldWereStored, RequestsHoldSessions,
     SweepsHoldSessions, SweepsKeepOrder, Rewriting, RestrictionClosesIn, Spared
<1>2. CASE Restricts(w)
  BY <1>2, SMTT(30) DEF Restricts, BornAfterCheck, HeldWereStored, RequestsHoldSessions,
     SweepsHoldSessions, SweepsKeepOrder, Rewriting, RestrictionClosesIn, Spared
<1>3. CASE SweepScans(w)
  <2>1. /\ sweep[w].stage = "started" /\ sweep'[w].stage = "scanning"
        /\ sweep'[w].keys = live /\ sweep'[w].keep = sweep[w].keep
        /\ \A v \in Sweeps : v # w => sweep'[v] = sweep[v]
        /\ UNCHANGED <<signin, born, redisVars, request, accountVars>>
    BY <1>3 DEF SweepScans
  <2>2. TypeOK'
    BY <1>3 DEF SweepScans
  <2>3. RestrictionClosesIn'
    BY <2>1 DEF RestrictionClosesIn, Spared
  <2>4. HeldWereStored' /\ SweepsHoldSessions' /\ SweepsKeepOrder'
    BY <2>1 DEF HeldWereStored, SweepsHoldSessions, SweepsKeepOrder, Rewriting
  <2>5. BornAfterCheck' /\ RequestsHoldSessions'
    BY <2>1 DEF BornAfterCheck, RequestsHoldSessions
  <2> QED
    BY <2>2, <2>3, <2>4, <2>5
<1>4. CASE SweepLists(w)
  <2>1. PICK l \in Listings(sweep[w].keys) :
          Sweep(w, "scanning", "listed", sweep[w].keep, l \ {sweep[w].keep})
    BY <1>4 DEF SweepLists
  <2>2. /\ sweep[w].stage = "scanning" /\ sweep'[w].stage = "listed"
        /\ sweep'[w].keys = l \ {sweep[w].keep} /\ sweep'[w].keep = sweep[w].keep
        /\ \A v \in Sweeps : v # w => sweep'[v] = sweep[v]
        /\ UNCHANGED <<signin, born, redisVars, request, accountVars>>
    BY <1>4, <2>1 DEF SweepLists
  <2>3. l \subseteq live /\ (sweep[w].keys \cap live) \ gone \subseteq l
    BY DEF Listings
  <2>4. TypeOK'
    BY <1>4, <2>1, <2>3 DEF SweepLists
  <2>5. RestrictionClosesIn'
    BY <2>2, <2>3, SMTT(30) DEF RestrictionClosesIn, Spared
  <2>6. HeldWereStored' /\ SweepsHoldSessions' /\ SweepsKeepOrder'
    BY <2>2, <2>3 DEF HeldWereStored, SweepsHoldSessions, SweepsKeepOrder, Rewriting
  <2>7. BornAfterCheck' /\ RequestsHoldSessions'
    BY <2>2 DEF BornAfterCheck, RequestsHoldSessions
  <2> QED
    BY <2>4, <2>5, <2>6, <2>7
<1>5. CASE SweepDeletes(w)
  BY <1>5, SMTT(30) DEF SweepDeletes, BornAfterCheck, HeldWereStored, RequestsHoldSessions,
     SweepsHoldSessions, SweepsKeepOrder, Rewriting, RestrictionClosesIn, Spared
<1>6. CASE ChangesEmail(w)
  BY <1>6, SMTT(30) DEF ChangesEmail, BornAfterCheck, HeldWereStored, RequestsHoldSessions,
     SweepsHoldSessions, SweepsKeepOrder, Rewriting, RestrictionClosesIn, Spared
<1> QED
  BY <1>1, <1>2, <1>3, <1>4, <1>5, <1>6

\* What a step of a rewrite amounts to.
Moves(w, to, ids) ==
    /\ to \in {"rescanning", "rewriting", "setting", "done"} /\ ids \subseteq live \cup gone
    /\ sweep' = [sweep EXCEPT ![w] = [stage |-> to, keep |-> sweep[w].keep, keys |-> ids]]
    /\ sweep[w].stage \in Rewriting
    /\ UNCHANGED <<signin, born, gone, request, restrictor, early, address>>
    /\ live \subseteq live' /\ live' \subseteq live \cup gone
    /\ named' \in [Sessions -> Addresses] /\ astray' \subseteq Sessions

LEMMA RewriteMoves ==
  ASSUME IInv, NEW w \in Sweeps,
         \/ RewriteScans(w) \/ RewriteLists(w) \/ RewriteReadsTTL(w) \/ RewriteSets(w)
         \/ RewriteEnds(w)
  PROVE  \E to, ids : Moves(w, to, ids)
<1> USE DEF IInv, Sweep, redisVars, accountVars, rewriteUnchanged, Rewriting
<1>0. /\ named \in [Sessions -> Addresses] /\ astray \subseteq Sessions
      /\ sweep[w].keys \subseteq live \cup gone
  BY DEF TypeOK, SweepsHoldSessions
<1>1. CASE RewriteScans(w)
  <2>1. Moves(w, "rescanning", live)
    BY <1>0, <1>1 DEF RewriteScans, Moves
  <2> QED
    BY <2>1
<1>2. CASE RewriteLists(w)
  <2>1. PICK l \in SUBSET live : Sweep(w, "rescanning", "rewriting", sweep[w].keep, l)
    BY <1>2 DEF RewriteLists, Listings
  <2>2. Moves(w, "rewriting", l)
    BY <1>0, <1>2, <2>1 DEF RewriteLists, Moves
  <2> QED
    BY <2>2
<1>3. CASE RewriteReadsTTL(w)
  <2>1. PICK x \in Turn(w) :
          \/ x \in live /\ Sweep(w, "rewriting", "setting", sweep[w].keep, sweep[w].keys)
          \/ /\ x \notin live
             /\ Sweep(w, "rewriting", "rewriting", sweep[w].keep, sweep[w].keys \ {x})
    BY <1>3 DEF RewriteReadsTTL
  <2>2. UNCHANGED <<redisVars, rewriteUnchanged>>
    BY <1>3 DEF RewriteReadsTTL
  <2>3. CASE x \in live /\ Sweep(w, "rewriting", "setting", sweep[w].keep, sweep[w].keys)
    <3>1. Moves(w, "setting", sweep[w].keys)
      BY <1>0, <2>2, <2>3 DEF Moves
    <3> QED
      BY <3>1
  <2>4. CASE Sweep(w, "rewriting", "rewriting", sweep[w].keep, sweep[w].keys \ {x})
    <3>1. Moves(w, "rewriting", sweep[w].keys \ {x})
      BY <1>0, <2>2, <2>4 DEF Moves
    <3> QED
      BY <3>1
  <2> QED
    BY <2>1, <2>3, <2>4
<1>4. CASE RewriteSets(w)
  <2>1. PICK x \in Turn(w) :
          /\ Sweep(w, "setting", "rewriting", sweep[w].keep, sweep[w].keys \ {x})
          /\ Set(x, w)
    BY <1>4 DEF RewriteSets
  <2>2. x \in live \cup gone /\ x \in Sessions /\ w \in Addresses
    BY <1>0, <2>1 DEF Turn, TypeOK, SweepsKeepOrder, Addresses
  <2>3. /\ live' = live \cup {x} /\ gone' = gone
        /\ named' \in [Sessions -> Addresses] /\ astray' \subseteq Sessions
    BY <1>0, <2>1, <2>2 DEF Set
  <2>4. UNCHANGED rewriteUnchanged
    BY <1>4 DEF RewriteSets
  <2>5. Moves(w, "rewriting", sweep[w].keys \ {x})
    BY <1>0, <2>1, <2>2, <2>3, <2>4 DEF Moves
  <2> QED
    BY <2>5
<1>5. CASE RewriteEnds(w)
  <2>1. Moves(w, "done", {})
    BY <1>0, <1>5 DEF RewriteEnds, Moves
  <2> QED
    BY <2>1
<1> QED
  BY <1>1, <1>2, <1>3, <1>4, <1>5

LEMMA RewriteIInv ==
  ASSUME IInv, NEW w \in Sweeps,
         \/ RewriteScans(w) \/ RewriteLists(w) \/ RewriteReadsTTL(w) \/ RewriteSets(w)
         \/ RewriteEnds(w)
  PROVE  IInv'
<1> USE DEF IInv, Moves
<1>1. PICK to, ids : Moves(w, to, ids)
  BY RewriteMoves
<1>2. TypeOK'
  BY <1>1 DEF TypeOK
<1>3. live' \ gone' = live \ gone /\ live' \cup gone' = live \cup gone
  BY <1>1
<1>4. restrictor # NoSweep => restrictor # w /\ sweep'[restrictor] = sweep[restrictor]
  BY <1>1 DEF RestrictionClosesIn, Rewriting
<1>5. RestrictionClosesIn'
  BY <1>1, <1>3, <1>4 DEF RestrictionClosesIn, Spared
<1>6. SweepsHoldSessions' /\ SweepsKeepOrder'
  BY <1>1, <1>3 DEF SweepsHoldSessions, SweepsKeepOrder, Rewriting, TypeOK
<1>7. BornAfterCheck' /\ RequestsHoldSessions'
  BY <1>1, <1>3 DEF BornAfterCheck, RequestsHoldSessions
<1>8. HeldWereStored'
  BY <1>1, <1>3 DEF HeldWereStored, TypeOK
<1> QED
  BY <1>2, <1>5, <1>6, <1>7, <1>8

LEMMA StepIInv == IInv /\ [Next]_vars => IInv'
<1> SUFFICES ASSUME IInv, [Next]_vars PROVE IInv'
  OBVIOUS
<1>1. CASE Unrestricts
  BY <1>1 DEF Unrestricts, IInv, TypeOK, BornAfterCheck, HeldWereStored, RequestsHoldSessions,
     SweepsHoldSessions, SweepsKeepOrder, Rewriting, RestrictionClosesIn, redisVars
<1>2. CASE UNCHANGED vars
  BY <1>2 DEF vars, IInv, TypeOK, BornAfterCheck, HeldWereStored, RequestsHoldSessions,
     SweepsHoldSessions, SweepsKeepOrder, Rewriting, RestrictionClosesIn, Spared
<1> QED
  BY <1>1, <1>2, SignInIInv, EndingIInv, GuardIInv, SweepIInv, RewriteIInv DEF Next

----------------------------------------------------------------------------------
(* The theorems *)

\* The inductive invariant holds in every reachable state.
THEOREM Invariance == Spec => []IInv
  BY InitIInv, StepIInv, PTL DEF Spec

\* Every call and every record keeps its type.
THEOREM TypeCorrect == Spec => []TypeOK
  BY Invariance, PTL DEF IInv

\* Whatever is left of a restricted account once its sweep is through was signing in
\* when the flag was written, signs in where the flag is not tested, or was written
\* back by a touch.
THEOREM RestrictionHolds == Spec => []RestrictionEndsSessions
<1>1. IInv => RestrictionEndsSessions
  BY DEF IInv, RestrictionClosesIn, RestrictionEndsSessions, Spared
<1> QED
  BY <1>1, Invariance, PTL

\* With room for at least two devices, a sign-in never prunes the newest session.
THEOREM NewestKept == ASSUME Limit >= 2 PROVE Spec => []NewestStays
<1>1. Init => NewestStays
  BY DEF Init, NewestStays
<1>2. IInv /\ NewestStays /\ [Next]_vars => NewestStays'
  <2> SUFFICES ASSUME IInv, NewestStays, [Next]_vars PROVE NewestStays'
    OBVIOUS
  <2> USE DEF IInv, TypeOK
  <2>1. ASSUME UNCHANGED <<signin, born>> PROVE NewestStays'
    BY <2>1 DEF NewestStays
  <2>2. ASSUME NEW s \in Sessions, Stamps(s) PROVE NewestStays'
    <3>1. born[s] = 0 /\ Cardinality({x \in Sessions : born[x] > 0}) + 1 \in Nat
      BY <2>2, CountIsNat DEF Stamps, SignIn, BornAfterCheck
    <3>2. \A y \in Sessions : /\ born[y] \in Nat /\ born'[y] \in Nat /\ born'[y] >= born[y]
                               /\ (y # s => born'[y] = born[y])
      BY <2>2, <3>1 DEF Stamps
    <3>3. ASSUME NEW q \in Sessions, signin'[q].stage = "listed", NEW x \in signin'[q].keys
          PROVE  \E y \in Sessions : born'[y] > born'[x]
      <4>1. q # s /\ signin'[q] = signin[q]
        BY <2>2, <3>3 DEF Stamps, SignIn
      <4>2. x \in Sessions /\ x # s
        BY <2>2, <4>1, <3>3 DEF Stamps, SignIn, HeldWereStored, Past, Pruning
      <4>3. PICK y \in Sessions : born[y] > born[x]
        BY <4>1, <3>3 DEF NewestStays
      <4> QED
        BY <4>2, <4>3, <3>2
    <3> QED
      BY <3>3 DEF NewestStays
  <2>3. ASSUME NEW s \in Sessions, Lists(s) PROVE NewestStays'
    <3>1. PICK l \in SUBSET live : SignIn(s, "scanning", "listed", Doomed(s, l))
      BY <2>3 DEF Lists, Listings
    <3>2. ASSUME NEW x \in Doomed(s, l) PROVE \E y \in Sessions : born[y] > born[x]
      BY <3>1, <3>2, DoomedIsOlder
    <3> QED
      BY <2>3, <3>1, <3>2 DEF Lists, SignIn, NewestStays
  <2>4. ASSUME NEW s \in Sessions,
               \/ ChecksAccount(s) \/ Stores(s) \/ Scans(s) \/ Prunes(s) \/ PruneFails(s)
        PROVE NewestStays'
    <3>1. /\ born' = born /\ signin'[s].stage # "listed"
          /\ \A q \in Sessions : q # s => signin'[q] = signin[q]
      BY <2>4 DEF ChecksAccount, Stores, Scans, Prunes, PruneFails, SignIn
    <3> QED
      BY <3>1 DEF NewestStays
  <2>5. CASE UNCHANGED vars
    BY <2>1, <2>5 DEF vars
  <2> QED
    BY <2>1, <2>2, <2>3, <2>4, <2>5 DEF Next, Expires, Revokes, Finds, Rejects, Admits,
       ReadsTTL,
       Touches, StartsSweep, Restricts, Unrestricts, ChangesEmail, SweepScans, SweepLists,
       SweepDeletes, RewriteScans, RewriteLists, RewriteReadsTTL, RewriteSets, RewriteEnds,
       guardUnchanged, rewriteUnchanged
<1> QED
  BY <1>1, <1>2, Invariance, PTL DEF Spec
----------------------------------------------------------------------------------
(* The limit *)

Stamped == {x \in Sessions : born[x] > 0}

\* created_at ranks the sign-ins: no two have the same, and whoever has a record has one.
Ranked ==
    /\ \A x \in Sessions : born[x] <= Cardinality(Stamped)
    /\ \A x, y \in Stamped : born[x] = born[y] => x = y
    /\ \A x \in Sessions : signin[x].stage \in {"stamped"} \cup Past => born[x] > 0

\* Sign-in s answers for the sessions that were never ended: it is about to scan for all of
\* them, has all of them listed, or leaves no more than Limit of them; or it gave up.
Answers(s) ==
    \/ signin[s].stage \in {"stored", "unpruned"}
    \/ signin[s].stage = "scanning" /\ live \ gone \subseteq signin[s].keys
    \/ signin[s].stage = "listed" /\ Cardinality((live \ gone) \ signin[s].keys) <= Limit
    \/ signin[s].stage = "in" /\ Cardinality(live \ gone) <= Limit

\* The last to have stored its record always does.
SomebodyAnswers == Limit > 0 => live \ gone = {} \/ \E s \in Sessions : Answers(s)

LInv == Ranked /\ SomebodyAnswers

LEMMA FiniteSessions ==
  ASSUME NEW S \in SUBSET Sessions
  PROVE  IsFiniteSet(S) /\ Cardinality(S) \in Nat
BY ConstantsOK, FS_Subset, FS_CardinalityType

LEMMA Fewer ==
  ASSUME NEW S \in SUBSET Sessions, NEW T \in SUBSET S
  PROVE  Cardinality(T) <= Cardinality(S)
<1>1. IsFiniteSet(S)
  BY FiniteSessions
<1> QED
  BY <1>1, FS_Subset

\* Of sessions with different ranks one is the oldest: strict inclusion is well founded on
\* the sets of those no younger than it.
LEMMA Oldest ==
  ASSUME TypeOK, NEW K \in SUBSET Sessions, K # {}
  PROVE  \E x \in K : \A y \in K : born[x] <= born[y]
<1> DEFINE Upto(x) == {y \in K : born[y] <= born[x]}
           Segments == {Upto(x) : x \in K}
<1>0. \A x \in K : born[x] \in Nat
  BY DEF TypeOK
<1>1. Segments \subseteq FiniteSubsetsOf(Sessions)
  <2>1. \A x \in K : Upto(x) \in SUBSET Sessions /\ IsFiniteSet(Upto(x))
    BY FiniteSessions
  <2> QED
    BY <2>1 DEF FiniteSubsetsOf
<1>2. Segments # {}
  OBVIOUS
<1>3. IsFiniteSet(Sessions)
  BY ConstantsOK
<1>4. PICK S \in Segments : \A R \in Segments : <<R, S>> \notin StrictSubsetOrdering(Sessions)
  <2> HIDE DEF Segments
  <2> QED
    BY <1>1, <1>2, FS_StrictSubsetOrderingWellFounded, WFMin
<1>5. PICK x \in K : S = Upto(x)
  BY <1>4
<1>6. ASSUME NEW y \in K, born[y] < born[x] PROVE FALSE
  <2>1. Upto(y) \in Segments /\ Upto(y) \in SUBSET Sessions /\ Upto(x) \in SUBSET Sessions
    OBVIOUS
  <2>2. Upto(y) \subseteq Upto(x) /\ x \in Upto(x) /\ x \notin Upto(y)
    BY <1>0, <1>6
  <2>3. <<Upto(y), Upto(x)>> \in StrictSubsetOrdering(Sessions)
    BY <2>1, <2>2 DEF StrictSubsetOrdering
  <2> QED
    BY <1>4, <1>5, <2>1, <2>3
<1> QED
  BY <1>0, <1>6

\* No more than n sessions of a set have fewer than n of it before them.
LEMMA NewestFew ==
  ASSUME TypeOK, NEW L \in SUBSET Sessions, NEW n \in Nat,
         \A x, y \in L : born[x] = born[y] => x = y
  PROVE  Cardinality({x \in L : Cardinality({y \in L : born[y] > born[x]}) < n}) <= n
<1> DEFINE Newer(x) == {y \in L : born[y] > born[x]}
           K == {x \in L : Cardinality(Newer(x)) < n}
<1>1. K \in SUBSET Sessions /\ K \subseteq L
  OBVIOUS
<1>2. IsFiniteSet(K) /\ Cardinality(K) \in Nat
  BY <1>1, FiniteSessions
<1> SUFFICES ASSUME Cardinality(K) > n PROVE FALSE
  BY <1>2
<1>3. K # {}
  <2> HIDE DEF K
  <2>1. K = {} => Cardinality(K) = 0
    BY FS_EmptySet
  <2> QED
    BY <2>1
<1>4. PICK x \in K : \A y \in K : born[x] <= born[y]
  <2> HIDE DEF K
  <2> QED
    BY <1>1, <1>3, Oldest
<1>5. K \ {x} \subseteq Newer(x)
  <2>1. \A y \in L : born[y] \in Nat
    BY DEF TypeOK
  <2>2. \A y \in K : y \in L /\ (y # x => born[y] > born[x])
    <3> SUFFICES ASSUME NEW y \in K PROVE y \in L /\ (y # x => born[y] > born[x])
      OBVIOUS
    <3>1. x \in L /\ y \in L /\ born[x] <= born[y]
      BY <1>1, <1>4
    <3> HIDE DEF K
    <3>2. born[x] = born[y] => x = y
      BY <3>1
    <3>3. born[x] \in Nat /\ born[y] \in Nat
      BY <2>1, <3>1
    <3> QED
      BY <3>1, <3>2, <3>3
  <2> HIDE DEF K
  <2> QED
    BY <2>2
<1>6. Cardinality(K \ {x}) = Cardinality(K) - 1
  <2> HIDE DEF K
  <2> QED
    BY <1>2, <1>4, FS_RemoveElement
<1>7. Newer(x) \in SUBSET Sessions
  OBVIOUS
<1>8. Cardinality(Newer(x)) < n /\ Cardinality(Newer(x)) \in Nat
  BY <1>4, <1>7, FiniteSessions
<1> HIDE DEF K, Newer
<1>9. Cardinality(K \ {x}) <= Cardinality(Newer(x))
  BY <1>5, <1>7, Fewer
<1> QED
  BY <1>2, <1>6, <1>8, <1>9

\* A sign-in that does not move answers for whatever is left.
LEMMA StillAnswers ==
  ASSUME TypeOK, NEW s \in Sessions, Answers(s), signin'[s] = signin[s],
         live' \ gone' \subseteq live \ gone
  PROVE  Answers(s)'
<1>1. /\ live \ gone \in SUBSET Sessions /\ live' \ gone' \in SUBSET Sessions
      /\ (live \ gone) \ signin[s].keys \in SUBSET Sessions
  BY DEF TypeOK
<1>2. /\ Cardinality(live' \ gone') <= Cardinality(live \ gone)
      /\ Cardinality((live' \ gone') \ signin[s].keys) <= Cardinality((live \ gone) \ signin[s].keys)
      /\ Cardinality(live \ gone) \in Nat /\ Cardinality((live \ gone) \ signin[s].keys) \in Nat
      /\ Cardinality(live' \ gone') \in Nat
      /\ Cardinality((live' \ gone') \ signin[s].keys) \in Nat
  <2>1. (live' \ gone') \ signin[s].keys \in SUBSET ((live \ gone) \ signin[s].keys)
    OBVIOUS
  <2> QED
    BY <1>1, <2>1, Fewer, FiniteSessions
<1> QED
  BY <1>2, ConstantsOK DEF Answers

LEMMA InitLInv == Init => LInv
<1> SUFFICES ASSUME Init PROVE LInv
  OBVIOUS
<1>1. Stamped = {} /\ Cardinality(Stamped) = 0
  <2>1. Stamped = {}
    BY DEF Init, Stamped
  <2> QED
    BY <2>1, FS_EmptySet
<1> QED
  BY <1>1 DEF Init, LInv, Ranked, SomebodyAnswers, Past, Pruning

LEMMA StampsRanked ==
  ASSUME IInv, Ranked, NEW s \in Sessions, Stamps(s)
  PROVE  Ranked'
<1> DEFINE n == Cardinality(Stamped)
<1>1. born[s] = 0 /\ s \notin Stamped
  BY DEF IInv, BornAfterCheck, Stamps, SignIn, Stamped
<1>2. Stamped \in SUBSET Sessions /\ IsFiniteSet(Stamped) /\ n \in Nat
  BY FiniteSessions DEF Stamped
<1>3. born' = [born EXCEPT ![s] = n + 1] /\ born \in [Sessions -> Nat]
  BY DEF IInv, TypeOK, Stamps, Stamped
<1>4. signin' = [signin EXCEPT ![s] = [stage |-> "stamped", keys |-> {}]]
  BY DEF Stamps, SignIn
<1> HIDE DEF n
<1>5. Stamped' = Stamped \cup {s}
  BY <1>2, <1>3 DEF Stamped
<1>6. Cardinality(Stamped') = n + 1
  BY <1>1, <1>2, <1>5, FS_AddElement DEF n
<1>7. \A x \in Sessions : /\ born[x] \in Nat /\ born[x] <= n
                           /\ born'[x] = IF x = s THEN n + 1 ELSE born[x]
  BY <1>3 DEF Ranked, n
<1>8. \A x \in Sessions : born'[x] <= Cardinality(Stamped')
  BY <1>2, <1>6, <1>7
<1>9. \A x, y \in Stamped' : born'[x] = born'[y] => x = y
  <2> SUFFICES ASSUME NEW x \in Stamped', NEW y \in Stamped', born'[x] = born'[y] PROVE x = y
    OBVIOUS
  <2>1. x \in Sessions /\ y \in Sessions /\ (x # s => x \in Stamped) /\ (y # s => y \in Stamped)
    BY <1>2, <1>5
  <2>2. x # s /\ y # s => born[x] = born[y]
    BY <2>1, <1>7
  <2>3. ~ (x = s /\ y # s) /\ ~ (x # s /\ y = s)
    BY <2>1, <1>2, <1>7
  <2> QED
    BY <2>1, <2>2, <2>3 DEF Ranked
<1>10. \A x \in Sessions : signin'[x].stage \in {"stamped"} \cup Past => born'[x] > 0
  <2> SUFFICES ASSUME NEW x \in Sessions, signin'[x].stage \in {"stamped"} \cup Past
               PROVE  born'[x] > 0
    OBVIOUS
  <2>1. x # s => signin'[x] = signin[x]
    BY <1>4
  <2>2. x # s => born[x] > 0
    BY <2>1 DEF Ranked
  <2> QED
    BY <1>2, <1>7, <2>2
<1> QED
  BY <1>8, <1>9, <1>10 DEF Ranked

\* Any other step leaves the ranks alone and lets nobody past unranked.
LEMMA OthersRanked ==
  ASSUME Ranked, born' = born,
         \A x \in Sessions : signin'[x].stage \in {"stamped"} \cup Past =>
                               signin[x].stage \in {"stamped"} \cup Past
  PROVE  Ranked'
BY DEF Ranked, Stamped

LEMMA SignInRanked ==
  ASSUME IInv, Ranked, NEW s \in Sessions,
         \/ ChecksAccount(s) \/ Stores(s) \/ Scans(s) \/ Lists(s) \/ Prunes(s) \/ PruneFails(s)
  PROVE  Ranked'
<1>1. /\ born' = born
      /\ \A x \in Sessions : x # s => signin'[x] = signin[x]
      /\ signin'[s].stage \in {"stamped"} \cup Past => signin[s].stage \in {"stamped"} \cup Past
  BY DEF IInv, TypeOK, SignIn, Past, Pruning,
     ChecksAccount, Stores, Scans, Lists, Prunes, PruneFails
<1> QED
  BY <1>1, OthersRanked

\* Unless a record is stored, no session that was never ended is added.
LEMMA SignInAnswers ==
  ASSUME IInv, Ranked, SomebodyAnswers, NEW s \in Sessions,
         \/ ChecksAccount(s) \/ Stamps(s) \/ Scans(s) \/ Prunes(s) \/ PruneFails(s)
  PROVE  SomebodyAnswers'
<1> SUFFICES ASSUME Limit > 0 PROVE SomebodyAnswers'
  BY DEF SomebodyAnswers
<1>1. TypeOK
  BY DEF IInv
<1>2. live' \ gone' \subseteq live \ gone
  BY DEF ChecksAccount, Stamps, Scans, Prunes, PruneFails, End, redisVars
<1>3. \A x \in Sessions : x # s => signin'[x] = signin[x]
  BY <1>1 DEF ChecksAccount, Stamps, Scans, Prunes, PruneFails, SignIn, TypeOK
<1>4. Answers(s) => Answers(s)'
  <2> SUFFICES ASSUME Answers(s) PROVE Answers(s)'
    OBVIOUS
  <2>1. signin[s].stage \notin {"new", "cleared"}
    BY DEF Answers
  <2>2. CASE Scans(s)
    BY <1>1, <2>2 DEF Scans, SignIn, Answers, redisVars, TypeOK
  <2>3. CASE Prunes(s)
    <3>1. /\ signin[s].stage = "listed" /\ signin'[s].stage = "in"
          /\ live' \ gone' = (live \ gone) \ signin[s].keys
      BY <1>1, <2>3 DEF Prunes, SignIn, End, TypeOK
    <3> QED
      BY <3>1 DEF Answers
  <2>4. CASE PruneFails(s)
    BY <1>1, <2>4 DEF PruneFails, SignIn, Answers, TypeOK
  <2> QED
    BY <2>1, <2>2, <2>3, <2>4 DEF ChecksAccount, Stamps, SignIn
<1>5. live \ gone = {} => live' \ gone' = {}
  BY <1>2
<1>6. ASSUME NEW x \in Sessions, Answers(x) PROVE Answers(x)'
  BY <1>1, <1>2, <1>3, <1>4, <1>6, StillAnswers
<1> QED
  BY <1>5, <1>6 DEF SomebodyAnswers

LEMMA StoresAnswers ==
  ASSUME IInv, NEW s \in Sessions, Stores(s)
  PROVE  SomebodyAnswers'
<1> SUFFICES ASSUME Limit > 0 PROVE Answers(s)'
  BY DEF SomebodyAnswers
<1>1. signin'[s].stage = "stored"
  BY ConstantsOK DEF Stores, SignIn, IInv, TypeOK
<1> QED
  BY <1>1 DEF Answers

\* What a listing of everything leaves is the sign-in's own session and the newest others.
LEMMA ListsLeavesLimit ==
  ASSUME IInv, Ranked, Limit > 0, NEW s \in Sessions, NEW l \in SUBSET live,
         live \ gone \subseteq l
  PROVE  Cardinality((live \ gone) \ Doomed(s, l)) <= Limit
<1> DEFINE L == l \ {s}
           n == Limit - 1
           Few == {x \in L : Cardinality({y \in L : born[y] > born[x]}) < n}
<1>1. TypeOK /\ n \in Nat /\ n + 1 = Limit
  BY ConstantsOK DEF IInv
<1>2. L \in SUBSET Sessions /\ Few \in SUBSET Sessions
  BY <1>1 DEF TypeOK
<1>3. \A x, y \in L : born[x] = born[y] => x = y
  <2>1. \A x \in L : x \in Stamped
    <3> SUFFICES ASSUME NEW x \in L PROVE x \in Stamped
      OBVIOUS
    <3>1. x \in Sessions /\ x \in live
      BY <1>2
    <3>2. signin[x].stage \in Past
      BY <3>1 DEF IInv, HeldWereStored
    <3> QED
      BY <3>1, <3>2 DEF Ranked, Stamped
  <2> QED
    BY <2>1 DEF Ranked
<1>4. Cardinality(Few) <= n
  <2> HIDE DEF L, n
  <2> QED
    BY <1>1, <1>2, <1>3, NewestFew
<1>5. (live \ gone) \ Doomed(s, l) \subseteq Few \cup {s}
  <2> SUFFICES ASSUME NEW x \in live \ gone, x \notin Doomed(s, l), x # s PROVE x \in Few
    OBVIOUS
  <2> DEFINE c == Cardinality({y \in L : born[y] > born[x]})
  <2>1. x \in L
    OBVIOUS
  <2>2. c \in Nat
    <3>1. {y \in L : born[y] > born[x]} \in SUBSET Sessions
      BY <1>2
    <3> QED
      BY <3>1, FiniteSessions
  <2>3. ~ (c >= n)
    BY <2>1 DEF Doomed
  <2>4. c < n
    <3> HIDE DEF c, n
    <3> QED
      BY <1>1, <2>2, <2>3
  <2> QED
    BY <2>1, <2>4
<1>6. Few \cup {s} \in SUBSET Sessions /\ IsFiniteSet(Few) /\ Cardinality(Few) \in Nat
  BY <1>2, FiniteSessions
<1> HIDE DEF Few, n
<1>7. Cardinality(Few \cup {s}) <= Cardinality(Few) + 1 /\ Cardinality(Few \cup {s}) \in Nat
  BY <1>6, FS_AddElement, FiniteSessions
<1> DEFINE Left == (live \ gone) \ Doomed(s, l)
<1>8. Left \in SUBSET Sessions
  BY <1>5, <1>6
<1> HIDE DEF Left
<1>9. Cardinality(Left) <= Cardinality(Few \cup {s}) /\ Cardinality(Left) \in Nat
  BY <1>5, <1>6, <1>8, Fewer, FiniteSessions DEF Left
<1>10. Cardinality(Left) <= Limit
  BY <1>1, <1>4, <1>6, <1>7, <1>9
<1> QED
  BY <1>10 DEF Left

LEMMA ListsAnswers ==
  ASSUME IInv, Ranked, SomebodyAnswers, NEW s \in Sessions, Lists(s)
  PROVE  SomebodyAnswers'
<1> SUFFICES ASSUME Limit > 0 PROVE SomebodyAnswers'
  BY DEF SomebodyAnswers
<1>1. TypeOK
  BY DEF IInv
<1>2. PICK l \in Listings(signin[s].keys) : SignIn(s, "scanning", "listed", Doomed(s, l))
  BY DEF Lists
<1>3. l \subseteq live /\ (signin[s].keys \cap live) \ gone \subseteq l
  BY DEF Listings
<1>4. live' = live /\ gone' = gone
  BY DEF Lists, redisVars
<1>5. /\ signin[s].stage = "scanning" /\ signin'[s].stage = "listed"
      /\ signin'[s].keys = Doomed(s, l)
      /\ \A x \in Sessions : x # s => signin'[x] = signin[x]
  BY <1>1, <1>2 DEF SignIn, TypeOK
<1>6. Answers(s) => Answers(s)'
  <2> SUFFICES ASSUME Answers(s) PROVE Answers(s)'
    OBVIOUS
  <2>1. live \ gone \subseteq l
    BY <1>3, <1>5 DEF Answers
  <2>2. Cardinality((live \ gone) \ Doomed(s, l)) <= Limit
    BY <1>3, <2>1, ListsLeavesLimit
  <2> QED
    BY <1>4, <1>5, <2>2 DEF Answers
<1>7. ASSUME NEW x \in Sessions, Answers(x) PROVE Answers(x)'
  BY <1>1, <1>4, <1>5, <1>6, <1>7, StillAnswers
<1> QED
  BY <1>4, <1>7 DEF SomebodyAnswers

\* Requests, sweeps, revocations and expiries start no sign-in, and what they write back
\* was ended before.
LEMMA OthersLInv ==
  ASSUME IInv, LInv, signin' = signin, born' = born, live' \ gone' \subseteq live \ gone
  PROVE  LInv'
<1>1. TypeOK /\ Ranked /\ SomebodyAnswers
  BY DEF IInv, LInv
<1>2. Ranked'
  BY <1>1, OthersRanked
<1>3. ASSUME NEW x \in Sessions, Answers(x) PROVE Answers(x)'
  BY <1>1, <1>3, StillAnswers
<1>4. SomebodyAnswers'
  BY <1>1, <1>3 DEF SomebodyAnswers
<1> QED
  BY <1>2, <1>4 DEF LInv

LEMMA StepLInv == IInv /\ LInv /\ [Next]_vars => LInv'
<1> SUFFICES ASSUME IInv, LInv, [Next]_vars PROVE LInv'
  OBVIOUS
<1>1. ASSUME NEW s \in Sessions,
             \/ ChecksAccount(s) \/ Stamps(s) \/ Stores(s) \/ Scans(s) \/ Lists(s)
             \/ Prunes(s) \/ PruneFails(s)
      PROVE  LInv'
  <2>1. Ranked'
    BY <1>1, StampsRanked, SignInRanked DEF LInv
  <2>2. SomebodyAnswers'
    BY <1>1, SignInAnswers, StoresAnswers, ListsAnswers DEF LInv
  <2> QED
    BY <2>1, <2>2 DEF LInv
<1>2. ASSUME NEW s \in Sessions, Expires(s) \/ Revokes(s) PROVE LInv'
  BY <1>2, OthersLInv DEF Expires, Revokes, End
<1>3. ASSUME NEW g \in Requests,
             \/ \E s \in Sessions : Finds(g, s)
             \/ Rejects(g) \/ Admits(g) \/ ReadsTTL(g) \/ Touches(g)
      PROVE  LInv'
  <2>1. signin' = signin /\ born' = born
    BY <1>3 DEF Finds, Rejects, Admits, ReadsTTL, Touches, guardUnchanged
  <2>2. CASE Touches(g)
    <3>1. request[g].sid \in live \cup gone /\ live' = live \cup {request[g].sid} /\ gone' = gone
      BY <2>2 DEF Touches, Set, IInv, RequestsHoldSessions
    <3> QED
      BY <2>1, <3>1, OthersLInv
  <2>3. CASE ~ Touches(g)
    <3>1. live' \ gone' \subseteq live \ gone
      BY <1>3, <2>3 DEF Finds, Rejects, Admits, ReadsTTL, End, redisVars
    <3> QED
      BY <2>1, <3>1, OthersLInv
  <2> QED
    BY <2>2, <2>3
<1>4. ASSUME NEW w \in Sweeps,
             \/ \E keep \in Sessions \cup {NoSession} : StartsSweep(w, keep)
             \/ Restricts(w) \/ ChangesEmail(w)
             \/ SweepScans(w) \/ SweepLists(w) \/ SweepDeletes(w)
      PROVE  LInv'
  <2>1. signin' = signin /\ born' = born /\ live' \ gone' \subseteq live \ gone
    BY <1>4 DEF StartsSweep, Restricts, ChangesEmail, SweepScans, SweepLists, SweepDeletes,
       End, redisVars
  <2> QED
    BY <2>1, OthersLInv
<1>5. ASSUME NEW w \in Sweeps,
             \/ RewriteScans(w) \/ RewriteLists(w) \/ RewriteReadsTTL(w) \/ RewriteSets(w)
             \/ RewriteEnds(w)
      PROVE  LInv'
  <2>1. PICK to, ids : Moves(w, to, ids)
    BY <1>5, RewriteMoves
  <2>2. signin' = signin /\ born' = born /\ live' \ gone' \subseteq live \ gone
    BY <2>1 DEF Moves
  <2> QED
    BY <2>2, OthersLInv
<1>6. CASE Unrestricts \/ UNCHANGED vars
  <2>1. signin' = signin /\ born' = born /\ live' \ gone' \subseteq live \ gone
    BY <1>6 DEF Unrestricts, redisVars, vars
  <2> QED
    BY <2>1, OthersLInv
<1> QED
  BY <1>1, <1>2, <1>3, <1>4, <1>5, <1>6 DEF Next

\* However many sign-ins overlap, and whatever is revoked, swept or expires meanwhile, the
\* limit binds once no sign-in is pruning and none failed to.
THEOREM LimitKept == Spec => []LimitBinds
<1>1. IInv /\ LInv => LimitBinds
  <2> SUFFICES ASSUME IInv, LInv, Limit > 0,
                      \A s \in Sessions : signin[s].stage \notin Pruning \cup {"unpruned"}
               PROVE  Cardinality(live \ gone) <= Limit
    BY DEF LimitBinds
  <2>1. CASE live \ gone = {}
    <3>1. Cardinality(live \ gone) = 0
      BY <2>1, FS_EmptySet
    <3> QED
      BY <3>1, ConstantsOK
  <2>2. CASE \E s \in Sessions : Answers(s)
    BY <2>2 DEF Answers, Pruning
  <2> QED
    BY <2>1, <2>2 DEF LInv, SomebodyAnswers
<1> QED
  BY <1>1, InitLInv, StepLInv, Invariance, PTL DEF Spec

----------------------------------------------------------------------------------
(* The address *)

\* The sessions whose record names an outdated address, though it was not when it was written.
Misnamed == {s \in (live \ gone) \ astray : named[s] # address}

\* The change that wrote the address closes in on them: they are yet to be scanned, in what its
\* sweep has listed, the caller's own session, or in what its rewrite has listed.
AddressClosesIn ==
    /\ address = NoSweep => Misnamed = {}
    /\ address # NoSweep =>
         /\ sweep[address].stage # "new"
         /\ sweep[address].stage \in {"scanning", "rescanning", "rewriting", "setting"} =>
              Misnamed \subseteq sweep[address].keys
         /\ sweep[address].stage = "listed" =>
              Misnamed \subseteq sweep[address].keys \cup {sweep[address].keep}
         /\ sweep[address].stage = "swept" => Misnamed \subseteq {sweep[address].keep}
         /\ sweep[address].stage = "done" => Misnamed = {}

LEMMA InitAddress == Init => AddressClosesIn
  BY DEF Init, AddressClosesIn, Misnamed

LEMMA EndMisnames ==
  ASSUME NEW ids, End(ids), address' = address
  PROVE  Misnamed' \subseteq Misnamed
BY DEF End, Misnamed

\* What is set with the address is not misnamed, what is set with another is astray.
LEMMA SetMisnames ==
  ASSUME TypeOK, NEW s \in Sessions, NEW name, Set(s, name), address' = address
  PROVE  Misnamed' \subseteq Misnamed \ {s}
<1>1. /\ live' = live \cup {s} /\ gone' = gone
      /\ \A x \in Sessions : x # s => named'[x] = named[x] /\ (x \in astray' <=> x \in astray)
      /\ named'[s] = name /\ (name # address => s \in astray')
  BY DEF Set, TypeOK
<1>2. live \subseteq Sessions
  BY DEF TypeOK
<1> QED
  BY <1>1, <1>2 DEF Misnamed

\* A step that misnames nothing and does not move the change keeps what it has.
LEMMA Following ==
  ASSUME AddressClosesIn, address' = address, Misnamed' \subseteq Misnamed,
         address # NoSweep => sweep'[address] = sweep[address]
  PROVE  AddressClosesIn'
BY DEF AddressClosesIn

LEMMA SignInAddress ==
  ASSUME IInv, AddressClosesIn, NEW s \in Sessions,
         \/ ChecksAccount(s) \/ Stamps(s) \/ Stores(s) \/ Scans(s) \/ Lists(s)
         \/ Prunes(s) \/ PruneFails(s) \/ Expires(s) \/ Revokes(s)
  PROVE  AddressClosesIn'
<1>1. address' = address /\ sweep' = sweep
  BY DEF ChecksAccount, Stamps, Stores, Scans, Lists, Prunes, PruneFails, Expires, Revokes,
     accountVars
<1>2. CASE ChecksAccount(s)
  <2>1. s \notin live
    BY <1>2 DEF ChecksAccount, SignIn, IInv, HeldWereStored, Past, Pruning
  <2>2. /\ live' = live /\ gone' = gone /\ astray' = astray
        /\ \A x \in Sessions : x # s => named'[x] = named[x]
    BY <1>2 DEF ChecksAccount, IInv, TypeOK
  <2>3. Misnamed' \subseteq Misnamed
    BY <1>1, <2>1, <2>2 DEF Misnamed, IInv, TypeOK
  <2> QED
    BY <1>1, <2>3, Following
<1>3. CASE Stores(s)
  <2>1. Misnamed' \subseteq Misnamed
    BY <1>1, <1>3, SetMisnames DEF Stores, IInv
  <2> QED
    BY <1>1, <2>1, Following
<1>4. CASE Prunes(s) \/ Expires(s) \/ Revokes(s)
  <2>1. Misnamed' \subseteq Misnamed
    BY <1>1, <1>4, EndMisnames DEF Prunes, Expires, Revokes
  <2> QED
    BY <1>1, <2>1, Following
<1>5. CASE Stamps(s) \/ Scans(s) \/ Lists(s) \/ PruneFails(s)
  <2>1. Misnamed' \subseteq Misnamed
    BY <1>1, <1>5 DEF Stamps, Scans, Lists, PruneFails, redisVars, Misnamed
  <2> QED
    BY <1>1, <2>1, Following
<1> QED
  BY <1>2, <1>3, <1>4, <1>5

LEMMA GuardAddress ==
  ASSUME IInv, AddressClosesIn, NEW g \in Requests,
         \/ \E s \in Sessions : Finds(g, s)
         \/ Rejects(g) \/ Admits(g) \/ ReadsTTL(g) \/ Touches(g)
  PROVE  AddressClosesIn'
<1>1. address' = address /\ sweep' = sweep
  BY DEF Finds, Rejects, Admits, ReadsTTL, Touches, guardUnchanged, accountVars
<1>2. CASE Touches(g)
  <2>1. request[g].sid \in Sessions /\ Set(request[g].sid, request[g].names)
    BY <1>2 DEF Touches, IInv, RequestsHoldSessions
  <2>2. Misnamed' \subseteq Misnamed
    BY <1>1, <2>1, SetMisnames DEF IInv
  <2> QED
    BY <1>1, <2>2, Following
<1>3. CASE Rejects(g)
  <2>1. Misnamed' \subseteq Misnamed
    BY <1>1, <1>3, EndMisnames DEF Rejects
  <2> QED
    BY <1>1, <2>1, Following
<1>4. CASE (\E s \in Sessions : Finds(g, s)) \/ Admits(g) \/ ReadsTTL(g)
  <2>1. Misnamed' \subseteq Misnamed
    BY <1>1, <1>4 DEF Finds, Admits, ReadsTTL, redisVars, Misnamed
  <2> QED
    BY <1>1, <2>1, Following
<1> QED
  BY <1>2, <1>3, <1>4

LEMMA SweepAddress ==
  ASSUME IInv, AddressClosesIn, NEW w \in Sweeps,
         \/ \E keep \in Sessions \cup {NoSession} : StartsSweep(w, keep)
         \/ Restricts(w)
         \/ SweepScans(w) \/ SweepLists(w) \/ SweepDeletes(w)
  PROVE  AddressClosesIn'
<1>1. /\ address' = address
      /\ address # NoSweep => address \in Changes /\ address \in Sweeps
  <2>1. address' = address
    BY DEF StartsSweep, Restricts, SweepScans, SweepLists, SweepDeletes, accountVars
  <2>2. address # NoSweep => address \in Changes /\ address \in Sweeps
    BY ConstantsOK DEF IInv, TypeOK, Addresses
  <2> QED
    BY <2>1, <2>2
<1>2. Misnamed' \subseteq Misnamed
  <2>1. CASE SweepDeletes(w)
    BY <1>1, <2>1, EndMisnames DEF SweepDeletes
  <2>2. CASE ~ SweepDeletes(w)
    BY <1>1, <2>2 DEF StartsSweep, Restricts, SweepScans, SweepLists, redisVars, Misnamed
  <2> QED
    BY <2>1, <2>2
<1>3. CASE w # address
  <2>1. address # NoSweep => sweep'[address] = sweep[address]
    BY <1>1, <1>3 DEF StartsSweep, Restricts, SweepScans, SweepLists, SweepDeletes, Sweep,
       IInv, TypeOK
  <2> QED
    BY <1>1, <1>2, <2>1, Following
<1>4. CASE w = address
  <2>0. address # NoSweep /\ w \in Changes /\ Misnamed \subseteq live \ gone
    BY <1>1, <1>4, ConstantsOK DEF Misnamed
  <2>1. CASE SweepScans(w)
    <3>1. sweep'[w].stage = "scanning" /\ sweep'[w].keys = live
      BY <2>1 DEF SweepScans, Sweep, IInv, TypeOK
    <3> QED
      BY <1>1, <1>2, <1>4, <2>0, <3>1 DEF AddressClosesIn
  <2>2. CASE SweepLists(w)
    <3>1. PICK l \in Listings(sweep[w].keys) :
            Sweep(w, "scanning", "listed", sweep[w].keep, l \ {sweep[w].keep})
      BY <2>2 DEF SweepLists
    <3>2. /\ sweep[w].stage = "scanning" /\ sweep'[w].stage = "listed"
          /\ sweep'[w].keys = l \ {sweep[w].keep} /\ sweep'[w].keep = sweep[w].keep
      BY <3>1 DEF Sweep, IInv, TypeOK
    <3>3. Misnamed \subseteq l
      BY <1>4, <2>0, <3>2 DEF AddressClosesIn, Listings
    <3> QED
      BY <1>1, <1>2, <1>4, <2>0, <3>2, <3>3 DEF AddressClosesIn
  <2>3. CASE SweepDeletes(w)
    <3>1. /\ sweep[w].stage = "listed" /\ sweep'[w].stage = "swept"
          /\ sweep'[w].keep = sweep[w].keep /\ live' = live \ sweep[w].keys
      BY <2>0, <2>3 DEF SweepDeletes, Sweep, End, IInv, TypeOK
    <3>2. Misnamed' \subseteq live'
      BY DEF Misnamed
    <3>3. Misnamed \subseteq sweep[w].keys \cup {sweep[w].keep}
      BY <1>4, <2>0, <3>1 DEF AddressClosesIn
    <3> QED
      BY <1>1, <1>2, <1>4, <2>0, <3>1, <3>2, <3>3 DEF AddressClosesIn
  <2>4. ~ (\E keep \in Sessions \cup {NoSession} : StartsSweep(w, keep)) /\ ~ Restricts(w)
    BY <2>0 DEF StartsSweep, Restricts
  <2> QED
    BY <2>1, <2>2, <2>3, <2>4
<1> QED
  BY <1>3, <1>4

LEMMA ChangeAddress ==
  ASSUME IInv, AddressClosesIn, NEW w \in Sweeps, ChangesEmail(w)
  PROVE  AddressClosesIn'
<1>1. address' = w /\ w # NoSweep /\ sweep'[w].stage = "started"
  BY ConstantsOK DEF ChangesEmail, Sweep, IInv, TypeOK
<1> QED
  BY <1>1 DEF AddressClosesIn

LEMMA RewriteAddress ==
  ASSUME IInv, AddressClosesIn, NEW w \in Sweeps,
         \/ RewriteScans(w) \/ RewriteLists(w) \/ RewriteReadsTTL(w) \/ RewriteSets(w)
         \/ RewriteEnds(w)
  PROVE  AddressClosesIn'
<1>1. PICK to, ids : Moves(w, to, ids)
  BY RewriteMoves
<1>2. /\ address' = address /\ w \in Changes /\ w # NoSweep
      /\ sweep'[w].stage = to /\ sweep'[w].keys = ids
      /\ \A v \in Sweeps : v # w => sweep'[v] = sweep[v]
      /\ address # NoSweep => address \in Sweeps
  BY <1>1, ConstantsOK DEF Moves, IInv, TypeOK, SweepsKeepOrder, Addresses
<1>3. Misnamed \subseteq live \ gone
  BY DEF Misnamed
<1>4. ASSUME ~ RewriteSets(w) PROVE Misnamed' = Misnamed
  BY <1>2, <1>4 DEF RewriteScans, RewriteLists, RewriteReadsTTL, RewriteEnds, redisVars,
     Misnamed
<1>5. ASSUME RewriteSets(w)
      PROVE  \E x \in sweep[w].keys :
               /\ sweep[w].stage = "setting" /\ to = "rewriting" /\ ids = sweep[w].keys \ {x}
               /\ Misnamed' \subseteq Misnamed \ {x}
  <2>1. PICK x \in Turn(w) :
          /\ Sweep(w, "setting", "rewriting", sweep[w].keep, sweep[w].keys \ {x})
          /\ Set(x, w)
    BY <1>5 DEF RewriteSets
  <2>2. x \in sweep[w].keys /\ x \in Sessions
    BY DEF Turn, IInv, TypeOK
  <2>3. Misnamed' \subseteq Misnamed \ {x}
    BY <1>2, <2>1, <2>2, SetMisnames DEF IInv
  <2>4. /\ sweep[w].stage = "setting" /\ sweep'[w].stage = "rewriting"
        /\ sweep'[w].keys = sweep[w].keys \ {x}
    BY <2>1 DEF Sweep, IInv, TypeOK
  <2> QED
    BY <1>2, <2>2, <2>3, <2>4
<1>6. CASE w # address
  <2>1. address # NoSweep => sweep'[address] = sweep[address]
    BY <1>2, <1>6
  <2>2. Misnamed' \subseteq Misnamed
    BY <1>4, <1>5
  <2> QED
    BY <1>2, <2>1, <2>2, Following
<1>7. CASE w = address
  <2> SUFFICES /\ to \in {"rescanning", "rewriting", "setting"} => Misnamed' \subseteq ids
               /\ to = "done" => Misnamed' = {}
               /\ to \in {"rescanning", "rewriting", "setting", "done"}
    BY <1>2, <1>7 DEF AddressClosesIn
  <2>0. to \in {"rescanning", "rewriting", "setting", "done"}
    BY <1>1 DEF Moves
  <2>1. sweep[w].stage \in {"rescanning", "rewriting", "setting"} => Misnamed \subseteq sweep[w].keys
    BY <1>2, <1>7 DEF AddressClosesIn
  <2>2. CASE RewriteSets(w)
    BY <1>5, <2>1, <2>2
  <2>3. CASE RewriteScans(w)
    <3>1. to = "rescanning" /\ ids = live /\ Misnamed' = Misnamed
      BY <1>2, <1>4, <2>3 DEF RewriteScans, RewriteSets, Sweep, IInv, TypeOK
    <3> QED
      BY <1>3, <3>1
  <2>4. CASE RewriteLists(w)
    <3>1. PICK l \in Listings(sweep[w].keys) :
            Sweep(w, "rescanning", "rewriting", sweep[w].keep, l)
      BY <2>4 DEF RewriteLists
    <3>2. to = "rewriting" /\ ids = l /\ sweep[w].stage = "rescanning" /\ Misnamed' = Misnamed
      BY <1>2, <1>4, <3>1 DEF RewriteSets, Sweep, IInv, TypeOK
    <3> QED
      BY <1>3, <2>1, <3>2 DEF Listings
  <2>5. CASE RewriteReadsTTL(w)
    <3>1. PICK x \in Turn(w) :
            \/ x \in live /\ Sweep(w, "rewriting", "setting", sweep[w].keep, sweep[w].keys)
            \/ /\ x \notin live
               /\ Sweep(w, "rewriting", "rewriting", sweep[w].keep, sweep[w].keys \ {x})
      BY <2>5 DEF RewriteReadsTTL
    <3>2. /\ sweep[w].stage = "rewriting" /\ to \in {"setting", "rewriting"}
          /\ ids = sweep[w].keys \/ (x \notin live /\ ids = sweep[w].keys \ {x})
      BY <1>2, <3>1 DEF Sweep, IInv, TypeOK
    <3>3. Misnamed' = Misnamed
      BY <1>4, <3>2 DEF RewriteSets, Sweep
    <3> QED
      BY <1>3, <2>1, <3>2, <3>3
  <2>6. CASE RewriteEnds(w)
    <3>1. to = "done" /\ sweep[w].stage = "rewriting" /\ sweep[w].keys = {}
      BY <1>2, <2>6 DEF RewriteEnds, Sweep, IInv, TypeOK
    <3>2. Misnamed' = Misnamed
      BY <1>4, <3>1 DEF RewriteSets, Sweep
    <3> QED
      BY <2>1, <3>1, <3>2
  <2> QED
    BY <2>0, <2>2, <2>3, <2>4, <2>5, <2>6
<1> QED
  BY <1>6, <1>7

LEMMA StepAddress == IInv /\ AddressClosesIn /\ [Next]_vars => AddressClosesIn'
<1> SUFFICES ASSUME IInv, AddressClosesIn, [Next]_vars PROVE AddressClosesIn'
  OBVIOUS
<1>1. CASE Unrestricts \/ UNCHANGED vars
  <2>1. address' = address /\ sweep' = sweep /\ Misnamed' = Misnamed
    BY <1>1 DEF Unrestricts, vars, redisVars, Misnamed
  <2> QED
    BY <2>1, Following
<1> QED
  BY <1>1, SignInAddress, GuardAddress, SweepAddress, ChangeAddress, RewriteAddress DEF Next

\* However many changes of e-mail overlap, and whatever happens to the sessions meanwhile, the
\* rewrite behind the last of them reaches every session that its sweep left.
THEOREM AddressFollowed == Spec => []AddressFollows
<1>1. AddressClosesIn => AddressFollows
  BY DEF AddressClosesIn, AddressFollows, Misnamed
<1> QED
  BY <1>1, InitAddress, StepAddress, Invariance, PTL DEF Spec
----------------------------------------------------------------------------------
(* What brings an ended session back *)

\* No touch and no rewrite has read a TTL of s that it has yet to act on.
Unheld(s) ==
    /\ \A g \in Requests : request[g].stage = "writing" => request[g].sid # s
    /\ \A w \in Sweeps : sweep[w].stage = "setting" => s \notin Turn(w)

\* A session that was ended and that none of those holds is not live again, and nobody
\* comes to hold it.
EndedStayEnded ==
    [][\A s \in gone \ live : Unheld(s) => s \notin live' /\ Unheld(s)']_vars

\* Whatever a sweep has listed was stamped, and what was ended too.
LEMMA HeldAreStamped ==
  ASSUME IInv, NEW x \in live \cup gone
  PROVE  x \in Sessions /\ signin[x].stage \in Past
BY DEF IInv, TypeOK, HeldWereStored

\* Nothing is stored twice, so a record comes back by a touch or by a rewrite.
LEMMA ComesBack ==
  ASSUME IInv, [Next]_vars, NEW s \in gone \ live, Unheld(s)
  PROVE  s \notin live'
<1>1. ASSUME NEW x \in Sessions, Stores(x) PROVE s \notin live'
  <2>1. x # s
    BY <1>1, HeldAreStamped DEF Stores, SignIn, Past, Pruning
  <2> QED
    BY <1>1, <2>1 DEF Stores, Set
<1>2. ASSUME NEW g \in Requests, Touches(g) PROVE s \notin live'
  BY <1>2 DEF Touches, Set, Unheld
<1>3. ASSUME NEW w \in Sweeps, RewriteSets(w) PROVE s \notin live'
  BY <1>3 DEF RewriteSets, Sweep, Set, Unheld
<1> QED
  BY <1>1, <1>2, <1>3 DEF Next, vars, redisVars, rewriteUnchanged, ChecksAccount, Stamps, Scans,
     Lists, Prunes, PruneFails, Expires, Revokes, Finds, Rejects, Admits, ReadsTTL, StartsSweep,
     Restricts, ChangesEmail, SweepScans, SweepLists, SweepDeletes, RewriteScans, RewriteLists,
     RewriteReadsTTL, RewriteEnds, Unrestricts, End

\* A call is about to write only what it has just found live, or what it already was
\* about to write.
LEMMA WritersCome ==
  ASSUME IInv, [Next]_vars, NEW g \in Requests, request'[g].stage = "writing"
  PROVE  request'[g] = request[g] \/ request'[g].sid \in live
<1>1. ASSUME NEW h \in Requests, NEW x, request' = [request EXCEPT ![h] = x],
             x.stage # "writing"
      PROVE  request'[g] = request[g]
  BY <1>1 DEF IInv, TypeOK
<1>2. ASSUME NEW h \in Requests, Leave(h) PROVE request'[g] = request[g]
  <2>1. IdleRequest.stage # "writing"
    BY DEF IdleRequest
  <2> QED
    BY <1>1, <1>2, <2>1 DEF Leave
<1>3. ASSUME NEW h \in Requests, NEW s \in Sessions, Finds(h, s) PROVE request'[g] = request[g]
  <2>1. [stage |-> "found", sid |-> s, names |-> named[s]].stage # "writing"
    OBVIOUS
  <2> QED
    BY <1>1, <1>3, <2>1 DEF Finds, At
<1>4. ASSUME NEW h \in Requests, ReadsTTL(h)
      PROVE  request'[g] = request[g] \/ request'[g].sid \in live
  BY <1>4 DEF ReadsTTL, At, IInv, TypeOK
<1> QED
  BY <1>2, <1>3, <1>4 DEF Next, vars, guardUnchanged, rewriteUnchanged, ChecksAccount, Stamps,
     Stores, Scans, Lists, Prunes, PruneFails, Expires, Revokes, Rejects, Admits, Touches,
     StartsSweep, Restricts, ChangesEmail, SweepScans, SweepLists, SweepDeletes, RewriteScans,
     RewriteLists, RewriteReadsTTL, RewriteSets, RewriteEnds, Unrestricts

\* A rewrite is about to set only the record it has just found live, or the one it
\* already was about to set.
LEMMA SettersCome ==
  ASSUME IInv, [Next]_vars, NEW w \in Sweeps, sweep'[w].stage = "setting"
  PROVE  \/ sweep'[w] = sweep[w]
         \/ /\ sweep'[w].keys = sweep[w].keys /\ born' = born
            /\ \E x \in Turn(w) : x \in live
<1>1. ASSUME NEW v \in Sweeps, NEW x, sweep' = [sweep EXCEPT ![v] = x], x.stage # "setting"
      PROVE  sweep'[w] = sweep[w]
  BY <1>1 DEF IInv, TypeOK
<1>2. ASSUME NEW v \in Sweeps, NEW from, NEW to, NEW keep, NEW ids,
             Sweep(v, from, to, keep, ids), to # "setting"
      PROVE  sweep'[w] = sweep[w]
  <2>1. [stage |-> to, keep |-> keep, keys |-> ids].stage # "setting"
    BY <1>2
  <2> QED
    BY <1>1, <1>2, <2>1 DEF Sweep
<1>3. ASSUME NEW v \in Sweeps, RewriteReadsTTL(v), sweep'[w] # sweep[w]
      PROVE  /\ sweep'[w].keys = sweep[w].keys /\ born' = born
             /\ \E x \in Turn(w) : x \in live
  <2>1. PICK x \in Turn(v) :
          \/ x \in live /\ Sweep(v, "rewriting", "setting", sweep[v].keep, sweep[v].keys)
          \/ x \notin live /\ Sweep(v, "rewriting", "rewriting", sweep[v].keep, sweep[v].keys \ {x})
    BY <1>3 DEF RewriteReadsTTL
  <2>2. x \in live /\ Sweep(v, "rewriting", "setting", sweep[v].keep, sweep[v].keys)
    BY <1>2, <1>3, <2>1
  <2>3. v = w /\ sweep'[w].keys = sweep[w].keys
    BY <1>3, <2>2 DEF Sweep, IInv, TypeOK
  <2> QED
    BY <1>3, <2>2, <2>3 DEF RewriteReadsTTL, rewriteUnchanged
<1>4. ASSUME NEW v \in Sweeps,
             \/ \E keep \in Sessions \cup {NoSession} : StartsSweep(v, keep)
             \/ Restricts(v) \/ ChangesEmail(v)
             \/ SweepScans(v) \/ SweepLists(v)
      PROVE  sweep'[w] = sweep[w]
  BY <1>2, <1>4 DEF StartsSweep, Restricts, ChangesEmail, SweepScans, SweepLists
<1>5. ASSUME NEW v \in Sweeps, SweepDeletes(v) PROVE sweep'[w] = sweep[w]
  BY <1>2, <1>5 DEF SweepDeletes
<1>6. ASSUME NEW v \in Sweeps,
             RewriteScans(v) \/ RewriteLists(v) \/ RewriteSets(v) \/ RewriteEnds(v)
      PROVE  sweep'[w] = sweep[w]
  BY <1>2, <1>6 DEF RewriteScans, RewriteLists, RewriteSets, RewriteEnds
<1>7. CASE sweep' = sweep
  BY <1>7
<1> QED
  BY <1>3, <1>4, <1>5, <1>6, <1>7 DEF Next, vars, guardUnchanged, ChecksAccount, Stamps, Stores,
     Scans, Lists, Prunes, PruneFails, Expires, Revokes, Finds, Rejects, Admits, ReadsTTL,
     Touches, Unrestricts

\* created_at of a record that is or was stored stays.
LEMMA StampsStay ==
  ASSUME IInv, [Next]_vars, NEW x \in live \cup gone
  PROVE  born'[x] = born[x]
<1>1. ASSUME NEW s \in Sessions, Stamps(s) PROVE born'[x] = born[x]
  <2>1. x \in Sessions /\ x # s
    BY <1>1, HeldAreStamped DEF Stamps, SignIn, Past, Pruning
  <2> QED
    BY <1>1, <2>1 DEF Stamps, IInv, TypeOK
<1> QED
  BY <1>1 DEF Next, vars, guardUnchanged, rewriteUnchanged, ChecksAccount, Stores, Scans,
     Lists, Prunes, PruneFails, Expires, Revokes, Finds, Rejects, Admits, ReadsTTL, Touches,
     StartsSweep, Restricts, ChangesEmail, SweepScans, SweepLists, SweepDeletes, RewriteScans,
     RewriteLists, RewriteReadsTTL, RewriteSets, RewriteEnds, Unrestricts

\* At most one record has its turn.
LEMMA OneTurn ==
  ASSUME IInv, Ranked, NEW w \in Sweeps, NEW x \in Turn(w), NEW y \in Turn(w)
  PROVE  x = y
<1>1. x \in live \cup gone /\ y \in live \cup gone /\ born[x] <= born[y] /\ born[y] <= born[x]
  BY DEF Turn, IInv, SweepsHoldSessions
<1>2. x \in Stamped /\ y \in Stamped
  BY <1>1, HeldAreStamped DEF Ranked, Stamped
<1>3. born[x] \in Nat /\ born[y] \in Nat
  BY <1>1, HeldAreStamped DEF IInv, TypeOK
<1>4. born[x] = born[y]
  BY <1>1, <1>3
<1> QED
  BY <1>2, <1>4 DEF Ranked

\* The exact extent of the touch that sets a key without looking: only a touch or a
\* rewrite that had read the record's TTL before it was ended brings it back.
THEOREM OnlyHeldComeBack == Spec => EndedStayEnded
<1>1. IInv /\ LInv /\ [Next]_vars =>
        [\A s \in gone \ live : Unheld(s) => s \notin live' /\ Unheld(s)']_vars
  <2> SUFFICES ASSUME IInv, LInv, [Next]_vars, NEW s \in gone \ live, Unheld(s)
               PROVE  s \notin live' /\ Unheld(s)'
    OBVIOUS
  <2>1. ASSUME NEW g \in Requests, request'[g].stage = "writing"
        PROVE  request'[g].sid # s
    BY <2>1, WritersCome DEF Unheld
  <2>2. ASSUME NEW w \in Sweeps, sweep'[w].stage = "setting", s \in Turn(w)'
        PROVE  FALSE
    <3>1. sweep'[w].keys = sweep[w].keys
      BY <2>2, SettersCome
    <3>2. s \in sweep[w].keys /\ \A y \in sweep[w].keys : born'[y] <= born'[s]
      BY <2>2, <3>1 DEF Turn
    <3>3. sweep[w].keys \subseteq live \cup gone
      BY DEF IInv, SweepsHoldSessions
    <3>4. s \in Turn(w)
      BY <3>2, <3>3, StampsStay DEF Turn
    <3>5. CASE sweep'[w] = sweep[w]
      BY <2>2, <3>4, <3>5 DEF Unheld
    <3>6. CASE \E x \in Turn(w) : x \in live
      BY <3>4, <3>6, OneTurn DEF LInv
    <3> QED
      BY <2>2, <3>5, <3>6, SettersCome
  <2> QED
    BY <2>1, <2>2, ComesBack DEF Unheld
<1>2. Spec => []LInv
  BY InitLInv, StepLInv, Invariance, PTL DEF Spec
<1> QED
  BY <1>1, <1>2, Invariance, PTL DEF Spec, EndedStayEnded
====
