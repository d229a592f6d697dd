-------------------------- MODULE LoginLockoutProofs --------------------------
(***************************************************************************)
(* What holds of sign-ins under a lockout, for any number of them, any     *)
(* policies, saves and failures, and any length of time.                   *)
(*                                                                         *)
(* The cached copy of the policy: the sign-ins that have read the row and  *)
(* not yet cached it carry the argument; each holds what is stored, or a   *)
(* save has come since.  The wrong passwords of a stretch of time: once    *)
(* there are as many as any policy allows, whoever counts from then on     *)
(* counts them all, and so only the sign-ins already past the count can    *)
(* add to them.                                                            *)
(***************************************************************************)
EXTENDS LoginLockout, FiniteSetTheorems, WellFoundedInduction, TLAPS

----
(* The copy of the policy *)
Fields == {"stage", "policy", "early"}
Shape == DOMAIN attempt = Clients /\ \A a \in Clients : Fields \subseteq DOMAIN attempt[a]
ReadsAreCurrent ==
    \A a \in Clients : attempt[a].stage = "read" => attempt[a].policy = Stored \/ attempt[a].early
IInv == Shape /\ ReadsAreCurrent /\ CopyIsCurrent

LEMMA Start == Init => IInv
BY DEF Init, IInv, Shape, Fields, ReadsAreCurrent, CopyIsCurrent, Idle

\* The sign-in a alone has moved, and is not about to cache what it read.
Moves(a) ==
    /\ UNCHANGED <<policy, cache, saving, lags>>
    /\ DOMAIN attempt' = DOMAIN attempt
    /\ \A b \in Clients \ {a} : attempt'[b] = attempt[b]
    /\ Fields \subseteq DOMAIN attempt'[a] /\ attempt'[a].stage # "read"

LEMMA MoveSound == ASSUME IInv, NEW a \in Clients, Moves(a) PROVE IInv'
BY DEF Moves, IInv, Shape, ReadsAreCurrent, CopyIsCurrent, Stored

LEMMA Step == IInv /\ [Next]_vars => IInv'
<1> SUFFICES ASSUME IInv, [Next]_vars PROVE IInv'
    OBVIOUS
<1> USE DEF policyVars
<1>0. IInv => Shape /\ ReadsAreCurrent /\ CopyIsCurrent
    BY DEF IInv
<1>1. CASE UNCHANGED vars
    BY <1>1, <1>0 DEF vars, IInv, Shape, ReadsAreCurrent, CopyIsCurrent, Stored
<1>2. CASE Tick
    BY <1>2, <1>0 DEF Tick, IInv, Shape, ReadsAreCurrent, CopyIsCurrent, Stored
<1>3. CASE Expires
    BY <1>3, <1>0 DEF Expires, IInv, Shape, ReadsAreCurrent, CopyIsCurrent, Stored
<1>4. CASE Invalidates
    BY <1>4, <1>0 DEF Invalidates, IInv, Shape, ReadsAreCurrent, CopyIsCurrent, Stored
<1>5. CASE SaveFails
    BY <1>5, <1>0 DEF SaveFails, IInv, Shape, ReadsAreCurrent, CopyIsCurrent, Stored
<1>6. ASSUME NEW p \in Policies, Saves(p) PROVE IInv'
    BY <1>6, <1>0 DEF Saves, IInv, Shape, Fields, ReadsAreCurrent, CopyIsCurrent
<1>7. ASSUME NEW a \in Clients, Asks(a) PROVE IInv'
  <2>1. CASE attempt' = [attempt EXCEPT ![a].stage = "missed"]
      BY <2>1, <1>7, <1>0, MoveSound DEF Asks, Moves, Shape, Fields
  <2>2. ASSUME NEW p, Holds(a, p) PROVE IInv'
      BY <2>2, <1>7, <1>0, MoveSound DEF Asks, Holds, Moves, Shape, Idle, Fields
  <2>. QED BY <1>7, <2>1, <2>2 DEF Asks
<1>8. ASSUME NEW a \in Clients, ReadsRow(a) PROVE IInv'
    BY <1>8, <1>0 DEF ReadsRow, IInv, Shape, Fields, ReadsAreCurrent, CopyIsCurrent, Stored
<1>9. ASSUME NEW a \in Clients, Caches(a) PROVE IInv'
  <2>1. Shape' /\ attempt'[a].stage = "policed" /\ \A b \in Clients \ {a} : attempt'[b] = attempt[b]
      BY <1>9, <1>0 DEF Caches, Holds, Shape, Idle, Fields
  <2>2. ReadsAreCurrent'
      BY <2>1, <1>9, <1>0 DEF Caches, ReadsAreCurrent, Stored
  <2>3. CopyIsCurrent'
      BY <1>9, <1>0 DEF Caches, ReadsAreCurrent, CopyIsCurrent, Stored
  <2>. QED BY <2>1, <2>2, <2>3 DEF IInv
<1>10. ASSUME NEW a \in Clients, FallsBack(a) PROVE IInv'
    BY <1>10, <1>0, MoveSound DEF FallsBack, Holds, Moves, Shape, Idle, Fields
<1>11. ASSUME NEW a \in Clients, PassesUnguarded(a) \/ Clears(a) \/ TurnsAway(a) PROVE IInv'
    BY <1>11, <1>0, MoveSound DEF PassesUnguarded, Clears, TurnsAway, Moves, Shape, Idle, Fields
<1>12. ASSUME NEW a \in Clients, Refuses(a) \/ Fails(a) \/ Succeeds(a) PROVE IInv'
  <2>1. attempt' = [attempt EXCEPT ![a] = Idle] /\ UNCHANGED <<policy, cache, saving, lags>>
      BY <1>12 DEF Refuses, Fails, Succeeds, Ends
  <2>. QED BY <2>1, <1>0, MoveSound DEF Moves, Shape, Idle, Fields
<1>13. ASSUME NEW a \in Clients, FindsSuccess(a) PROVE IInv'
  <2>. DEFINE s == IF {e \in Recorded("SUCCESS") : e.at >= now - attempt[a].policy.window} = {}
                     THEN now - attempt[a].policy.window
                     ELSE Latest({e \in Recorded("SUCCESS") :
                                    e.at >= now - attempt[a].policy.window}) + 1
  <2>1. /\ attempt' = [attempt EXCEPT ![a].stage = "counting", ![a].since = s]
        /\ UNCHANGED <<policy, cache, saving, lags>>
      BY <1>13 DEF FindsSuccess
  <2>. HIDE DEF s
  <2>. QED BY <2>1, <1>0, MoveSound DEF Moves, Shape, Fields
<1>14. ASSUME NEW a \in Clients, CountsFailures(a) PROVE IInv'
  <2>. DEFINE n == Cardinality(Counted(attempt[a].since))
  <2>1. /\ attempt' = [attempt EXCEPT ![a].failures = n] /\ attempt[a].stage = "counting"
        /\ UNCHANGED <<policy, cache, saving, lags>>
      BY <1>14 DEF CountsFailures
  <2>. HIDE DEF n
  <2>. QED BY <2>1, <1>0, MoveSound DEF Moves, Shape, Fields
<1>15. ASSUME NEW a \in Clients, FindsLast(a) PROVE IInv'
  <2>. DEFINE t == IF Counted(attempt[a].since) = {} THEN NoFailure
                     ELSE Latest(Counted(attempt[a].since))
  <2>1. /\ attempt' = [attempt EXCEPT ![a].last = t] /\ attempt[a].stage = "counting"
        /\ UNCHANGED <<policy, cache, saving, lags>>
      BY <1>15 DEF FindsLast
  <2>. HIDE DEF t
  <2>. QED BY <2>1, <1>0, MoveSound DEF Moves, Shape, Fields
<1>. QED BY <1>1, <1>2, <1>3, <1>4, <1>5, <1>6, <1>7, <1>8, <1>9, <1>10, <1>11, <1>12,
             <1>13, <1>14, <1>15 DEF Next

\* "A save invalidates the key immediately": the copy is the stored policy, but for the
\* moment inside a save, a failed delete, and a sign-in that puts back what it read before.
THEOREM CopySound == Spec => []CopyIsCurrent
<1>1. IInv => CopyIsCurrent
    BY DEF IInv
<1>. QED BY <1>1, Start, Step, PTL DEF Spec

----
(* The numbers in the policies and on the trail *)

LEMMA Least == ASSUME NEW T, T \subseteq Nat, T # {} PROVE \E m \in T : \A n \in T : m <= n
<1>1. PICK m \in T : \A n \in T : <<n, m>> \notin OpToRel(<, Nat)
    BY NatLessThanWellFounded, WFMin, Zenon
<1>2. ASSUME NEW n \in T, n < m PROVE FALSE
  <2>1. <<n, m>> \in OpToRel(<, Nat)
      BY <1>2 DEF OpToRel
  <2>. QED BY <2>1, <1>1
<1>. QED BY <1>2

LEMMA Greatest ==
    ASSUME NEW b \in Nat, NEW T, T \subseteq 0..b, T # {}
    PROVE  \E m \in T : \A n \in T : n <= m
<1>. DEFINE D == {b - t : t \in T}
<1>1. \A t \in T : b - t \in Nat
    OBVIOUS
<1>2. PICK d \in D : \A n \in D : d <= n
  <2>1. D \subseteq Nat /\ D # {}
      BY <1>1
  <2>. HIDE DEF D
  <2>. QED BY <2>1, Least
<1>3. PICK m \in T : d = b - m
    BY <1>2
<1>4. ASSUME NEW n \in T PROVE n <= m
  <2>1. d <= b - n
      BY <1>2
  <2>. QED BY <2>1, <1>3
<1>. QED BY <1>4

\* The queries that order by the time: the entry they start with is the last.
LEMMA LatestIsLast ==
    ASSUME NEW entries, entries \subseteq EntryType, entries # {}
    PROVE  \E e \in entries : Latest(entries) = e.at /\ \A f \in entries : f.at <= e.at
<1>. DEFINE T == {e.at : e \in entries}
<1>1. T \subseteq 0..MaxTime /\ T # {}
    BY DEF EntryType
<1>2. PICK m \in T : \A n \in T : n <= m
    BY <1>1, Greatest, ConstantsOK
<1>3. PICK e \in entries : m = e.at
    BY <1>2
<1>4. \A f \in entries : f.at <= e.at
    BY <1>2, <1>3
<1>. QED BY <1>4 DEF Latest

LEMMA MostBounds == Most \in 3..20 /\ \A p \in InForce : p.attempts <= Most
<1>. DEFINE T == {p.attempts : p \in InForce}
<1>1. InForce \subseteq PolicyType /\ Default \in InForce
    BY ConstantsOK DEF InForce
<1>2. T \subseteq 3..20 /\ T # {} /\ T \subseteq 0..20 /\ 20 \in Nat
    BY <1>1 DEF PolicyType
<1>3. PICK m \in T : \A n \in T : n <= m
    BY <1>2, Greatest
<1>4. \A p \in InForce : p.attempts <= m
    BY <1>3
<1>5. Most \in T /\ \A p \in InForce : p.attempts <= Most
    BY <1>4 DEF Most
<1>. QED BY <1>2, <1>5

LEMMA ShortestBounds ==
    /\ Shortest \in Nat \ {0}
    /\ \A p \in InForce : Shortest <= p.window /\ (p.duration # 0 => Shortest <= p.duration)
<1>. DEFINE T == {p.window : p \in InForce} \cup ({p.duration : p \in InForce} \ {0})
<1>1. InForce \subseteq PolicyType /\ Default \in InForce
    BY ConstantsOK DEF InForce
<1>2. T \subseteq Nat \ {0} /\ T # {}
    BY <1>1 DEF PolicyType
<1>3. PICK m \in T : \A n \in T : m <= n
    BY <1>2, Least
<1>4. Shortest \in T /\ \A n \in T : Shortest <= n
    BY <1>3 DEF Shortest
<1>. QED BY <1>2, <1>4

\* A lock that ends lasts no shorter than that.
LEMMA HoldBounds ==
    ASSUME NEW p \in InForce
    PROVE  Hold(p) \in Nat /\ (Hold(p) > 0 => Shortest <= Hold(p))
BY ShortestBounds, ConstantsOK DEF Hold, InForce, PolicyType

----
(* What a sign-in knows *)

\* What a sign-in knows fits where it is.
SoundAttempts ==
    {r \in AttemptType :
        /\ r.stage # "counting" => r.failures = Unread /\ r.last = Unread
        /\ r.stage \in {"read", "policed", "counting"} => r.policy \in InForce}

Typed == TypeOK /\ attempt \in [Clients -> SoundAttempts] /\ \A e \in trail : e.at <= now

LEMMA IdleSound ==
    /\ Idle \in SoundAttempts
    /\ \A p \in InForce : [Idle EXCEPT !.stage = "policed", !.policy = p] \in SoundAttempts
    /\ \A s \in {"guarded", "unguarded"} : [Idle EXCEPT !.stage = s] \in SoundAttempts
<1>1. /\ Unread \in Nat \cup {Unread} /\ Unread \in 0..MaxTime \cup {NoFailure, Unread} /\ 0 \in Int
      /\ FALSE \in BOOLEAN /\ NoPolicy \in Policies \cup {Default, NoPolicy}
    OBVIOUS
<1>2. Idle \in SoundAttempts
    BY <1>1 DEF Idle, SoundAttempts, AttemptType
<1>3. ASSUME NEW p \in InForce PROVE [Idle EXCEPT !.stage = "policed", !.policy = p] \in SoundAttempts
    BY <1>1, <1>3 DEF Idle, SoundAttempts, AttemptType, InForce
<1>4. ASSUME NEW s \in {"guarded", "unguarded"} PROVE [Idle EXCEPT !.stage = s] \in SoundAttempts
    BY <1>1, <1>4 DEF Idle, SoundAttempts, AttemptType
<1>. QED BY <1>2, <1>3, <1>4

\* a alone moves, to a state that fits, and the clock and the trail stand still.
LEMMA TurnTyped ==
    ASSUME Typed, NEW a \in Clients, NEW r \in SoundAttempts, attempt' = [attempt EXCEPT ![a] = r],
           UNCHANGED <<now, trail, policy, cache, saving, lags>>,
           attempts' \in 0..MaxAttempts, upsets' \in 0..MaxUpsets
    PROVE  Typed'
<1>1. attempt' \in [Clients -> AttemptType] /\ attempt' \in [Clients -> SoundAttempts]
    BY DEF Typed, SoundAttempts
<1>. HIDE DEF SoundAttempts, AttemptType
<1>. QED BY <1>1 DEF Typed, TypeOK

\* The entry a sign-in leaves.
LEMMA EntryTyped ==
    ASSUME Typed, NEW o \in Outcomes, NEW g \in BOOLEAN
    PROVE  Entry(o, g) \in EntryType /\ Entry(o, g).at = now
                /\ Entry(o, g).outcome = o /\ Entry(o, g).guarded = g
<1>. DEFINE alike == {e \in Recorded(o) : e.at = now /\ e.guarded = g}
<1>1. alike \in SUBSET trail /\ IsFiniteSet(trail)
    BY DEF Recorded, Typed, TypeOK
<1>2. Cardinality(alike) \in Nat
    BY <1>1, FS_Subset, FS_CardinalityType
<1>3. Entry(o, g) = [outcome |-> o, at |-> now, guarded |-> g, nth |-> Cardinality(alike) + 1]
    BY DEF Entry
<1>4. now \in 0..MaxTime
    BY DEF Typed, TypeOK
<1>. HIDE DEF alike
<1>. QED BY <1>2, <1>3, <1>4 DEF EntryType

LEMMA RecordTyped ==
    ASSUME Typed, NEW a \in Clients, NEW o \in Outcomes, attempt' = [attempt EXCEPT ![a] = Idle],
           trail' = trail \cup {Entry(o, attempt[a].stage = "guarded")},
           UNCHANGED <<now, policy, cache, saving, lags, attempts, upsets>>
    PROVE  Typed'
<1>1. attempt' \in [Clients -> AttemptType] /\ attempt' \in [Clients -> SoundAttempts]
    BY IdleSound DEF Typed, SoundAttempts
<1>2. trail' \subseteq EntryType /\ \A e \in trail' : e.at <= now
  <2>1. /\ Entry(o, attempt[a].stage = "guarded") \in EntryType
        /\ Entry(o, attempt[a].stage = "guarded").at = now
      BY EntryTyped
  <2>2. now <= now
      BY DEF Typed, TypeOK
  <2>. HIDE DEF Entry, EntryType
  <2>. QED BY <2>1, <2>2 DEF Typed, TypeOK
<1>3. IsFiniteSet(trail')
    BY FS_AddElement DEF Typed, TypeOK
<1>. HIDE DEF SoundAttempts, AttemptType
<1>. QED BY <1>1, <1>2, <1>3 DEF Typed, TypeOK

LEMMA EndTyped ==
    ASSUME Typed, NEW a \in Clients, NEW o \in Outcomes, Ends(a, o)
    PROVE  Typed'
<1>1. CASE trail' = trail /\ Upset
  <2>1. attempts' \in 0..MaxAttempts /\ upsets' \in 0..MaxUpsets
      BY <1>1, ConstantsOK DEF Ends, policyVars, Upset, Typed, TypeOK
  <2>2. attempt' = [attempt EXCEPT ![a] = Idle] /\ UNCHANGED <<now, trail, policy, cache, saving, lags>>
      BY <1>1 DEF Ends, policyVars
  <2>. QED BY <2>1, <2>2, IdleSound, TurnTyped
<1>2. CASE /\ trail' = trail \cup {Entry(o, attempt[a].stage = "guarded")}
           /\ upsets' = upsets
    BY <1>2, RecordTyped DEF Ends, policyVars
<1>. QED BY <1>1, <1>2 DEF Ends

LEMMA TypedStart == Init => Typed
<1>. SUFFICES ASSUME Init PROVE Typed
    OBVIOUS
<1>1. attempt \in [Clients -> AttemptType] /\ attempt \in [Clients -> SoundAttempts]
  <2>1. Idle \in SoundAttempts /\ Idle \in AttemptType /\ attempt = [a \in Clients |-> Idle]
      BY IdleSound DEF Init, SoundAttempts
  <2>. HIDE DEF SoundAttempts, AttemptType, Idle
  <2>. QED BY <2>1
<1>2. trail = {} /\ IsFiniteSet(trail)
    BY FS_EmptySet DEF Init
<1>3. 0 \in 0..MaxTime /\ 0 \in 0..MaxAttempts /\ 0 \in 0..MaxUpsets
    BY ConstantsOK
<1>4. TypeOK
    BY <1>1, <1>2, <1>3 DEF Init, TypeOK
<1>. QED BY <1>1, <1>2, <1>4 DEF Typed

LEMMA StoredInForce == ASSUME Typed PROVE Stored \in InForce
BY DEF Typed, TypeOK, Stored, InForce

LEMMA TypedStep == Typed /\ [Next]_vars => Typed'
<1>. SUFFICES ASSUME Typed, [Next]_vars PROVE Typed'
    OBVIOUS
<1>. USE DEF policyVars
<1>0. /\ TypeOK /\ attempts \in 0..MaxAttempts /\ upsets \in 0..MaxUpsets /\ now \in 0..MaxTime
      /\ trail \subseteq EntryType /\ IsFiniteSet(trail)
      /\ \A a \in Clients : attempt[a] \in SoundAttempts
      /\ \A a \in Clients : attempt[a] \in AttemptType
      /\ MaxTime \in Nat /\ MaxAttempts \in Nat /\ MaxUpsets \in Nat
    BY ConstantsOK DEF Typed, TypeOK
<1>1. CASE UNCHANGED vars
    BY <1>1 DEF vars, Typed, TypeOK
<1>2. CASE Tick
  <2>1. \A e \in trail : e.at <= now + 1
      BY <1>0 DEF Typed, EntryType
  <2>. QED BY <2>1, <1>2, <1>0 DEF Tick, Typed, TypeOK
<1>3. CASE Expires \/ Invalidates \/ SaveFails
    BY <1>3 DEF Expires, Invalidates, SaveFails, Typed, TypeOK
<1>4. ASSUME NEW p \in Policies, Saves(p) PROVE Typed'
  <2>1. ASSUME NEW a \in Clients
        PROVE  attempt'[a] \in SoundAttempts /\ attempt'[a] \in AttemptType
    <3>. DEFINE b == attempt[a].early \/ attempt[a].stage = "read"
    <3>1. attempt'[a] = [attempt[a] EXCEPT !.early = b] /\ b \in BOOLEAN
        BY <1>4, <1>0 DEF Saves, AttemptType
    <3>. HIDE DEF b
    <3>. QED BY <3>1, <1>0 DEF SoundAttempts, AttemptType
  <2>2. attempt' \in [Clients -> SoundAttempts] /\ attempt' \in [Clients -> AttemptType]
      BY <2>1, <1>4 DEF Saves
  <2>. HIDE DEF SoundAttempts, AttemptType
  <2>. QED BY <2>2, <1>4, <1>0 DEF Saves, Upset, Typed, TypeOK
<1>5. ASSUME NEW a \in Clients, Asks(a) PROVE Typed'
  <2>1. attempts' \in 0..MaxAttempts /\ upsets' \in 0..MaxUpsets
      BY <1>5, <1>0 DEF Asks, Upset
  <2>2. ASSUME NEW p \in InForce, Holds(a, p) PROVE Typed'
      BY <2>1, <2>2, <1>5, IdleSound, TurnTyped DEF Asks, Holds
  <2>3. CASE attempt' = [attempt EXCEPT ![a].stage = "missed"]
    <3>1. [attempt[a] EXCEPT !.stage = "missed"] \in SoundAttempts
        BY <1>5, <1>0 DEF Asks, SoundAttempts, AttemptType
    <3>. QED BY <2>1, <2>3, <3>1, <1>5, TurnTyped DEF Asks
  <2>4. Default \in InForce /\ (cache # NoPolicy => cache \in InForce)
      BY <1>0 DEF InForce, TypeOK
  <2>. QED BY <2>2, <2>3, <2>4, <1>5 DEF Asks
<1>6. ASSUME NEW a \in Clients, ReadsRow(a) PROVE Typed'
  <2>1. [attempt[a] EXCEPT !.stage = "read", !.policy = Stored] \in SoundAttempts
      BY <1>6, <1>0, StoredInForce DEF ReadsRow, SoundAttempts, AttemptType, InForce
  <2>. QED BY <2>1, <1>6, <1>0, TurnTyped DEF ReadsRow
<1>7. ASSUME NEW a \in Clients, Caches(a) PROVE Typed'
  <2>1. attempt[a].policy \in InForce
      BY <1>7, <1>0 DEF Caches, SoundAttempts
  <2>2. attempt' = [attempt EXCEPT ![a] = [Idle EXCEPT !.stage = "policed", !.policy = attempt[a].policy]]
      BY <1>7 DEF Caches, Holds
  <2>3. attempt' \in [Clients -> SoundAttempts] /\ attempt' \in [Clients -> AttemptType]
      BY <2>1, <2>2, <1>0, IdleSound DEF Typed, SoundAttempts
  <2>4. lags' \in BOOLEAN
      BY <1>7, <1>0 DEF Caches, AttemptType
  <2>. HIDE DEF SoundAttempts, AttemptType
  <2>. QED BY <2>1, <2>3, <2>4, <1>7, <1>0 DEF Caches, Typed, TypeOK, InForce
<1>8. ASSUME NEW a \in Clients, FallsBack(a) PROVE Typed'
  <2>1. upsets' \in 0..MaxUpsets /\ Default \in InForce
      BY <1>8, <1>0 DEF FallsBack, Upset, InForce
  <2>. QED BY <2>1, <1>8, <1>0, IdleSound, TurnTyped DEF FallsBack, Holds
<1>9. ASSUME NEW a \in Clients, PassesUnguarded(a) \/ Clears(a) \/ TurnsAway(a) PROVE Typed'
    BY <1>9, <1>0, IdleSound, TurnTyped DEF PassesUnguarded, Clears, TurnsAway
<1>10. ASSUME NEW a \in Clients, Refuses(a) \/ Fails(a) \/ Succeeds(a) PROVE Typed'
    BY <1>10, EndTyped DEF Refuses, Fails, Succeeds, Outcomes
<1>11. ASSUME NEW a \in Clients, FindsSuccess(a) PROVE Typed'
  <2>. DEFINE start == now - attempt[a].policy.window
              seen == {e \in Recorded("SUCCESS") : e.at >= start}
              s == IF seen = {} THEN start ELSE Latest(seen) + 1
  <2>1. start \in Int
      BY <1>11, <1>0, ConstantsOK DEF FindsSuccess, SoundAttempts, InForce, PolicyType
  <2>2. seen # {} => Latest(seen) \in Int
      BY LatestIsLast, <1>0 DEF Recorded, EntryType
  <2>3. attempt' = [attempt EXCEPT ![a] = [attempt[a] EXCEPT !.stage = "counting", !.since = s]]
      BY <1>11 DEF FindsSuccess
  <2>4. s \in Int
      BY <2>1, <2>2
  <2>. HIDE DEF s
  <2>5. [attempt[a] EXCEPT !.stage = "counting", !.since = s] \in SoundAttempts
      BY <2>4, <1>11, <1>0 DEF FindsSuccess, SoundAttempts, AttemptType
  <2>. QED BY <2>3, <2>5, <1>11, <1>0, TurnTyped DEF FindsSuccess
<1>12. ASSUME NEW a \in Clients, CountsFailures(a) PROVE Typed'
  <2>. DEFINE n == Cardinality(Counted(attempt[a].since))
  <2>1. n \in Nat
      BY <1>0, FS_Subset, FS_CardinalityType DEF Counted, Recorded
  <2>2. attempt' = [attempt EXCEPT ![a] = [attempt[a] EXCEPT !.failures = n]]
      BY <1>12 DEF CountsFailures
  <2>. HIDE DEF n
  <2>3. [attempt[a] EXCEPT !.failures = n] \in SoundAttempts
      BY <2>1, <1>12, <1>0 DEF CountsFailures, SoundAttempts, AttemptType
  <2>. QED BY <2>2, <2>3, <1>12, <1>0, TurnTyped DEF CountsFailures
<1>13. ASSUME NEW a \in Clients, FindsLast(a) PROVE Typed'
  <2>. DEFINE t == IF Counted(attempt[a].since) = {} THEN NoFailure
                     ELSE Latest(Counted(attempt[a].since))
  <2>1. t \in 0..MaxTime \cup {NoFailure, Unread}
      BY LatestIsLast, <1>0 DEF Counted, Recorded, EntryType
  <2>2. attempt' = [attempt EXCEPT ![a] = [attempt[a] EXCEPT !.last = t]]
      BY <1>13 DEF FindsLast
  <2>. HIDE DEF t
  <2>3. [attempt[a] EXCEPT !.last = t] \in SoundAttempts
      BY <2>1, <1>13, <1>0 DEF FindsLast, SoundAttempts, AttemptType
  <2>. QED BY <2>2, <2>3, <1>13, <1>0, TurnTyped DEF FindsLast
<1>. QED BY <1>1, <1>2, <1>3, <1>4, <1>5, <1>6, <1>7, <1>8, <1>9, <1>10, <1>11, <1>12, <1>13
         DEF Next

----
(* What a step does to the counting *)

\* The sign-in c counts on with what it has read.
Alike(c) ==
    /\ attempt'[c].stage = attempt[c].stage /\ attempt'[c].since = attempt[c].since
    /\ attempt'[c].failures = attempt[c].failures /\ attempt'[c].last = attempt[c].last

Stays == trail' = trail /\ now' \in {now, now + 1} /\ \A c \in Clients : Alike(c)

\* a alone has moved, and is neither counting nor past the count.
Leaves(a) ==
    /\ now' = now /\ \A c \in Clients \ {a} : Alike(c)
    /\ attempt'[a].stage \notin {"counting", "guarded"}

Records(a, o) == Leaves(a) /\ trail' = trail \cup {Entry(o, attempt[a].stage = "guarded")}

\* What a step may do to the trail, the clock and the counting.
Deed(a) ==
    \/ Leaves(a) /\ trail' = trail
    \/ FindsSuccess(a)
    \/ CountsFailures(a)
    \/ FindsLast(a)
    \/ Clears(a)
    \/ \E o \in Outcomes : Records(a, o)

LEMMA Deeds == ASSUME Typed, [Next]_vars PROVE Stays \/ \E a \in Clients : Deed(a)
<1>. USE DEF policyVars
<1>0. now \in 0..MaxTime /\ MaxTime \in Nat /\ attempt \in [Clients -> AttemptType]
    BY ConstantsOK DEF Typed, TypeOK
<1>1. CASE UNCHANGED vars \/ Tick \/ Expires \/ Invalidates \/ SaveFails
  <2>1. trail' = trail /\ attempt' = attempt /\ now' \in {now, now + 1}
      BY <1>0, <1>1 DEF vars, Tick, Expires, Invalidates, SaveFails
  <2>. QED BY <2>1 DEF Stays, Alike
<1>2. ASSUME NEW p \in Policies, Saves(p) PROVE Stays
  <2>1. trail' = trail /\ now' \in {now, now + 1}
      BY <1>0, <1>2 DEF Saves
  <2>2. \A c \in Clients : Alike(c)
      BY <1>0, <1>2 DEF Saves, Alike, AttemptType
  <2>. QED BY <2>1, <2>2 DEF Stays
<1>3. ASSUME NEW a \in Clients,
             Asks(a) \/ ReadsRow(a) \/ Caches(a) \/ FallsBack(a) \/ PassesUnguarded(a) \/ TurnsAway(a)
      PROVE  Leaves(a) /\ trail' = trail
  <2>1. now' = now /\ trail' = trail
      BY <1>3 DEF Asks, ReadsRow, Caches, FallsBack, PassesUnguarded, TurnsAway
  <2>2. \A c \in Clients \ {a} : attempt'[c] = attempt[c]
      BY <1>0, <1>3 DEF Asks, ReadsRow, Caches, FallsBack, PassesUnguarded, TurnsAway, Holds
  <2>3. attempt'[a].stage \notin {"counting", "guarded"}
    <3>1. ASSUME NEW p, Holds(a, p) PROVE attempt'[a].stage = "policed"
        BY <1>0, <3>1 DEF Holds, Idle
    <3>2. CASE Asks(a)
        BY <1>0, <3>1, <3>2 DEF Asks, AttemptType
    <3>3. CASE ReadsRow(a)
        BY <1>0, <3>3 DEF ReadsRow, AttemptType
    <3>4. CASE Caches(a) \/ FallsBack(a)
        BY <3>1, <3>4 DEF Caches, FallsBack
    <3>5. CASE PassesUnguarded(a) \/ TurnsAway(a)
        BY <1>0, <3>5 DEF PassesUnguarded, TurnsAway, Idle
    <3>. QED BY <1>3, <3>2, <3>3, <3>4, <3>5
  <2>. QED BY <2>1, <2>2, <2>3 DEF Leaves, Alike
<1>4. ASSUME NEW a \in Clients, NEW o \in Outcomes, Ends(a, o) PROVE Deed(a)
  <2>1. Leaves(a)
      BY <1>0, <1>4 DEF Ends, Leaves, Alike, Idle
  <2>. HIDE DEF Leaves, Entry
  <2>. QED BY <2>1, <1>4 DEF Ends, Records, Deed
<1>5. ASSUME NEW a \in Clients, Refuses(a) \/ Fails(a) \/ Succeeds(a) PROVE Deed(a)
    BY <1>4, <1>5 DEF Refuses, Fails, Succeeds, Outcomes
<1>. QED BY <1>1, <1>2, <1>3, <1>5 DEF Next, Deed

----
(* The failures a sign-in has read of were there to be read. *)

GroundedAt(c) ==
    attempt[c].stage = "counting" =>
        /\ attempt[c].failures \notin {Unread, 0} => Counted(attempt[c].since) # {}
        /\ attempt[c].last \notin {Unread, NoFailure} =>
               \E e \in Counted(attempt[c].since) : e.at = attempt[c].last
Grounded == \A c \in Clients : GroundedAt(c)

\* A sign-in that has read nothing new stays on its ground.
LEMMA GroundKept ==
    ASSUME Grounded, trail \subseteq trail',
           NEW c \in Clients, Alike(c) \/ attempt'[c].stage # "counting"
    PROVE  GroundedAt(c)'
<1>. SUFFICES ASSUME attempt'[c].stage = "counting", Alike(c) PROVE GroundedAt(c)'
    BY DEF GroundedAt
<1>1. Counted(attempt[c].since) \subseteq Counted(attempt[c].since)'
    BY DEF Counted, Recorded, Alike
<1>. QED BY <1>1 DEF Grounded, GroundedAt, Alike

LEMMA GroundedStep == ASSUME Typed, Grounded, [Next]_vars PROVE Grounded'
<1>. USE DEF policyVars
<1>0. attempt \in [Clients -> AttemptType] /\ attempt \in [Clients -> SoundAttempts]
      /\ trail \subseteq EntryType /\ IsFiniteSet(trail)
    BY DEF Typed, TypeOK
<1>1. CASE Stays
    BY <1>1, GroundKept DEF Stays, Grounded
<1>2. ASSUME NEW a \in Clients, Leaves(a), trail \subseteq trail' PROVE Grounded'
    BY <1>2, GroundKept DEF Leaves, Grounded
<1>3. ASSUME NEW a \in Clients, FindsSuccess(a) PROVE Grounded'
  <2>1. trail' = trail /\ \A c \in Clients \ {a} : Alike(c)
      BY <1>0, <1>3 DEF FindsSuccess, Alike
  <2>2. attempt'[a].failures = Unread /\ attempt'[a].last = Unread
    <3>1. attempt'[a].failures = attempt[a].failures /\ attempt'[a].last = attempt[a].last
        BY <1>0, <1>3 DEF FindsSuccess, AttemptType
    <3>. QED BY <3>1, <1>0, <1>3 DEF FindsSuccess, SoundAttempts
  <2>. QED BY <2>1, <2>2, GroundKept DEF Grounded, GroundedAt
<1>4. ASSUME NEW a \in Clients, CountsFailures(a) PROVE Grounded'
  <2>1. trail' = trail /\ \A c \in Clients \ {a} : Alike(c)
      BY <1>0, <1>4 DEF CountsFailures, Alike
  <2>2. /\ attempt[a].stage = "counting"
        /\ attempt'[a].failures = Cardinality(Counted(attempt[a].since))
        /\ attempt'[a].since = attempt[a].since /\ attempt'[a].last = attempt[a].last
      BY <1>0, <1>4 DEF CountsFailures, AttemptType
  <2>3. Cardinality({}) = 0
      BY FS_EmptySet
  <2>4. Counted(attempt[a].since)' = Counted(attempt[a].since)
      BY <2>1, <2>2 DEF Counted, Recorded
  <2>5. GroundedAt(a)'
      BY <2>2, <2>3, <2>4 DEF Grounded, GroundedAt
  <2>. QED BY <2>1, <2>5, GroundKept DEF Grounded
<1>5. ASSUME NEW a \in Clients, FindsLast(a) PROVE Grounded'
  <2>1. trail' = trail /\ \A c \in Clients \ {a} : Alike(c)
      BY <1>0, <1>5 DEF FindsLast, Alike
  <2>2. /\ attempt[a].stage = "counting"
        /\ attempt'[a].last = IF Counted(attempt[a].since) = {} THEN NoFailure
                              ELSE Latest(Counted(attempt[a].since))
        /\ attempt'[a].since = attempt[a].since /\ attempt'[a].failures = attempt[a].failures
      BY <1>0, <1>5 DEF FindsLast, AttemptType
  <2>3. Counted(attempt[a].since) \subseteq EntryType
      BY <1>0 DEF Counted, Recorded
  <2>4. Counted(attempt[a].since)' = Counted(attempt[a].since)
      BY <2>1, <2>2 DEF Counted, Recorded
  <2>5. attempt'[a].last # NoFailure => \E e \in Counted(attempt[a].since) : e.at = attempt'[a].last
      BY <2>2, <2>3, LatestIsLast
  <2>6. GroundedAt(a)'
      BY <2>2, <2>4, <2>5 DEF Grounded, GroundedAt
  <2>. QED BY <2>1, <2>6, GroundKept DEF Grounded
<1>6. ASSUME NEW a \in Clients, Clears(a) PROVE Grounded'
  <2>1. trail' = trail /\ \A c \in Clients \ {a} : Alike(c)
      BY <1>0, <1>6 DEF Clears, Alike
  <2>2. attempt'[a].stage = "guarded"
      BY <1>0, <1>6 DEF Clears, Idle
  <2>. QED BY <2>1, <2>2, <1>2, GroundKept DEF Grounded
<1>7. ASSUME NEW a \in Clients, Deed(a) PROVE Grounded'
    BY <1>2, <1>3, <1>4, <1>5, <1>6, <1>7 DEF Deed, Records
<1>. QED BY <1>1, <1>7, Deeds

\* Whoever is refused had a wrong password counted against the account.
LEMMA RefusedOnGround ==
    ASSUME Typed, Grounded, NEW a \in Clients, Refuses(a)
    PROVE  \E e \in Recorded("INVALID_CREDENTIALS") :
             /\ e.at >= attempt[a].since
             /\ Hold(attempt[a].policy) > 0 /\ attempt[a].last # NoFailure =>
                    now < e.at + Hold(attempt[a].policy)
<1>1. attempt[a].stage = "counting" /\ attempt[a].failures # Unread /\ attempt[a].last # Unread
      /\ attempt[a].policy \in InForce
    BY DEF Refuses, Counts, Typed, SoundAttempts
<1>2. /\ attempt[a].failures >= attempt[a].policy.attempts
      /\ attempt[a].last # NoFailure =>
            Hold(attempt[a].policy) = 0 \/ now < attempt[a].last + Hold(attempt[a].policy)
    BY DEF Refuses, Locked
<1>3. attempt[a].failures # 0
    BY <1>1, <1>2, ConstantsOK DEF InForce, PolicyType
<1>4. Hold(attempt[a].policy) \in Nat
    BY <1>1, HoldBounds
<1>5. Counted(attempt[a].since) # {}
      /\ (attempt[a].last # NoFailure => \E e \in Counted(attempt[a].since) : e.at = attempt[a].last)
    BY <1>1, <1>3 DEF Grounded, GroundedAt
<1>6. PICK e \in Counted(attempt[a].since) : attempt[a].last # NoFailure => e.at = attempt[a].last
    BY <1>5
<1>. QED BY <1>2, <1>4, <1>6 DEF Counted

----
(* The wrong passwords of a stretch as long as the shortest lock, from the tick x on. *)

Within(x) == x..(x + Shortest - 1)
Quiet(x) == \A e \in Recorded("SUCCESS") : e.at \notin Within(x)
Guesses(x) == {e \in Recorded("INVALID_CREDENTIALS") : e.at \in Within(x) /\ e.guarded}
NotOver(x) == now <= x + Shortest - 1

\* A sign-in that counts while the stretch lasts counts all of it.
Early == \A c \in Clients : attempt[c].stage = "counting" =>
            \A x \in Nat : Quiet(x) /\ NotOver(x) => attempt[c].since <= x

LEMMA QuietBefore == ASSUME NEW x, trail \subseteq trail', Quiet(x)' PROVE Quiet(x)
BY DEF Quiet, Recorded, Within

LEMMA EarlyStep == ASSUME Typed, Early, [Next]_vars PROVE Early'
<1>. USE DEF policyVars
<1>0. attempt \in [Clients -> AttemptType] /\ attempt \in [Clients -> SoundAttempts]
      /\ trail \subseteq EntryType /\ now \in 0..MaxTime /\ MaxTime \in Nat /\ Shortest \in Nat \ {0}
    BY ConstantsOK, ShortestBounds DEF Typed, TypeOK
<1>1. ASSUME trail \subseteq trail', now' \in Int, now <= now',
             \A c \in Clients : attempt'[c].stage = "counting" =>
                 attempt[c].stage = "counting" /\ attempt'[c].since = attempt[c].since
      PROVE  Early'
  <2>. SUFFICES ASSUME NEW c \in Clients, attempt'[c].stage = "counting",
                       NEW x \in Nat, Quiet(x)', NotOver(x)'
                PROVE  attempt'[c].since <= x
      BY DEF Early
  <2>1. Quiet(x)
      BY <1>1, QuietBefore
  <2>2. NotOver(x)
      BY <1>0, <1>1 DEF NotOver
  <2>. QED BY <2>1, <2>2, <1>1 DEF Early
<1>2. ASSUME now' = now PROVE now' \in Int /\ now <= now'
    BY <1>0, <1>2
<1>3. CASE Stays
  <2>1. now' \in Int /\ now <= now'
      BY <1>0, <1>3 DEF Stays
  <2>. QED BY <1>1, <1>3, <2>1 DEF Stays, Alike
<1>4. ASSUME NEW a \in Clients, Leaves(a), trail \subseteq trail' PROVE Early'
    BY <1>0, <1>1, <1>2, <1>4 DEF Leaves, Alike
<1>5. ASSUME NEW a \in Clients, CountsFailures(a) \/ FindsLast(a) \/ Clears(a) PROVE Early'
  <2>1. trail' = trail /\ now' = now /\ \A c \in Clients \ {a} : attempt'[c] = attempt[c]
      BY <1>0, <1>5 DEF CountsFailures, FindsLast, Clears
  <2>2. \/ attempt'[a].stage = "guarded"
        \/ attempt[a].stage = "counting" /\ attempt'[a].since = attempt[a].since
      BY <1>0, <1>5 DEF CountsFailures, FindsLast, Clears, AttemptType, Idle
  <2>. QED BY <1>0, <1>1, <2>1, <2>2
<1>6. ASSUME NEW a \in Clients, FindsSuccess(a) PROVE Early'
  <2>. DEFINE start == now - attempt[a].policy.window
              seen == {e \in Recorded("SUCCESS") : e.at >= start}
              s == IF seen = {} THEN start ELSE Latest(seen) + 1
  <2>1. trail' = trail /\ now' = now /\ \A c \in Clients \ {a} : attempt'[c] = attempt[c]
      BY <1>0, <1>6 DEF FindsSuccess
  <2>2. attempt'[a].since = s
      BY <1>0, <1>6 DEF FindsSuccess, AttemptType
  <2>3. start \in Int /\ start <= now - Shortest
    <3>1. attempt[a].policy \in InForce
        BY <1>0, <1>6 DEF FindsSuccess, SoundAttempts
    <3>2. attempt[a].policy.window \in Int
        BY <3>1, ConstantsOK DEF InForce, PolicyType
    <3>. QED BY <3>1, <3>2, <1>0, ShortestBounds
  <2>4. ASSUME NEW x \in Nat, Quiet(x), NotOver(x) PROVE s <= x
    <3>1. CASE seen = {}
        BY <3>1, <2>3, <2>4, <1>0 DEF NotOver
    <3>2. CASE seen # {}
      <4>1. PICK e \in seen : Latest(seen) = e.at
          BY <3>2, <1>0, LatestIsLast DEF Recorded
      <4>2. e.at \in Int /\ e.at <= now /\ e \in Recorded("SUCCESS")
          BY <1>0 DEF Typed, EntryType, Recorded
      <4>3. e.at <= x + Shortest - 1 /\ e.at \notin x..(x + Shortest - 1)
          BY <4>2, <2>4, <1>0 DEF NotOver, Quiet, Within
      <4>. QED BY <3>2, <4>1, <4>2, <4>3, <1>0
    <3>. QED BY <3>1, <3>2
  <2>5. \A x : Quiet(x)' = Quiet(x) /\ NotOver(x)' = NotOver(x)
      BY <2>1 DEF Quiet, Recorded, Within, NotOver
  <2>. HIDE DEF s
  <2>6. \A x \in Nat : Quiet(x)' /\ NotOver(x)' => attempt'[a].since <= x
      BY <2>2, <2>4, <2>5
  <2>7. \A c \in Clients \ {a} : attempt'[c].stage = "counting" =>
            \A x \in Nat : Quiet(x)' /\ NotOver(x)' => attempt'[c].since <= x
      BY <2>1, <2>5 DEF Early
  <2>. QED BY <2>6, <2>7 DEF Early
<1>7. ASSUME NEW a \in Clients, Deed(a) PROVE Early'
    BY <1>4, <1>5, <1>6, <1>7 DEF Deed, Records
<1>. QED BY <1>3, <1>7, Deeds

\* The sign-ins that may yet try a password while the stretch from x on lasts.
Able(x) ==
    {c \in Clients :
        \/ attempt[c].stage = "guarded"
        \/ /\ attempt[c].stage = "counting"
           /\ \/ attempt[c].failures # Unread /\ attempt[c].failures < Most
              \/ attempt[c].last # Unread /\ attempt[c].last < x}

\* Once the stretch has seen as many wrong passwords as any policy allows, each further
\* one uses up a sign-in that was already able to try.
BudgetAt(x) ==
    Quiet(x) =>
        /\ Cardinality(Guesses(x)) <= Most + Cardinality(Clients) - 1
        /\ NotOver(x) /\ Cardinality(Guesses(x)) >= Most =>
              Cardinality(Guesses(x)) + Cardinality(Able(x)) <= Most + Cardinality(Clients) - 1
Budget == \A x \in Nat : BudgetAt(x)

LEMMA Sizes ==
    ASSUME Typed, NEW x
    PROVE  /\ IsFiniteSet(Guesses(x)) /\ Cardinality(Guesses(x)) \in Nat
           /\ IsFiniteSet(Able(x)) /\ Cardinality(Able(x)) \in Nat
           /\ IsFiniteSet(Clients) /\ Cardinality(Clients) \in Nat
           /\ Most \in Nat /\ Shortest \in Nat
<1>1. Guesses(x) \in SUBSET trail /\ IsFiniteSet(trail)
    BY DEF Guesses, Recorded, Typed, TypeOK
<1>2. Able(x) \in SUBSET Clients /\ IsFiniteSet(Clients)
    BY ConstantsOK DEF Able
<1>. QED BY <1>1, <1>2, FS_Subset, FS_CardinalityType, MostBounds, ShortestBounds

\* What happens outside the stretch, or adds nobody who is able, leaves it alone.
LEMMA BudgetKept ==
    ASSUME Typed, NEW x \in Nat, BudgetAt(x),
           Quiet(x)' => Quiet(x), NotOver(x)' => NotOver(x), Guesses(x)' = Guesses(x),
           Quiet(x) /\ NotOver(x) /\ Cardinality(Guesses(x)) >= Most => Able(x)' \subseteq Able(x)
    PROVE  BudgetAt(x)'
<1>. DEFINE g == Cardinality(Guesses(x))
            w == Cardinality(Able(x))
            ww == Cardinality(Able(x)')
<1>. SUFFICES ASSUME Quiet(x)'
              PROVE  /\ g <= Most + Cardinality(Clients) - 1
                     /\ NotOver(x)' /\ g >= Most => g + ww <= Most + Cardinality(Clients) - 1
    BY DEF BudgetAt
<1>1. g \in Nat /\ w \in Nat /\ IsFiniteSet(Able(x)) /\ Most \in Nat /\ Cardinality(Clients) \in Nat
    BY Sizes
<1>2. ww \in Nat
  <2>1. Able(x)' \in SUBSET Clients /\ IsFiniteSet(Clients)
      BY ConstantsOK DEF Able
  <2>. QED BY <2>1, FS_Subset, FS_CardinalityType
<1>3. NotOver(x)' /\ g >= Most => ww <= w
    BY <1>1, FS_Subset
<1>4. /\ g <= Most + Cardinality(Clients) - 1
      /\ NotOver(x)' /\ g >= Most => g + w <= Most + Cardinality(Clients) - 1
    BY DEF BudgetAt
<1>. HIDE DEF g, w, ww
<1>. QED BY <1>1, <1>2, <1>3, <1>4
\* The entry of a wrong password that falls into the stretch.
LEMMA BudgetSpent ==
    ASSUME Typed, NEW x \in Nat, BudgetAt(x), NEW a \in Able(x), NEW e,
           Quiet(x)' => Quiet(x), NotOver(x), Guesses(x)' = Guesses(x) \cup {e},
           Able(x)' \subseteq Able(x) \ {a}
    PROVE  BudgetAt(x)'
<1>. DEFINE g == Cardinality(Guesses(x))
            gg == Cardinality(Guesses(x)')
            w == Cardinality(Able(x))
            ww == Cardinality(Able(x)')
            k == Cardinality(Clients)
<1>. SUFFICES ASSUME Quiet(x)'
              PROVE  gg <= Most + k - 1 /\ (gg >= Most => gg + ww <= Most + k - 1)
    BY DEF BudgetAt
<1>1. g \in Nat /\ IsFiniteSet(Guesses(x)) /\ w \in Nat /\ IsFiniteSet(Able(x)) /\ Most \in Nat /\ k \in Nat
      /\ IsFiniteSet(Clients)
    BY Sizes
<1>2. gg = g \/ gg = g + 1
    BY <1>1, FS_AddElement
<1>3. Cardinality(Able(x) \ {a}) = w - 1 /\ IsFiniteSet(Able(x) \ {a})
    BY <1>1, FS_RemoveElement
<1>4. ww \in Nat /\ ww <= w - 1
    BY <1>3, FS_Subset, FS_CardinalityType
<1>5. w <= k
    BY <1>1, FS_Subset DEF Able
<1>6. g >= Most => g + w <= Most + k - 1
    BY DEF BudgetAt
<1>. HIDE DEF g, gg, w, ww, k
<1>. QED BY <1>1, <1>2, <1>4, <1>5, <1>6

\* The stretch of a policy in force: whoever counts it through is not able to try.
LEMMA CountedEnough ==
    ASSUME Typed, Early, NEW x \in Nat, Quiet(x), NotOver(x), Cardinality(Guesses(x)) >= Most,
           NEW a \in Clients, attempt[a].stage = "counting"
    PROVE  /\ Cardinality(Counted(attempt[a].since)) >= Most
           /\ Counted(attempt[a].since) # {} /\ Latest(Counted(attempt[a].since)) >= x
<1>. DEFINE counted == Counted(attempt[a].since)
<1>1. attempt[a].since <= x /\ attempt[a].since \in Int
    BY DEF Early, Typed, TypeOK, AttemptType
<1>2. counted \subseteq trail /\ trail \subseteq EntryType /\ IsFiniteSet(trail)
    BY DEF Counted, Recorded, Typed, TypeOK
<1>3. Most \in 3..20 /\ Shortest \in Nat
    BY MostBounds, ShortestBounds
<1>4. ASSUME NEW e \in Guesses(x) PROVE e \in counted /\ e.at >= x /\ e.at \in Int
  <2>1. e.at \in Int /\ e.at >= x /\ e \in Recorded("INVALID_CREDENTIALS")
      BY <1>2, <1>3 DEF Guesses, Within, Recorded, EntryType
  <2>. QED BY <2>1, <1>1 DEF Counted
<1>5. IsFiniteSet(counted) /\ Cardinality(counted) \in Nat
    BY <1>2, FS_Subset, FS_CardinalityType
<1>6. Guesses(x) \in SUBSET counted
    BY <1>4
<1>7. Cardinality(Guesses(x)) <= Cardinality(counted) /\ Cardinality(Guesses(x)) \in Nat
    BY <1>5, <1>6, FS_Subset, Sizes
<1>8. Guesses(x) # {}
    BY <1>3, FS_EmptySet
<1>. HIDE DEF counted
<1>9. PICK e \in counted : Latest(counted) = e.at /\ \A f \in counted : f.at <= e.at
    BY <1>2, <1>6, <1>8, LatestIsLast
<1>10. PICK f \in Guesses(x) : TRUE
    BY <1>8
<1>11. e.at \in Int /\ f.at \in Int /\ f.at >= x /\ f.at <= e.at
    BY <1>2, <1>4, <1>9, <1>10 DEF EntryType
<1>12. Latest(counted) >= x
    BY <1>9, <1>11
<1>. QED BY <1>3, <1>5, <1>6, <1>7, <1>8, <1>12 DEF counted

\* Only who is able already gets past the count.
LEMMA ClearedWasAble ==
    ASSUME Typed, NEW x \in Nat, NotOver(x), NEW a \in Clients, Clears(a)
    PROVE  a \in Able(x)
<1>. DEFINE p == attempt[a].policy
<1>1. attempt[a].stage = "counting" /\ attempt[a].failures # Unread /\ attempt[a].last # Unread
      /\ p \in InForce /\ attempt[a].failures \in Nat /\ attempt[a].last \in 0..MaxTime \cup {NoFailure}
      /\ now \in Nat
    BY ConstantsOK DEF Clears, Counts, Typed, TypeOK, SoundAttempts, AttemptType
<1>2. Hold(p) \in Nat /\ (Hold(p) > 0 => Shortest <= Hold(p)) /\ Shortest \in Nat
      /\ p.attempts \in Nat /\ p.attempts <= Most /\ Most \in Nat
    BY <1>1, HoldBounds, ShortestBounds, MostBounds, ConstantsOK DEF InForce, PolicyType
<1>3. CASE attempt[a].failures < p.attempts
    BY <1>1, <1>2, <1>3 DEF Able
<1>4. CASE ~(attempt[a].failures < p.attempts)
  <2>. DEFINE from == IF attempt[a].last = NoFailure THEN now ELSE attempt[a].last
  <2>1. Hold(p) # 0 /\ ~(now < from + Hold(p))
      BY <1>1, <1>2, <1>4 DEF Clears, Locked
  <2>2. attempt[a].last # NoFailure
      BY <2>1, <1>1, <1>2
  <2>3. attempt[a].last < x
      BY <2>1, <2>2, <1>1, <1>2, ConstantsOK DEF NotOver
  <2>. QED BY <2>3, <1>1 DEF Able
<1>. QED BY <1>3, <1>4

LEMMA BudgetStep == ASSUME Typed, Typed', Early, Budget, [Next]_vars PROVE Budget'
<1>. SUFFICES ASSUME NEW x \in Nat PROVE BudgetAt(x)'
    BY DEF Budget
<1>0. /\ BudgetAt(x)
      /\ attempt \in [Clients -> AttemptType] /\ attempt \in [Clients -> SoundAttempts]
      /\ trail \subseteq EntryType /\ now \in Nat /\ Shortest \in Nat \ {0} /\ Most \in Nat
    BY ConstantsOK, ShortestBounds, MostBounds DEF Budget, Typed, TypeOK
<1>1. ASSUME trail' = trail
      PROVE  /\ \A o : Recorded(o)' = Recorded(o)
             /\ Quiet(x)' = Quiet(x) /\ Guesses(x)' = Guesses(x)
    BY <1>1 DEF Quiet, Guesses, Recorded, Within
<1>2. ASSUME now' \in {now, now + 1} PROVE NotOver(x)' => NotOver(x)
    BY <1>0, <1>2 DEF NotOver
<1>3. CASE Stays
  <2>1. Able(x)' = Able(x)
      BY <1>3 DEF Stays, Alike, Able
  <2>. QED BY <1>0, <1>1, <1>2, <1>3, <2>1, BudgetKept DEF Stays
<1>4. ASSUME NEW a \in Clients, Leaves(a) PROVE Able(x)' \subseteq Able(x) \ {a}
    BY <1>4 DEF Leaves, Alike, Able
<1>5. ASSUME NEW a \in Clients, Leaves(a), trail' = trail PROVE BudgetAt(x)'
    BY <1>0, <1>1, <1>2, <1>4, <1>5, BudgetKept DEF Leaves
<1>6. ASSUME NEW a \in Clients, trail' = trail, now' = now,
             \A c \in Clients \ {a} : attempt'[c] = attempt[c],
             a \in Able(x)' => a \in Able(x) \/ ~Quiet(x) \/ ~NotOver(x)
                                 \/ ~(Cardinality(Guesses(x)) >= Most)
      PROVE  BudgetAt(x)'
  <2>1. Quiet(x) /\ NotOver(x) /\ Cardinality(Guesses(x)) >= Most => Able(x)' \subseteq Able(x)
      BY <1>6 DEF Able
  <2>. QED BY <1>0, <1>1, <1>2, <1>6, <2>1, BudgetKept
<1>7. ASSUME NEW a \in Clients, FindsSuccess(a) PROVE BudgetAt(x)'
  <2>1. attempt'[a].stage = "counting" /\ attempt'[a].failures = Unread /\ attempt'[a].last = Unread
    <3>1. /\ attempt'[a].stage = "counting"
          /\ attempt'[a].failures = attempt[a].failures /\ attempt'[a].last = attempt[a].last
        BY <1>0, <1>7 DEF FindsSuccess, AttemptType
    <3>. QED BY <3>1, <1>0, <1>7 DEF FindsSuccess, SoundAttempts
  <2>2. a \notin Able(x)'
      BY <2>1 DEF Able
  <2>3. trail' = trail /\ now' = now /\ \A c \in Clients \ {a} : attempt'[c] = attempt[c]
      BY <1>0, <1>7 DEF FindsSuccess
  <2>. QED BY <2>2, <2>3, <1>6
<1>8. ASSUME NEW a \in Clients, CountsFailures(a) PROVE BudgetAt(x)'
  <2>1. /\ attempt[a].stage = "counting" /\ attempt'[a].stage = "counting"
        /\ attempt'[a].failures = Cardinality(Counted(attempt[a].since))
        /\ attempt'[a].last = attempt[a].last
      BY <1>0, <1>8 DEF CountsFailures, AttemptType
  <2>2. trail' = trail /\ now' = now /\ \A c \in Clients \ {a} : attempt'[c] = attempt[c]
      BY <1>0, <1>8 DEF CountsFailures
  <2>3. ASSUME Quiet(x), NotOver(x), Cardinality(Guesses(x)) >= Most, a \in Able(x)' PROVE a \in Able(x)
    <3>1. Cardinality(Counted(attempt[a].since)) >= Most
        BY <2>1, <2>3, CountedEnough
    <3>2. Cardinality(Counted(attempt[a].since)) \in Nat
      <4>1. Counted(attempt[a].since) \in SUBSET trail /\ IsFiniteSet(trail)
          BY DEF Counted, Recorded, Typed, TypeOK
      <4>. QED BY <4>1, FS_Subset, FS_CardinalityType
    <3>3. ~(attempt'[a].failures < Most)
        BY <2>1, <3>1, <3>2, <1>0
    <3>. QED BY <2>1, <2>3, <3>3 DEF Able
  <2>. QED BY <2>2, <2>3, <1>6
<1>9. ASSUME NEW a \in Clients, FindsLast(a) PROVE BudgetAt(x)'
  <2>1. /\ attempt[a].stage = "counting" /\ attempt'[a].stage = "counting"
        /\ attempt'[a].failures = attempt[a].failures
        /\ attempt'[a].last = IF Counted(attempt[a].since) = {} THEN NoFailure
                              ELSE Latest(Counted(attempt[a].since))
      BY <1>0, <1>9 DEF FindsLast, AttemptType
  <2>2. trail' = trail /\ now' = now /\ \A c \in Clients \ {a} : attempt'[c] = attempt[c]
      BY <1>0, <1>9 DEF FindsLast
  <2>3. ASSUME Quiet(x), NotOver(x), Cardinality(Guesses(x)) >= Most, a \in Able(x)' PROVE a \in Able(x)
    <3>1. Counted(attempt[a].since) # {} /\ Latest(Counted(attempt[a].since)) >= x
        BY <2>1, <2>3, CountedEnough
    <3>2. Latest(Counted(attempt[a].since)) \in Int
      <4>1. Counted(attempt[a].since) \subseteq EntryType
          BY <1>0 DEF Counted, Recorded
      <4>. QED BY <3>1, <4>1, LatestIsLast DEF EntryType
    <3>3. ~(attempt'[a].last < x)
        BY <2>1, <3>1, <3>2
    <3>. QED BY <2>1, <2>3, <3>3 DEF Able
  <2>. QED BY <2>2, <2>3, <1>6
<1>10. ASSUME NEW a \in Clients, Clears(a) PROVE BudgetAt(x)'
  <2>1. trail' = trail /\ now' = now /\ \A c \in Clients \ {a} : attempt'[c] = attempt[c]
      BY <1>0, <1>10 DEF Clears, policyVars
  <2>. QED BY <2>1, <1>6, <1>10, ClearedWasAble
<1>11. ASSUME NEW a \in Clients, NEW o \in Outcomes, Records(a, o) PROVE BudgetAt(x)'
  <2>. DEFINE e == Entry(o, attempt[a].stage = "guarded")
  <2>1. /\ e.at = now /\ e.outcome = o /\ e.guarded = (attempt[a].stage = "guarded")
        /\ trail' = trail \cup {e} /\ now' = now /\ Able(x)' \subseteq Able(x) \ {a}
      BY <1>4, <1>11, EntryTyped DEF Records, Leaves
  <2>. HIDE DEF e
  <2>2. (Quiet(x)' => Quiet(x)) /\ NotOver(x)' = NotOver(x)
      BY <2>1, QuietBefore DEF NotOver
  <2>3. CASE o = "INVALID_CREDENTIALS" /\ attempt[a].stage = "guarded" /\ now \in Within(x)
    <3>1. Guesses(x)' = Guesses(x) \cup {e}
        BY <2>1, <2>3 DEF Guesses, Recorded, Within
    <3>2. a \in Able(x) /\ NotOver(x)
        BY <2>3, <1>0 DEF Able, NotOver, Within
    <3>. QED BY <2>1, <2>2, <3>1, <3>2, <1>0, BudgetSpent
  <2>4. CASE ~(o = "INVALID_CREDENTIALS" /\ attempt[a].stage = "guarded" /\ now \in Within(x))
    <3>1. Guesses(x)' = Guesses(x)
        BY <2>1, <2>4 DEF Guesses, Recorded, Within
    <3>. QED BY <2>1, <2>2, <3>1, <1>0, BudgetKept
  <2>. QED BY <2>3, <2>4
<1>12. ASSUME NEW a \in Clients, Deed(a) PROVE BudgetAt(x)'
    BY <1>5, <1>7, <1>8, <1>9, <1>10, <1>11, <1>12 DEF Deed
<1>. QED BY <1>3, <1>12, Deeds

----
(* The theorems *)

\* The trail's side of the argument, kept together.
TrailInv == Typed /\ Grounded /\ Early /\ Budget

LEMMA TrailStart == Init => TrailInv
<1>. SUFFICES ASSUME Init PROVE TrailInv
    OBVIOUS
<1>1. Typed /\ trail = {} /\ \A c \in Clients : attempt[c].stage = "idle"
    BY TypedStart DEF Init, Idle
<1>2. Grounded /\ Early
    BY <1>1 DEF Grounded, GroundedAt, Early
<1>3. ASSUME NEW x \in Nat PROVE BudgetAt(x)
  <2>1. Guesses(x) = {} /\ Cardinality({}) = 0
      BY <1>1, FS_EmptySet DEF Guesses, Recorded
  <2>2. Most \in 3..20 /\ Cardinality(Clients) \in Nat
      BY MostBounds, ConstantsOK, FS_CardinalityType
  <2>3. Cardinality(Guesses(x)) = 0
      BY <2>1
  <2>. HIDE DEF Guesses
  <2>. QED BY <2>2, <2>3 DEF BudgetAt
<1>. QED BY <1>1, <1>2, <1>3 DEF TrailInv, Budget

LEMMA TrailStep == TrailInv /\ [Next]_vars => TrailInv'
BY TypedStep, GroundedStep, EarlyStep, BudgetStep DEF TrailInv

LEMMA TrailAlways == Spec => []TrailInv
BY TrailStart, TrailStep, PTL DEF Spec

\* Every entry, attempt and copy has the type the runs check.
THEOREM TypeCorrect == Spec => []TypeOK
<1>1. TrailInv => TypeOK
    BY DEF TrailInv, Typed
<1>. QED BY <1>1, TrailAlways, PTL

\* "Lockout applies to every source": between two successes, no stretch as long as the
\* shortest window or lock sees more wrong passwords than the policy allows, but for the
\* sign-ins that were past the count beside the last.
THEOREM GuessesLimited == Spec => []GuessesBounded
<1>1. ASSUME TrailInv PROVE GuessesBounded
  <2>. DEFINE within(x) == {e \in trail : e.at \in x..(x + Shortest - 1)}
  <2>1. ASSUME NEW x \in 0..now, within(x) \cap Recorded("SUCCESS") = {}
        PROVE  Cardinality({e \in within(x) \cap Recorded("INVALID_CREDENTIALS") : e.guarded})
                  <= Most + Cardinality(Clients) - 1
    <3>1. Quiet(x)
        BY <2>1 DEF Quiet, Recorded, Within
    <3>2. Guesses(x) = {e \in within(x) \cap Recorded("INVALID_CREDENTIALS") : e.guarded}
        BY DEF Guesses, Recorded, Within
    <3>3. x \in Nat
        OBVIOUS
    <3>4. Cardinality(Guesses(x)) <= Most + Cardinality(Clients) - 1
        BY <1>1, <3>1, <3>3 DEF TrailInv, Budget, BudgetAt
    <3>. QED BY <3>2, <3>4
  <2>. QED BY <2>1 DEF GuessesBounded
<1>. QED BY <1>1, TrailAlways, PTL

\* "Counting those would let a lock renew itself forever": every refusal rests on a wrong
\* password inside the window, and on a lock that this password made and that still holds.
THEOREM LocksEnd == Spec => LocksLift
<1>1. ASSUME TrailInv
      PROVE  \A a \in Clients : Refuses(a) =>
               \E e \in Recorded("INVALID_CREDENTIALS") :
                 /\ e.at >= attempt[a].since
                 /\ Hold(attempt[a].policy) > 0 /\ attempt[a].last # NoFailure =>
                        now < e.at + Hold(attempt[a].policy)
    BY <1>1, RefusedOnGround DEF TrailInv
<1>. QED BY <1>1, TrailAlways, PTL DEF LocksLift

----
(* The trail is a set, and yet forgets no row. *)

LikeIt(o, t, g) == {f \in Recorded(o) : f.at = t /\ f.guarded = g}
Numbered == \A e \in trail : e.nth <= Cardinality(LikeIt(e.outcome, e.at, e.guarded))

LEMMA NewEntry ==
    ASSUME Typed, Numbered, NEW o \in Outcomes, NEW g \in BOOLEAN
    PROVE  Entry(o, g) \notin trail
<1>1. Entry(o, g).outcome = o /\ Entry(o, g).at = now /\ Entry(o, g).guarded = g
      /\ Entry(o, g).nth = Cardinality(LikeIt(o, now, g)) + 1
    BY DEF Entry, LikeIt
<1>2. LikeIt(o, now, g) \in SUBSET trail /\ IsFiniteSet(trail)
    BY DEF LikeIt, Recorded, Typed, TypeOK
<1>3. Cardinality(LikeIt(o, now, g)) \in Nat
    BY <1>2, FS_Subset, FS_CardinalityType
<1>. HIDE DEF Entry, LikeIt
<1>. QED BY <1>1, <1>3 DEF Numbered

LEMMA NumberedStep == ASSUME Typed, Typed', Numbered, [Next]_vars PROVE Numbered'
<1>0. IsFiniteSet(trail) /\ IsFiniteSet(trail') /\ trail \subseteq EntryType /\ trail' \subseteq EntryType
    BY DEF Typed, TypeOK
<1>1. CASE trail' = trail
    BY <1>1 DEF Numbered, LikeIt, Recorded
<1>2. ASSUME NEW a \in Clients, NEW o \in Outcomes, Records(a, o) PROVE Numbered'
  <2>1. PICK g \in BOOLEAN, e \in EntryType :
           /\ trail' = trail \cup {e} /\ e = Entry(o, g)
      BY <1>2, EntryTyped DEF Records
  <2>2. e \notin trail /\ e.outcome = o /\ e.guarded = g
        /\ e.nth = Cardinality(LikeIt(o, e.at, g)) + 1
      BY <2>1, NewEntry DEF Entry, LikeIt
  <2>3. ASSUME NEW q \in Outcomes, NEW t, NEW h
        PROVE  LikeIt(q, t, h) \in SUBSET LikeIt(q, t, h)'
               /\ IsFiniteSet(LikeIt(q, t, h)) /\ IsFiniteSet(LikeIt(q, t, h)')
    <3>1. LikeIt(q, t, h) \in SUBSET LikeIt(q, t, h)' /\ LikeIt(q, t, h)' \in SUBSET trail'
        BY <2>1 DEF LikeIt, Recorded
    <3>2. IsFiniteSet(LikeIt(q, t, h)')
        BY <3>1, <1>0, FS_Subset
    <3>. QED BY <3>1, <3>2, FS_Subset
  <2>4. ASSUME NEW q \in Outcomes, NEW t, NEW h
        PROVE  /\ Cardinality(LikeIt(q, t, h)) <= Cardinality(LikeIt(q, t, h)')
               /\ Cardinality(LikeIt(q, t, h)) \in Nat /\ Cardinality(LikeIt(q, t, h)') \in Nat
      BY <2>3, FS_Subset, FS_CardinalityType
  <2>5. LikeIt(o, e.at, g)' = LikeIt(o, e.at, g) \cup {e} /\ e \notin LikeIt(o, e.at, g)
      BY <2>1, <2>2 DEF LikeIt, Recorded
  <2>6. Cardinality(LikeIt(o, e.at, g)') = Cardinality(LikeIt(o, e.at, g)) + 1
      BY <2>3, <2>5, FS_AddElement
  <2>7. ASSUME NEW f \in trail PROVE f.nth <= Cardinality(LikeIt(f.outcome, f.at, f.guarded)')
    <3>1. f.nth <= Cardinality(LikeIt(f.outcome, f.at, f.guarded)) /\ f.nth \in Nat /\ f.outcome \in Outcomes
        BY <1>0 DEF Numbered, EntryType
    <3>. QED BY <3>1, <2>4
  <2>8. e.nth <= Cardinality(LikeIt(e.outcome, e.at, e.guarded)')
      BY <2>2, <2>4, <2>6
  <2>9. \A f \in trail' : f.nth <= Cardinality(LikeIt(f.outcome, f.at, f.guarded)')
      BY <2>1, <2>7, <2>8
  <2>. QED BY <2>9 DEF Numbered
<1>3. ASSUME NEW a \in Clients, Deed(a) PROVE Numbered'
    BY <1>1, <1>2, <1>3 DEF Deed, FindsSuccess, CountsFailures, FindsLast, Clears
<1>. QED BY <1>1, <1>3, Deeds DEF Stays

\* Every sign-in that ends adds a row to login_activity: two alike are never taken for one.
THEOREM NoRowLost == Spec => [](\A o \in Outcomes, g \in BOOLEAN : Entry(o, g) \notin trail)
<1>1. Init => Numbered
    BY DEF Init, Numbered
<1>2. TrailInv /\ TrailInv' /\ Numbered /\ [Next]_vars => Numbered'
    BY NumberedStep DEF TrailInv
<1>3. TrailInv /\ Numbered => \A o \in Outcomes, g \in BOOLEAN : Entry(o, g) \notin trail
    BY NewEntry DEF TrailInv
<1>. QED BY <1>1, <1>2, <1>3, TrailAlways, PTL DEF Spec
===============================================================================
