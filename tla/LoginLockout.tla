----------------------------- MODULE LoginLockout -----------------------------
(***************************************************************************)
(* Sign-ins with one e-mail address, on the portal and in the app: each    *)
(* fetches the security policy through its cached copy, derives from the   *)
(* trail of earlier attempts whether the account is locked, and leaves its *)
(* own entry there.  An administrator saves a policy meanwhile.  Time is   *)
(* counted in ticks, and what happens within one bears the same timestamp.  *)
(* Passwords, addresses and the audit log are left out, and so are the     *)
(* login hours and the allowlist, but for their turning away.              *)
(***************************************************************************)
EXTENDS Integers, FiniteSets

CONSTANTS
    Clients,      \* sign-in calls in flight at one time
    Policies,     \* what may be saved
    Default,      \* DEFAULT_SECURITY_POLICY
    Root,         \* the address is the root operator's
    MaxTime,      \* bound: ticks that go by
    MaxAttempts,  \* bound: sign-ins
    MaxUpsets,    \* bound: saves of the policy, and failures of Redis or of the database
    NoPolicy

\* The lockout's part of a policy; max_attempts is 3 to 20, a duration of 0 no end.
PolicyType == [on : BOOLEAN, attempts : 3..20, window : Nat \ {0}, duration : Nat]

ASSUME ConstantsOK ==
    /\ IsFiniteSet(Clients)
    /\ Policies \cup {Default} \subseteq PolicyType /\ NoPolicy \notin Policies \cup {Default}
    /\ Root \in BOOLEAN
    /\ MaxTime \in Nat /\ MaxAttempts \in Nat /\ MaxUpsets \in Nat

VARIABLES
    now,
    trail,        \* the entries of the address: queries order them by their time only
    policy,       \* the row of the policy, NoPolicy before the first save
    cache,        \* the copy of it in Redis
    attempt,      \* attempt[a]: where sign-in a is, and what it has read
    saving,       \* a save has written the row and not yet dropped the copy
    lags,         \* history: the copy is older than a save, or was when it was put
    attempts, upsets

vars == <<now, trail, policy, cache, attempt, saving, lags, attempts, upsets>>
policyVars == <<policy, cache, saving, lags>>

Unread == -2
NoFailure == -1
Idle == [stage |-> "idle", policy |-> NoPolicy, early |-> FALSE, since |-> 0,
         failures |-> Unread, last |-> Unread]

Outcomes == {"SUCCESS", "INVALID_CREDENTIALS", "LOCKED_OUT"}
\* nth, like a row's id, tells apart entries that are otherwise alike.
EntryType == [outcome : Outcomes, at : 0..MaxTime, guarded : BOOLEAN, nth : Nat \ {0}]
AttemptType ==
    [stage : {"idle", "missed", "read", "policed", "counting", "guarded", "unguarded"},
     policy : Policies \cup {Default, NoPolicy}, early : BOOLEAN, since : Int,
     failures : Nat \cup {Unread}, last : 0..MaxTime \cup {NoFailure, Unread}]

TypeOK ==
    /\ now \in 0..MaxTime
    /\ trail \subseteq EntryType /\ IsFiniteSet(trail)
    /\ policy \in Policies \cup {NoPolicy} /\ cache \in Policies \cup {Default, NoPolicy}
    /\ attempt \in [Clients -> AttemptType]
    /\ saving \in BOOLEAN /\ lags \in BOOLEAN
    /\ attempts \in 0..MaxAttempts /\ upsets \in 0..MaxUpsets

Init ==
    /\ now = 0 /\ trail = {}
    /\ policy = NoPolicy /\ cache = NoPolicy
    /\ attempt = [a \in Clients |-> Idle]
    /\ saving = FALSE /\ lags = FALSE
    /\ attempts = 0 /\ upsets = 0

Upset == upsets < MaxUpsets /\ upsets' = upsets + 1

Tick ==
    /\ now < MaxTime
    /\ now' = now + 1
    /\ UNCHANGED <<trail, policyVars, attempt, attempts, upsets>>

----
(* getPolicy *)

Stored == IF policy = NoPolicy THEN Default ELSE policy

Holds(a, p) == attempt' = [attempt EXCEPT ![a] = [Idle EXCEPT !.stage = "policed", !.policy = p]]

\* A sign-in starts; the copy is looked up, and a miss reads the row next.
Asks(a) ==
    /\ attempt[a].stage = "idle"
    /\ attempts < MaxAttempts /\ attempts' = attempts + 1
    /\ \/ cache # NoPolicy /\ Holds(a, cache) /\ upsets' = upsets
       \/ cache = NoPolicy /\ attempt' = [attempt EXCEPT ![a].stage = "missed"] /\ upsets' = upsets
       \/ Upset /\ Holds(a, Default)
    /\ UNCHANGED <<now, trail, policyVars>>

ReadsRow(a) ==
    /\ attempt[a].stage = "missed"
    /\ attempt' = [attempt EXCEPT ![a].stage = "read", ![a].policy = Stored]
    /\ UNCHANGED <<now, trail, policyVars, attempts, upsets>>

Caches(a) ==
    /\ attempt[a].stage = "read"
    /\ cache' = attempt[a].policy
    /\ lags' = attempt[a].early
    /\ Holds(a, attempt[a].policy)
    /\ UNCHANGED <<now, trail, policy, saving, attempts, upsets>>

\* Redis or the database fails: the defaults apply, whatever was read.
FallsBack(a) ==
    /\ attempt[a].stage \in {"missed", "read"}
    /\ Upset
    /\ Holds(a, Default)
    /\ UNCHANGED <<now, trail, policyVars, attempts>>

\* The copy's five minutes are over.
Expires ==
    /\ cache # NoPolicy
    /\ cache' = NoPolicy /\ lags' = FALSE
    /\ UNCHANGED <<now, trail, policy, attempt, saving, attempts, upsets>>

----
(* updatePolicy *)

\* Seeded fault: the copy is dropped first, and the row written after.
SavesLast(p) ==
    /\ ~saving /\ Upset
    /\ saving' = FALSE
    /\ policy' = p
    /\ UNCHANGED <<now, trail, cache, lags, attempt, attempts>>

\* The row is written ...
Saves(p) ==
    /\ ~saving /\ Upset
    /\ saving' = TRUE
    /\ policy' = p
    /\ attempt' = [a \in Clients |->
                     [attempt[a] EXCEPT !.early = @ \/ attempt[a].stage = "read"]]
    /\ UNCHANGED <<now, trail, cache, lags, attempts>>

\* ... then the copy is dropped.
Invalidates ==
    /\ saving
    /\ saving' = FALSE
    /\ cache' = NoPolicy /\ lags' = FALSE
    /\ UNCHANGED <<now, trail, policy, attempt, attempts, upsets>>

\* Redis fails the delete, or the process dies before it: no bound of its own.
SaveFails ==
    /\ saving
    /\ saving' = FALSE
    /\ lags' = (cache # NoPolicy)
    /\ UNCHANGED <<now, trail, policy, cache, attempt, attempts, upsets>>

----
(* assertLoginAllowed *)

Recorded(outcome) == {e \in trail : e.outcome = outcome}

\* Seeded fault: a refusal counts like a wrong password.
CountedWithRefusals(since) == {e \in trail : e.outcome # "SUCCESS" /\ e.at >= since}

\* CREDENTIAL_FAILURE_OUTCOMES
Counted(since) == {e \in Recorded("INVALID_CREDENTIALS") : e.at >= since}

Latest(entries) == (CHOOSE e \in entries : \A f \in entries : f.at <= e.at).at

\* With the lockout off the trail is not asked.
PassesUnguarded(a) ==
    /\ attempt[a].stage = "policed" /\ ~attempt[a].policy.on
    /\ attempt' = [attempt EXCEPT ![a] = [Idle EXCEPT !.stage = "unguarded"]]
    /\ UNCHANGED <<now, trail, policyVars, attempts, upsets>>

\* Only what follows the last success inside the window counts.
FindsSuccess(a) ==
    LET start == now - attempt[a].policy.window
        seen == {e \in Recorded("SUCCESS") : e.at >= start}
    IN  /\ attempt[a].stage = "policed" /\ attempt[a].policy.on
        /\ attempt' = [attempt EXCEPT ![a].stage = "counting",
                            ![a].since = IF seen = {} THEN start ELSE Latest(seen) + 1]
        /\ UNCHANGED <<now, trail, policyVars, attempts, upsets>>

\* Two queries run side by side: how many failures, and the last of them.
CountsFailures(a) ==
    /\ attempt[a].stage = "counting" /\ attempt[a].failures = Unread
    /\ attempt' = [attempt EXCEPT ![a].failures = Cardinality(Counted(attempt[a].since))]
    /\ UNCHANGED <<now, trail, policyVars, attempts, upsets>>

\* Seeded fault: the end of the lock, where the last failure is asked for.
FindsUnlock(a) ==
    LET counted == Counted(attempt[a].since)
    IN  /\ attempt[a].stage = "counting" /\ attempt[a].last = Unread
        /\ attempt' = [attempt EXCEPT ![a].last =
              IF counted = {} THEN NoFailure ELSE Latest(counted) + attempt[a].policy.duration]
        /\ UNCHANGED <<now, trail, policyVars, attempts, upsets>>

FindsLast(a) ==
    LET counted == Counted(attempt[a].since)
    IN  /\ attempt[a].stage = "counting" /\ attempt[a].last = Unread
        /\ attempt' = [attempt EXCEPT ![a].last = IF counted = {} THEN NoFailure ELSE Latest(counted)]
        /\ UNCHANGED <<now, trail, policyVars, attempts, upsets>>

\* unlockTime's ticks, 0 for a lock without end.
Hold(p) == IF p.duration > 0 THEN p.duration ELSE IF Root THEN p.window ELSE 0

\* Seeded fault: the lock trips one wrong password late.
LockedLate(a) ==
    /\ attempt[a].failures > attempt[a].policy.attempts
    /\ \/ Hold(attempt[a].policy) = 0 \/ attempt[a].last = NoFailure
       \/ now < attempt[a].last + Hold(attempt[a].policy)

Locked(a) ==
    LET p == attempt[a].policy
        from == IF attempt[a].last = NoFailure THEN now ELSE attempt[a].last
    IN  /\ attempt[a].failures >= p.attempts
        /\ Hold(p) = 0 \/ now < from + Hold(p)

Counts(a) == attempt[a].stage = "counting" /\ Unread \notin {attempt[a].failures, attempt[a].last}

Clears(a) ==
    /\ Counts(a) /\ ~Locked(a)
    /\ attempt' = [attempt EXCEPT ![a] = [Idle EXCEPT !.stage = "guarded"]]
    /\ UNCHANGED <<now, trail, policyVars, attempts, upsets>>

Entry(outcome, guarded) ==
    LET alike == {e \in Recorded(outcome) : e.at = now /\ e.guarded = guarded}
    IN  [outcome |-> outcome, at |-> now, guarded |-> guarded, nth |-> Cardinality(alike) + 1]

\* The sign-in ends with an entry, which the recorder may fail to write.
Ends(a, outcome) ==
    /\ attempt' = [attempt EXCEPT ![a] = Idle]
    /\ \/ trail' = trail \cup {Entry(outcome, attempt[a].stage = "guarded")}
          /\ upsets' = upsets
       \/ trail' = trail /\ Upset
    /\ UNCHANGED <<now, policyVars, attempts>>

Refuses(a) == Counts(a) /\ Locked(a) /\ Ends(a, "LOCKED_OUT")

----
(* The rest of login *)

Fails(a) == attempt[a].stage \in {"guarded", "unguarded"} /\ Ends(a, "INVALID_CREDENTIALS")
Succeeds(a) == attempt[a].stage \in {"guarded", "unguarded"} /\ Ends(a, "SUCCESS")

\* Turned away for something else, before the lockout or after it, under an outcome
\* nothing asks for.
TurnsAway(a) ==
    /\ attempt[a].stage \in {"policed", "guarded", "unguarded"}
    /\ attempt' = [attempt EXCEPT ![a] = Idle]
    /\ UNCHANGED <<now, trail, policyVars, attempts, upsets>>

Next ==
    \/ Tick \/ Expires \/ Invalidates \/ SaveFails
    \/ \E p \in Policies : Saves(p)
    \/ \E a \in Clients :
         \/ Asks(a) \/ ReadsRow(a) \/ Caches(a) \/ FallsBack(a)
         \/ PassesUnguarded(a) \/ FindsSuccess(a) \/ CountsFailures(a) \/ FindsLast(a)
         \/ Clears(a) \/ Refuses(a) \/ Fails(a) \/ Succeeds(a) \/ TurnsAway(a)

Spec == Init /\ [][Next]_vars

----
(* What must hold *)

\* "The settings enforcement reads": the copy is the stored policy, unless a save is about
\* to drop it, or could not, or a sign-in that read the row before the save put it back.
CopyIsCurrent == cache \in {NoPolicy, Stored} \/ saving \/ lags

InForce == Policies \cup {Default}
Most == CHOOSE m \in {p.attempts : p \in InForce} : \A p \in InForce : p.attempts <= m

\* The stretch in which every policy still counts a failure and holds a lock it trips.
Shortest ==
    LET spans == {p.window : p \in InForce} \cup ({p.duration : p \in InForce} \ {0})
    IN  CHOOSE m \in spans : \A n \in spans : m <= n

\* "Lockout applies to every source": however sign-ins overlap, policies are saved and
\* copies of them lag, a stretch without a success sees no more wrong passwords than the
\* policy allows, but for the sign-ins that were in flight beside the last.  (Where a
\* window is shorter than the lock, only a stretch as long as the window is safe.)
GuessesBounded ==
    \A x \in 0..now :
        LET within == {e \in trail : e.at \in x..(x + Shortest - 1)}
        IN  within \cap Recorded("SUCCESS") = {} =>
              Cardinality({e \in within \cap Recorded("INVALID_CREDENTIALS") : e.guarded})
                <= Most + Cardinality(Clients) - 1

\* "Counting those would let a lock renew itself forever": whoever is refused asked while
\* a wrong password was still inside the window, and the lock it made still holds, unless
\* the query for the last one ran before there was any.
LocksLift ==
    [][\A a \in Clients : Refuses(a) =>
         \E e \in Recorded("INVALID_CREDENTIALS") :
             /\ e.at >= attempt[a].since
             /\ Hold(attempt[a].policy) > 0 /\ attempt[a].last # NoFailure =>
                    now < e.at + Hold(attempt[a].policy)]_vars
==============================================================================
