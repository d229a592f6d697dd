---- MODULE SessionRegistry ----
(***************************************************************************)
(* The live sessions of one account: every sign-in stores a record in      *)
(* Redis and prunes the account's oldest devices, every request finds its  *)
(* record and may write it back, sweeps and revocations delete, and a      *)
(* change of e-mail rewrites what its sweep has left.  Redis runs one      *)
(* command at a time; between two of them anybody else may run.            *)
(* Policy fallbacks and the wording of refusals are left out.              *)
(***************************************************************************)
EXTENDS Naturals, FiniteSets

CONSTANTS
    Sessions,     \* sign-in calls, each with the session id it makes
    Checking,     \* those of the portal or of a provider: they test is_restricted
    Requests,     \* authenticated calls in flight
    Sweeps,       \* revokeAllForUser calls
    Changes,      \* those of an e-mail change, each to an address of its own
    Limit,        \* max_concurrent_sessions, 0 for none
    NoSession, NoSweep

ASSUME ConstantsOK ==
    /\ IsFiniteSet(Sessions) /\ Checking \subseteq Sessions
    /\ Changes \subseteq Sweeps
    /\ Limit \in Nat
    /\ NoSession \notin Sessions /\ NoSweep \notin Sweeps

VARIABLES
    signin,      \* signin[s]: where sign-in s is, and the session ids it holds
    born,        \* born[s]: the rank of its created_at, 0 before
    live,        \* the records in Redis
    gone,        \* history: the sessions that were ended at least once
    request,     \* request[g]: where the guard is with call g, and the record it found
    sweep,       \* sweep[w]: where the sweep is, whom it spares, whom it has listed
    restrictor,  \* the sweep of the restriction in force, if any
    early,       \* history: sign-ins that were past their check when it was written
    address,     \* the change that wrote the account's address, NoSweep for the first
    named,       \* named[s]: the address in the record of s
    astray       \* history: the records last written with an address that was outdated

vars == <<signin, born, live, gone, request, sweep, restrictor, early, address, named, astray>>
redisVars == <<live, gone, named, astray>>
accountVars == <<restrictor, early, address>>

Addresses == Changes \cup {NoSweep}
IdleRequest == [stage |-> "idle", sid |-> NoSession, names |-> NoSweep]
Pruning == {"stored", "scanning", "listed"}

TypeOK ==
    /\ signin \in [Sessions ->
         [stage : {"new", "refused", "cleared", "stamped", "in", "unpruned"} \cup Pruning,
          keys : SUBSET Sessions]]
    /\ born \in [Sessions -> Nat]
    /\ live \subseteq Sessions /\ gone \subseteq Sessions
    /\ request \in [Requests -> [stage : {"idle", "found", "writing"},
                                 sid : Sessions \cup {NoSession},
                                 names : Addresses]]
    /\ sweep \in [Sweeps -> [stage : {"new", "started", "scanning", "listed", "done",
                                      "swept", "rescanning", "rewriting", "setting"},
                             keep : Sessions \cup {NoSession},
                             keys : SUBSET Sessions]]
    /\ restrictor \in Sweeps \cup {NoSweep}
    /\ early \subseteq Sessions /\ astray \subseteq Sessions
    /\ address \in Addresses
    /\ named \in [Sessions -> Addresses]

Init ==
    /\ signin = [s \in Sessions |-> [stage |-> "new", keys |-> {}]]
    /\ born = [s \in Sessions |-> 0]
    /\ live = {} /\ gone = {}
    /\ request = [g \in Requests |-> IdleRequest]
    /\ sweep = [w \in Sweeps |-> [stage |-> "new", keep |-> NoSession, keys |-> {}]]
    /\ restrictor = NoSweep
    /\ early = {} /\ astray = {}
    /\ address = NoSweep
    /\ named = [s \in Sessions |-> NoSweep]

----
(* Redis *)

End(ids) ==
    /\ live' = live \ ids
    /\ gone' = gone \cup ids
    /\ UNCHANGED <<named, astray>>

\* The key of s is set, present or not.
Set(s, name) ==
    /\ live' = live \cup {s}
    /\ named' = [named EXCEPT ![s] = name]
    /\ astray' = IF name = address THEN astray \ {s} ELSE astray \cup {s}
    /\ UNCHANGED gone

\* What listAll returns to a caller whose SCAN began with the keys `base`: a record
\* that was there throughout, and any of those that came or came back meanwhile.
Listings(base) == {l \in SUBSET live : (base \cap live) \ gone \subseteq l}

----
(* Sign-in: the account check of the login call, then create *)

SignIn(s, from, to, ids) ==
    /\ signin[s].stage = from
    /\ signin' = [signin EXCEPT ![s] = [stage |-> to, keys |-> ids]]

\* The account is read, with its address.
ChecksAccount(s) ==
    /\ \/ s \in Checking /\ restrictor # NoSweep /\ SignIn(s, "new", "refused", {})
       \/ (s \notin Checking \/ restrictor = NoSweep) /\ SignIn(s, "new", "cleared", {})
    /\ named' = [named EXCEPT ![s] = address]
    /\ UNCHANGED <<born, live, gone, astray, request, sweep, accountVars>>

Stamps(s) ==
    /\ SignIn(s, "cleared", "stamped", {})
    /\ born' = [born EXCEPT ![s] = Cardinality({x \in Sessions : born[x] > 0}) + 1]
    /\ UNCHANGED <<redisVars, request, sweep, accountVars>>

\* The record is stored before anything is pruned; with no limit that is all.
Stores(s) ==
    /\ SignIn(s, "stamped", IF Limit = 0 THEN "in" ELSE "stored", {})
    /\ Set(s, named[s])
    /\ UNCHANGED <<born, request, sweep, accountVars>>

Scans(s) ==
    /\ SignIn(s, "stored", "scanning", live)
    /\ UNCHANGED <<born, redisVars, request, sweep, accountVars>>

\* Seeded fault: listAll sorts oldest first.
DoomedNewest(s, l) ==
    {x \in l \ {s} : Cardinality({y \in l \ {s} : born[y] < born[x]}) >= Limit - 1}

\* Seeded fault: the slice begins one late.
DoomedOneLess(s, l) ==
    {x \in l \ {s} : Cardinality({y \in l \ {s} : born[y] > born[x]}) >= Limit}

\* All but the caller's own session and the Limit - 1 newest of the others.
Doomed(s, l) ==
    {x \in l \ {s} : Cardinality({y \in l \ {s} : born[y] > born[x]}) >= Limit - 1}

Lists(s) ==
    /\ \E l \in Listings(signin[s].keys) : SignIn(s, "scanning", "listed", Doomed(s, l))
    /\ UNCHANGED <<born, redisVars, request, sweep, accountVars>>

Prunes(s) ==
    /\ SignIn(s, "listed", "in", {})
    /\ End(signin[s].keys)
    /\ UNCHANGED <<born, request, sweep, accountVars>>

\* Pruning is best effort: Redis fails it and the sign-in succeeds.
PruneFails(s) ==
    /\ signin[s].stage \in Pruning
    /\ SignIn(s, signin[s].stage, "unpruned", {})
    /\ UNCHANGED <<born, redisVars, request, sweep, accountVars>>

----
(* The token runs out *)

Expires(s) ==
    /\ s \in live
    /\ End({s})
    /\ UNCHANGED <<signin, born, request, sweep, accountVars>>

----
(* The guard of every authenticated call *)

At(g, stage, s, name) ==
    request' = [request EXCEPT ![g] = [stage |-> stage, sid |-> s, names |-> name]]
Leave(g) == request' = [request EXCEPT ![g] = IdleRequest]
guardUnchanged == <<signin, born, sweep, accountVars>>

\* Seeded fault: a token without a sid is looked up like any other.
FindsWithoutSid(g, s) ==
    /\ request[g].stage = "idle"
    /\ At(g, "found", NoSession, address)
    /\ UNCHANGED <<redisVars, guardUnchanged>>

Finds(g, s) ==
    /\ request[g].stage = "idle"
    /\ s \in live
    /\ At(g, "found", s, named[s])
    /\ UNCHANGED <<redisVars, guardUnchanged>>

\* Idle or open for too long, or no right to the app any more: the session ends.
Rejects(g) ==
    /\ request[g].stage = "found"
    /\ End({request[g].sid})
    /\ Leave(g)
    /\ UNCHANGED guardUnchanged

\* Let through; a touch that is due may also fail on the way.
Admits(g) ==
    /\ request[g].stage # "idle"
    /\ Leave(g)
    /\ UNCHANGED <<redisVars, guardUnchanged>>

\* touch, due once the record is a minute old: it reads the remaining TTL, and
\* does nothing when there is none.
ReadsTTL(g) ==
    /\ request[g].stage = "found"
    /\ request[g].sid \in live
    /\ At(g, "writing", request[g].sid, request[g].names)
    /\ UNCHANGED <<redisVars, guardUnchanged>>

\* It then writes back the record that the guard found, but for last_seen_at.
Touches(g) ==
    /\ request[g].stage = "writing"
    /\ Set(request[g].sid, request[g].names)
    /\ Leave(g)
    /\ UNCHANGED guardUnchanged

----
(* Revocations *)

Sweep(w, from, to, keep, ids) ==
    /\ sweep[w].stage = from
    /\ sweep' = [sweep EXCEPT ![w] = [stage |-> to, keep |-> keep, keys |-> ids]]

\* Signing out, or an administrator or the owner ending one device.
Revokes(s) ==
    /\ s \in live
    /\ End({s})
    /\ UNCHANGED <<signin, born, request, sweep, accountVars>>

\* Everywhere else, or everywhere: a password change, "sign out my other devices", an
\* administrator's sign-out, the removal of the account.
StartsSweep(w, keep) ==
    /\ w \notin Changes
    /\ Sweep(w, "new", "started", keep, {})
    /\ UNCHANGED <<signin, born, redisVars, request, accountVars>>

\* Seeded fault: the account is restricted and its sessions are left alone.
RestrictsOnly(w) ==
    /\ w \notin Changes
    /\ Sweep(w, "new", "done", NoSession, {})
    /\ restrictor' = w
    /\ early' = {s \in Sessions : signin[s].stage \in {"cleared", "stamped"}}
    /\ UNCHANGED <<signin, born, redisVars, request, address>>

\* restrictUser: the flag is written first, the sweep follows.
Restricts(w) ==
    /\ w \notin Changes
    /\ Sweep(w, "new", "started", NoSession, {})
    /\ restrictor' = w
    /\ early' = {s \in Sessions : signin[s].stage \in {"cleared", "stamped"}}
    /\ UNCHANGED <<signin, born, redisVars, request, address>>

Unrestricts ==
    /\ restrictor # NoSweep
    /\ restrictor' = NoSweep
    /\ UNCHANGED <<signin, born, redisVars, request, sweep, early, address>>

\* changeEmail: the address is written first; the sweep spares the caller's session.
ChangesEmail(w) ==
    /\ w \in Changes
    /\ \E keep \in live \cup gone : Sweep(w, "new", "started", keep, {})
    /\ address' = w
    /\ UNCHANGED <<signin, born, redisVars, request, restrictor, early>>

SweepScans(w) ==
    /\ Sweep(w, "started", "scanning", sweep[w].keep, live)
    /\ UNCHANGED <<signin, born, redisVars, request, accountVars>>

SweepLists(w) ==
    /\ \E l \in Listings(sweep[w].keys) :
         Sweep(w, "scanning", "listed", sweep[w].keep, l \ {sweep[w].keep})
    /\ UNCHANGED <<signin, born, redisVars, request, accountVars>>

SweepDeletes(w) ==
    /\ Sweep(w, "listed", IF w \in Changes THEN "swept" ELSE "done",
             sweep[w].keep, sweep[w].keys)
    /\ End(sweep[w].keys)
    /\ UNCHANGED <<signin, born, request, accountVars>>

----
(* updateEmailForUser, after the sweep of an e-mail change *)

rewriteUnchanged == <<signin, born, request, accountVars>>

RewriteScans(w) ==
    /\ Sweep(w, "swept", "rescanning", sweep[w].keep, live)
    /\ UNCHANGED <<redisVars, rewriteUnchanged>>

RewriteLists(w) ==
    /\ \E l \in Listings(sweep[w].keys) :
         Sweep(w, "rescanning", "rewriting", sweep[w].keep, l)
    /\ UNCHANGED <<redisVars, rewriteUnchanged>>

\* Whose turn it is: the newest that was listed and is left.
Turn(w) == {x \in sweep[w].keys : \A y \in sweep[w].keys : born[y] <= born[x]}

\* A record that has no TTL any more is passed over.
RewriteReadsTTL(w) ==
    /\ \E x \in Turn(w) :
         \/ x \in live /\ Sweep(w, "rewriting", "setting", sweep[w].keep, sweep[w].keys)
         \/ x \notin live /\ Sweep(w, "rewriting", "rewriting", sweep[w].keep, sweep[w].keys \ {x})
    /\ UNCHANGED <<redisVars, rewriteUnchanged>>

\* Seeded fault: the record is spread after the new address.
RewriteSetsBack(w) ==
    /\ \E x \in Turn(w) :
         /\ Sweep(w, "setting", "rewriting", sweep[w].keep, sweep[w].keys \ {x})
         /\ live' = live \cup {x}
    /\ UNCHANGED <<gone, named, astray, rewriteUnchanged>>

RewriteSets(w) ==
    /\ \E x \in Turn(w) :
         /\ Sweep(w, "setting", "rewriting", sweep[w].keep, sweep[w].keys \ {x})
         /\ Set(x, w)
    /\ UNCHANGED rewriteUnchanged

RewriteEnds(w) ==
    /\ sweep[w].keys = {}
    /\ Sweep(w, "rewriting", "done", sweep[w].keep, {})
    /\ UNCHANGED <<redisVars, rewriteUnchanged>>

----
Next ==
    \/ \E s \in Sessions :
         \/ ChecksAccount(s) \/ Stamps(s) \/ Stores(s) \/ Scans(s) \/ Lists(s)
         \/ Prunes(s) \/ PruneFails(s)
         \/ Expires(s) \/ Revokes(s)
    \/ \E g \in Requests :
         \/ \E s \in Sessions : Finds(g, s)
         \/ Rejects(g) \/ Admits(g) \/ ReadsTTL(g) \/ Touches(g)
    \/ \E w \in Sweeps :
         \/ \E keep \in Sessions \cup {NoSession} : StartsSweep(w, keep)
         \/ Restricts(w) \/ ChangesEmail(w)
         \/ SweepScans(w) \/ SweepLists(w) \/ SweepDeletes(w)
         \/ RewriteScans(w) \/ RewriteLists(w) \/ RewriteReadsTTL(w) \/ RewriteSets(w)
         \/ RewriteEnds(w)
    \/ Unrestricts

Spec == Init /\ [][Next]_vars

----
(* What must hold *)

\* The limit binds however sign-ins overlap: once none of them is pruning and none
\* failed to, no more than Limit sessions are left, those aside that were ended and
\* that a touch wrote back.
LimitBinds ==
    Limit > 0 /\ (\A s \in Sessions : signin[s].stage \notin Pruning \cup {"unpruned"}) =>
        Cardinality(live \ gone) <= Limit

\* "The new sign-in wins, so someone who just authenticated is never the one
\* bounced": what a sign-in is about to prune is older than some other session.
NewestStays ==
    \A s \in Sessions : signin[s].stage = "listed" =>
        \A x \in signin[s].keys : \E y \in Sessions : born[y] > born[x]

\* Once a restriction's sweep is through, every session of the account left is of a
\* sign-in that was past its check when the flag was written or that makes no check,
\* or was written back by a touch.
RestrictionEndsSessions ==
    restrictor # NoSweep /\ sweep[restrictor].stage = "done" =>
        live \ gone \subseteq early \cup (Sessions \ Checking)

\* Once an e-mail change is through, every session of the account left names the new
\* address "so the portal's session list and the audit trail stop naming an address
\* that no longer signs in": all but those whose record was last written by a sign-in,
\* a touch or an older change that had read the address before.
AddressFollows ==
    address = NoSweep \/ sweep[address].stage = "done" =>
        \A s \in (live \ gone) \ astray : named[s] = address

\* "What makes revoking a session take effect immediately": a session that a sweep
\* signed out is not live again.
SignedOutStaysOut ==
    \A w \in Sweeps : sweep[w].stage = "done" => sweep[w].keys \cap live = {}
====
