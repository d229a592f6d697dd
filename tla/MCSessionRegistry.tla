---- MODULE MCSessionRegistry ----
(* One account signing in on up to three devices. *)
EXTENDS SessionRegistry, TLC

CONSTANTS a, b, c, g1, w1, e1

Portal == {a, b}
Devices == {a, b, c}
Calls == {g1}
Ending == {w1, e1}
Mailing == {e1}
Nothing == {}
Sweeping == {w1}
Alike == Permutations(Portal)

\* Bound: one of the two sweeps stays away; and either the third device does, or no
\* sweep runs and the guarded call is of another device.
Focus ==
    /\ \E w \in Sweeps : sweep[w].stage = "new"
    /\ \/ signin[c].stage = "new"
       \/ /\ \A w \in Sweeps : sweep[w].stage = "new"
          /\ \A g \in Requests : request[g].sid # c
====
