---- MODULE MCLoginLockout ----
(* Two sign-ins at a time under the default policy and two an administrator may save. *)
EXTENDS LoginLockout, TLC

CONSTANTS a, b

Usual == [on |-> TRUE, attempts |-> 3, window |-> 2, duration |-> 2]
Endless == [on |-> TRUE, attempts |-> 3, window |-> 3, duration |-> 0]
Lax == [on |-> FALSE, attempts |-> 3, window |-> 2, duration |-> 2]
Offered == {Endless, Lax}
Alike == Permutations(Clients)
====
