---- MODULE MCUserRequests ----
(* One volunteer with the ids for two role requests; a beneficiary whose applications
   may be filed at the same time, for one place; two directors. *)
EXTENDS UserRequests, TLC

CONSTANTS vol, ben, q1, q2, j1, j2, j3, d1, d2, facilitator

ForRoles == {q1, q2}
ForPlaces == {j1, j2, j3}
Ids == ForRoles \cup ForPlaces
By == [q \in Ids |-> IF q \in ForRoles THEN vol ELSE ben]
Desks == {d1, d2}
Alike == Permutations(Desks) \cup Permutations(ForRoles) \cup Permutations(ForPlaces)
====
