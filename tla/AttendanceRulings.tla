-------------------------- MODULE AttendanceRulings --------------------------
(***************************************************************************)
(* What attendance promises to everything that reads it: a registration is *)
(* ruled once, an absence may be corrected once, and whoever is present    *)
(* stays present with the hours of the ruling that said so.                *)
(***************************************************************************)

CONSTANT Rows    \* the registrations

VARIABLES
    status,      \* status[r]: where registration r stands
    hours        \* hours[r]: what its credited hours were taken from

vars == <<status, hours>>

TypeOK ==
    /\ status \in [Rows -> {"PENDING", "COMPLETED", "ABSENT"}]
    /\ hours \in [Rows -> {"none", "measured", "scheduled"}]

Init ==
    /\ status = [r \in Rows |-> "PENDING"]
    /\ hours = [r \in Rows |-> "none"]

\* The validator rules on what the device reported.
Rule(r, s) ==
    /\ status[r] = "PENDING"
    /\ status' = [status EXCEPT ![r] = s]
    /\ hours' = [hours EXCEPT ![r] = "measured"]

\* A director marks somebody present.
Correct(r) ==
    /\ status[r] # "COMPLETED"
    /\ status' = [status EXCEPT ![r] = "COMPLETED"]
    /\ hours' = [hours EXCEPT ![r] = "scheduled"]

Next == \E r \in Rows :
    \/ \E s \in {"COMPLETED", "ABSENT"} : Rule(r, s)
    \/ Correct(r)

Spec == Init /\ [][Next]_vars
==============================================================================
