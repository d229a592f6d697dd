---- MODULE MCCertificates ----
(* One template on one event with two registrations. *)
EXTENDS Certificates, TLC

CONSTANTS ball, sheetOfBall, first, second, d1, s1, s2, c1, v1

AllRows == {1, 2}
At == [r \in AllRows |-> ball]
Cut == d1 :> sheetOfBall
On == d1 :> ball
====
