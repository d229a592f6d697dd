---- MODULE MCDonationPayments ----
(* Finite instances of DonationPayments: two requests that race on one key. *)
EXTENDS DonationPayments

CONSTANTS r1, r2, k1

Two == {r1, r2}
OneKey == [r \in Two |-> k1]
Mixed == [r \in Two |-> IF r = r1 THEN "CARD" ELSE "QRPH"]
Wallets == [r \in Two |-> IF r = r1 THEN "GCASH" ELSE "CARD"]
Codes == [r \in Two |-> "QRPH"]
====
