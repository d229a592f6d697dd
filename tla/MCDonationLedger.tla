---- MODULE MCDonationLedger ----
(* The ledger with a donation or two, worked on from all sides at once. *)
EXTENDS DonationLedger

CONSTANTS gift, s1, s2, t1

Gifts == {gift}
Portal == {s1, s2}
App == {t1}
Values == {1, 2}
====
