---------------------------- MODULE PaymentSettlement ----------------------------
(***************************************************************************)
(* What a money donation promises, with the gateway, the callbacks, the    *)
(* polls and the failures left out: a checkout is reserved, is released or *)
(* settles once and for good, and a paid one that has an event behind it   *)
(* is credited on the ledger at most once, never before it is paid.        *)
(***************************************************************************)

CONSTANTS
    Checkouts,    \* the checkouts donors may start
    EventBacked   \* those whose campaign is an event, so that they are credited

VARIABLES
    outcome,      \* outcome[c]: "none", "PENDING", "released" or how c settled
    credited      \* the checkouts that have a row on the ledger

vars == <<outcome, credited>>

Settlements == {"PAID", "FAILED", "EXPIRED"}

TypeOK ==
    /\ outcome \in [Checkouts -> {"none", "PENDING", "released"} \cup Settlements]
    /\ credited \subseteq Checkouts

Init ==
    /\ outcome = [c \in Checkouts |-> "none"]
    /\ credited = {}

Reserve(c) ==
    /\ outcome[c] = "none"
    /\ outcome' = [outcome EXCEPT ![c] = "PENDING"]
    /\ UNCHANGED credited

Release(c) ==
    /\ outcome[c] = "PENDING"
    /\ outcome' = [outcome EXCEPT ![c] = "released"]
    /\ UNCHANGED credited

\* A settlement credits a paid checkout at once, or leaves that to a later step.
Settle(c, o) ==
    /\ outcome[c] = "PENDING"
    /\ outcome' = [outcome EXCEPT ![c] = o]
    /\ \/ UNCHANGED credited
       \/ /\ o = "PAID" /\ c \in EventBacked
          /\ credited' = credited \cup {c}

Credit(c) ==
    /\ outcome[c] = "PAID" /\ c \in EventBacked \ credited
    /\ credited' = credited \cup {c}
    /\ UNCHANGED outcome

Next == \E c \in Checkouts :
    \/ Reserve(c)
    \/ Release(c)
    \/ \E o \in Settlements : Settle(c, o)
    \/ Credit(c)

Spec == Init /\ [][Next]_vars

----------------------------------------------------------------------------------
\* The ledger holds nothing but paid, event-backed checkouts.
CreditedWerePaid == \A c \in credited : outcome[c] = "PAID" /\ c \in EventBacked
====
