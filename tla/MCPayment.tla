----------------------------- MODULE MCPayment -----------------------------
(***************************************************************************)
(* Small instances of PaymentSystem for TLC.  The sets are given in the    *)
(* configurations; what a configuration cannot write is here.              *)
(***************************************************************************)
EXTENDS PaymentSystem, TLC

Complete == [object |-> "charge", id |-> TRUE, agent |-> "omise/current",
             key |-> "charge.complete"]

\* One envelope that is handled.
OnlyComplete == {Complete}

\* One of each kind: handled, of another object, and refused for its charge
\* id, its agent, its version and its key.
AllKinds == {Complete,
             [Complete EXCEPT !.object = "other"],
             [Complete EXCEPT !.id = FALSE],
             [Complete EXCEPT !.agent = "none"],
             [Complete EXCEPT !.agent = "omise/old"],
             [Complete EXCEPT !.key = "charge.other"]}

\* Deliveries differ in nothing but their name, and so do charge requests
\* and transactions.
Names == Permutations(Hooks) \cup Permutations(Charges) \cup Permutations(Tx)
=============================================================================
