---------------------------- MODULE CreditLedger ----------------------------
(***************************************************************************)
(* What the payment service promises about money, with none of its tables, *)
(* requests or awaits: a charge is paid for one transaction, for good; a   *)
(* webhook delivery credits at most one paid charge, once, and to the      *)
(* transaction that the charge paid for; a user is told of a success after *)
(* the credit, and never told of a failure by a delivery that credited.    *)
(***************************************************************************)
CONSTANTS Tx, Charges, Hooks, Null

VARIABLES
  paidFor,  \* the transaction that each paid charge paid for
  credits,  \* messages to the credit queue
  told      \* notifications to users

ledgerVars == <<paidFor, credits, told>>

LedgerInit == /\ paidFor = [c \in Charges |-> Null]
              /\ credits = {}
              /\ told = {}

CreditedBy(h) == \E m \in credits : m.hook = h

Pay(c, t) == /\ paidFor[c] = Null
             /\ paidFor' = [paidFor EXCEPT ![c] = t]
             /\ UNCHANGED <<credits, told>>

CreditPayment(h, c) ==
  /\ paidFor[c] # Null
  /\ ~CreditedBy(h)
  /\ credits' = credits \cup {[hook |-> h, tx |-> paidFor[c], charge |-> c]}
  /\ UNCHANGED <<paidFor, told>>

Tell(h, c, s) ==
  /\ \A n \in told : n.hook # h
  /\ IF s = "successful" THEN \E m \in credits : m.hook = h /\ m.charge = c
                         ELSE ~CreditedBy(h)
  /\ told' = told \cup {[hook |-> h, charge |-> c, status |-> s]}
  /\ UNCHANGED <<paidFor, credits>>

LedgerNext ==
  \E c \in Charges :
    \/ \E t \in Tx : Pay(c, t)
    \/ \E h \in Hooks : \/ CreditPayment(h, c)
                        \/ \E s \in {"successful", "failed"} : Tell(h, c, s)

LedgerSpec == LedgerInit /\ [][LedgerNext]_ledgerVars
=============================================================================
