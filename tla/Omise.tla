------------------------------- MODULE Omise -------------------------------
(***************************************************************************)
(* The payment provider, seen through the calls of OmiseService and the    *)
(* webhooks it sends.  It is not part of the repository: what it does here *)
(* is what the service's code and its webhook handler rely on.             *)
(***************************************************************************)
EXTENDS PaymentBase

\* For each charge: the statuses it has had, and the txId and the sourceId
\* of its metadata, which are those of the request that made it.
VARIABLE omise

NoCharge == [statuses |-> {}, tx |-> Null, source |-> Null]

OmiseTypeOK ==
  omise \in [AllCharges -> [statuses : SUBSET Statuses,
                            tx       : Tx \cup {Null},
                            source   : Sources \cup {Null}]]

OmiseInit == omise = [c \in AllCharges |-> NoCharge]

Made(c) == omise[c].statuses # {}
Paid(c) == "successful" \in omise[c].statuses

\* A source already charged is refused when sources are single use.
Chargeable(s) ==
  SingleUse => \A c \in Charges : Made(c) => omise[c].source # s

\* A card may be authorised at once; any other source waits for the payer.
CreateCharge(c, t, s) ==
  /\ Chargeable(s)
  /\ \E now \in IF s \in Cards THEN {"pending", "successful", "failed"}
                ELSE {"pending"} :
       omise' = [omise EXCEPT ![c] =
                  [statuses |-> {now}, tx |-> t, source |-> s]]

\* A charge made from the dashboard or by another program of the account:
\* its metadata has no sourceId.
CreateForeignCharge(c) ==
  /\ c \in Foreign
  /\ ~Made(c)
  /\ omise' = [omise EXCEPT ![c].statuses = {"pending"}]

\* A pending charge is settled once; the provider keeps its history.
SettleCharge(c) ==
  /\ omise[c].statuses = {"pending"}
  /\ \E s \in Statuses \ {"pending"} :
       omise' = [omise EXCEPT ![c].statuses = @ \cup {s}]
=============================================================================
