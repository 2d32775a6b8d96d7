---------------------------- MODULE PaymentBase ----------------------------
(***************************************************************************)
(* The vocabulary shared by the modules of the payment service: who takes  *)
(* part, which values a column or a webhook field takes, and what the      *)
(* constants may be.                                                       *)
(***************************************************************************)
CONSTANTS
  Tx,         \* ids of payment transactions, rows of transaction_status
  Sources,    \* payment sources and card tokens a client can name
  Cards,      \* the card tokens among them ('tokn_...')
  Supported,  \* the sources whose type is one of PaymentTypeEnum
  Charges,    \* charge requests; a request also names the charge it creates
  Foreign,    \* charges of the provider's account this service did not make
  Hooks,      \* webhook deliveries, each received once
  Envelopes,  \* what surrounds the charge in a delivery
  SingleUse,  \* whether the provider refuses a source it already charged
  Faults,     \* whether calls to databases and services may fail
  Null,       \* a NULL column, an undefined field
  Keep        \* a column that a save leaves as the database has it

AllCharges == Charges \cup Foreign

\* A charge request and a webhook delivery each insert one transaction_log.
LogIds == Charges \cup Hooks

\* ChargeStatuses, and 'expired', which the provider also sends.
Statuses == {"pending", "successful", "failed", "expired"}

OmiseChargeEvents == {"charge.capture", "charge.complete", "charge.create",
                      "charge.expire", "charge.reverse", "charge.update"}

\* A delivery's object type, whether it has a charge id, its user agent and
\* its event key, both in lower case.
Envelope == [object : {"charge", "other"},
             id     : BOOLEAN,
             agent  : {"none", "omise/current", "omise/old", "other"},
             key    : OmiseChargeEvents \cup {"none", "charge.other", "other"}]

\* The participants are different things; Null and Keep are none of them.
ASSUME ParticipantsAssumption ==
  /\ Cards \subseteq Sources
  /\ Supported \subseteq Sources
  /\ Charges \cap Foreign = {}
  /\ Charges \cap Hooks = {}

ASSUME MarkersAssumption ==
  /\ Null \notin Tx \cup Sources \cup AllCharges \cup LogIds \cup Statuses
  /\ Keep \notin Sources \cup AllCharges \cup Statuses \cup {Null}

ASSUME SwitchesAssumption ==
  /\ Envelopes \subseteq Envelope
  /\ SingleUse \in BOOLEAN
  /\ Faults \in BOOLEAN
=============================================================================
