--------------------------- MODULE PaymentService ---------------------------
(***************************************************************************)
(* POST /payment/pay and POST /payment/charge (PaymentController and       *)
(* PaymentService).  A request is a sequence of steps, one per await; any  *)
(* other request may run between two of them.  Transaction ids are given   *)
(* out by the database, so the pay request that creates t is named t; a    *)
(* charge request is named by the charge it may create.                    *)
(***************************************************************************)
EXTENDS TransactionStore, Omise

VARIABLES
  pay,  \* the progress of each pay request
  chg   \* each charge request: its progress, parameters and pending save

payVars == <<pay, chg>>

PayActive == {"package", "insert"}
PayEnded  == {"answered", "failed", "crashed"}

ChargeActive == {"type", "find", "create", "load", "commit"}
ChargeEnded  == {"answered", "failed", "crashed"}

NoRequest == [pc |-> "idle", tx |-> Null, source |-> Null, plan |-> NoPlan]

PayTypeOK ==
  /\ pay \in [Tx -> {"idle"} \cup PayActive \cup PayEnded]
  /\ chg \in [Charges -> [pc     : {"idle"} \cup ChargeActive \cup ChargeEnded,
                          tx     : Tx \cup {Null},
                          source : Sources \cup {Null},
                          plan   : Plan]]

PayInit == /\ pay = [t \in Tx |-> "idle"]
           /\ chg = [c \in Charges |-> NoRequest]

----------------------------------------------------------------------------
(* createPaymentTransaction *)

PayGoes(t, from, to) == pay[t] = from /\ pay' = [pay EXCEPT ![t] = to]

RequestPay(t) == /\ PayGoes(t, "idle", "package")
                 /\ UNCHANGED <<rows, logs, omise, chg>>

\* An inactive product, and one without a token, end the request.
GetTokenPackage(t) == /\ \/ PayGoes(t, "package", "insert")
                         \/ PayGoes(t, "package", "failed")
                      /\ UNCHANGED <<rows, logs, omise, chg>>

\* The answer, with the id, may be lost after the row is in.
SaveNewTransaction(t) == /\ \/ PayGoes(t, "insert", "answered")
                            \/ Faults /\ PayGoes(t, "insert", "failed")
                         /\ InsertRow(t)
                         /\ UNCHANGED <<omise, chg>>

InsertFails(t) == /\ Faults
                  /\ PayGoes(t, "insert", "failed")
                  /\ UNCHANGED <<rows, logs, omise, chg>>

----------------------------------------------------------------------------
(* charge and saveTransactionStatus *)

ChargeGoes(c, from, to) ==
  chg[c].pc = from /\ chg' = [chg EXCEPT ![c].pc = to]

\* The client names the transaction and the source; neither is checked yet.
RequestCharge(c, t, s) ==
  /\ chg[c].pc = "idle"
  /\ chg' = [chg EXCEPT ![c] = [@ EXCEPT !.pc = "type", !.tx = t, !.source = s]]
  /\ UNCHANGED <<rows, logs, omise, pay>>

FindPaymentType(c) ==
  /\ \/ ChargeGoes(c, "type", "find") /\ chg[c].source \in Supported
     \/ ChargeGoes(c, "type", "failed") /\ chg[c].source \notin Supported
  /\ UNCHANGED <<rows, logs, omise, pay>>

\* Nothing but the row's existence is asked: not its status, nor whether a
\* charge was already made for it.
FindTransactionOrFail(c) ==
  /\ \/ ChargeGoes(c, "find", "create") /\ Exists(chg[c].tx)
     \/ ChargeGoes(c, "find", "failed") /\ ~Exists(chg[c].tx)
  /\ UNCHANGED <<rows, logs, omise, pay>>

\* The charge may be made and its answer lost.
CreateOmiseCharge(c) ==
  /\ \/ ChargeGoes(c, "create", "load")
     \/ Faults /\ ChargeGoes(c, "create", "failed")
  /\ CreateCharge(c, chg[c].tx, chg[c].source)
  /\ UNCHANGED <<rows, logs, pay>>

\* Mutated: the provider's refusal is not noticed, and the save goes on.
RefusalUnnoticed(c) ==
  /\ ChargeGoes(c, "create", "load")
  /\ ~Chargeable(chg[c].source)
  /\ UNCHANGED <<rows, logs, omise, pay>>

OmiseRefuses(c) ==
  /\ ChargeGoes(c, "create", "failed")
  /\ ~Chargeable(chg[c].source)
  /\ UNCHANGED <<rows, logs, omise, pay>>

\* Mutated: the source is left out of the object saved.
SaveLeavesSource(c) ==
  /\ chg[c].pc = "load"
  /\ chg' = [chg EXCEPT ![c].pc = "commit", ![c].plan =
               [PlanSave(chg[c].tx, chg[c].source, c, Null, {})
                  EXCEPT !.status = Keep, !.source = Keep]]
  /\ UNCHANGED <<rows, logs, omise, pay>>

\* The object saved has no status, and one log: the new one.
LoadForChargeSave(c) ==
  /\ chg[c].pc = "load"
  /\ chg' = [chg EXCEPT ![c].pc = "commit", ![c].plan =
               [PlanSave(chg[c].tx, chg[c].source, c, Null, {})
                  EXCEPT !.status = Keep]]
  /\ UNCHANGED <<rows, logs, omise, pay>>

ChargeSaveEnds(c, to) ==
  /\ chg[c].pc = "commit"
  /\ chg' = [chg EXCEPT ![c] = [@ EXCEPT !.pc = to, !.plan = NoPlan]]

\* The save may be committed and its connection lost before it is known.
CommitChargeSave(c) ==
  /\ \/ ChargeSaveEnds(c, "answered")
     \/ Faults /\ ChargeSaveEnds(c, "failed")
  /\ CommitSave(chg[c].tx, chg[c].plan, c, "pending")
  /\ UNCHANGED <<omise, pay>>

\* Another row has the source: the transaction is rolled back.
ChargeSaveConflicts(c) ==
  /\ ChargeSaveEnds(c, "failed")
  /\ ~RespectsIndex(chg[c].tx, chg[c].plan)
  /\ UNCHANGED <<rows, logs, omise, pay>>

\* Any awaited call may fail without effect; nothing is undone.
ChargeCallFails(c) ==
  /\ Faults
  /\ chg[c].pc \in ChargeActive
  /\ chg' = [chg EXCEPT ![c] = [@ EXCEPT !.pc = "failed", !.plan = NoPlan]]
  /\ UNCHANGED <<rows, logs, omise, pay>>

----------------------------------------------------------------------------
\* What the service does by itself once a request is there.
PayStep(t) == GetTokenPackage(t) \/ SaveNewTransaction(t) \/ InsertFails(t)

ChargeStep(c) ==
  \/ FindPaymentType(c) \/ FindTransactionOrFail(c)
  \/ CreateOmiseCharge(c) \/ OmiseRefuses(c)
  \/ LoadForChargeSave(c) \/ CommitChargeSave(c) \/ ChargeSaveConflicts(c)
  \/ ChargeCallFails(c)

PaymentNext ==
  \/ \E t \in Tx : RequestPay(t) \/ PayStep(t)
  \/ \E c \in Charges :
       (\E t \in Tx, s \in Sources : RequestCharge(c, t, s)) \/ ChargeStep(c)
=============================================================================
