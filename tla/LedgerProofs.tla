----------------------------- MODULE LedgerProofs -----------------------------
(***************************************************************************)
(* The service implements the abstract ledger of CreditLedger, when the    *)
(* provider refuses a source that it has charged and every charge of the   *)
(* account is made by this service.                                        *)
(***************************************************************************)
EXTENDS OwnershipProofs

\* Who has sent a credit tells of a success, and who has notified has ended.
LateInv == /\ \A m \in sqs : hook[m.hook].status = "successful"
           /\ \A n \in notices : hook[n.hook].pc \in HookEnded

\* A step of a delivery: it keeps the body, and nothing moves an ended one.
HookMoves(h) ==
  /\ \A g \in Hooks \ {h} : hook'[g] = hook[g]
  /\ hook[h].pc \notin HookEnded
  /\ hook[h].pc = "idle" \/ hook'[h].status = hook[h].status

LEMMA LateStays ==
  ASSUME AllInv, LateInv, UNCHANGED <<sqs, notices>>,
         \A h \in Hooks : \/ hook'[h] = hook[h]
                          \/ /\ hook[h].pc \notin HookEnded
                             /\ hook[h].pc = "idle" \/ hook'[h].status = hook[h].status
  PROVE  LateInv'
  <1>1. \A m \in sqs : m.hook \in Hooks /\ hook[m.hook].pc \in AfterSend
    BY DEF AllInv, CreditInv, MessagesAreLate, TypeInv, TypeOK, HookTypeOK, Credit
  <1>2. \A n \in notices : n.hook \in Hooks
    BY DEF AllInv, TypeInv, TypeOK, HookTypeOK, Notice
  <1> QED BY <1>1, <1>2 DEF LateInv, AfterSend

----------------------------------------------------------------------------
(* The steps on the charges *)

\* A charge that becomes successful is paid for its transaction.
LEMMA StatusesPay ==
  ASSUME Closed, AllInv, NEW c \in Charges, "successful" \notin omise[c].statuses,
         omise'[c].tx \in Tx, \A d \in Charges \ {c} : omise'[d] = omise[d],
         UNCHANGED <<sqs, notices>>
  PROVE  [Ledger!LedgerNext]_(Ledger!ledgerVars)
  <1>1. PaidFor[c] = Null
    BY DEF PaidFor, Paid
  <1>2. CASE "successful" \in omise'[c].statuses
    <2>1. PaidFor' = [PaidFor EXCEPT ![c] = omise'[c].tx]
      <3>1. /\ PaidFor'[c] = omise'[c].tx
            /\ \A d \in Charges \ {c} : PaidFor'[d] = PaidFor[d]
        BY <1>2 DEF PaidFor, Paid
      <3>2. PaidFor' = [d \in Charges |-> PaidFor'[d]]
        BY DEF PaidFor
      <3>3. PaidFor = [d \in Charges |-> PaidFor[d]]
        BY DEF PaidFor
      <3> QED BY <3>1, <3>2, <3>3
    <2>2. Ledger!Pay(c, omise'[c].tx)
      BY <1>1, <2>1 DEF Ledger!Pay
    <2> QED BY <2>2 DEF Ledger!LedgerNext
  <1>3. CASE "successful" \notin omise'[c].statuses
    <2>1. PaidFor' = PaidFor
      BY <1>3 DEF PaidFor, Paid
    <2> QED BY <2>1 DEF Ledger!ledgerVars
  <1> QED BY <1>2, <1>3

LEMMA SamePaid ==
  ASSUME UNCHANGED omise
  PROVE  PaidFor' = PaidFor
  BY DEF PaidFor, Paid

LEMMA PaymentPays ==
  ASSUME Closed, AllInv, PaymentNext, UNCHANGED hookVars
  PROVE  [Ledger!LedgerNext]_(Ledger!ledgerVars)
  <1>0. UNCHANGED <<sqs, notices>>
    BY DEF hookVars
  <1>1. CASE UNCHANGED omise
    BY <1>0, <1>1, SamePaid DEF Ledger!ledgerVars
  <1>2. ASSUME NEW c \in Charges, CreateOmiseCharge(c)
        PROVE  [Ledger!LedgerNext]_(Ledger!ledgerVars)
    <2>1. /\ chg[c].tx \in Tx /\ ~Made(c)
      BY <1>2, RequestKnows DEF CreateOmiseCharge, ChargeGoes
    <2>2. \E now \in Statuses :
            omise' = [omise EXCEPT ![c] = [statuses |-> {now}, tx |-> chg[c].tx,
                                           source |-> chg[c].source]]
      BY <1>2 DEF CreateOmiseCharge, CreateCharge, Statuses
    <2>3. omise'[c].tx = chg[c].tx /\ \A d \in Charges \ {c} : omise'[d] = omise[d]
      BY <2>2 DEF AllInv, TypeInv, TypeOK, OmiseTypeOK, AllCharges
    <2> QED BY <1>0, <2>1, <2>3, StatusesPay DEF Made
  \* No other step creates a charge.
  <1>3. ASSUME NEW t \in Tx, RequestPay(t) \/ PayStep(t)
        PROVE  UNCHANGED omise
    BY <1>3 DEF RequestPay, PayStep, GetTokenPackage, SaveNewTransaction, InsertFails
  <1>4. ASSUME NEW c \in Charges,
               \/ \E t \in Tx, s \in Sources : RequestCharge(c, t, s)
               \/ FindPaymentType(c) \/ FindTransactionOrFail(c) \/ OmiseRefuses(c)
               \/ LoadForChargeSave(c) \/ CommitChargeSave(c)
               \/ ChargeSaveConflicts(c) \/ ChargeCallFails(c)
        PROVE  UNCHANGED omise
    BY <1>4 DEF RequestCharge, FindPaymentType, FindTransactionOrFail, OmiseRefuses,
       LoadForChargeSave, CommitChargeSave, ChargeSaveConflicts, ChargeCallFails
  <1> QED BY <1>1, <1>2, <1>3, <1>4 DEF PaymentNext, ChargeStep

LEMMA ProviderPays ==
  ASSUME Closed, AllInv, ProviderNext
  PROVE  [Ledger!LedgerNext]_(Ledger!ledgerVars)
  <1>1. PICK c \in Charges : SettleCharge(c)
    BY DEF ProviderNext, Closed, AllCharges
  <1>2. omise[c].statuses = {"pending"} /\ omise[c].tx \in Tx
    BY <1>1 DEF SettleCharge, AllInv, OwnInv, ChargesAreOwn, Made
  <1>3. omise'[c].tx = omise[c].tx /\ \A d \in Charges \ {c} : omise'[d] = omise[d]
    BY <1>1 DEF SettleCharge, AllInv, TypeInv, TypeOK, OmiseTypeOK, AllCharges
  <1>4. UNCHANGED <<sqs, notices>>
    BY DEF ProviderNext
  <1> QED BY <1>2, <1>3, <1>4, StatusesPay

----------------------------------------------------------------------------
(* The steps of the deliveries *)

LEMMA HookStepMoves ==
  ASSUME AllInv, NEW h \in Hooks,
         \/ \E c \in AllCharges, s \in Statuses, e \in Envelopes : Deliver(h, c, s, e)
         \/ HookStep(h)
  PROVE  HookMoves(h)
  <1> USE DEF AllInv, TypeInv, TypeOK, HookTypeOK, HookMoves, HookEnded
  <1>1. ASSUME NEW how, HookEnds(h, how), hook[h].pc \in HookActive
        PROVE  HookMoves(h)
    BY <1>1 DEF HookEnds, NoDelivery, HookActive
  <1>2. CASE \E c \in AllCharges, s \in Statuses, e \in Envelopes : Deliver(h, c, s, e)
    BY <1>2 DEF Deliver
  <1>3. CASE FindCharge(h) \/ FindTransaction(h) \/ LoadForHookSave(h)
    <2>1. hook[h].pc \in {"validate", "find", "load"}
      BY <1>3 DEF FindCharge, HookGoes, FindTransaction, LoadForHookSave
    <2>2. /\ \A g \in Hooks \ {h} : hook'[g] = hook[g]
          /\ hook'[h].status = hook[h].status
      <3>1. CASE FindCharge(h)
        BY <3>1 DEF FindCharge, HookGoes
      <3>2. CASE FindTransaction(h)
        BY <3>2 DEF FindTransaction
      <3>3. CASE LoadForHookSave(h)
        BY <3>3 DEF LoadForHookSave
      <3> QED BY <1>3, <3>1, <3>2, <3>3
    <2> QED BY <2>1, <2>2
  <1>4. CASE \/ NoTransaction(h) \/ FailAfterHookSave(h) \/ HookSaveConflicts(h)
             \/ PushNotification(h) \/ NoTag(h) \/ HookCallFails(h)
    <2>1. \E how \in HookEnded : HookEnds(h, how) /\ hook[h].pc \in HookActive
      BY <1>4 DEF NoTransaction, FailAfterHookSave, HookSaveConflicts, PushNotification,
         NoTag, HookCallFails, HookActive
    <2> QED BY <1>1, <2>1
  <1>5. CASE CommitHookSave(h)
    <2>1. hook[h].pc \in HookActive
      BY <1>5 DEF CommitHookSave, HookActive
    <2>2. CASE HookEnds(h, "recorded")
      BY <1>1, <2>1, <2>2
    <2>3. CASE hook' = [hook EXCEPT ![h] = [@ EXCEPT
                 !.pc = AfterSave(hook[h].status), !.plan = NoPlan]]
      BY <2>1, <2>3 DEF HookActive
    <2> QED BY <1>5, <2>2, <2>3 DEF CommitHookSave
  <1>6. CASE SendCredit(h)
    <2>1. hook[h].pc \in HookActive
      BY <1>6 DEF SendCredit, HookActive
    <2>2. CASE HookEnds(h, "swallowed")
      BY <1>1, <2>1, <2>2
    <2>3. CASE hook' = [hook EXCEPT ![h].pc = "notify"]
      BY <2>1, <2>3 DEF HookActive
    <2> QED BY <1>6, <2>2, <2>3 DEF SendCredit
  <1> QED BY <1>2, <1>3, <1>4, <1>5, <1>6 DEF HookStep

\* A credit is one of the ledger: paid, the first of its delivery, and to
\* the transaction that the charge paid for.
LEMMA SendCredits ==
  ASSUME Closed, AllInv, LateInv, NEW h \in Hooks, SendCredit(h)
  PROVE  LateInv' /\ [Ledger!LedgerNext]_(Ledger!ledgerVars)
  <1> DEFINE c == hook[h].charge
             m == [hook |-> h, tx |-> hook[h].tx, charge |-> c]
  <1>1. /\ hook[h].pc = "send" /\ sqs' = sqs \cup {m} /\ UNCHANGED <<omise, notices>>
    BY DEF SendCredit
  <1>2. /\ c \in Charges /\ hook[h].status = "successful" /\ Paid(c)
        /\ hook[h].tx = omise[c].tx /\ omise[c].tx \in Tx
    BY <1>1, DeliveryKnows DEF DeliveryIsOwn, Begun, Paid, AllInv, OwnInv, ChargesAreOwn
  <1>3. ~Ledger!CreditedBy(h)
    BY <1>1 DEF Ledger!CreditedBy, AllInv, CreditInv, MessagesAreLate, AfterSend
  <1>4. HookMoves(h)
    BY HookStepMoves DEF HookStep
  <1>5. PaidFor[c] = omise[c].tx /\ omise[c].tx # Null /\ PaidFor' = PaidFor
    BY <1>1, <1>2, SamePaid, MarkersAssumption DEF PaidFor
  <1>6. Ledger!CreditPayment(h, c)
    <2>1. m = [hook |-> h, tx |-> PaidFor[c], charge |-> c]
      BY <1>2, <1>5
    <2> HIDE DEF m
    <2> QED BY <1>1, <1>3, <1>5, <2>1 DEF Ledger!CreditPayment
  <1>7. LateInv'
    <2>1. \A g \in Hooks : \/ hook'[g] = hook[g]
                           \/ g = h /\ hook'[g].status = "successful"
      BY <1>1, <1>2, <1>4 DEF HookMoves
    <2>2. \A k \in sqs' : k.hook \in Hooks /\ hook'[k.hook].status = "successful"
      <3>1. m.hook = h /\ \A k \in sqs : k.hook \in Hooks
        BY DEF AllInv, TypeInv, TypeOK, HookTypeOK, Credit
      <3>2. hook'[h].status = "successful"
        BY <1>1, <1>2, <1>4 DEF HookMoves
      <3> HIDE DEF m
      <3> QED BY <1>1, <2>1, <3>1, <3>2 DEF LateInv
    <2>3. \A n \in notices : n.hook \in Hooks /\ n.hook # h
      BY <1>1 DEF LateInv, HookEnded, AllInv, TypeInv, TypeOK, HookTypeOK, Notice
    <2> QED BY <1>1, <1>4, <2>2, <2>3 DEF LateInv, HookMoves
  <1> QED BY <1>2, <1>6, <1>7 DEF Ledger!LedgerNext

\* A notification is one of the ledger: the only one of its delivery, of a
\* success after its credit, of a failure without one.
LEMMA PushTells ==
  ASSUME Closed, AllInv, LateInv, NEW h \in Hooks, PushNotification(h)
  PROVE  LateInv' /\ [Ledger!LedgerNext]_(Ledger!ledgerVars)
  <1> DEFINE c == hook[h].charge
             s == hook[h].status
             n == [hook |-> h, charge |-> c, status |-> s]
  <1>1. /\ hook[h].pc = "notify" /\ notices' = notices \cup {n}
        /\ UNCHANGED <<omise, sqs>>
    BY DEF PushNotification
  <1>2. c \in Charges /\ s \in {"successful", "failed"}
    BY <1>1, DeliveryKnows DEF Begun
  <1>3. \A k \in notices : k.hook \in Hooks /\ k.hook # h
    BY <1>1 DEF LateInv, HookEnded, AllInv, TypeInv, TypeOK, HookTypeOK, Notice
  <1>4. IF s = "successful" THEN \E m \in sqs : m.hook = h /\ m.charge = c
                            ELSE ~Ledger!CreditedBy(h)
    BY <1>1 DEF AllInv, CreditInv, CreditIsSent, LateInv, Ledger!CreditedBy
  <1>5. Ledger!Tell(h, c, s)
    <2> HIDE DEF n
    <2>1. notices' = notices \cup {[hook |-> h, charge |-> c, status |-> s]}
      BY <1>1 DEF n
    <2> QED BY <1>1, <1>3, <1>4, <2>1, SamePaid DEF Ledger!Tell
  <1>6. hook'[h].pc \in HookEnded /\ hook'[h].status = s
    <2>1. PICK how \in {"recorded", "swallowed"} : HookEnds(h, how)
      BY DEF PushNotification
    <2> QED BY <2>1 DEF HookEnds, HookEnded, NoDelivery, AllInv, TypeInv, TypeOK, HookTypeOK
  <1>7. HookMoves(h)
    BY HookStepMoves DEF HookStep
  <1>8. LateInv'
    <2>1. \A m \in sqs : m.hook \in Hooks
      BY DEF AllInv, TypeInv, TypeOK, HookTypeOK, Credit
    <2>2. \A m \in sqs : hook'[m.hook].status = "successful"
      BY <1>6, <1>7, <2>1 DEF LateInv, HookMoves
    <2>3. \A k \in notices : hook'[k.hook].pc \in HookEnded
      BY <1>3, <1>7 DEF LateInv, HookMoves
    <2>4. hook'[n.hook].pc \in HookEnded
      BY <1>6
    <2> HIDE DEF n
    <2> QED BY <1>1, <2>2, <2>3, <2>4 DEF LateInv
  <1> QED BY <1>2, <1>5, <1>8 DEF Ledger!LedgerNext

LEMMA CallbackImplements ==
  ASSUME Closed, AllInv, LateInv, CallbackNext
  PROVE  LateInv' /\ [Ledger!LedgerNext]_(Ledger!ledgerVars)
  <1>1. PICK h \in Hooks :
          \/ \E c \in AllCharges, s \in Statuses, e \in Envelopes : Deliver(h, c, s, e)
          \/ HookStep(h)
    BY DEF CallbackNext
  <1>2. CASE UNCHANGED <<omise, sqs, notices>>
    <2>1. HookMoves(h)
      BY <1>1, HookStepMoves
    <2>2. LateInv'
      BY <1>2, <2>1, LateStays DEF HookMoves
    <2> QED BY <1>2, <2>2, SamePaid DEF Ledger!ledgerVars
  <1>3. CASE SendCredit(h)
    BY <1>3, SendCredits
  <1>4. CASE PushNotification(h)
    BY <1>4, PushTells
  <1>5. CASE \/ FindCharge(h) \/ FindTransaction(h) \/ NoTransaction(h)
             \/ LoadForHookSave(h) \/ CommitHookSave(h) \/ FailAfterHookSave(h)
             \/ HookSaveConflicts(h) \/ NoTag(h) \/ HookCallFails(h)
    BY <1>2, <1>5 DEF FindCharge, FindTransaction, NoTransaction, LoadForHookSave,
       CommitHookSave, FailAfterHookSave, HookSaveConflicts, NoTag, HookCallFails
  <1>6. CASE \E c \in AllCharges, s \in Statuses, e \in Envelopes : Deliver(h, c, s, e)
    BY <1>2, <1>6 DEF Deliver
  <1> QED BY <1>1, <1>3, <1>4, <1>5, <1>6 DEF HookStep

----------------------------------------------------------------------------
LEMMA InitLedger == Init => LateInv /\ Ledger!LedgerInit
  BY DEF Init, HookInit, OmiseInit, NoCharge, LateInv, Ledger!LedgerInit, PaidFor, Paid,
     AllCharges

LEMMA StepLedger ==
  ASSUME Closed, AllInv, LateInv, [Next]_vars
  PROVE  LateInv' /\ [Ledger!LedgerNext]_(Ledger!ledgerVars)
  <1>1. CASE UNCHANGED vars
    <2>1. UNCHANGED <<omise, hook, sqs, notices>>
      BY <1>1 DEF vars
    <2> QED BY <2>1, SamePaid DEF LateInv, Ledger!ledgerVars
  <1>2. CASE PaymentNext /\ UNCHANGED hookVars
    BY <1>2, PaymentPays DEF hookVars, LateInv
  <1>3. CASE CallbackNext
    BY <1>3, CallbackImplements
  <1>4. CASE ProviderNext
    BY <1>4, ProviderPays DEF ProviderNext, LateInv
  <1>5. CASE CrashNext
    <2> PICK P \in SUBSET Tx, C \in SUBSET Charges, H \in SUBSET Hooks : Crash(P, C, H)
      BY <1>5 DEF CrashNext
    <2>1. UNCHANGED <<omise, sqs, notices>>
      BY DEF Crash
    <2>2. \A h \in Hooks : \/ hook'[h] = hook[h]
                           \/ /\ hook[h].pc \notin HookEnded
                              /\ hook'[h].status = hook[h].status
      BY DEF Crash, NoDelivery, HookActive, HookEnded
    <2>3. LateInv'
      BY <2>1, <2>2, LateStays
    <2> QED BY <2>1, <2>3, SamePaid DEF Ledger!ledgerVars
  <1> QED BY <1>1, <1>2, <1>3, <1>4, <1>5 DEF Next, ServiceNext

\* The service implements the ledger: charges are paid once, credits are of
\* paid charges, once per delivery and to the payment's transaction, and the
\* news follows the credit.
THEOREM LedgerIsImplemented ==
  ASSUME Closed
  PROVE  Spec => ImplementsLedger
  <1>1. Init => LateInv /\ Ledger!LedgerInit
    BY InitLedger
  <1>2. AllInv /\ LateInv /\ [Next]_vars =>
          LateInv' /\ [Ledger!LedgerNext]_(Ledger!ledgerVars)
    BY StepLedger
  <1> QED BY <1>1, <1>2, AlwaysAllInv, PTL DEF Spec, ImplementsLedger, Ledger!LedgerSpec
=============================================================================
