---------------------------- MODULE CreditProofs ----------------------------
(***************************************************************************)
(* What holds of credits and notifications whatever the provider and the   *)
(* clients do: even if a source is charged twice, even for the charges of  *)
(* other programs.                                                         *)
(***************************************************************************)
EXTENDS PaymentSystemProofs

\* Where a delivery is that has not saved its log, and one that may have
\* sent its message.
BeforeSave == {"idle", "validate", "find", "load", "commit"}
AfterSend  == {"notify", "swallowed", "recorded", "crashed"}

\* A charge is made by its request, once.
ChargeIsNew == \A c \in Charges :
  chg[c].pc \in {"idle", "type", "find", "create"} => ~Made(c)

\* A body tells a status that its charge has had.
BodyIsTrue == \A h \in Hooks :
  hook[h].pc # "idle" => hook[h].status \in omise[hook[h].charge].statuses

\* A save writes no status but that of its body.
PlanIsOfBody == \A h \in Hooks :
  /\ hook[h].plan.status \in {Keep, hook[h].status}
  /\ hook[h].pc = "idle" => hook[h].plan.status = Keep

\* The log is there when the message and the notification are sent, and not
\* before.
LogIsSaved == \A h \in Hooks :
  /\ hook[h].pc \in BeforeSave => logs[h].status = Null
  /\ hook[h].pc \in {"send", "notify"} => logs[h].status = hook[h].status

CreditIsSent == \A h \in Hooks :
  hook[h].pc = "notify" /\ hook[h].status = "successful" =>
    \E m \in sqs : m.hook = h /\ m.charge = hook[h].charge

MessagesAreLate ==
  /\ \A m \in sqs : hook[m.hook].pc \in AfterSend
  /\ \A n \in notices : hook[n.hook].pc \in AfterSend

CreditInv == /\ ChargeIsNew /\ BodyIsTrue /\ PlanIsOfBody /\ LogIsSaved /\ CreditIsSent
             /\ MessagesAreLate
             /\ CreditOnlyPaid /\ CreditedIsRecorded /\ NoticeFollowsCredit
             /\ StatusIsLogged /\ RecordedIsCredited

\* A save changes the status of no log but the new one, and of no row but
\* its own, to the planned one.
LEMMA CommitStatuses ==
  ASSUME StoreTypeOK, NEW t \in Tx, NEW plan \in Plan, NEW new \in LogIds,
         NEW status \in Statuses, CommitSave(t, plan, new, status)
  PROVE  /\ logs'[new].status = status
         /\ \A l \in LogIds \ {new} : logs'[l].status = logs[l].status
         /\ \A u \in Tx : rows'[u].status # rows[u].status =>
              u = t /\ plan.status # Keep /\ rows'[u].status = plan.status
  BY DEF StoreTypeOK, CommitSave, Log, Row, Written

\* What the payment requests and the provider do keeps the invariant: they
\* save no webhook's log, settle no row and leave the deliveries alone.
LEMMA OthersKeep ==
  ASSUME TypeInv, CreditInv, UNCHANGED hookVars, ChargeIsNew',
         \A h \in Hooks : logs'[h].status = logs[h].status,
         \A c \in AllCharges : omise[c].statuses \subseteq omise'[c].statuses,
         \A t \in Tx : rows'[t].status \in {rows[t].status, "pending"}
  PROVE  CreditInv'
  <1> USE DEF hookVars, CreditInv, TypeInv
  <1>1. BodyIsTrue' /\ PlanIsOfBody'
    BY DEF BodyIsTrue, PlanIsOfBody, HookProgress
  <1>2. LogIsSaved' /\ CreditIsSent' /\ MessagesAreLate'
    BY DEF LogIsSaved, CreditIsSent, MessagesAreLate
  <1>3. sqs \subseteq Credit /\ notices \subseteq Notice
    BY DEF TypeOK, HookTypeOK
  <1>4. CreditOnlyPaid' /\ CreditedIsRecorded' /\ NoticeFollowsCredit'
    BY <1>3 DEF CreditOnlyPaid, CreditedIsRecorded, NoticeFollowsCredit, Paid,
       Credit, Notice
  <1>5. StatusIsLogged' /\ RecordedIsCredited'
    BY DEF StatusIsLogged, Exists, RecordedIsCredited
  <1> QED BY <1>1, <1>2, <1>4, <1>5

LEMMA NullIsNoStatus == Null \notin Statuses /\ Null # "successful"
  BY MarkersAssumption DEF Statuses

\* So does a step of a delivery that saves nothing and sends nothing.
LEMMA MoveKeeps ==
  ASSUME TypeInv, CreditInv, UNCHANGED <<rows, logs, omise, chg, sqs, notices>>,
         NEW h \in Hooks, NEW r \in Delivery, hook' = [hook EXCEPT ![h] = r],
         r.status \in omise[r.charge].statuses,
         r.plan.status \in {Keep, r.status},
         r.pc \notin {"idle", "send", "notify"},
         r.pc \in BeforeSave => hook[h].pc \in BeforeSave,
         hook[h].pc \in AfterSend => r.pc \in AfterSend,
         hook[h].pc \notin HookEnded,
         hook[h].pc = "send" => Faults /\ r.pc = "swallowed",
         hook[h].pc # "idle" => r.charge = hook[h].charge
  PROVE  CreditInv'
  <1> USE DEF CreditInv, TypeInv, TypeOK, HookTypeOK
  <1>1. ChargeIsNew' /\ BodyIsTrue' /\ PlanIsOfBody'
    BY DEF ChargeIsNew, Made, BodyIsTrue, PlanIsOfBody
  <1>2. LogIsSaved' /\ CreditIsSent' /\ MessagesAreLate'
    BY DEF LogIsSaved, CreditIsSent, MessagesAreLate
  <1>3. CreditOnlyPaid' /\ CreditedIsRecorded' /\ NoticeFollowsCredit' /\ StatusIsLogged'
    BY DEF CreditOnlyPaid, CreditedIsRecorded, NoticeFollowsCredit, StatusIsLogged,
       Paid, Exists
  <1>4. RecordedIsCredited'
    <2>1. hook[h].pc \in BeforeSave => logs[h].status # "successful"
      BY NullIsNoStatus DEF LogIsSaved
    <2>2. hook'[h] = r /\ \A g \in Hooks \ {h} : hook'[g] = hook[g]
      OBVIOUS
    <2> QED BY <2>1, <2>2 DEF RecordedIsCredited, BeforeSave, HookEnded
  <1> QED BY <1>1, <1>2, <1>3, <1>4

LEMMA InitCredit == Init => CreditInv
  BY NullIsNoStatus DEF Init, StoreInit, OmiseInit, PayInit, HookInit, NoCharge, ChargeIsNew, Made, NoRow, NoLog, NoDelivery, NoPlan,
     AllCharges, CreditInv, BodyIsTrue, PlanIsOfBody, LogIsSaved, CreditIsSent, MessagesAreLate,
     CreditOnlyPaid, CreditedIsRecorded, NoticeFollowsCredit, StatusIsLogged,
     RecordedIsCredited, Exists, LogIds

LEMMA PaymentKeepsCredit ==
  ASSUME TypeInv, CreditInv, PaymentNext, UNCHANGED hookVars
  PROVE  CreditInv'
  <1> USE DEF TypeInv, TypeOK
  <1>1. ChargeIsNew
    BY DEF CreditInv
  <1>2. CASE UNCHANGED <<rows, logs, omise>>
    <2> DEFINE New == {"idle", "type", "find", "create"}
    <2>1. UNCHANGED chg => ChargeIsNew'
      BY <1>1, <1>2 DEF ChargeIsNew, Made
    <2>2. ASSUME NEW c \in Charges,
                 \/ \E t \in Tx, s \in Sources : RequestCharge(c, t, s)
                 \/ ChargeStep(c)
          PROVE  /\ \A d \in Charges \ {c} : chg'[d] = chg[d]
                 /\ chg'[c].pc \in New => chg[c].pc \in New
      <3> USE DEF PayTypeOK, ChargeGoes, ChargeSaveEnds
      <3>1. CASE \E t \in Tx, s \in Sources : RequestCharge(c, t, s)
        BY <3>1 DEF RequestCharge
      <3>2. CASE FindPaymentType(c) \/ FindTransactionOrFail(c)
        BY <3>2 DEF FindPaymentType, FindTransactionOrFail
      <3>3. CASE CreateOmiseCharge(c) \/ OmiseRefuses(c)
        BY <3>3 DEF CreateOmiseCharge, OmiseRefuses
      <3>4. CASE LoadForChargeSave(c)
        BY <3>4 DEF LoadForChargeSave
      <3>5. CASE CommitChargeSave(c) \/ ChargeSaveConflicts(c) \/ ChargeCallFails(c)
        <4>1. PICK to \in {"answered", "failed"} :
                chg' = [chg EXCEPT ![c] = [@ EXCEPT !.pc = to, !.plan = NoPlan]]
          BY <3>5 DEF CommitChargeSave, ChargeSaveConflicts, ChargeCallFails
        <4> QED BY <4>1
      <3> QED BY <2>2, <3>1, <3>2, <3>3, <3>4, <3>5 DEF ChargeStep
    <2>3. ChargeIsNew'
      BY <1>1, <1>2, <2>1, <2>2
      DEF ChargeIsNew, Made, PaymentNext, RequestPay, PayStep, GetTokenPackage,
          SaveNewTransaction, InsertFails
    <2> QED BY <1>2, <2>3, OthersKeep
  <1>3. ASSUME NEW t \in Tx, SaveNewTransaction(t) PROVE CreditInv'
    <2>1. \A u \in Tx : rows'[u].status \in {rows[u].status, "pending"}
      BY <1>3 DEF SaveNewTransaction, InsertRow, StoreTypeOK
    <2>2. ChargeIsNew'
      BY <1>1, <1>3 DEF SaveNewTransaction, ChargeIsNew, Made
    <2> QED BY <1>3, <2>1, <2>2, OthersKeep DEF SaveNewTransaction, InsertRow
  <1>4. ASSUME NEW c \in Charges, CreateOmiseCharge(c) PROVE CreditInv'
    <2>1. c \in AllCharges
      BY DEF AllCharges
    <2>2. omise[c].statuses = {}
      BY <1>1, <1>4 DEF ChargeIsNew, Made, CreateOmiseCharge, ChargeGoes
    <2>3. \A d \in AllCharges : omise[d].statuses \subseteq omise'[d].statuses
      BY <1>4, <2>1, <2>2 DEF CreateOmiseCharge, CreateCharge, OmiseTypeOK
    <2>4. ChargeIsNew'
      BY <1>1, <1>4
      DEF CreateOmiseCharge, CreateCharge, ChargeGoes, ChargeIsNew, Made, OmiseTypeOK,
          PayTypeOK, AllCharges
    <2> QED BY <1>4, <2>3, <2>4, OthersKeep DEF CreateOmiseCharge
  <1>5. ASSUME NEW c \in Charges, CommitChargeSave(c) PROVE CreditInv'
    <2>1. /\ chg[c].tx \in Tx
          /\ chg[c].plan \in Plan
          /\ chg[c].plan.status = Keep
      BY <1>5 DEF CommitChargeSave, ChargeSaveEnds, ChargeProgress, PayTypeOK
    <2>2. c \in LogIds /\ "pending" \in Statuses /\ \A h \in Hooks : h \in LogIds \ {c}
      BY ParticipantsAssumption DEF LogIds, Statuses
    <2>3. CommitSave(chg[c].tx, chg[c].plan, c, "pending") /\ UNCHANGED omise
      BY <1>5 DEF CommitChargeSave
    <2>4. /\ \A h \in Hooks : logs'[h].status = logs[h].status
          /\ \A t \in Tx : rows'[t].status = rows[t].status
      BY <2>1, <2>2, <2>3, CommitStatuses
    <2>5. PICK to \in {"answered", "failed"} :
            chg' = [chg EXCEPT ![c] = [@ EXCEPT !.pc = to, !.plan = NoPlan]]
      BY <1>5 DEF CommitChargeSave, ChargeSaveEnds
    <2>6. chg'[c].pc = to /\ \A d \in Charges \ {c} : chg'[d] = chg[d]
      BY <2>5 DEF PayTypeOK
    <2>7. ChargeIsNew'
      BY <1>1, <2>3, <2>6 DEF ChargeIsNew, Made
    <2> QED BY <1>5, <2>3, <2>4, <2>7, OthersKeep
  \* All other steps are of the first case.
  <1>6. ASSUME NEW t \in Tx, RequestPay(t) \/ GetTokenPackage(t) \/ InsertFails(t)
        PROVE  UNCHANGED <<rows, logs, omise>>
    BY <1>6 DEF RequestPay, GetTokenPackage, InsertFails
  <1>7. ASSUME NEW c \in Charges,
               \/ \E t \in Tx, s \in Sources : RequestCharge(c, t, s)
               \/ FindPaymentType(c) \/ FindTransactionOrFail(c) \/ OmiseRefuses(c)
               \/ LoadForChargeSave(c) \/ ChargeSaveConflicts(c) \/ ChargeCallFails(c)
        PROVE  UNCHANGED <<rows, logs, omise>>
    BY <1>7 DEF RequestCharge, FindPaymentType, FindTransactionOrFail, OmiseRefuses,
       LoadForChargeSave, ChargeSaveConflicts, ChargeCallFails
  <1> QED
    BY <1>2, <1>3, <1>4, <1>5, <1>6, <1>7 DEF PaymentNext, PayStep, ChargeStep

LEMMA ProviderKeepsCredit ==
  ASSUME TypeInv, CreditInv, ProviderNext
  PROVE  CreditInv'
  <1> USE DEF TypeInv, TypeOK
  <1>1. \A c \in AllCharges : omise[c].statuses \subseteq omise'[c].statuses
    <2>1. ASSUME NEW f \in Foreign, CreateForeignCharge(f)
          PROVE  \A c \in AllCharges : omise[c].statuses \subseteq omise'[c].statuses
      BY <2>1 DEF CreateForeignCharge, Made, OmiseTypeOK, AllCharges
    <2>2. ASSUME NEW d \in AllCharges, SettleCharge(d)
          PROVE  \A c \in AllCharges : omise[c].statuses \subseteq omise'[c].statuses
      BY <2>2 DEF SettleCharge, OmiseTypeOK
    <2> QED BY <2>1, <2>2 DEF ProviderNext
  <1>2. \A c \in Charges : Made(c)' => Made(c)
    BY ParticipantsAssumption
    DEF ProviderNext, CreateForeignCharge, SettleCharge, Made, OmiseTypeOK, AllCharges
  <1>3. ChargeIsNew'
    BY <1>2 DEF CreditInv, ChargeIsNew, ProviderNext
  <1> QED BY <1>1, <1>3, OthersKeep DEF ProviderNext, hookVars

LEMMA CrashKeepsCredit ==
  ASSUME TypeInv, CreditInv, CrashNext
  PROVE  CreditInv'
  <1> PICK P \in SUBSET Tx, C \in SUBSET Charges, H \in SUBSET Hooks : Crash(P, C, H)
    BY DEF CrashNext
  <1> USE DEF TypeInv, TypeOK, CreditInv
  <1>1. /\ UNCHANGED <<rows, logs, omise, sqs, notices>>
        /\ \A h \in Hooks :
             \/ hook'[h] = hook[h]
             \/ /\ hook[h].pc \in HookActive /\ hook'[h].pc = "crashed"
                /\ hook'[h].charge = hook[h].charge /\ hook'[h].status = hook[h].status
                /\ hook'[h].plan.status = Keep
    BY DEF Crash, NoDelivery, NoPlan
  <1>2. ChargeIsNew'
    BY DEF Crash, ChargeIsNew, Made, ChargeActive, PayTypeOK
  <1>3. BodyIsTrue' /\ PlanIsOfBody'
    BY <1>1 DEF BodyIsTrue, PlanIsOfBody, HookActive
  <1>4. LogIsSaved' /\ CreditIsSent'
    BY <1>1 DEF LogIsSaved, CreditIsSent, BeforeSave
  <1>5. MessagesAreLate'
    BY <1>1 DEF MessagesAreLate, AfterSend, HookTypeOK, Credit, Notice
  <1>6. CreditOnlyPaid' /\ CreditedIsRecorded' /\ NoticeFollowsCredit' /\ StatusIsLogged'
    BY <1>1 DEF CreditOnlyPaid, CreditedIsRecorded, NoticeFollowsCredit, StatusIsLogged,
       Paid, Exists
  <1>7. RecordedIsCredited'
    BY <1>1 DEF RecordedIsCredited
  <1> QED BY <1>2, <1>3, <1>4, <1>5, <1>6, <1>7

\* The save of a delivery: its log and perhaps its row take its status, and
\* the delivery goes where it has not sent anything.
LEMMA SaveKeeps ==
  ASSUME TypeInv, CreditInv, UNCHANGED <<omise, chg, sqs, notices>>,
         NEW h \in Hooks, hook[h].pc = "commit", HookSaveWrites(h),
         NEW r \in Delivery, hook' = [hook EXCEPT ![h] = r],
         r.charge = hook[h].charge, r.status = hook[h].status, r.plan.status = Keep,
         r.pc \in {"send", "notify", "recorded", "swallowed"},
         r.pc = "notify" => r.status = "failed",
         r.status = "successful" => r.pc = "send" \/ (Faults /\ r.pc = "swallowed")
  PROVE  CreditInv'
  <1> USE DEF TypeInv, TypeOK, CreditInv, HookTypeOK
  <1>1. /\ hook[h].tx \in Tx /\ hook[h].plan \in Plan /\ hook[h].status \in Statuses
        /\ h \in LogIds
    BY DEF HookProgress, LogIds
  <1>2. /\ logs'[h].status = hook[h].status
        /\ \A l \in LogIds \ {h} : logs'[l].status = logs[l].status
        /\ \A u \in Tx : rows'[u].status # rows[u].status =>
             rows'[u].status = hook[h].status
    BY <1>1, CommitStatuses DEF HookSaveWrites, PlanIsOfBody
  <1>3. Hooks \subseteq LogIds
    BY DEF LogIds
  <1>4. hook'[h] = r /\ \A g \in Hooks \ {h} : hook'[g] = hook[g]
    OBVIOUS
  <1>5. logs[h].status = Null /\ \A m \in sqs \cup notices : m.hook # h
    BY DEF LogIsSaved, BeforeSave, MessagesAreLate, AfterSend
  <1>6. ChargeIsNew' /\ BodyIsTrue' /\ PlanIsOfBody'
    BY <1>4 DEF ChargeIsNew, Made, BodyIsTrue, PlanIsOfBody
  <1>7. LogIsSaved' /\ CreditIsSent'
    BY <1>2, <1>3, <1>4 DEF LogIsSaved, CreditIsSent, BeforeSave
  <1>8. MessagesAreLate'
    BY <1>4, <1>5 DEF MessagesAreLate, Credit, Notice
  <1>9. \A g \in Hooks : g # h => logs'[g].status = logs[g].status
    BY <1>2, <1>3
  <1>10. CreditOnlyPaid' /\ CreditedIsRecorded' /\ NoticeFollowsCredit'
    BY <1>5, <1>9 DEF CreditOnlyPaid, Paid, CreditedIsRecorded, NoticeFollowsCredit,
       Credit, Notice
  <1>11. StatusIsLogged'
    <2> SUFFICES ASSUME NEW t \in Tx, (Exists(t) /\ rows[t].status # "pending")'
                 PROVE  \E g \in Hooks : logs'[g].status = rows'[t].status
      BY DEF StatusIsLogged
    <2>1. CASE rows'[t].status # rows[t].status
      BY <1>2, <2>1
    <2>2. CASE rows'[t].status = rows[t].status
      <3>1. PICK g \in Hooks : logs[g].status = rows[t].status
        BY <2>2 DEF StatusIsLogged, Exists
      <3>2. g # h
        BY <1>5, <2>2, <3>1 DEF Exists
      <3> QED BY <1>9, <2>2, <3>1, <3>2
    <2> QED BY <2>1, <2>2
  <1>12. RecordedIsCredited'
    BY <1>2, <1>4, <1>9 DEF RecordedIsCredited
  <1> QED BY <1>6, <1>7, <1>8, <1>10, <1>11, <1>12

\* A message or a notification that is sent leaves the tables alone.
LEMMA SendKeeps ==
  ASSUME TypeInv, CreditInv, NEW h \in Hooks, SendCredit(h), UNCHANGED payVars
  PROVE  CreditInv'
  <1> USE DEF TypeInv, TypeOK, CreditInv, HookTypeOK
  <1> DEFINE m == [hook |-> h, tx |-> hook[h].tx, charge |-> hook[h].charge]
  <1>1. /\ UNCHANGED <<rows, logs, omise, chg, notices>> /\ sqs' = sqs \cup {m}
        /\ hook[h].pc = "send" /\ hook[h].status = "successful"
        /\ logs[h].status = "successful"
        /\ hook[h].status \in omise[hook[h].charge].statuses
    BY DEF SendCredit, payVars, LogIsSaved, BodyIsTrue, HookProgress
  <1>2. /\ hook'[h].pc \in {"notify", "swallowed"}
        /\ hook'[h].charge = hook[h].charge /\ hook'[h].status = hook[h].status
        /\ hook'[h].plan.status \in {Keep, hook[h].status}
        /\ \A g \in Hooks \ {h} : hook'[g] = hook[g]
    <2>1. hook[h].plan.status \in {Keep, hook[h].status}
      BY DEF PlanIsOfBody
    <2>2. CASE hook' = [hook EXCEPT ![h].pc = "notify"]
      BY <2>1, <2>2
    <2>3. CASE HookEnds(h, "swallowed")
      BY <2>3 DEF HookEnds, NoDelivery, NoPlan
    <2> QED BY <2>2, <2>3 DEF SendCredit
  <1>3. ChargeIsNew' /\ BodyIsTrue' /\ PlanIsOfBody'
    BY <1>1, <1>2 DEF ChargeIsNew, Made, BodyIsTrue, PlanIsOfBody
  <1>4. LogIsSaved' /\ MessagesAreLate'
    BY <1>1, <1>2 DEF LogIsSaved, BeforeSave, MessagesAreLate, AfterSend, Credit, Notice
  <1>5. CreditIsSent'
    <2>1. m \in sqs' /\ m.hook = h /\ m.charge = hook'[h].charge
      BY <1>1, <1>2
    <2>2. ASSUME NEW g \in Hooks, g # h, (hook[g].pc = "notify" /\ hook[g].status = "successful")'
          PROVE  \E k \in sqs' : k.hook = g /\ k.charge = hook'[g].charge
      BY <1>1, <1>2, <2>2 DEF CreditIsSent
    <2> HIDE DEF m
    <2> QED BY <2>1, <2>2 DEF CreditIsSent
  <1>6. CreditOnlyPaid' /\ CreditedIsRecorded' /\ NoticeFollowsCredit' /\ StatusIsLogged'
    BY <1>1 DEF CreditOnlyPaid, Paid, CreditedIsRecorded, NoticeFollowsCredit,
       StatusIsLogged, Exists
  <1>7. RecordedIsCredited'
    <2>1. m \in sqs' /\ m.hook = h /\ m.charge = hook'[h].charge /\ sqs \subseteq sqs'
      BY <1>1, <1>2
    <2> HIDE DEF m
    <2> QED BY <1>1, <1>2, <2>1 DEF RecordedIsCredited
  <1> QED BY <1>3, <1>4, <1>5, <1>6, <1>7

LEMMA NotifyKeeps ==
  ASSUME TypeInv, CreditInv, NEW h \in Hooks, PushNotification(h), UNCHANGED payVars
  PROVE  CreditInv'
  <1> USE DEF TypeInv, TypeOK, CreditInv, HookTypeOK
  <1> DEFINE n == [hook |-> h, charge |-> hook[h].charge, status |-> hook[h].status]
  <1>1. /\ UNCHANGED <<rows, logs, omise, chg, sqs>> /\ notices' = notices \cup {n}
        /\ hook[h].pc = "notify" /\ logs[h].status = hook[h].status
        /\ hook[h].status \in omise[hook[h].charge].statuses
        /\ hook[h].status = "successful" =>
             \E m \in sqs : m.hook = h /\ m.charge = hook[h].charge
    BY DEF PushNotification, payVars, LogIsSaved, BodyIsTrue, CreditIsSent
  <1>2. /\ hook'[h].pc \in {"recorded", "swallowed"}
        /\ hook'[h].charge = hook[h].charge /\ hook'[h].status = hook[h].status
        /\ hook'[h].plan.status = Keep
        /\ \A g \in Hooks \ {h} : hook'[g] = hook[g]
    <2>1. PICK how \in {"recorded", "swallowed"} : HookEnds(h, how)
      BY DEF PushNotification
    <2> QED BY <2>1 DEF HookEnds, NoDelivery, NoPlan
  <1>3. ChargeIsNew' /\ BodyIsTrue' /\ PlanIsOfBody'
    <2>1. ChargeIsNew'
      BY <1>1 DEF ChargeIsNew, Made
    <2>2. BodyIsTrue'
      BY <1>1, <1>2 DEF BodyIsTrue
    <2>3. PlanIsOfBody'
      BY <1>2 DEF PlanIsOfBody
    <2> QED BY <2>1, <2>2, <2>3
  <1>4. LogIsSaved'
    <2>1. ASSUME NEW g \in Hooks
          PROVE  /\ hook'[g].pc \in BeforeSave => logs'[g].status = Null
                 /\ hook'[g].pc \in {"send", "notify"} => logs'[g].status = hook'[g].status
      BY <1>1, <1>2 DEF LogIsSaved, BeforeSave
    <2> QED BY <2>1 DEF LogIsSaved
  <1>5. CreditIsSent'
    <2>1. ASSUME NEW g \in Hooks, hook'[g].pc = "notify", hook'[g].status = "successful"
          PROVE  \E m \in sqs' : m.hook = g /\ m.charge = hook'[g].charge
      <3>1. g # h
        BY <1>2, <2>1
      <3> QED BY <1>1, <1>2, <2>1, <3>1 DEF CreditIsSent
    <2> QED BY <2>1 DEF CreditIsSent
  <1>6. MessagesAreLate'
    <2>1. \A g \in Hooks : hook[g].pc \in AfterSend => hook'[g].pc \in AfterSend
      BY <1>2 DEF AfterSend
    <2>2. n.hook = h /\ hook'[h].pc \in AfterSend
      BY <1>2 DEF AfterSend
    <2> HIDE DEF n
    <2> QED BY <1>1, <2>1, <2>2 DEF MessagesAreLate, Credit, Notice
  <1>7. CreditOnlyPaid' /\ CreditedIsRecorded' /\ StatusIsLogged'
    BY <1>1 DEF CreditOnlyPaid, Paid, CreditedIsRecorded, StatusIsLogged, Exists
  <1>8. NoticeFollowsCredit'
    <2>1. /\ logs'[n.hook].status = n.status
          /\ n.status = "successful" =>
               \E m \in sqs' : m.hook = n.hook /\ m.charge = n.charge
      BY <1>1
    <2> HIDE DEF n
    <2> QED BY <1>1, <2>1 DEF NoticeFollowsCredit
  <1>9. RecordedIsCredited'
    BY <1>1, <1>2 DEF RecordedIsCredited
  <1> QED BY <1>3, <1>4, <1>5, <1>6, <1>7, <1>8, <1>9

LEMMA CallbackKeepsCredit ==
  ASSUME TypeInv, CreditInv, CallbackNext, UNCHANGED payVars
  PROVE  CreditInv'
  <1> USE DEF TypeInv, TypeOK, HookTypeOK
  <1> PICK h \in Hooks :
        \/ \E c \in AllCharges, s \in Statuses, e \in Envelopes : Deliver(h, c, s, e)
        \/ HookStep(h)
    BY DEF CallbackNext
  <1>0. /\ hook[h] \in Delivery /\ UNCHANGED chg
        /\ hook[h].plan.status \in {Keep, hook[h].status}
        /\ hook[h].pc # "idle" => hook[h].status \in omise[hook[h].charge].statuses
    BY DEF Delivery, payVars, CreditInv, PlanIsOfBody, BodyIsTrue
  \* A delivery that ends.
  <1>1. ASSUME NEW how \in HookEnded, HookEnds(h, how), hook[h].pc # "idle"
        PROVE  \E r \in Delivery : /\ hook' = [hook EXCEPT ![h] = r]
                                   /\ r.charge = hook[h].charge
                                   /\ r.status = hook[h].status
                                   /\ r.plan.status = Keep
                                   /\ r.pc = how
    <2> DEFINE r == [NoDelivery EXCEPT !.pc = how, !.charge = hook[h].charge,
                                       !.status = hook[h].status]
    <2>1. r \in Delivery /\ r.charge = hook[h].charge /\ r.status = hook[h].status
          /\ r.plan.status = Keep /\ r.pc = how
      BY <1>0, NoPlanTyped DEF NoDelivery, NoPlan, Delivery
    <2> QED BY <1>1, <2>1 DEF HookEnds
  <1>2. ASSUME NEW c \in AllCharges, NEW s \in Statuses, NEW e \in Envelopes,
               Deliver(h, c, s, e)
        PROVE  CreditInv'
    <2> DEFINE to == IF e.object # "charge" THEN "ignored"
                     ELSE IF ValidEnvelope(e) THEN "validate" ELSE "rejected"
               r == [hook[h] EXCEPT !.pc = to, !.charge = c, !.status = s]
    <2>1. /\ hook' = [hook EXCEPT ![h] = r] /\ to \in {"ignored", "validate", "rejected"}
          /\ hook[h].pc = "idle" /\ s \in omise[c].statuses
          /\ UNCHANGED <<rows, logs, omise, sqs, notices>>
      BY <1>2 DEF Deliver
    <2> HIDE DEF to
    <2>2. /\ r \in Delivery /\ r.pc = to /\ r.charge = c /\ r.status = s
          /\ r.plan = hook[h].plan
      BY <1>0, <2>1 DEF Delivery, HookActive, HookEnded
    <2>3. hook[h].plan.status = Keep
      BY <2>1 DEF CreditInv, PlanIsOfBody
    <2> HIDE DEF r
    <2> QED BY <1>0, <2>1, <2>2, <2>3, MoveKeeps DEF BeforeSave, AfterSend, HookEnded
  <1>3. CASE FindCharge(h)
    <2> DEFINE r(to) == [hook[h] EXCEPT !.pc = to]
    <2>1. PICK to \in {"find", "rejected"} :
            hook[h].pc = "validate" /\ hook' = [hook EXCEPT ![h] = r(to)]
      BY <1>3 DEF FindCharge, HookGoes
    <2>2. /\ r(to) \in Delivery /\ r(to).pc = to /\ r(to).charge = hook[h].charge
          /\ r(to).status = hook[h].status /\ r(to).plan = hook[h].plan
      BY <1>0 DEF Delivery, HookActive, HookEnded
    <2>3. UNCHANGED <<rows, logs, omise, chg, sqs, notices>>
      BY <1>0, <1>3 DEF FindCharge
    <2>4. hook' = [hook EXCEPT ![h] = r(to)] /\ r(to).pc \notin {"idle", "send", "notify"}
          /\ hook[h].pc \in BeforeSave /\ hook[h].pc \notin AfterSend \cup HookEnded
          /\ hook[h].pc \notin {"idle", "send"}
      BY <2>1, <2>2 DEF BeforeSave, AfterSend, HookEnded
    <2> HIDE DEF r
    <2> QED BY <1>0, <2>2, <2>3, <2>4, MoveKeeps
  <1>4. CASE FindTransaction(h)
    <2>1. PICK t \in RowsFor(hook[h].charge) :
            hook' = [hook EXCEPT ![h] = [@ EXCEPT !.pc = "load", !.tx = t,
                       !.source = rows[t].source, !.logs = LogsOf(t)]]
      BY <1>4 DEF FindTransaction
    <2> DEFINE r == [hook[h] EXCEPT !.pc = "load", !.tx = t,
                       !.source = rows[t].source, !.logs = LogsOf(t)]
    <2>2. t \in Tx /\ rows[t].source \in Sources \cup {Null} /\ LogsOf(t) \subseteq LogIds
      BY DEF RowsFor, StoreTypeOK, Row, LogsOf
    <2>3. /\ r \in Delivery /\ r.pc = "load" /\ r.charge = hook[h].charge
          /\ r.status = hook[h].status /\ r.plan = hook[h].plan
      BY <1>0, <2>2 DEF Delivery, HookActive
    <2>4. hook' = [hook EXCEPT ![h] = r] /\ hook[h].pc = "find"
          /\ UNCHANGED <<rows, logs, omise, sqs, notices>>
      BY <1>4, <2>1 DEF FindTransaction
    <2> HIDE DEF r
    <2> QED BY <1>0, <2>3, <2>4, MoveKeeps DEF BeforeSave, AfterSend, HookEnded
  <1>5. CASE LoadForHookSave(h)
    <2> DEFINE plan == PlanSave(hook[h].tx, hook[h].source, hook[h].charge,
                                hook[h].status, hook[h].logs)
               r == [hook[h] EXCEPT !.pc = "commit", !.source = Null, !.logs = {},
                                    !.plan = plan]
    <2>1. /\ hook[h].pc = "load" /\ hook[h].tx \in Tx /\ hook[h].charge \in AllCharges
          /\ hook[h].status \in Statuses
      BY <1>5 DEF LoadForHookSave, HookProgress
    <2>2. plan \in Plan /\ plan.status \in {Keep, hook[h].status}
      BY <1>0, <2>1, PlanTyped DEF Delivery, PlanSave, Changed
    <2>3. /\ r \in Delivery /\ r.pc = "commit" /\ r.charge = hook[h].charge
          /\ r.status = hook[h].status /\ r.plan = plan
      BY <1>0, <2>2 DEF Delivery, HookActive
    <2>4. hook' = [hook EXCEPT ![h] = r] /\ UNCHANGED <<rows, logs, omise, sqs, notices>>
      BY <1>5 DEF LoadForHookSave
    <2> HIDE DEF r, plan
    <2> QED BY <1>0, <2>1, <2>2, <2>3, <2>4, MoveKeeps DEF BeforeSave, AfterSend, HookEnded
  <1>6. CASE NoTransaction(h) \/ HookSaveConflicts(h) \/ NoTag(h) \/ HookCallFails(h)
    <2>1. \E how \in {"unmatched", "swallowed"} :
            /\ HookEnds(h, how) /\ hook[h].pc \notin HookEnded \cup {"idle"}
            /\ hook[h].pc \in AfterSend => how \in AfterSend
            /\ hook[h].pc = "send" => Faults /\ how = "swallowed"
      BY <1>6 DEF NoTransaction, HookSaveConflicts, NoTag, HookCallFails, HookActive,
         HookEnded, AfterSend
    <2>2. UNCHANGED <<rows, logs, omise, chg, sqs, notices>>
      BY <1>0, <1>6 DEF NoTransaction, HookSaveConflicts, NoTag, HookCallFails
    <2> QED BY <1>0, <1>1, <2>1, <2>2, MoveKeeps DEF HookEnded, BeforeSave
  <1>7. CASE CommitHookSave(h)
    <2> DEFINE to == AfterSave(hook[h].status)
               r == [hook[h] EXCEPT !.pc = to, !.plan = NoPlan]
    <2>1. /\ hook[h].pc = "commit" /\ HookSaveWrites(h)
          /\ UNCHANGED <<omise, chg, sqs, notices>>
      BY <1>0, <1>7 DEF CommitHookSave
    <2>2. CASE to = "recorded"
      <3>1. hook[h].status # "successful" /\ HookEnds(h, "recorded")
        BY <1>7, <2>2 DEF CommitHookSave, AfterSave
      <3> HIDE DEF to
      <3> QED BY <1>1, <2>1, <3>1, SaveKeeps DEF HookEnded
    <2>3. CASE to # "recorded"
      <3>1. /\ to \in {"send", "notify"}
            /\ to = "notify" => hook[h].status = "failed"
            /\ hook[h].status = "successful" => to = "send"
        BY <2>3 DEF AfterSave
      <3>2. /\ r \in Delivery /\ r.pc = to /\ r.charge = hook[h].charge
            /\ r.status = hook[h].status /\ r.plan.status = Keep
        BY <1>0, <3>1, NoPlanTyped DEF Delivery, HookActive, NoPlan
      <3>3. hook' = [hook EXCEPT ![h] = r]
        BY <1>7, <2>3 DEF CommitHookSave
      <3> HIDE DEF r, to
      <3> QED BY <2>1, <3>1, <3>2, <3>3, SaveKeeps
    <2> QED BY <2>2, <2>3
  <1>8. CASE FailAfterHookSave(h)
    BY <1>0, <1>1, <1>8, SaveKeeps DEF FailAfterHookSave, HookEnded
  <1>9. CASE SendCredit(h)
    BY <1>9, SendKeeps
  <1>10. CASE PushNotification(h)
    BY <1>10, NotifyKeeps
  <1> QED BY <1>2, <1>3, <1>4, <1>5, <1>6, <1>7, <1>8, <1>9, <1>10 DEF HookStep

LEMMA StepCredit == TypeInv /\ CreditInv /\ [Next]_vars => CreditInv'
  <1> SUFFICES ASSUME TypeInv, CreditInv, [Next]_vars PROVE CreditInv'
    OBVIOUS
  <1>1. CASE UNCHANGED vars
    <2>1. ChargeIsNew'
      BY <1>1 DEF vars, CreditInv, ChargeIsNew, Made
    <2>2. \A t \in Tx : rows'[t].status \in {rows[t].status, "pending"}
      BY <1>1 DEF vars
    <2>3. UNCHANGED <<hookVars, omise, logs>>
      BY <1>1 DEF vars, hookVars
    <2> QED BY <2>1, <2>2, <2>3, OthersKeep
  <1> QED
    BY <1>1, PaymentKeepsCredit, CallbackKeepsCredit, ProviderKeepsCredit,
       CrashKeepsCredit
    DEF Next, ServiceNext

LEMMA AlwaysCreditInv == Spec => []CreditInv
  BY InitCredit, StepCredit, AlwaysTypeInv, PTL DEF Spec

\* No charge is credited that was not paid, in whatever order the webhooks,
\* the saves, the failures and the crashes come.
THEOREM OnlyPaidIsCredited == Spec => []CreditOnlyPaid
  <1>1. CreditInv => CreditOnlyPaid
    BY DEF CreditInv
  <1> QED BY <1>1, AlwaysCreditInv, PTL

\* Every credit has its webhook's log, stored as successful, for ever.
THEOREM CreditsAreRecorded == Spec => []CreditedIsRecorded
  <1>1. CreditInv => CreditedIsRecorded
    BY DEF CreditInv
  <1> QED BY <1>1, AlwaysCreditInv, PTL

\* A user told of a success has been credited, by the same delivery.
THEOREM NoticesFollowCredits == Spec => []NoticeFollowsCredit
  <1>1. CreditInv => NoticeFollowsCredit
    BY DEF CreditInv
  <1> QED BY <1>1, AlwaysCreditInv, PTL

\* No row is settled without a webhook's log of that status.
THEOREM StatusesAreLogged == Spec => []StatusIsLogged
  <1>1. CreditInv => StatusIsLogged
    BY DEF CreditInv
  <1> QED BY <1>1, AlwaysCreditInv, PTL

\* What a webhook has recorded as successful is credited, by itself, or will be
\* at its next step, or was cut off by an error or the death of the process.
THEOREM RecordedAreCredited == Spec => []RecordedIsCredited
  <1>1. CreditInv => RecordedIsCredited
    BY DEF CreditInv
  <1> QED BY <1>1, AlwaysCreditInv, PTL
=============================================================================
