------------------------ MODULE PaymentSystemProofs ------------------------
(***************************************************************************)
(* Theorems about PaymentSystem, for every value of its constants.         *)
(***************************************************************************)
EXTENDS PaymentSystem, TLAPS

(***************************************************************************)
(* Type correctness.  TypeOK is not inductive: the save of a request that  *)
(* has begun must be of a transaction and a status that are really there.  *)
(***************************************************************************)
ChargeProgress ==
  \A c \in Charges :
    /\ chg[c].pc # "idle" => chg[c].tx \in Tx /\ chg[c].source \in Sources
    /\ chg[c].plan.status = Keep

HookProgress ==
  \A h \in Hooks :
    /\ hook[h].pc # "idle" => hook[h].charge \in AllCharges /\ hook[h].status \in Statuses
    /\ hook[h].pc \in {"load", "commit", "send", "notify"} => hook[h].tx \in Tx
    /\ hook[h].pc = "send" => hook[h].status = "successful"
    /\ hook[h].pc = "notify" => hook[h].status \in {"successful", "failed"}

TypeInv == TypeOK /\ ChargeProgress /\ HookProgress

\* What a save is going to write is typed if the object saved is.
LEMMA PlanTyped ==
  ASSUME NEW t \in Tx, NEW source \in Sources \cup {Null},
         NEW ref \in AllCharges, NEW status \in Statuses,
         NEW listed \in SUBSET LogIds
  PROVE  /\ PlanSave(t, source, ref, status, listed) \in Plan
         /\ [PlanSave(t, source, ref, Null, listed) EXCEPT !.status = Keep] \in Plan
  BY DEF PlanSave, Plan, Changed, LogsOf

\* A typed plan leaves the tables typed.
LEMMA CommitTyped ==
  ASSUME StoreTypeOK, NEW t \in Tx, NEW plan \in Plan, NEW new \in LogIds,
         NEW status \in Statuses, CommitSave(t, plan, new, status)
  PROVE  StoreTypeOK'
  <1>1. rows' \in [Tx -> Row]
    BY DEF StoreTypeOK, CommitSave, Plan, Row, Written
  <1>2. logs' \in [LogIds -> Log]
    BY DEF StoreTypeOK, CommitSave, Log
  <1> QED BY <1>1, <1>2 DEF StoreTypeOK

LEMMA NoPlanTyped == NoPlan \in Plan
  BY DEF NoPlan, Plan

LEMMA InitTyped == Init => TypeInv
  <1> SUFFICES ASSUME Init PROVE TypeInv
    OBVIOUS
  <1>1. StoreTypeOK
    BY DEF Init, StoreInit, StoreTypeOK, NoRow, NoLog, Row, Log
  <1>2. OmiseTypeOK
    BY DEF Init, OmiseInit, OmiseTypeOK, NoCharge
  <1>3. PayTypeOK /\ ChargeProgress
    BY NoPlanTyped DEF Init, PayInit, PayTypeOK, NoRequest, ChargeProgress, NoPlan
  <1>4. HookTypeOK /\ HookProgress
    BY NoPlanTyped DEF Init, HookInit, HookTypeOK, NoDelivery, HookProgress, HookActive
  <1> QED BY <1>1, <1>2, <1>3, <1>4 DEF TypeInv, TypeOK

LEMMA PayStepTyped ==
  ASSUME TypeInv, NEW t \in Tx, RequestPay(t) \/ PayStep(t), UNCHANGED hookVars
  PROVE  TypeInv'
  <1> USE DEF TypeInv, TypeOK
  <1>1. StoreTypeOK'
    BY DEF RequestPay, PayStep, GetTokenPackage, SaveNewTransaction, InsertFails,
           InsertRow, StoreTypeOK, Row, Statuses
  <1>2. OmiseTypeOK'
    BY DEF RequestPay, PayStep, GetTokenPackage, SaveNewTransaction, InsertFails,
           OmiseTypeOK
  <1>3. PayTypeOK' /\ ChargeProgress'
    BY DEF RequestPay, PayStep, GetTokenPackage, SaveNewTransaction, InsertFails,
           PayGoes, PayTypeOK, ChargeProgress, PayActive, PayEnded
  <1>4. HookTypeOK' /\ HookProgress'
    BY DEF hookVars, HookTypeOK, HookProgress
  <1> QED BY <1>1, <1>2, <1>3, <1>4

\* A charge request that is replaced by a typed one leaves them all typed.
ChargeRequest ==
  [pc : {"idle"} \cup ChargeActive \cup ChargeEnded, tx : Tx \cup {Null},
   source : Sources \cup {Null}, plan : Plan]

LEMMA ChargeTyped ==
  ASSUME PayTypeOK, ChargeProgress, NEW c \in Charges, NEW r \in ChargeRequest,
         r.pc # "idle" => r.tx \in Tx /\ r.source \in Sources,
         r.plan.status = Keep,
         chg' = [chg EXCEPT ![c] = r], pay' = pay
  PROVE  PayTypeOK' /\ ChargeProgress'
  BY DEF PayTypeOK, ChargeProgress, ChargeRequest

LEMMA ChargeStepTyped ==
  ASSUME TypeInv, NEW c \in Charges,
         (\E t \in Tx, s \in Sources : RequestCharge(c, t, s)) \/ ChargeStep(c),
         UNCHANGED hookVars
  PROVE  TypeInv'
  <1> USE DEF TypeInv, TypeOK
  <1>0. c \in AllCharges /\ c \in LogIds /\ "pending" \in Statuses
    BY DEF AllCharges, LogIds, Statuses
  <1>1. chg[c] \in ChargeRequest /\ chg[c].plan.status = Keep
    BY DEF PayTypeOK, ChargeProgress, ChargeRequest
  <1>2. NoPlan \in Plan /\ NoPlan.status = Keep
    BY NoPlanTyped DEF NoPlan
  <1>3. chg[c].pc # "idle" => chg[c].tx \in Tx /\ chg[c].source \in Sources
    BY DEF ChargeProgress
  <1>4. HookTypeOK' /\ HookProgress'
    BY DEF hookVars, HookTypeOK, HookProgress
  <1>5. ASSUME NEW t \in Tx, NEW s \in Sources, RequestCharge(c, t, s) PROVE TypeInv'
    <2> DEFINE r == [chg[c] EXCEPT !.pc = "type", !.tx = t, !.source = s]
    <2>1. r \in ChargeRequest /\ r.tx \in Tx /\ r.source \in Sources /\ r.plan.status = Keep
      BY <1>1 DEF ChargeRequest, ChargeActive
    <2>2. chg' = [chg EXCEPT ![c] = r] /\ pay' = pay
      BY <1>5 DEF RequestCharge
    <2>3. PayTypeOK' /\ ChargeProgress'
      BY <2>1, <2>2, ChargeTyped
    <2> QED BY <1>4, <1>5, <2>3 DEF RequestCharge, StoreTypeOK, OmiseTypeOK
  \* The steps that only go on or end leave the tables and the provider alone.
  <1>6. ASSUME NEW to \in ChargeActive \cup ChargeEnded, NEW plan \in {chg[c].plan, NoPlan},
               chg[c].pc # "idle", pay' = pay,
               chg' = [chg EXCEPT ![c] = [@ EXCEPT !.pc = to, !.plan = plan]]
        PROVE  PayTypeOK' /\ ChargeProgress'
    <2> DEFINE r == [chg[c] EXCEPT !.pc = to, !.plan = plan]
    <2>1. r \in ChargeRequest /\ r.tx = chg[c].tx /\ r.source = chg[c].source
          /\ r.plan.status = Keep
      BY <1>1, <1>2 DEF ChargeRequest
    <2>2. chg' = [chg EXCEPT ![c] = r]
      BY <1>1, <1>6
    <2> QED BY <1>3, <1>6, <2>1, <2>2, ChargeTyped
  <1>7. ASSUME NEW to \in ChargeActive \cup ChargeEnded, NEW from \in ChargeActive,
               ChargeGoes(c, from, to), pay' = pay
        PROVE  PayTypeOK' /\ ChargeProgress'
    <2>1. chg' = [chg EXCEPT ![c] = [@ EXCEPT !.pc = to, !.plan = chg[c].plan]]
      BY <1>1, <1>7 DEF ChargeGoes, ChargeRequest, PayTypeOK
    <2> QED BY <1>6, <1>7, <2>1 DEF ChargeGoes, ChargeActive
  <1>8. CASE FindPaymentType(c) \/ FindTransactionOrFail(c) \/ OmiseRefuses(c)
    <2>1. PayTypeOK' /\ ChargeProgress'
      BY <1>7, <1>8 DEF FindPaymentType, FindTransactionOrFail, OmiseRefuses,
         ChargeActive, ChargeEnded
    <2> QED BY <1>4, <1>8, <2>1 DEF FindPaymentType, FindTransactionOrFail,
            OmiseRefuses, StoreTypeOK, OmiseTypeOK
  <1>9. CASE CreateOmiseCharge(c)
    <2>1. PayTypeOK' /\ ChargeProgress'
      BY <1>7, <1>9 DEF CreateOmiseCharge, ChargeActive, ChargeEnded
    <2>2. chg[c].tx \in Tx /\ chg[c].source \in Sources
      BY <1>3, <1>9 DEF CreateOmiseCharge, ChargeGoes
    <2>3. OmiseTypeOK'
      BY <1>0, <1>9, <2>2 DEF CreateOmiseCharge, CreateCharge, OmiseTypeOK, Statuses
    <2> QED BY <1>4, <1>9, <2>1, <2>3 DEF CreateOmiseCharge, StoreTypeOK
  <1>10. CASE LoadForChargeSave(c)
    <2> DEFINE plan == [PlanSave(chg[c].tx, chg[c].source, c, Null, {})
                          EXCEPT !.status = Keep]
               r == [chg[c] EXCEPT !.pc = "commit", !.plan = plan]
    <2>1. chg[c].tx \in Tx /\ chg[c].source \in Sources
      BY <1>3, <1>10 DEF LoadForChargeSave
    <2>2. plan \in Plan /\ plan.status = Keep
      BY <1>0, <2>1, PlanTyped DEF PlanSave, Statuses
    <2>3. r \in ChargeRequest /\ r.tx = chg[c].tx /\ r.source = chg[c].source
          /\ r.plan.status = Keep
      BY <1>1, <2>2 DEF ChargeRequest, ChargeActive
    <2>4. chg' = [chg EXCEPT ![c] = r] /\ pay' = pay
      BY <1>10 DEF LoadForChargeSave
    <2>5. PayTypeOK' /\ ChargeProgress'
      BY <2>1, <2>3, <2>4, ChargeTyped
    <2> QED BY <1>4, <1>10, <2>5 DEF LoadForChargeSave, StoreTypeOK, OmiseTypeOK
  <1>11. CASE CommitChargeSave(c)
    <2>1. PayTypeOK' /\ ChargeProgress'
      BY <1>6, <1>11 DEF CommitChargeSave, ChargeSaveEnds, ChargeEnded
    <2>2. chg[c].tx \in Tx /\ chg[c].plan \in Plan
      BY <1>1, <1>3, <1>11 DEF CommitChargeSave, ChargeSaveEnds, ChargeRequest
    <2>3. StoreTypeOK'
      BY <1>0, <1>11, <2>2, CommitTyped DEF CommitChargeSave
    <2> QED BY <1>4, <1>11, <2>1, <2>3 DEF CommitChargeSave, OmiseTypeOK
  <1>12. CASE ChargeSaveConflicts(c) \/ ChargeCallFails(c)
    <2>1. PayTypeOK' /\ ChargeProgress'
      BY <1>6, <1>12 DEF ChargeSaveConflicts, ChargeCallFails, ChargeSaveEnds,
         ChargeEnded, ChargeActive
    <2> QED BY <1>4, <1>12, <2>1 DEF ChargeSaveConflicts, ChargeCallFails,
            StoreTypeOK, OmiseTypeOK
  <1> QED BY <1>5, <1>8, <1>9, <1>10, <1>11, <1>12 DEF ChargeStep

\* The same for the deliveries.
Delivery ==
  [pc : {"idle"} \cup HookActive \cup HookEnded, charge : AllCharges \cup {Null},
   status : Statuses \cup {Null}, tx : Tx \cup {Null},
   source : Sources \cup {Null}, logs : SUBSET LogIds, plan : Plan]

\* What a delivery that has begun carries.
Begun(r) ==
  /\ r.pc # "idle" => r.charge \in AllCharges /\ r.status \in Statuses
  /\ r.pc \in {"load", "commit", "send", "notify"} => r.tx \in Tx
  /\ r.pc = "send" => r.status = "successful"
  /\ r.pc = "notify" => r.status \in {"successful", "failed"}

LEMMA DeliveryTyped ==
  ASSUME HookTypeOK, HookProgress, NEW h \in Hooks, NEW r \in Delivery, Begun(r),
         hook' = [hook EXCEPT ![h] = r]
  PROVE  hook' \in [Hooks -> Delivery] /\ HookProgress'
  BY DEF HookTypeOK, HookProgress, Delivery, Begun

LEMMA HookStepTyped ==
  ASSUME TypeInv, NEW h \in Hooks,
         \/ \E c \in AllCharges, s \in Statuses, e \in Envelopes : Deliver(h, c, s, e)
         \/ HookStep(h),
         UNCHANGED payVars
  PROVE  TypeInv'
  <1> USE DEF TypeInv, TypeOK
  <1>1. h \in LogIds
    BY DEF LogIds
  <1>2. hook[h] \in Delivery /\ Begun(hook[h])
    BY DEF HookTypeOK, HookProgress, Delivery, Begun
  <1>3. PayTypeOK' /\ ChargeProgress'
    BY DEF payVars, PayTypeOK, ChargeProgress
  \* A step that moves one delivery on, and touches neither the tables nor
  \* the provider, is typed if the delivery and the messages are.
  <1>4. ASSUME NEW r \in Delivery, Begun(r), hook' = [hook EXCEPT ![h] = r],
               sqs' \subseteq Credit, notices' \subseteq Notice, StoreTypeOK',
               UNCHANGED omise
        PROVE  TypeInv'
    <2>1. hook' \in [Hooks -> Delivery] /\ HookProgress'
      BY <1>4, DeliveryTyped
    <2> QED BY <1>3, <1>4, <2>1 DEF HookTypeOK, OmiseTypeOK, Delivery
  <1>5. UNCHANGED <<rows, logs>> => StoreTypeOK'
    BY DEF StoreTypeOK
  <1>6. /\ UNCHANGED sqs => sqs' \subseteq Credit
        /\ UNCHANGED notices => notices' \subseteq Notice
    BY DEF HookTypeOK
  <1>7. ASSUME NEW how \in HookEnded, HookEnds(h, how), hook[h].pc # "idle"
        PROVE  \E r \in Delivery : Begun(r) /\ hook' = [hook EXCEPT ![h] = r]
    <2> DEFINE r == [NoDelivery EXCEPT !.pc = how, !.charge = hook[h].charge,
                                       !.status = hook[h].status]
    <2>1. r \in Delivery /\ Begun(r)
      BY <1>2, <1>7, NoPlanTyped DEF NoDelivery, Delivery, Begun, HookEnded
    <2> QED BY <1>7, <2>1 DEF HookEnds
  <1>8. ASSUME NEW c \in AllCharges, NEW s \in Statuses, NEW e \in Envelopes,
               Deliver(h, c, s, e)
        PROVE  TypeInv'
    <2> DEFINE to == IF e.object # "charge" THEN "ignored"
                     ELSE IF ValidEnvelope(e) THEN "validate" ELSE "rejected"
               r == [hook[h] EXCEPT !.pc = to, !.charge = c, !.status = s]
    <2>1. hook' = [hook EXCEPT ![h] = r] /\ UNCHANGED <<rows, logs, omise, sqs, notices>>
      BY <1>8 DEF Deliver
    <2>2. to \in {"ignored", "validate", "rejected"}
      OBVIOUS
    <2> HIDE DEF to
    <2>3. r \in Delivery /\ Begun(r)
      BY <1>2, <2>2 DEF Delivery, Begun, HookActive, HookEnded
    <2> HIDE DEF r
    <2> QED BY <1>4, <1>5, <1>6, <2>1, <2>3
  <1>9. CASE FindCharge(h)
    <2> DEFINE r(to) == [hook[h] EXCEPT !.pc = to]
    <2>1. \A to \in {"find", "rejected"} : hook[h].pc = "validate" =>
            r(to) \in Delivery /\ Begun(r(to))
      BY <1>2 DEF Delivery, Begun, HookActive, HookEnded
    <2>2. \E to \in {"find", "rejected"} :
            hook[h].pc = "validate" /\ hook' = [hook EXCEPT ![h] = r(to)]
      BY <1>2, <1>9 DEF FindCharge, HookGoes, HookTypeOK
    <2> QED BY <1>4, <1>5, <1>6, <1>9, <2>1, <2>2 DEF FindCharge
  <1>10. CASE FindTransaction(h)
    <2>1. PICK t \in RowsFor(hook[h].charge) :
            hook' = [hook EXCEPT ![h] = [@ EXCEPT !.pc = "load", !.tx = t,
                       !.source = rows[t].source, !.logs = LogsOf(t)]]
      BY <1>10 DEF FindTransaction
    <2> DEFINE r == [hook[h] EXCEPT !.pc = "load", !.tx = t,
                       !.source = rows[t].source, !.logs = LogsOf(t)]
    <2>2. t \in Tx /\ rows[t].source \in Sources \cup {Null} /\ LogsOf(t) \subseteq LogIds
      BY DEF RowsFor, StoreTypeOK, Row, LogsOf
    <2>3. r \in Delivery /\ Begun(r)
      BY <1>2, <1>10, <2>2 DEF FindTransaction, Delivery, Begun, HookActive
    <2>4. hook' = [hook EXCEPT ![h] = r]
      BY <2>1
    <2> QED BY <1>4, <1>5, <1>6, <1>10, <2>3, <2>4 DEF FindTransaction
  <1>11. CASE NoTransaction(h) \/ HookSaveConflicts(h) \/ NoTag(h) \/ HookCallFails(h)
    <2>1. \E how \in HookEnded : HookEnds(h, how) /\ hook[h].pc # "idle"
      BY <1>11 DEF NoTransaction, HookSaveConflicts, NoTag, HookCallFails,
         HookEnded, HookActive
    <2>2. UNCHANGED <<rows, logs, omise, sqs, notices>>
      BY <1>11 DEF NoTransaction, HookSaveConflicts, NoTag, HookCallFails
    <2> QED BY <1>4, <1>5, <1>6, <1>7, <2>1, <2>2
  <1>12. CASE LoadForHookSave(h)
    <2> DEFINE plan == PlanSave(hook[h].tx, hook[h].source, hook[h].charge,
                                hook[h].status, hook[h].logs)
               r == [hook[h] EXCEPT !.pc = "commit", !.source = Null, !.logs = {},
                                    !.plan = plan]
    <2>1. plan \in Plan
      BY <1>2, <1>12, PlanTyped DEF LoadForHookSave, Begun, Delivery
    <2>2. r \in Delivery /\ Begun(r)
      BY <1>2, <1>12, <2>1 DEF LoadForHookSave, Delivery, Begun, HookActive
    <2>3. hook' = [hook EXCEPT ![h] = r]
      BY <1>12 DEF LoadForHookSave
    <2> QED BY <1>4, <1>5, <1>6, <1>12, <2>2, <2>3 DEF LoadForHookSave
  <1>13. ASSUME hook[h].pc = "commit", HookSaveWrites(h) PROVE StoreTypeOK'
    BY <1>1, <1>2, <1>13, CommitTyped DEF HookSaveWrites, Begun, Delivery
  <1>14. CASE CommitHookSave(h)
    <2> DEFINE to == AfterSave(hook[h].status)
               r == [hook[h] EXCEPT !.pc = to, !.plan = NoPlan]
    <2>1. CASE to = "recorded"
      <3>1. HookEnds(h, "recorded") /\ "recorded" \in HookEnded /\ hook[h].pc # "idle"
        BY <1>14, <2>1 DEF CommitHookSave, HookEnded
      <3>2. StoreTypeOK' /\ UNCHANGED <<omise, sqs, notices>>
        BY <1>13, <1>14 DEF CommitHookSave
      <3> QED BY <1>4, <1>6, <1>7, <3>1, <3>2
    <2>2. CASE to # "recorded"
      <3>1. to \in {"send", "notify"}
        BY <2>2 DEF AfterSave
      <3>2. r \in Delivery /\ Begun(r)
        BY <1>2, <1>14, <3>1, NoPlanTyped
        DEF CommitHookSave, Delivery, Begun, HookActive, AfterSave
      <3>3. hook' = [hook EXCEPT ![h] = r]
        BY <1>14, <2>2 DEF CommitHookSave
      <3>4. StoreTypeOK' /\ UNCHANGED <<omise, sqs, notices>>
        BY <1>13, <1>14 DEF CommitHookSave
      <3> QED BY <1>4, <1>6, <3>2, <3>3, <3>4
    <2> QED BY <2>1, <2>2
  <1>15. CASE FailAfterHookSave(h)
    <2>1. HookEnds(h, "swallowed") /\ "swallowed" \in HookEnded /\ hook[h].pc # "idle"
      BY <1>15 DEF FailAfterHookSave, HookEnded
    <2>2. StoreTypeOK' /\ UNCHANGED <<omise, sqs, notices>>
      BY <1>13, <1>15 DEF FailAfterHookSave
    <2> QED BY <1>4, <1>6, <1>7, <2>1, <2>2
  <1>16. CASE SendCredit(h)
    <2>1. sqs' \subseteq Credit
      BY <1>2, <1>16 DEF SendCredit, Credit, HookTypeOK, Begun
    <2>2. CASE HookEnds(h, "swallowed")
      <3>1. "swallowed" \in HookEnded /\ hook[h].pc # "idle"
        BY <1>16 DEF SendCredit, HookEnded
      <3> QED BY <1>4, <1>5, <1>6, <1>7, <1>16, <2>1, <2>2, <3>1 DEF SendCredit
    <2>3. CASE hook' = [hook EXCEPT ![h].pc = "notify"]
      <3> DEFINE r == [hook[h] EXCEPT !.pc = "notify"]
      <3>1. r \in Delivery /\ Begun(r)
        BY <1>2, <1>16 DEF SendCredit, Delivery, Begun, HookActive
      <3>2. hook' = [hook EXCEPT ![h] = r]
        BY <2>3
      <3> QED BY <1>4, <1>5, <1>6, <1>16, <2>1, <3>1, <3>2 DEF SendCredit
    <2> QED BY <1>16, <2>2, <2>3 DEF SendCredit
  <1>17. CASE PushNotification(h)
    <2>1. notices' \subseteq Notice
      BY <1>2, <1>17 DEF PushNotification, Notice, HookTypeOK, Begun
    <2>2. \E how \in HookEnded : HookEnds(h, how) /\ hook[h].pc # "idle"
      BY <1>17 DEF PushNotification, HookEnded
    <2> QED BY <1>4, <1>5, <1>6, <1>7, <1>17, <2>1, <2>2 DEF PushNotification
  <1> QED BY <1>8, <1>9, <1>10, <1>11, <1>12, <1>14, <1>15, <1>16, <1>17 DEF HookStep

LEMMA ProviderStepTyped ==
  ASSUME TypeInv, ProviderNext
  PROVE  TypeInv'
  <1> USE DEF TypeInv, TypeOK
  <1>1. OmiseTypeOK'
    <2>1. ASSUME NEW c \in Foreign, CreateForeignCharge(c) PROVE OmiseTypeOK'
      BY <2>1 DEF CreateForeignCharge, OmiseTypeOK, AllCharges, Statuses
    <2>2. ASSUME NEW c \in AllCharges, SettleCharge(c) PROVE OmiseTypeOK'
      BY <2>2 DEF SettleCharge, OmiseTypeOK
    <2> QED BY <2>1, <2>2 DEF ProviderNext
  <1>2. UNCHANGED <<rows, logs, pay, chg, hook, sqs, notices>>
    BY DEF ProviderNext
  <1>3. StoreTypeOK' /\ PayTypeOK' /\ ChargeProgress'
    BY <1>2 DEF StoreTypeOK, PayTypeOK, ChargeProgress
  <1>4. HookTypeOK' /\ HookProgress'
    BY <1>2 DEF HookTypeOK, HookProgress
  <1> QED BY <1>1, <1>3, <1>4

LEMMA CrashTyped ==
  ASSUME TypeInv, NEW P \in SUBSET Tx, NEW C \in SUBSET Charges,
         NEW H \in SUBSET Hooks, Crash(P, C, H)
  PROVE  TypeInv'
  <1> USE DEF TypeInv, TypeOK
  <1>1. StoreTypeOK' /\ OmiseTypeOK'
    BY DEF Crash, StoreTypeOK, OmiseTypeOK
  <1>2. PayTypeOK' /\ ChargeProgress'
    <2> DEFINE dead(c) == [chg[c] EXCEPT !.pc = "crashed", !.plan = NoPlan]
    <2>1. \A c \in Charges : /\ dead(c) \in ChargeRequest /\ dead(c).plan.status = Keep
                             /\ dead(c).tx = chg[c].tx /\ dead(c).source = chg[c].source
      BY NoPlanTyped DEF PayTypeOK, ChargeRequest, ChargeEnded, NoPlan
    <2>2. \A c \in Charges : chg'[c] = IF c \in C THEN dead(c) ELSE chg[c]
      BY DEF Crash
    <2>3. \A c \in C : chg[c].pc # "idle"
      BY DEF Crash, ChargeActive
    <2>4. chg' \in [Charges -> ChargeRequest]
      BY <2>1 DEF Crash, PayTypeOK, ChargeRequest
    <2>5. pay' \in [Tx -> {"idle"} \cup PayActive \cup PayEnded]
      BY DEF Crash, PayTypeOK, PayEnded
    <2> HIDE DEF dead
    <2> QED BY <2>1, <2>2, <2>3, <2>4, <2>5 DEF PayTypeOK, ChargeProgress, ChargeRequest
  <1>3. hook' \in [Hooks -> Delivery] /\ HookProgress'
    BY NoPlanTyped DEF Crash, HookTypeOK, HookProgress, Delivery, NoDelivery,
       HookEnded, HookActive
  <1>4. HookTypeOK'
    BY <1>3 DEF Crash, HookTypeOK, Delivery
  <1> QED BY <1>1, <1>2, <1>3, <1>4

LEMMA StepTyped == TypeInv /\ [Next]_vars => TypeInv'
  <1> SUFFICES ASSUME TypeInv, [Next]_vars PROVE TypeInv'
    OBVIOUS
  <1>1. CASE PaymentNext /\ UNCHANGED hookVars
    BY <1>1, PayStepTyped, ChargeStepTyped DEF PaymentNext
  <1>2. CASE CallbackNext /\ UNCHANGED payVars
    BY <1>2, HookStepTyped DEF CallbackNext
  <1>3. CASE ProviderNext
    BY <1>3, ProviderStepTyped
  <1>4. CASE CrashNext
    BY <1>4, CrashTyped DEF CrashNext
  <1>5. CASE UNCHANGED vars
    BY <1>5 DEF vars, TypeInv, TypeOK, StoreTypeOK, OmiseTypeOK, PayTypeOK,
       HookTypeOK, ChargeProgress, HookProgress
  <1> QED BY <1>1, <1>2, <1>3, <1>4, <1>5 DEF Next, ServiceNext

LEMMA AlwaysTypeInv == Spec => []TypeInv
  BY InitTyped, StepTyped, PTL DEF Spec

\* Every table, request, message and notification has its type, in whatever
\* order requests, deliveries, failures and crashes come.
THEOREM TypeCorrect == Spec => []TypeOK
  <1>1. TypeInv => TypeOK
    BY DEF TypeInv
  <1> QED BY <1>1, AlwaysTypeInv, PTL

----------------------------------------------------------------------------
(* What Repository.save promises, and what a race leaves of it. *)

\* A save works on the database that is there when it writes: it takes away
\* the logs it planned to, adds those it planned to and the new one, and
\* leaves what others have added since.
LEMMA CommitMerges ==
  ASSUME StoreTypeOK, NEW t \in Tx, NEW plan \in Plan, NEW new \in LogIds, NEW status,
         plan.attach \cap plan.detach = {}, CommitSave(t, plan, new, status)
  PROVE  /\ LogsOf(t)' = (LogsOf(t) \ plan.detach) \cup plan.attach \cup {new}
         /\ \A u \in Tx \ {t} : /\ rows'[u] = rows[u]
                                /\ LogsOf(u)' = LogsOf(u) \ (plan.attach \cup plan.detach \cup {new})
  <1>1. \A l \in LogIds :
          logs'[l].tx = IF l \in plan.attach \cup {new} THEN t
                        ELSE IF l \in plan.detach THEN Null ELSE logs[l].tx
    BY DEF CommitSave, StoreTypeOK, Log
  <1>2. Null \notin Tx /\ plan.attach \subseteq LogIds
    BY MarkersAssumption DEF Plan
  <1>3. LogsOf(t)' = (LogsOf(t) \ plan.detach) \cup plan.attach \cup {new}
    BY <1>1, <1>2 DEF LogsOf
  <1>4. ASSUME NEW u \in Tx \ {t}
        PROVE  /\ rows'[u] = rows[u]
               /\ LogsOf(u)' = LogsOf(u) \ (plan.attach \cup plan.detach \cup {new})
    BY <1>1, <1>2 DEF LogsOf, CommitSave, StoreTypeOK
  <1> QED BY <1>3, <1>4

\* A save that nothing comes between the two halves of makes the row and its
\* list of logs those of the object saved, and takes its logs from no other
\* row but the ones the object lists.
THEOREM SaveAloneIsWhole ==
  ASSUME StoreTypeOK, NEW t \in Tx, NEW source \in Sources \cup {Null},
         NEW ref \in AllCharges, NEW status \in Statuses, NEW listed \in SUBSET LogIds,
         NEW new \in LogIds,
         CommitSave(t, PlanSave(t, source, ref, status, listed), new, status)
  PROVE  /\ rows'[t] = [source |-> source, ref |-> ref, status |-> status]
         /\ LogsOf(t)' = listed \cup {new}
         /\ \A u \in Tx \ {t} : /\ rows'[u] = rows[u]
                                /\ LogsOf(u)' = LogsOf(u) \ (listed \cup {new})
  <1> DEFINE plan == PlanSave(t, source, ref, status, listed)
  <1>1. plan \in Plan /\ plan.attach = listed \ LogsOf(t) /\ plan.detach = LogsOf(t) \ listed
    BY PlanTyped DEF PlanSave
  <1>2. /\ plan.source = Changed(source, rows[t].source)
        /\ plan.ref = Changed(ref, rows[t].ref)
        /\ plan.status = Changed(status, rows[t].status)
    BY DEF PlanSave
  <1>3. \A u \in Tx \ {t} : LogsOf(u) \cap LogsOf(t) = {}
    BY DEF LogsOf
  <1>4. CommitSave(t, plan, new, status)
    OBVIOUS
  <1> HIDE DEF plan
  <1>5. rows'[t] = [source |-> source, ref |-> ref, status |-> status]
    <2>1. source # Keep /\ ref # Keep /\ status # Keep
      BY MarkersAssumption
    <2>2. \A v, old : v # Keep => Written(Changed(v, old), old) = v
      BY DEF Written, Changed
    <2>3. rows'[t] = [source |-> Written(plan.source, rows[t].source),
                      ref    |-> Written(plan.ref, rows[t].ref),
                      status |-> Written(plan.status, rows[t].status)]
      BY <1>4 DEF CommitSave, StoreTypeOK
    <2> QED BY <1>2, <2>1, <2>2, <2>3
  <1>6. /\ LogsOf(t)' = (LogsOf(t) \ plan.detach) \cup plan.attach \cup {new}
        /\ \A u \in Tx \ {t} : /\ rows'[u] = rows[u]
                               /\ LogsOf(u)' = LogsOf(u) \ (plan.attach \cup plan.detach \cup {new})
    BY <1>1, <1>4, CommitMerges
  <1> QED BY <1>1, <1>3, <1>5, <1>6
=============================================================================
