--------------------------- MODULE OwnershipProofs ---------------------------
(***************************************************************************)
(* What holds of transactions and their charges when the provider refuses  *)
(* a source that it has charged and every charge of the account is made by *)
(* this service: whatever saves race, a row, its logs and the credits that *)
(* name it belong to charges made for it.                                  *)
(***************************************************************************)
EXTENDS CreditProofs

Closed == SingleUse /\ Foreign = {}

\* A log that may hang from t: its charge was made for t.
Hangs(l, t) ==
  \/ l \in Charges /\ Made(l) /\ omise[l].tx = t
  \/ l \in Hooks /\ hook[l].pc # "idle" /\ omise[hook[l].charge].tx = t

\* A save writes the source and the reference of its charge, or neither.
Whole(plan, c) == \/ plan.source = Keep /\ plan.ref = Keep
                  \/ plan.source = omise[c].source /\ plan.ref = c

\* A charge has what its request asked for, and no other has its source.
ChargesAreOwn == \A c \in Charges : Made(c) =>
  /\ omise[c].tx \in Tx /\ chg[c].tx = omise[c].tx
  /\ omise[c].source \in Sources /\ chg[c].source = omise[c].source
  /\ \A d \in Charges : Made(d) /\ omise[d].source = omise[c].source => d = c

\* A row is inserted by its pay request, and has no source before.
RowsAreInserted == \A t \in Tx :
  /\ pay[t] \in {"idle"} \cup PayActive => ~Exists(t)
  /\ ~Exists(t) => rows[t].source = Null

RequestIsOwn(c) ==
  /\ chg[c].pc \in {"create", "load", "commit"} => Exists(chg[c].tx)
  /\ chg[c].pc \in {"load", "commit", "answered"} => Made(c)
  /\ chg[c].pc = "commit" => Whole(chg[c].plan, c) /\ chg[c].plan.attach = {}
  /\ \/ chg[c].pc = "answered"
     \/ chg[c].pc = "commit" /\ chg[c].plan.source = Keep
     => rows[chg[c].tx].source # Null

DeliveryIsOwn(h) ==
  /\ hook[h].pc \in {"load", "commit", "send", "notify"} =>
       hook[h].tx = omise[hook[h].charge].tx
  /\ hook[h].pc \in {"load", "commit"} => Exists(hook[h].tx)
  /\ hook[h].pc = "load" => /\ hook[h].source = omise[hook[h].charge].source
                            /\ \A l \in hook[h].logs : Hangs(l, hook[h].tx)
  /\ hook[h].pc = "commit" => /\ Whole(hook[h].plan, hook[h].charge)
                              /\ \A l \in hook[h].plan.attach : Hangs(l, hook[h].tx)

LogsHang == \A l \in LogIds : logs[l].tx # Null => Hangs(l, logs[l].tx)

OwnInv == /\ ChargesAreOwn /\ RowsAreInserted /\ LogsHang
          /\ \A c \in Charges : RequestIsOwn(c)
          /\ \A h \in Hooks : DeliveryIsOwn(h)
          /\ RowMatchesCharge /\ StatusIsReal /\ CreditsOwnPayment

\* The invariant of the two earlier proofs, and this one.
AllInv == TypeInv /\ CreditInv /\ OwnInv

----------------------------------------------------------------------------
(* What no step takes back. *)

ChargesStay == \A c \in Charges : Made(c) =>
  /\ Made(c)' /\ omise[c].statuses \subseteq omise'[c].statuses
  /\ omise'[c].tx = omise[c].tx /\ omise'[c].source = omise[c].source

RowsStay == \A t \in Tx :
  /\ Exists(t) => Exists(t)'
  /\ rows[t].source # Null => rows'[t].source # Null

BodiesStay == \A h \in Hooks :
  hook[h].pc # "idle" => hook'[h].pc # "idle" /\ hook'[h].charge = hook[h].charge

\* The charge of a delivery, and that of a request that has it, are made.
LEMMA BodyIsMade ==
  ASSUME Foreign = {}, TypeInv, CreditInv, NEW h \in Hooks, hook[h].pc # "idle"
  PROVE  /\ hook[h].charge \in Charges /\ Made(hook[h].charge)
         /\ hook[h].status \in omise[hook[h].charge].statuses
  BY DEF TypeInv, HookProgress, CreditInv, BodyIsTrue, Made, AllCharges

\* A save of the transaction of a made charge writes the charge's source and
\* reference together, or finds them there: no other charge has the source.
LEMMA PlanWhole ==
  ASSUME TypeInv, OwnInv, NEW c \in Charges, Made(c), NEW t \in Tx,
         NEW status, NEW listed
  PROVE  /\ Whole(PlanSave(t, omise[c].source, c, status, listed), c)
         /\ PlanSave(t, omise[c].source, c, status, listed).source = Keep =>
              rows[t].source # Null
  <1>1. /\ omise[c].source \in Sources /\ omise[c].source # Null /\ c # Null
        /\ omise[c].source # Keep
    BY MarkersAssumption DEF OwnInv, ChargesAreOwn, AllCharges
  <1>2. CASE rows[t].source = Null /\ rows[t].ref = Null
    BY <1>1, <1>2 DEF Whole, PlanSave, Changed
  <1>3. CASE \E d \in Charges : /\ rows[t].ref = d /\ Made(d)
                                /\ omise[d].source = rows[t].source
    BY <1>1, <1>3 DEF Whole, PlanSave, Changed, OwnInv, ChargesAreOwn
  <1> QED BY <1>2, <1>3 DEF OwnInv, RowMatchesCharge

\* A save of the transaction of a made charge, whole and true to it.
LEMMA CommitOwn ==
  ASSUME TypeInv, OwnInv, NEW c \in Charges, Made(c), NEW plan \in Plan,
         Whole(plan, c), plan.status = Keep \/ plan.status \in omise[c].statuses,
         NEW new \in LogIds, NEW status \in Statuses, Exists(omise[c].tx),
         \A l \in plan.attach : Hangs(l, omise[c].tx), Hangs(new, omise[c].tx),
         CommitSave(omise[c].tx, plan, new, status), UNCHANGED omise,
         UNCHANGED pay, BodiesStay
  PROVE  RowMatchesCharge' /\ StatusIsReal' /\ RowsStay /\ LogsHang' /\ RowsAreInserted'
         /\ (plan.source # Keep \/ rows[omise[c].tx].source # Null =>
               rows'[omise[c].tx].source # Null)
  <1> DEFINE t == omise[c].tx
  <1>1. /\ t \in Tx /\ omise[c].source \in Sources /\ omise[c].source # Null
        /\ omise[c].source # Keep /\ c # Keep
    BY MarkersAssumption DEF OwnInv, ChargesAreOwn, AllCharges
  <1>2. /\ \A u \in Tx \ {t} : rows'[u] = rows[u]
        /\ \/ rows'[t].source = rows[t].source /\ rows'[t].ref = rows[t].ref /\ plan.source = Keep
           \/ rows'[t].source = omise[c].source /\ rows'[t].ref = c
        /\ rows'[t].status = rows[t].status \/ rows'[t].status \in omise[c].statuses
    BY <1>1 DEF CommitSave, Whole, Written, TypeInv, TypeOK, StoreTypeOK
  <1>3. rows'[t].status # Null /\ rows[t].status # Null
    BY <1>1, <1>2, MarkersAssumption
    DEF Exists, TypeInv, TypeOK, OmiseTypeOK, AllCharges
  <1>4. RowMatchesCharge'
    BY <1>1, <1>2 DEF OwnInv, RowMatchesCharge, Made
  <1>5. StatusIsReal'
    BY <1>1, <1>2, <1>3 DEF OwnInv, StatusIsReal, Exists
  <1>6. RowsStay /\ (plan.source # Keep \/ rows[t].source # Null => rows'[t].source # Null)
    BY <1>1, <1>2, <1>3 DEF RowsStay, Exists
  <1>7. RowsAreInserted'
    BY <1>1, <1>2, <1>3 DEF OwnInv, RowsAreInserted, Exists
  <1>8. \A l \in LogIds, u \in Tx : Hangs(l, u) => Hangs(l, u)'
    BY DEF Hangs, BodiesStay, Made
  <1>9. LogsHang'
    BY <1>1, <1>8 DEF CommitSave, OwnInv, LogsHang, TypeInv, TypeOK, StoreTypeOK, Log
  <1> QED BY <1>4, <1>5, <1>6, <1>7, <1>9

\* Nothing that stays makes a log hang elsewhere.
LEMMA HangsStay ==
  ASSUME Closed, TypeInv, CreditInv, ChargesStay, BodiesStay
  PROVE  \A l \in LogIds, t \in Tx : Hangs(l, t) => Hangs(l, t)'
  BY BodyIsMade DEF Closed, Hangs, ChargesStay, BodiesStay

\* Requests and deliveries that a step does not move stay own.
LEMMA RestStay ==
  ASSUME Closed, TypeInv, CreditInv, OwnInv, ChargesStay, RowsStay, BodiesStay
  PROVE  /\ \A c \in Charges : chg'[c] = chg[c] => RequestIsOwn(c)'
         /\ \A h \in Hooks : hook'[h] = hook[h] => DeliveryIsOwn(h)'
  <1>1. ASSUME NEW c \in Charges, chg'[c] = chg[c] PROVE RequestIsOwn(c)'
    <2>1. RequestIsOwn(c) /\ (chg[c].pc # "idle" => chg[c].tx \in Tx)
      BY DEF OwnInv, TypeInv, ChargeProgress
    <2> QED BY <1>1, <2>1 DEF RequestIsOwn, ChargesStay, RowsStay, Whole
  <1>2. ASSUME NEW h \in Hooks, hook'[h] = hook[h] PROVE DeliveryIsOwn(h)'
    <2>1. /\ DeliveryIsOwn(h) /\ hook[h].logs \subseteq LogIds
          /\ hook[h].plan.attach \subseteq LogIds
          /\ hook[h].pc \in {"load", "commit"} => hook[h].tx \in Tx
      BY DEF OwnInv, TypeInv, TypeOK, HookTypeOK, HookProgress, Plan
    <2>2. hook[h].pc # "idle" =>
            /\ omise'[hook[h].charge].tx = omise[hook[h].charge].tx
            /\ omise'[hook[h].charge].source = omise[hook[h].charge].source
      BY BodyIsMade DEF Closed, ChargesStay
    <2> QED BY <1>2, <2>1, <2>2, HangsStay DEF DeliveryIsOwn, RowsStay, Whole
  <1> QED BY <1>1, <1>2

\* Tables that a step does not write stay own.
LEMMA TablesStay ==
  ASSUME Closed, TypeInv, CreditInv, OwnInv, ChargesStay, BodiesStay,
         UNCHANGED <<rows, logs>>,
         \A m \in sqs' \ sqs : omise'[m.charge].tx = m.tx
  PROVE  RowsStay /\ LogsHang' /\ RowMatchesCharge' /\ StatusIsReal' /\ CreditsOwnPayment'
  <1>1. RowsStay
    BY DEF RowsStay, Exists
  <1>2. LogsHang'
    BY HangsStay DEF OwnInv, LogsHang, TypeInv, TypeOK, StoreTypeOK, Log
  <1>3. RowMatchesCharge'
    BY DEF OwnInv, RowMatchesCharge, ChargesStay
  <1>4. StatusIsReal'
    <2>1. \A c \in Charges : \A s \in omise[c].statuses :
            omise'[c].tx = omise[c].tx /\ s \in omise'[c].statuses
      BY DEF ChargesStay, Made
    <2> QED BY <2>1 DEF OwnInv, StatusIsReal, Exists
  <1>5. CreditsOwnPayment'
    <2>1. \A m \in sqs : m.charge \in Charges /\ Made(m.charge)
      BY DEF Closed, TypeInv, TypeOK, HookTypeOK, Credit, AllCharges, CreditInv,
             CreditOnlyPaid, Paid, Made
    <2> QED BY <2>1 DEF OwnInv, CreditsOwnPayment, ChargesStay
  <1> QED BY <1>1, <1>2, <1>3, <1>4, <1>5

\* A step that writes no table, makes no charge and sends no credit but to
\* the transaction paid for.
LEMMA QuietKeeps ==
  ASSUME Closed, TypeInv, CreditInv, OwnInv, UNCHANGED <<rows, logs, omise>>,
         BodiesStay, \A m \in sqs' \ sqs : omise[m.charge].tx = m.tx,
         \A t \in Tx : pay'[t] \in {"idle"} \cup PayActive =>
                         pay[t] \in {"idle"} \cup PayActive,
         \A c \in Charges : Made(c) => chg'[c].tx = chg[c].tx /\ chg'[c].source = chg[c].source,
         \A c \in Charges : chg'[c] = chg[c] \/ RequestIsOwn(c)',
         \A h \in Hooks : hook'[h] = hook[h] \/ DeliveryIsOwn(h)'
  PROVE  OwnInv' /\ RowsStay
  <1>1. ChargesStay
    BY DEF ChargesStay, Made
  <1>2. ChargesAreOwn'
    BY DEF OwnInv, ChargesAreOwn, Made
  <1>3. RowsAreInserted'
    BY DEF OwnInv, RowsAreInserted, Exists
  <1>4. RowsStay /\ LogsHang' /\ RowMatchesCharge' /\ StatusIsReal' /\ CreditsOwnPayment'
    BY <1>1, TablesStay
  <1>5. (\A c \in Charges : RequestIsOwn(c)') /\ (\A h \in Hooks : DeliveryIsOwn(h)')
    BY <1>1, <1>4, RestStay
  <1> QED BY <1>2, <1>3, <1>4, <1>5 DEF OwnInv

----------------------------------------------------------------------------
(* The payment requests *)

LEMMA PayKeepsOwn ==
  ASSUME Closed, AllInv, NEW t \in Tx, RequestPay(t) \/ PayStep(t), UNCHANGED hookVars
  PROVE  OwnInv' /\ RowsStay
  <1> USE DEF AllInv
  <1>1. /\ UNCHANGED <<omise, chg, hook, sqs>> /\ BodiesStay
    BY DEF RequestPay, PayStep, GetTokenPackage, SaveNewTransaction, InsertFails,
           InsertRow, hookVars, BodiesStay
  <1>2. CASE RequestPay(t) \/ GetTokenPackage(t) \/ InsertFails(t)
    <2>1. UNCHANGED <<rows, logs>>
      BY <1>2 DEF RequestPay, GetTokenPackage, InsertFails
    <2>2. \A u \in Tx : pay'[u] \in {"idle"} \cup PayActive =>
                          pay[u] \in {"idle"} \cup PayActive
      BY <1>2 DEF RequestPay, GetTokenPackage, InsertFails, PayGoes, PayActive,
         TypeInv, TypeOK, PayTypeOK
    <2> QED BY <1>1, <2>1, <2>2, QuietKeeps
  <1>3. CASE SaveNewTransaction(t)
    <2>1. /\ pay[t] = "insert" /\ pay'[t] \in {"answered", "failed"}
          /\ \A u \in Tx \ {t} : pay'[u] = pay[u] /\ rows'[u] = rows[u]
          /\ rows'[t] = [source |-> Null, ref |-> Null, status |-> "pending"]
          /\ UNCHANGED logs
      BY <1>3 DEF SaveNewTransaction, InsertRow, PayGoes, TypeInv, TypeOK, PayTypeOK,
         StoreTypeOK
    <2>2. rows[t].source = Null /\ rows[t].status = Null /\ "pending" # Null
      BY <2>1, MarkersAssumption DEF OwnInv, RowsAreInserted, PayActive, Exists, Statuses
    <2>3. RowsStay
      BY <2>1, <2>2 DEF RowsStay, Exists
    <2>4. ChargesStay /\ ChargesAreOwn' /\ CreditsOwnPayment'
      BY <1>1 DEF ChargesStay, OwnInv, ChargesAreOwn, CreditsOwnPayment, Made
    <2>5. RowsAreInserted'
      BY <2>1, <2>2 DEF OwnInv, RowsAreInserted, PayActive, Exists
    <2>6. LogsHang'
      BY <2>1, <2>4, <1>1, HangsStay DEF OwnInv, LogsHang, TypeInv, TypeOK, StoreTypeOK, Log
    <2>7. RowMatchesCharge' /\ StatusIsReal'
      BY <1>1, <2>1 DEF OwnInv, RowMatchesCharge, StatusIsReal, Exists, Made
    <2>8. (\A c \in Charges : RequestIsOwn(c)') /\ (\A h \in Hooks : DeliveryIsOwn(h)')
      BY <1>1, <2>3, <2>4, RestStay
    <2> QED BY <2>3, <2>4, <2>5, <2>6, <2>7, <2>8 DEF OwnInv
  <1> QED BY <1>2, <1>3 DEF PayStep

\* A charge request's step that writes no table and makes no charge.
LEMMA ChargeMoveKeeps ==
  ASSUME Closed, AllInv, NEW c \in Charges, RequestIsOwn(c)',
         NEW r \in ChargeRequest, chg' = [chg EXCEPT ![c] = r],
         Made(c) => r.tx = chg[c].tx /\ r.source = chg[c].source,
         UNCHANGED <<rows, logs, omise, pay, hook, sqs>>
  PROVE  OwnInv' /\ RowsStay
  <1>1. chg'[c] = r /\ \A d \in Charges \ {c} : chg'[d] = chg[d]
    BY DEF AllInv, TypeInv, TypeOK, PayTypeOK
  <1>2. BodiesStay
    BY DEF BodiesStay
  <1> QED BY <1>1, <1>2, QuietKeeps DEF AllInv

\* What every step of a charge request knows.
LEMMA RequestKnows ==
  ASSUME AllInv, NEW c \in Charges
  PROVE  /\ chg[c] \in ChargeRequest /\ RequestIsOwn(c)
         /\ chg[c].pc # "idle" => chg[c].tx \in Tx /\ chg[c].source \in Sources
         /\ Made(c) => omise[c].tx = chg[c].tx /\ omise[c].source = chg[c].source
         /\ chg[c].pc \in {"idle", "type", "find", "create"} => ~Made(c)
         /\ chg[c].plan.status = Keep
  BY DEF AllInv, TypeInv, TypeOK, PayTypeOK, ChargeProgress, ChargeRequest, OwnInv,
     ChargesAreOwn, CreditInv, ChargeIsNew

\* A step to a place where nothing is claimed.
LEMMA ChargeEndKeeps ==
  ASSUME Closed, AllInv, NEW c \in Charges, NEW r \in ChargeRequest,
         chg' = [chg EXCEPT ![c] = r], r.tx = chg[c].tx, r.source = chg[c].source,
         \/ r.pc \in {"find", "failed"}
         \/ r.pc = "create" /\ Exists(chg[c].tx),
         UNCHANGED <<rows, logs, omise, pay, hook, sqs>>
  PROVE  OwnInv' /\ RowsStay
  <1>1. chg'[c] = r
    BY RequestKnows DEF AllInv, TypeInv, TypeOK, PayTypeOK
  <1>2. RequestIsOwn(c)'
    BY <1>1 DEF RequestIsOwn, Exists
  <1> QED BY <1>2, ChargeMoveKeeps

\* The provider makes a charge: of its request, and of no source of another.
LEMMA CreateKeepsOwn ==
  ASSUME Closed, AllInv, NEW c \in Charges, CreateOmiseCharge(c), UNCHANGED hookVars
  PROVE  OwnInv' /\ RowsStay
  <1> USE DEF AllInv
  <1>1. /\ chg[c].pc = "create" /\ ~Made(c) /\ chg[c].tx \in Tx /\ chg[c].source \in Sources
        /\ Exists(chg[c].tx) /\ chg[c] \in ChargeRequest
        /\ UNCHANGED <<rows, logs, pay, hook, sqs>> /\ BodiesStay
    BY RequestKnows DEF CreateOmiseCharge, ChargeGoes, RequestIsOwn, hookVars, BodiesStay
  <1>2. \E now \in Statuses :
          omise' = [omise EXCEPT ![c] = [statuses |-> {now}, tx |-> chg[c].tx,
                                         source |-> chg[c].source]]
    BY DEF CreateOmiseCharge, CreateCharge, Statuses
  <1>3. /\ Made(c)' /\ omise'[c].tx = chg[c].tx /\ omise'[c].source = chg[c].source
        /\ \A d \in Charges \ {c} : omise'[d] = omise[d]
    BY <1>2 DEF Made, TypeInv, TypeOK, OmiseTypeOK, AllCharges
  <1>4. /\ chg'[c].tx = chg[c].tx /\ chg'[c].source = chg[c].source
        /\ chg'[c].pc \in {"load", "failed"}
        /\ \A d \in Charges \ {c} : chg'[d] = chg[d]
    BY <1>1 DEF CreateOmiseCharge, ChargeGoes, ChargeRequest, TypeInv, TypeOK, PayTypeOK
  <1>5. ChargesStay
    BY <1>1, <1>3 DEF ChargesStay, Made
  <1>6. ChargesAreOwn'
    <2>1. \A d \in Charges : Made(d) => omise[d].source # chg[c].source
      BY DEF CreateOmiseCharge, CreateCharge, Chargeable, Closed
    <2> QED BY <1>1, <1>3, <1>4, <2>1 DEF OwnInv, ChargesAreOwn, Made
  <1>7. RowsStay /\ LogsHang' /\ RowMatchesCharge' /\ StatusIsReal' /\ CreditsOwnPayment'
    BY <1>1, <1>5, TablesStay
  <1>8. RowsAreInserted'
    BY <1>1 DEF OwnInv, RowsAreInserted, Exists
  <1>9. RequestIsOwn(c)'
    BY <1>1, <1>3, <1>4, <1>7 DEF RequestIsOwn, RowsStay
  <1>10. (\A d \in Charges : RequestIsOwn(d)') /\ (\A h \in Hooks : DeliveryIsOwn(h)')
    BY <1>1, <1>4, <1>5, <1>7, <1>9, RestStay
  <1> QED BY <1>6, <1>7, <1>8, <1>10 DEF OwnInv

LEMMA ChargeStepKeepsOwn ==
  ASSUME Closed, AllInv, NEW c \in Charges,
         (\E t \in Tx, s \in Sources : RequestCharge(c, t, s)) \/ ChargeStep(c),
         UNCHANGED hookVars
  PROVE  OwnInv' /\ RowsStay
  <1>0. /\ chg[c] \in ChargeRequest /\ RequestIsOwn(c)
        /\ chg[c].pc # "idle" => chg[c].tx \in Tx /\ chg[c].source \in Sources
        /\ Made(c) => omise[c].tx = chg[c].tx /\ omise[c].source = chg[c].source
        /\ chg[c].plan.status = Keep /\ UNCHANGED <<hook, sqs>>
    BY RequestKnows DEF hookVars
  <1>1. ASSUME NEW t \in Tx, NEW s \in Sources, RequestCharge(c, t, s)
        PROVE  OwnInv' /\ RowsStay
    <2> DEFINE r == [chg[c] EXCEPT !.pc = "type", !.tx = t, !.source = s]
    <2>1. r \in ChargeRequest /\ r.pc = "type"
      BY <1>0 DEF ChargeRequest, ChargeActive
    <2>2. /\ chg' = [chg EXCEPT ![c] = r] /\ ~Made(c)
          /\ UNCHANGED <<rows, logs, omise, pay>>
      BY <1>1, RequestKnows DEF RequestCharge
    <2> HIDE DEF r
    <2>3. chg'[c] = r
      BY <2>2 DEF AllInv, TypeInv, TypeOK, PayTypeOK
    <2>4. RequestIsOwn(c)'
      BY <2>1, <2>3 DEF RequestIsOwn
    <2> QED BY <1>0, <2>1, <2>2, <2>4, ChargeMoveKeeps
  \* The steps that go on, or end, without a save.
  <1>2. ASSUME NEW to \in {"find", "create", "failed"}, NEW plan \in {chg[c].plan, NoPlan},
               chg' = [chg EXCEPT ![c] = [@ EXCEPT !.pc = to, !.plan = plan]],
               to = "create" => Exists(chg[c].tx),
               UNCHANGED <<rows, logs, omise, pay>>
        PROVE  OwnInv' /\ RowsStay
    <2> DEFINE r == [chg[c] EXCEPT !.pc = to, !.plan = plan]
    <2>1. /\ r \in ChargeRequest /\ r.pc = to /\ r.tx = chg[c].tx
          /\ r.source = chg[c].source
      BY <1>0, NoPlanTyped DEF ChargeRequest, ChargeActive, ChargeEnded
    <2>2. chg' = [chg EXCEPT ![c] = r]
      BY <1>2
    <2> HIDE DEF r
    <2> QED BY <1>0, <1>2, <2>1, <2>2, ChargeEndKeeps
  <1>3. ASSUME NEW to \in {"find", "create", "failed"}, NEW from,
               ChargeGoes(c, from, to), to = "create" => Exists(chg[c].tx),
               UNCHANGED <<rows, logs, omise, pay>>
        PROVE  OwnInv' /\ RowsStay
    <2>1. chg' = [chg EXCEPT ![c] = [@ EXCEPT !.pc = to, !.plan = chg[c].plan]]
      BY <1>0, <1>3 DEF ChargeGoes, ChargeRequest, AllInv, TypeInv, TypeOK, PayTypeOK
    <2> QED BY <1>2, <1>3, <2>1
  <1>4. CASE FindPaymentType(c) \/ FindTransactionOrFail(c) \/ OmiseRefuses(c)
    BY <1>3, <1>4 DEF FindPaymentType, FindTransactionOrFail, OmiseRefuses
  <1>5. CASE ChargeSaveConflicts(c) \/ ChargeCallFails(c)
    BY <1>2, <1>5 DEF ChargeSaveConflicts, ChargeCallFails, ChargeSaveEnds
  <1>6. CASE CreateOmiseCharge(c)
    BY <1>6, CreateKeepsOwn
  <1>7. CASE LoadForChargeSave(c)
    <2> DEFINE plan == [PlanSave(chg[c].tx, chg[c].source, c, Null, {})
                          EXCEPT !.status = Keep]
               r == [chg[c] EXCEPT !.pc = "commit", !.plan = plan]
    <2>1. /\ chg[c].pc = "load" /\ chg' = [chg EXCEPT ![c] = r]
          /\ UNCHANGED <<rows, logs, omise, pay>>
      BY <1>7 DEF LoadForChargeSave
    <2>2. /\ Made(c) /\ chg[c].source = omise[c].source /\ chg[c].tx = omise[c].tx
          /\ chg[c].tx \in Tx /\ chg[c].source \in Sources
          /\ Exists(chg[c].tx) /\ c \in AllCharges /\ "pending" \in Statuses
      BY <1>0, <2>1 DEF RequestIsOwn, AllCharges, Statuses
    <2>3. plan \in Plan
      BY <2>2, PlanTyped
    <2>4. Whole(plan, c) /\ (plan.source = Keep => rows[chg[c].tx].source # Null)
          /\ plan.attach = {}
      <3> DEFINE p == PlanSave(chg[c].tx, omise[c].source, c, Null, {})
      <3>1. Whole(p, c) /\ (p.source = Keep => rows[chg[c].tx].source # Null)
        BY <2>2, PlanWhole DEF AllInv
      <3>2. plan.source = p.source /\ plan.ref = p.ref /\ plan.attach = {}
        BY <2>2 DEF PlanSave
      <3> QED BY <3>1, <3>2 DEF Whole
    <2> HIDE DEF plan
    <2>5. /\ r \in ChargeRequest /\ r.pc = "commit" /\ r.plan = plan
          /\ r.tx = chg[c].tx /\ r.source = chg[c].source
      BY <1>0, <2>3 DEF ChargeRequest, ChargeActive
    <2> HIDE DEF r
    <2>6. chg'[c] = r
      BY <2>1 DEF AllInv, TypeInv, TypeOK, PayTypeOK
    <2>7. RequestIsOwn(c)'
      BY <2>1, <2>2, <2>4, <2>5, <2>6 DEF RequestIsOwn, Exists, Made, Whole
    <2> QED BY <1>0, <2>1, <2>5, <2>7, ChargeMoveKeeps
  <1>8. CASE CommitChargeSave(c)
    <2>1. PICK to \in {"answered", "failed"} :
            chg' = [chg EXCEPT ![c] = [@ EXCEPT !.pc = to, !.plan = NoPlan]]
      BY <1>8 DEF CommitChargeSave, ChargeSaveEnds
    <2>2. /\ chg[c].pc = "commit" /\ CommitSave(chg[c].tx, chg[c].plan, c, "pending")
          /\ UNCHANGED <<omise, pay>>
      BY <1>8 DEF CommitChargeSave, ChargeSaveEnds
    <2>3. /\ Made(c) /\ chg[c].source = omise[c].source /\ chg[c].tx = omise[c].tx
          /\ Exists(chg[c].tx) /\ Whole(chg[c].plan, c) /\ chg[c].plan.attach = {}
          /\ chg[c].plan.source = Keep => rows[chg[c].tx].source # Null
          /\ chg[c].plan \in Plan /\ c \in LogIds /\ "pending" \in Statuses
          /\ Hangs(c, chg[c].tx)
      BY <1>0, <2>2 DEF RequestIsOwn, ChargeRequest, LogIds, Statuses, Hangs
    <2>4. BodiesStay /\ ChargesStay
      BY <1>0, <2>2 DEF BodiesStay, ChargesStay, Made
    <2>5. /\ RowMatchesCharge' /\ StatusIsReal' /\ RowsStay /\ LogsHang' /\ RowsAreInserted'
          /\ rows'[chg[c].tx].source # Null
      BY <1>0, <2>2, <2>3, <2>4, CommitOwn DEF AllInv
    <2>6. /\ chg'[c].pc = to /\ chg'[c].tx = chg[c].tx /\ chg'[c].source = chg[c].source
          /\ \A d \in Charges \ {c} : chg'[d] = chg[d]
      BY <1>0, <2>1 DEF AllInv, TypeInv, TypeOK, PayTypeOK, ChargeRequest
    <2>7. ChargesAreOwn' /\ CreditsOwnPayment'
      BY <1>0, <2>2, <2>6 DEF AllInv, OwnInv, ChargesAreOwn, CreditsOwnPayment, Made
    <2>8. RequestIsOwn(c)'
      BY <2>2, <2>3, <2>5, <2>6 DEF RequestIsOwn, Made
    <2>9. (\A d \in Charges : RequestIsOwn(d)') /\ (\A h \in Hooks : DeliveryIsOwn(h)')
      BY <1>0, <2>4, <2>5, <2>6, <2>8, RestStay DEF AllInv
    <2> QED BY <2>5, <2>7, <2>9 DEF OwnInv
  <1> QED BY <1>1, <1>4, <1>5, <1>6, <1>7, <1>8 DEF ChargeStep

----------------------------------------------------------------------------
(* The deliveries *)

\* What every step of a delivery knows.
LEMMA DeliveryKnows ==
  ASSUME Closed, AllInv, NEW h \in Hooks, hook[h].pc # "idle"
  PROVE  /\ hook[h] \in Delivery /\ Begun(hook[h]) /\ DeliveryIsOwn(h)
         /\ hook[h].charge \in Charges /\ Made(hook[h].charge)
         /\ hook[h].status \in omise[hook[h].charge].statuses
         /\ hook[h].plan.status \in {Keep, hook[h].status}
         /\ h \in LogIds
  BY BodyIsMade DEF Closed, AllInv, TypeInv, TypeOK, HookTypeOK, HookProgress, Delivery, Begun,
     OwnInv, CreditInv, PlanIsOfBody, LogIds

\* A delivery's step that saves nothing.
LEMMA DeliveryMoveKeeps ==
  ASSUME Closed, AllInv, NEW h \in Hooks, NEW r \in Delivery,
         hook' = [hook EXCEPT ![h] = r],
         r.pc # "idle", hook[h].pc # "idle" => r.charge = hook[h].charge,
         BodiesStay => DeliveryIsOwn(h)',
         \A m \in sqs' \ sqs : omise[m.charge].tx = m.tx,
         UNCHANGED <<rows, logs, omise, pay, chg>>
  PROVE  OwnInv' /\ RowsStay
  <1>1. hook'[h] = r /\ \A g \in Hooks \ {h} : hook'[g] = hook[g]
    BY DEF AllInv, TypeInv, TypeOK, HookTypeOK
  <1>2. BodiesStay
    BY <1>1 DEF BodiesStay
  <1> QED BY <1>1, <1>2, QuietKeeps DEF AllInv

\* The transaction found is the one the delivery's charge was made for.
LEMMA FoundIsOwn ==
  ASSUME Closed, AllInv, NEW c \in Charges, Made(c), NEW t \in RowsFor(c)
  PROVE  /\ t \in Tx /\ Exists(t) /\ omise[c].tx = t
         /\ rows[t].source = omise[c].source
         /\ \A l \in LogsOf(t) : l \in LogIds /\ Hangs(l, t)
  <1>1. omise[c].source \in Sources /\ omise[c].source # Null /\ Null \notin Tx
    BY MarkersAssumption DEF AllInv, OwnInv, ChargesAreOwn
  <1>2. t \in Tx /\ Exists(t) /\ rows[t].source = omise[c].source
    BY <1>1 DEF RowsFor
  <1>3. PICK d \in Charges : Made(d) /\ omise[d].source = rows[t].source /\ omise[d].tx = t
    BY <1>1, <1>2 DEF AllInv, OwnInv, RowMatchesCharge
  <1>4. d = c
    BY <1>2, <1>3 DEF AllInv, OwnInv, ChargesAreOwn
  <1>5. \A l \in LogsOf(t) : l \in LogIds /\ Hangs(l, t)
    BY <1>1, <1>2 DEF LogsOf, AllInv, OwnInv, LogsHang
  <1> QED BY <1>2, <1>3, <1>4, <1>5

\* A delivery's save, and wherever it goes from there.
LEMMA DeliverySaveKeeps ==
  ASSUME Closed, AllInv, NEW h \in Hooks, hook[h].pc = "commit", HookSaveWrites(h),
         NEW r \in Delivery, hook' = [hook EXCEPT ![h] = r],
         r.pc \in {"send", "notify", "recorded", "swallowed"}, r.charge = hook[h].charge,
         r.pc \in {"send", "notify"} => r.tx = hook[h].tx,
         UNCHANGED <<omise, pay, chg, sqs>>
  PROVE  OwnInv' /\ RowsStay
  <1> DEFINE c == hook[h].charge
             t == hook[h].tx
  <1>1. /\ c \in Charges /\ Made(c) /\ hook[h].status \in omise[c].statuses
        /\ DeliveryIsOwn(h) /\ hook[h].plan \in Plan /\ h \in LogIds
        /\ hook[h].plan.status = Keep \/ hook[h].plan.status \in omise[c].statuses
        /\ hook[h].status \in Statuses /\ t \in Tx
    BY DeliveryKnows DEF Delivery, Begun
  <1>2. /\ t = omise[c].tx /\ Exists(t) /\ Whole(hook[h].plan, c)
        /\ \A l \in hook[h].plan.attach : Hangs(l, t)
        /\ Hangs(h, t)
    BY <1>1 DEF DeliveryIsOwn, Hangs
  <1>3. hook'[h] = r /\ \A g \in Hooks \ {h} : hook'[g] = hook[g]
    BY DEF AllInv, TypeInv, TypeOK, HookTypeOK
  <1>4. BodiesStay /\ ChargesStay
    BY <1>3 DEF BodiesStay, ChargesStay, Made
  <1>5. CommitSave(t, hook[h].plan, h, hook[h].status)
    BY DEF HookSaveWrites
  <1>6. RowMatchesCharge' /\ StatusIsReal' /\ RowsStay /\ LogsHang' /\ RowsAreInserted'
    <2> HIDE DEF c, t
    <2> QED BY <1>1, <1>2, <1>4, <1>5, CommitOwn DEF AllInv
  <1>7. ChargesAreOwn' /\ CreditsOwnPayment'
    BY DEF AllInv, OwnInv, ChargesAreOwn, CreditsOwnPayment, Made
  <1>8. DeliveryIsOwn(h)'
    BY <1>2, <1>3 DEF DeliveryIsOwn
  <1>9. (\A d \in Charges : RequestIsOwn(d)') /\ (\A g \in Hooks : DeliveryIsOwn(g)')
    BY <1>3, <1>4, <1>6, <1>8, RestStay DEF AllInv
  <1> QED BY <1>6, <1>7, <1>9 DEF OwnInv

LEMMA DeliveryStepKeepsOwn ==
  ASSUME Closed, AllInv, NEW h \in Hooks,
         \/ \E c \in AllCharges, s \in Statuses, e \in Envelopes : Deliver(h, c, s, e)
         \/ HookStep(h),
         UNCHANGED payVars
  PROVE  OwnInv' /\ RowsStay
  <1>0. /\ hook[h] \in Delivery /\ UNCHANGED <<pay, chg>>
        /\ hook[h].pc # "idle" =>
             /\ Begun(hook[h]) /\ DeliveryIsOwn(h)
             /\ hook[h].charge \in Charges /\ Made(hook[h].charge)
    BY DeliveryKnows DEF AllInv, TypeInv, TypeOK, HookTypeOK, Delivery, payVars
  \* A delivery that ends.
  <1>1. ASSUME NEW how \in HookEnded, HookEnds(h, how), hook[h].pc # "idle"
        PROVE  \E r \in Delivery : /\ hook' = [hook EXCEPT ![h] = r]
                                   /\ r.charge = hook[h].charge /\ r.pc = how
    <2> DEFINE r == [NoDelivery EXCEPT !.pc = how, !.charge = hook[h].charge,
                                       !.status = hook[h].status]
    <2>1. r \in Delivery /\ r.charge = hook[h].charge /\ r.pc = how
      BY <1>0, NoPlanTyped DEF NoDelivery, NoPlan, Delivery
    <2> QED BY <1>1, <2>1 DEF HookEnds
  \* A delivery that moves where nothing is claimed.
  <1>2. ASSUME NEW r \in Delivery, hook' = [hook EXCEPT ![h] = r],
               r.pc \in HookEnded \cup {"validate", "find"},
               hook[h].pc # "idle" => r.charge = hook[h].charge,
               \A m \in sqs' \ sqs : omise[m.charge].tx = m.tx,
               UNCHANGED <<rows, logs, omise>>
        PROVE  OwnInv' /\ RowsStay
    <2>1. hook'[h] = r
      BY <1>2 DEF AllInv, TypeInv, TypeOK, HookTypeOK
    <2>2. DeliveryIsOwn(h)'
      BY <1>2, <2>1 DEF DeliveryIsOwn, HookEnded
    <2>3. r.pc # "idle"
      BY <1>2 DEF HookEnded
    <2> QED BY <1>0, <1>2, <2>2, <2>3, DeliveryMoveKeeps
  <1>3. ASSUME NEW c \in AllCharges, NEW s \in Statuses, NEW e \in Envelopes,
               Deliver(h, c, s, e)
        PROVE  OwnInv' /\ RowsStay
    <2> DEFINE to == IF e.object # "charge" THEN "ignored"
                     ELSE IF ValidEnvelope(e) THEN "validate" ELSE "rejected"
               r == [hook[h] EXCEPT !.pc = to, !.charge = c, !.status = s]
    <2>1. /\ hook' = [hook EXCEPT ![h] = r] /\ to \in {"ignored", "validate", "rejected"}
          /\ hook[h].pc = "idle" /\ UNCHANGED <<rows, logs, omise, sqs>>
      BY <1>3 DEF Deliver
    <2> HIDE DEF to
    <2>2. r \in Delivery /\ r.pc = to
      BY <1>0, <2>1 DEF Delivery, HookActive, HookEnded
    <2> HIDE DEF r
    <2> QED BY <1>2, <2>1, <2>2 DEF HookEnded
  <1>4. CASE FindCharge(h)
    <2> DEFINE r(to) == [hook[h] EXCEPT !.pc = to]
    <2>1. PICK to \in {"find", "rejected"} :
            hook[h].pc = "validate" /\ hook' = [hook EXCEPT ![h] = r(to)]
      BY <1>4 DEF FindCharge, HookGoes
    <2>2. r(to) \in Delivery /\ r(to).pc = to /\ r(to).charge = hook[h].charge
      BY <1>0 DEF Delivery, HookActive, HookEnded
    <2>3. UNCHANGED <<rows, logs, omise, sqs>>
      BY <1>4 DEF FindCharge
    <2>4. hook' = [hook EXCEPT ![h] = r(to)] /\ r(to).pc \in HookEnded \cup {"validate", "find"}
      BY <2>1, <2>2 DEF HookEnded
    <2> HIDE DEF r
    <2> QED BY <1>2, <2>2, <2>3, <2>4
  <1>5. CASE FindTransaction(h)
    <2>1. PICK t \in RowsFor(hook[h].charge) :
            hook' = [hook EXCEPT ![h] = [@ EXCEPT !.pc = "load", !.tx = t,
                       !.source = rows[t].source, !.logs = LogsOf(t)]]
      BY <1>5 DEF FindTransaction
    <2> DEFINE r == [hook[h] EXCEPT !.pc = "load", !.tx = t,
                       !.source = rows[t].source, !.logs = LogsOf(t)]
    <2>2. hook[h].pc = "find" /\ UNCHANGED <<rows, logs, omise, sqs>>
      BY <1>5 DEF FindTransaction
    <2>3. /\ t \in Tx /\ Exists(t) /\ omise[hook[h].charge].tx = t
          /\ rows[t].source = omise[hook[h].charge].source
          /\ \A l \in LogsOf(t) : l \in LogIds /\ Hangs(l, t)
      BY <1>0, <2>2, FoundIsOwn
    <2>4. rows[t].source \in Sources
      BY <1>0, <2>2, <2>3 DEF AllInv, OwnInv, ChargesAreOwn
    <2>5. /\ r \in Delivery /\ r.pc = "load" /\ r.charge = hook[h].charge
          /\ r.tx = t /\ r.source = omise[hook[h].charge].source /\ r.logs = LogsOf(t)
      BY <1>0, <2>3, <2>4 DEF Delivery, HookActive
    <2>6. hook' = [hook EXCEPT ![h] = r]
      BY <2>1
    <2> HIDE DEF r
    <2>7. hook'[h] = r
      BY <2>6 DEF AllInv, TypeInv, TypeOK, HookTypeOK
    <2>8. ASSUME BodiesStay PROVE DeliveryIsOwn(h)'
      <3>1. \A l \in LogsOf(t) : Hangs(l, t)'
        BY <1>0, <2>2, <2>3, <2>8 DEF Hangs, Made, BodiesStay
      <3> QED BY <2>2, <2>3, <2>5, <2>7, <3>1 DEF DeliveryIsOwn, Exists
    <2> QED BY <1>0, <2>2, <2>5, <2>6, <2>8, DeliveryMoveKeeps
  <1>6. CASE LoadForHookSave(h)
    <2> DEFINE c == hook[h].charge
               t == hook[h].tx
               plan == PlanSave(t, omise[c].source, c, hook[h].status, hook[h].logs)
               r == [hook[h] EXCEPT !.pc = "commit", !.source = Null, !.logs = {},
                                    !.plan = plan]
    <2>1. /\ hook[h].pc = "load" /\ hook[h].source = omise[c].source
          /\ t \in Tx /\ Exists(t) /\ t = omise[c].tx /\ c \in Charges /\ Made(c)
          /\ hook[h].status \in Statuses /\ omise[c].source \in Sources
          /\ hook[h].logs \subseteq LogIds
          /\ \A l \in hook[h].logs : Hangs(l, t)
      BY <1>0, <1>6 DEF LoadForHookSave, DeliveryIsOwn, Begun, Delivery, AllInv, OwnInv, ChargesAreOwn
    <2>2. hook' = [hook EXCEPT ![h] = r] /\ UNCHANGED <<rows, logs, omise, sqs>>
      BY <1>6, <2>1 DEF LoadForHookSave
    <2>3. plan \in Plan /\ plan.attach \subseteq hook[h].logs
      BY <2>1, PlanTyped DEF PlanSave, AllCharges
    <2>4. Whole(plan, c)
      BY <2>1, PlanWhole DEF AllInv
    <2> HIDE DEF plan
    <2>5. /\ r \in Delivery /\ r.pc = "commit" /\ r.charge = c /\ r.tx = t
          /\ r.plan = plan
      BY <1>0, <2>3 DEF Delivery, HookActive
    <2> HIDE DEF r
    <2>6. hook'[h] = r
      BY <2>2 DEF AllInv, TypeInv, TypeOK, HookTypeOK
    <2>7. ASSUME BodiesStay PROVE DeliveryIsOwn(h)'
      <3>1. \A l \in plan.attach : Hangs(l, t)'
        BY <1>0, <2>1, <2>2, <2>3, <2>5, <2>6, <2>7 DEF Hangs, Made, BodiesStay
      <3> QED BY <2>1, <2>2, <2>4, <2>5, <2>6, <3>1 DEF DeliveryIsOwn, Exists, Whole
    <2> QED BY <1>0, <2>2, <2>5, <2>7, DeliveryMoveKeeps
  <1>7. CASE NoTransaction(h) \/ HookSaveConflicts(h) \/ NoTag(h) \/ HookCallFails(h)
    <2>1. \E how \in {"unmatched", "swallowed"} : HookEnds(h, how) /\ hook[h].pc # "idle"
      BY <1>7 DEF NoTransaction, HookSaveConflicts, NoTag, HookCallFails, HookActive
    <2>2. UNCHANGED <<rows, logs, omise, sqs>>
      BY <1>7 DEF NoTransaction, HookSaveConflicts, NoTag, HookCallFails
    <2> QED BY <1>1, <1>2, <2>1, <2>2 DEF HookEnded
  <1>8. CASE CommitHookSave(h)
    <2> DEFINE to == AfterSave(hook[h].status)
               r == [hook[h] EXCEPT !.pc = to, !.plan = NoPlan]
    <2>1. hook[h].pc = "commit" /\ HookSaveWrites(h) /\ UNCHANGED <<omise, sqs>>
      BY <1>8 DEF CommitHookSave
    <2>2. CASE to = "recorded"
      BY <1>0, <1>1, <1>8, <2>1, <2>2, DeliverySaveKeeps DEF CommitHookSave, HookEnded
    <2>3. CASE to # "recorded"
      <3>1. to \in {"send", "notify"}
        BY <2>3 DEF AfterSave
      <3>2. r \in Delivery /\ r.pc = to /\ r.charge = hook[h].charge /\ r.tx = hook[h].tx
        BY <1>0, <3>1, NoPlanTyped DEF Delivery, HookActive
      <3>3. hook' = [hook EXCEPT ![h] = r]
        BY <1>8, <2>3 DEF CommitHookSave
      <3> HIDE DEF r, to
      <3> QED BY <1>0, <2>1, <3>1, <3>2, <3>3, DeliverySaveKeeps
    <2> QED BY <2>2, <2>3
  <1>9. CASE FailAfterHookSave(h)
    <2>1. /\ hook[h].pc = "commit" /\ HookSaveWrites(h) /\ UNCHANGED <<omise, sqs>>
          /\ HookEnds(h, "swallowed")
      BY <1>9 DEF FailAfterHookSave
    <2> QED BY <1>0, <1>1, <2>1, DeliverySaveKeeps DEF HookEnded
  <1>10. CASE SendCredit(h)
    <2> DEFINE m == [hook |-> h, tx |-> hook[h].tx, charge |-> hook[h].charge]
    <2>1. /\ hook[h].pc = "send" /\ sqs' = sqs \cup {m}
          /\ UNCHANGED <<rows, logs, omise>>
      BY <1>10 DEF SendCredit
    <2>2. hook[h].tx = omise[hook[h].charge].tx
      BY <1>0, <2>1 DEF DeliveryIsOwn
    <2>3. \A k \in sqs' \ sqs : omise[k.charge].tx = k.tx
      <3>1. omise[m.charge].tx = m.tx
        BY <2>2
      <3> HIDE DEF m
      <3> QED BY <2>1, <3>1
    <2>4. CASE HookEnds(h, "swallowed")
      BY <1>1, <1>2, <2>1, <2>3, <2>4 DEF HookEnded
    <2>5. CASE hook' = [hook EXCEPT ![h].pc = "notify"]
      <3> DEFINE r == [hook[h] EXCEPT !.pc = "notify"]
      <3>1. r \in Delivery /\ r.pc = "notify" /\ r.charge = hook[h].charge /\ r.tx = hook[h].tx
        BY <1>0 DEF Delivery, HookActive
      <3>2. hook' = [hook EXCEPT ![h] = r]
        BY <2>5
      <3> HIDE DEF r
      <3>3. hook'[h] = r
        BY <3>2 DEF AllInv, TypeInv, TypeOK, HookTypeOK
      <3>4. DeliveryIsOwn(h)'
        BY <2>1, <2>2, <3>1, <3>3 DEF DeliveryIsOwn
      <3> QED BY <1>0, <2>1, <2>3, <3>1, <3>2, <3>4, DeliveryMoveKeeps
    <2> QED BY <1>10, <2>4, <2>5 DEF SendCredit
  <1>11. CASE PushNotification(h)
    <2>1. /\ hook[h].pc = "notify" /\ UNCHANGED <<rows, logs, omise, sqs>>
          /\ \E how \in {"recorded", "swallowed"} : HookEnds(h, how)
      BY <1>11 DEF PushNotification
    <2> QED BY <1>1, <1>2, <2>1 DEF HookEnded
  <1> QED
    BY <1>3, <1>4, <1>5, <1>6, <1>7, <1>8, <1>9, <1>10, <1>11 DEF HookStep

----------------------------------------------------------------------------
(* The provider, and the death of a process *)

LEMMA ProviderKeepsOwn ==
  ASSUME Closed, AllInv, ProviderNext
  PROVE  OwnInv' /\ RowsStay
  <1> USE DEF AllInv
  <1>1. /\ UNCHANGED <<rows, logs, pay, chg, hook, sqs>> /\ BodiesStay
    BY DEF ProviderNext, BodiesStay
  <1>2. PICK c \in AllCharges : SettleCharge(c)
    BY DEF ProviderNext, Closed
  <1>3. \A d \in Charges : /\ omise'[d].tx = omise[d].tx
                           /\ omise'[d].source = omise[d].source
                           /\ omise[d].statuses \subseteq omise'[d].statuses
                           /\ Made(d)' <=> Made(d)
    BY <1>2 DEF SettleCharge, Made, AllCharges, TypeInv, TypeOK, OmiseTypeOK
  <1>4. ChargesStay
    BY <1>3 DEF ChargesStay
  <1>5. ChargesAreOwn'
    BY <1>1, <1>3 DEF OwnInv, ChargesAreOwn
  <1>6. RowsAreInserted'
    BY <1>1 DEF OwnInv, RowsAreInserted, Exists
  <1>7. RowsStay /\ LogsHang' /\ RowMatchesCharge' /\ StatusIsReal' /\ CreditsOwnPayment'
    BY <1>1, <1>4, TablesStay
  <1>8. (\A d \in Charges : RequestIsOwn(d)') /\ (\A h \in Hooks : DeliveryIsOwn(h)')
    BY <1>1, <1>4, <1>7, RestStay
  <1> QED BY <1>5, <1>6, <1>7, <1>8 DEF OwnInv

LEMMA CrashKeepsOwn ==
  ASSUME Closed, AllInv, CrashNext
  PROVE  OwnInv' /\ RowsStay
  <1> USE DEF AllInv
  <1> PICK P \in SUBSET Tx, C \in SUBSET Charges, H \in SUBSET Hooks : Crash(P, C, H)
    BY DEF CrashNext
  <1>1. UNCHANGED <<rows, logs, omise, sqs>>
    BY DEF Crash
  <1>2. \A t \in Tx : pay'[t] \in {"idle"} \cup PayActive =>
                        pay[t] \in {"idle"} \cup PayActive
    BY DEF Crash, PayActive
  <1>3. \A c \in Charges :
          /\ chg'[c].tx = chg[c].tx /\ chg'[c].source = chg[c].source
          /\ chg'[c] = chg[c] \/ chg'[c].pc = "crashed"
    BY DEF Crash, TypeInv, TypeOK, PayTypeOK, ChargeRequest
  <1>4. \A h \in Hooks :
          \/ hook'[h] = hook[h]
          \/ hook'[h].pc = "crashed" /\ hook'[h].charge = hook[h].charge
    BY DEF Crash, NoDelivery
  <1>5. BodiesStay
    BY <1>4 DEF BodiesStay
  <1>6. \A c \in Charges : chg'[c] = chg[c] \/ RequestIsOwn(c)'
    BY <1>3 DEF RequestIsOwn
  <1>7. \A h \in Hooks : hook'[h] = hook[h] \/ DeliveryIsOwn(h)'
    BY <1>4 DEF DeliveryIsOwn
  <1> QED BY <1>1, <1>2, <1>3, <1>5, <1>6, <1>7, QuietKeeps

----------------------------------------------------------------------------
LEMMA InitOwn == Init => OwnInv
  BY DEF Init, StoreInit, OmiseInit, PayInit, HookInit, NoCharge, NoRow, NoLog, NoRequest,
     NoDelivery, OwnInv, ChargesAreOwn, Made, AllCharges, RowsAreInserted, Exists, LogsHang,
     RequestIsOwn, DeliveryIsOwn, RowMatchesCharge, StatusIsReal, CreditsOwnPayment

LEMMA StepOwn ==
  ASSUME Closed, AllInv, [Next]_vars
  PROVE  OwnInv' /\ RowsStay
  <1>1. CASE UNCHANGED vars
    <2>1. UNCHANGED <<rows, logs, omise, pay, chg, hook, sqs>>
      BY <1>1 DEF vars
    <2>2. BodiesStay
      BY <2>1 DEF BodiesStay
    <2> QED BY <2>1, <2>2, QuietKeeps DEF AllInv
  <1>2. CASE PaymentNext /\ UNCHANGED hookVars
    BY <1>2, PayKeepsOwn, ChargeStepKeepsOwn DEF PaymentNext
  <1>3. CASE CallbackNext /\ UNCHANGED payVars
    BY <1>3, DeliveryStepKeepsOwn DEF CallbackNext
  <1> QED BY <1>1, <1>2, <1>3, ProviderKeepsOwn, CrashKeepsOwn DEF Next, ServiceNext

LEMMA AlwaysAllInv ==
  ASSUME Closed
  PROVE  Spec => []AllInv
  <1>1. Init => OwnInv
    BY InitOwn
  <1>2. TypeInv /\ CreditInv /\ OwnInv /\ [Next]_vars => OwnInv'
    BY StepOwn DEF AllInv
  <1>3. TypeInv /\ CreditInv /\ OwnInv => AllInv
    BY DEF AllInv
  <1> QED BY <1>1, <1>2, <1>3, AlwaysTypeInv, AlwaysCreditInv, PTL DEF Spec

\* However the saves of requests and webhooks race, a row's source and its
\* provider reference are of one charge, made for that row.
THEOREM RowsMatchCharges ==
  ASSUME Closed
  PROVE  Spec => []RowMatchesCharge
  <1>1. AllInv => RowMatchesCharge
    BY DEF AllInv, OwnInv
  <1> QED BY <1>1, AlwaysAllInv, PTL

\* A credit is booked on the transaction that its charge paid for.
THEOREM CreditsGoToTheirPayment ==
  ASSUME Closed
  PROVE  Spec => []CreditsOwnPayment
  <1>1. AllInv => CreditsOwnPayment
    BY DEF AllInv, OwnInv
  <1> QED BY <1>1, AlwaysAllInv, PTL

\* A row shows no settled status that no charge of it ever had.
THEOREM StatusesAreReal ==
  ASSUME Closed
  PROVE  Spec => []StatusIsReal
  <1>1. AllInv => StatusIsReal
    BY DEF AllInv, OwnInv
  <1> QED BY <1>1, AlwaysAllInv, PTL

\* Racing saves detach logs, and never hang one from another transaction.
THEOREM LogsStayWithTheirCharges ==
  ASSUME Closed
  PROVE  Spec => []LogsOfOwnCharges
  <1>1. AllInv => LogsOfOwnCharges
    <2> SUFFICES ASSUME AllInv PROVE LogsOfOwnCharges
      OBVIOUS
    <2>1. \A l \in LogIds : logs[l].tx # Null => Hangs(l, logs[l].tx)
      BY DEF AllInv, OwnInv, LogsHang
    <2> QED BY <2>1, ParticipantsAssumption DEF LogsOfOwnCharges, Hangs, LogIds
  <1> QED BY <1>1, AlwaysAllInv, PTL

\* A charge that was answered, the only one made for its transaction, has its
\* source and its reference in the row, for its webhooks to find.
THEOREM AnsweredAreFindable ==
  ASSUME Closed
  PROVE  Spec => []AnsweredIsFindable
  <1>1. ASSUME AllInv, NEW c \in Charges, chg[c].pc = "answered",
               \A d \in Charges \ {c} : ~(Made(d) /\ omise[d].tx = chg[c].tx)
        PROVE  rows[chg[c].tx].source = chg[c].source /\ rows[chg[c].tx].ref = c
    <2>1. /\ rows[chg[c].tx].source # Null /\ Made(c) /\ omise[c].source = chg[c].source
          /\ chg[c].tx \in Tx
      BY <1>1, RequestKnows DEF RequestIsOwn
    <2>2. PICK d \in Charges : /\ rows[chg[c].tx].ref = d /\ Made(d)
                               /\ omise[d].source = rows[chg[c].tx].source
                               /\ omise[d].tx = chg[c].tx
      BY <1>1, <2>1 DEF AllInv, OwnInv, RowMatchesCharge
    <2>3. d = c
      BY <1>1, <2>2
    <2> QED BY <2>1, <2>2, <2>3
  <1>2. AllInv => AnsweredIsFindable
    BY <1>1 DEF AnsweredIsFindable
  <1> QED BY <1>2, AlwaysAllInv, PTL

\* A save that writes the source of a charge made for its transaction meets
\* no other row with that source.
LEMMA WholePlanRespectsIndex ==
  ASSUME OwnInv, NEW c \in Charges, Made(c), NEW plan, Whole(plan, c)
  PROVE  RespectsIndex(omise[c].tx, plan)
  <1> SUFFICES ASSUME plan.source = omise[c].source, NEW u \in Tx,
                      rows[u].source = omise[c].source
               PROVE  u = omise[c].tx
    BY DEF RespectsIndex, Whole
  <1>1. omise[c].source # Null
    BY MarkersAssumption DEF OwnInv, ChargesAreOwn
  <1>2. PICK d \in Charges : /\ Made(d) /\ omise[d].tx = u
                             /\ omise[d].source = omise[c].source
    BY <1>1 DEF OwnInv, RowMatchesCharge
  <1>3. d = c
    BY <1>2 DEF OwnInv, ChargesAreOwn
  <1> QED BY <1>2, <1>3

\* The unique index makes no save fail: neither that of a webhook, which
\* would leave a paid charge uncredited, nor that of a charge request.
THEOREM SavesDoNotConflict ==
  ASSUME Closed
  PROVE  Spec => []NoSaveConflicts
  <1>1. ASSUME AllInv, NEW h \in Hooks, hook[h].pc = "commit"
        PROVE  RespectsIndex(hook[h].tx, hook[h].plan)
    <2>1. /\ hook[h].charge \in Charges /\ Made(hook[h].charge)
          /\ hook[h].tx = omise[hook[h].charge].tx /\ Whole(hook[h].plan, hook[h].charge)
      BY <1>1, BodyIsMade DEF Closed, AllInv, OwnInv, DeliveryIsOwn
    <2> QED BY <1>1, <2>1, WholePlanRespectsIndex DEF AllInv
  <1>2. ASSUME AllInv, NEW c \in Charges, chg[c].pc = "commit"
        PROVE  RespectsIndex(chg[c].tx, chg[c].plan)
    <2>1. Made(c) /\ chg[c].tx = omise[c].tx /\ Whole(chg[c].plan, c)
      BY <1>2, RequestKnows DEF RequestIsOwn
    <2> QED BY <1>2, <2>1, WholePlanRespectsIndex DEF AllInv
  <1>3. AllInv => NoSaveConflicts
    BY <1>1, <1>2 DEF NoSaveConflicts
  <1> QED BY <1>3, AlwaysAllInv, PTL

----------------------------------------------------------------------------
(* That a row keeps a source needs less: it holds even when the provider    *)
(* charges a source twice and the rows of two charges are mixed up.         *)

TiedRequest(c) ==
  /\ chg[c].pc \in {"create", "load", "commit"} => Exists(chg[c].tx)
  /\ chg[c].pc = "commit" => chg[c].plan.source # Null

TiedDelivery(h) ==
  /\ hook[h].pc \in {"load", "commit"} => Exists(hook[h].tx)
  /\ hook[h].pc = "load" => hook[h].source # Null
  /\ hook[h].pc = "commit" => hook[h].plan.source # Null

\* No save that is planned, or is going to be, writes an empty source, and
\* none is of a row that is still to be inserted.
TiedInv == /\ RowsAreInserted
           /\ \A c \in Charges : Made(c) => omise[c].source # Null
           /\ \A c \in Charges : TiedRequest(c)
           /\ \A h \in Hooks : TiedDelivery(h)

\* What requests and deliveries that a step leaves alone know goes on holding.
LEMMA RestStaysTied ==
  ASSUME TypeInv, TiedInv, RowsStay
  PROVE  /\ \A c \in Charges : chg'[c] = chg[c] => TiedRequest(c)'
         /\ \A h \in Hooks : hook'[h] = hook[h] => TiedDelivery(h)'
  BY DEF TypeInv, ChargeProgress, HookProgress, TiedInv, TiedRequest, TiedDelivery, RowsStay

\* A save of a row that is there, with a source.
LEMMA SaveStaysTied ==
  ASSUME TypeInv, TiedInv, NEW t \in Tx, Exists(t), NEW plan \in Plan, plan.source # Null,
         NEW new, NEW status, CommitSave(t, plan, new, status), UNCHANGED pay
  PROVE  RowsStay /\ RowsAreInserted'
  <1>1. /\ \A u \in Tx \ {t} : rows'[u] = rows[u]
        /\ rows'[t].source \in {plan.source, rows[t].source}
        /\ rows[t].source # Null => rows'[t].source # Null
        /\ rows'[t].status # Null
    BY MarkersAssumption
    DEF CommitSave, Written, Exists, Plan, TypeInv, TypeOK, StoreTypeOK, Row
  <1> QED BY <1>1 DEF TiedInv, RowsStay, RowsAreInserted, Exists

LEMMA PayStaysTied ==
  ASSUME TypeInv, TiedInv, NEW t \in Tx, RequestPay(t) \/ PayStep(t), UNCHANGED hookVars
  PROVE  TiedInv' /\ RowsStay
  <1>1. UNCHANGED <<omise, chg, hook>>
    BY DEF RequestPay, PayStep, GetTokenPackage, SaveNewTransaction, InsertFails, hookVars
  <1>2. RowsStay /\ RowsAreInserted'
    <2>1. CASE RequestPay(t) \/ GetTokenPackage(t) \/ InsertFails(t)
      <3>1. UNCHANGED rows /\ \A u \in Tx : pay'[u] \in {"idle"} \cup PayActive =>
                                              pay[u] \in {"idle"} \cup PayActive
        BY <2>1 DEF RequestPay, GetTokenPackage, InsertFails, PayGoes, PayActive,
           TypeInv, TypeOK, PayTypeOK
      <3> QED BY <3>1 DEF TiedInv, RowsStay, RowsAreInserted, Exists
    <2>2. CASE SaveNewTransaction(t)
      <3>1. /\ pay[t] = "insert" /\ pay'[t] \in {"answered", "failed"}
            /\ \A u \in Tx \ {t} : pay'[u] = pay[u] /\ rows'[u] = rows[u]
            /\ rows'[t].status = "pending"
        BY <2>2 DEF SaveNewTransaction, InsertRow, PayGoes, TypeInv, TypeOK, PayTypeOK,
           StoreTypeOK
      <3>2. rows[t].source = Null /\ ~Exists(t) /\ Exists(t)'
        BY <3>1, MarkersAssumption DEF TiedInv, RowsAreInserted, PayActive, Exists, Statuses
      <3> QED BY <3>1, <3>2 DEF TiedInv, RowsStay, RowsAreInserted, PayActive, Exists
    <2> QED BY <2>1, <2>2 DEF PayStep
  <1> QED BY <1>1, <1>2, RestStaysTied DEF TiedInv, Made

LEMMA ChargeStepStaysTied ==
  ASSUME TypeInv, TiedInv, NEW c \in Charges,
         (\E t \in Tx, s \in Sources : RequestCharge(c, t, s)) \/ ChargeStep(c),
         UNCHANGED hookVars
  PROVE  TiedInv' /\ RowsStay
  <1>1. /\ TiedRequest(c) /\ chg[c].plan \in Plan
        /\ chg[c].pc # "idle" => chg[c].tx \in Tx /\ chg[c].source \in Sources
        /\ chg \in [Charges -> ChargeRequest] /\ UNCHANGED hook
    BY DEF TypeInv, TypeOK, PayTypeOK, ChargeProgress, ChargeRequest, TiedInv, hookVars
  \* The tables and the other requests are left alone, and the provider makes
  \* a charge or not.
  <1>2. ASSUME UNCHANGED <<rows, pay>>, TiedRequest(c)',
               \A d \in Charges \ {c} : chg'[d] = chg[d],
               \/ UNCHANGED omise
               \/ chg[c].pc = "create" /\ CreateCharge(c, chg[c].tx, chg[c].source)
        PROVE  TiedInv' /\ RowsStay
    <2>1. \A d \in Charges : Made(d)' => omise'[d].source # Null
      <3>1. c \in AllCharges
        BY DEF AllCharges
      <3>2. CASE UNCHANGED omise
        BY <3>2 DEF TiedInv, Made
      <3>3. CASE chg[c].pc = "create" /\ CreateCharge(c, chg[c].tx, chg[c].source)
        <4>1. /\ omise'[c].source = chg[c].source
              /\ \A d \in Charges \ {c} : omise'[d] = omise[d]
          BY <3>1, <3>3 DEF CreateCharge, TypeInv, TypeOK, OmiseTypeOK
        <4> QED BY <1>1, <3>3, <4>1, MarkersAssumption DEF TiedInv, Made
      <3> QED BY <1>2, <3>2, <3>3
    <2>2. RowsStay /\ RowsAreInserted'
      BY <1>2 DEF TiedInv, RowsStay, RowsAreInserted, Exists
    <2> QED BY <1>1, <1>2, <2>1, <2>2, RestStaysTied DEF TiedInv
  <1>3. CASE \E t \in Tx, s \in Sources : RequestCharge(c, t, s)
    <2>1. chg'[c].pc = "type" /\ UNCHANGED <<rows, pay, omise>>
          /\ \A d \in Charges \ {c} : chg'[d] = chg[d]
      BY <1>1, <1>3 DEF RequestCharge, ChargeRequest
    <2> QED BY <1>2, <2>1 DEF TiedRequest
  <1>4. CASE FindPaymentType(c) \/ FindTransactionOrFail(c) \/ OmiseRefuses(c)
    <2>1. /\ UNCHANGED <<rows, pay, omise>>
          /\ \E to \in {"find", "failed", "create"} :
               /\ chg' = [chg EXCEPT ![c].pc = to]
               /\ to = "create" => Exists(chg[c].tx)
      BY <1>4 DEF FindPaymentType, FindTransactionOrFail, OmiseRefuses, ChargeGoes
    <2>2. /\ chg'[c].tx = chg[c].tx /\ \A d \in Charges \ {c} : chg'[d] = chg[d]
          /\ chg'[c].pc \in {"find", "failed", "create"}
          /\ chg'[c].pc = "create" => Exists(chg[c].tx)
      BY <1>1, <2>1 DEF ChargeRequest
    <2> QED BY <1>2, <2>1, <2>2 DEF TiedRequest, Exists
  <1>5. CASE CreateOmiseCharge(c)
    <2>1. /\ chg[c].pc = "create" /\ CreateCharge(c, chg[c].tx, chg[c].source)
          /\ UNCHANGED <<rows, pay>> /\ chg'[c].tx = chg[c].tx
          /\ \A d \in Charges \ {c} : chg'[d] = chg[d]
          /\ chg'[c].pc \in {"load", "failed"}
      BY <1>1, <1>5 DEF CreateOmiseCharge, ChargeGoes, ChargeRequest
    <2> QED BY <1>1, <1>2, <2>1 DEF TiedRequest, Exists
  <1>6. CASE LoadForChargeSave(c)
    <2>1. /\ chg[c].pc = "load" /\ UNCHANGED <<rows, pay, omise>>
          /\ chg'[c].pc = "commit" /\ chg'[c].tx = chg[c].tx
          /\ \A d \in Charges \ {c} : chg'[d] = chg[d]
          /\ chg'[c].plan.source \in {chg[c].source, Keep}
      BY <1>1, <1>6 DEF LoadForChargeSave, PlanSave, Changed, ChargeRequest
    <2>2. chg'[c].plan.source # Null
      BY <1>1, <2>1, MarkersAssumption
    <2> QED BY <1>1, <1>2, <2>1, <2>2 DEF TiedRequest, Exists
  <1>7. CASE CommitChargeSave(c)
    <2>1. /\ chg[c].pc = "commit" /\ UNCHANGED <<omise, pay>>
          /\ CommitSave(chg[c].tx, chg[c].plan, c, "pending")
          /\ chg'[c].pc \in {"answered", "failed"}
          /\ \A d \in Charges \ {c} : chg'[d] = chg[d]
      BY <1>1, <1>7 DEF CommitChargeSave, ChargeSaveEnds, ChargeRequest
    <2>2. RowsStay /\ RowsAreInserted'
      BY <1>1, <2>1, SaveStaysTied DEF TiedRequest
    <2>3. TiedRequest(c)'
      BY <2>1 DEF TiedRequest
    <2> QED BY <1>1, <2>1, <2>2, <2>3, RestStaysTied DEF TiedInv, Made
  <1>8. CASE ChargeSaveConflicts(c) \/ ChargeCallFails(c)
    <2>1. /\ UNCHANGED <<rows, pay, omise>> /\ chg'[c].pc = "failed"
          /\ \A d \in Charges \ {c} : chg'[d] = chg[d]
      BY <1>1, <1>8 DEF ChargeSaveConflicts, ChargeCallFails, ChargeSaveEnds, ChargeRequest
    <2> QED BY <1>2, <2>1 DEF TiedRequest
  <1> QED BY <1>3, <1>4, <1>5, <1>6, <1>7, <1>8 DEF ChargeStep

LEMMA DeliveryStaysTied ==
  ASSUME Foreign = {}, TypeInv, CreditInv, TiedInv, NEW h \in Hooks,
         \/ \E c \in AllCharges, s \in Statuses, e \in Envelopes : Deliver(h, c, s, e)
         \/ HookStep(h),
         UNCHANGED payVars
  PROVE  TiedInv' /\ RowsStay
  <1>1. /\ TiedDelivery(h) /\ hook[h].plan \in Plan /\ UNCHANGED <<pay, chg>>
        /\ hook[h].pc \in {"load", "commit"} => hook[h].tx \in Tx
        /\ hook \in [Hooks -> Delivery]
    BY DEF TypeInv, TypeOK, HookTypeOK, HookProgress, TiedInv, payVars, Delivery
  <1>2. ASSUME UNCHANGED <<rows, omise>>, TiedDelivery(h)',
               \A g \in Hooks \ {h} : hook'[g] = hook[g]
        PROVE  TiedInv' /\ RowsStay
    <2>1. RowsStay /\ RowsAreInserted'
      BY <1>1, <1>2 DEF TiedInv, RowsStay, RowsAreInserted, Exists
    <2> QED BY <1>1, <1>2, <2>1, RestStaysTied DEF TiedInv, Made
  <1>3. CASE \E c \in AllCharges, s \in Statuses, e \in Envelopes : Deliver(h, c, s, e)
    <2>1. UNCHANGED <<rows, omise>> /\ \E to \in {"ignored", "validate", "rejected"},
                                        c \in AllCharges, s \in Statuses :
            hook' = [hook EXCEPT ![h] = [@ EXCEPT !.pc = to, !.charge = c, !.status = s]]
      BY <1>3 DEF Deliver
    <2>2. /\ hook'[h].pc \in {"ignored", "validate", "rejected"}
          /\ \A g \in Hooks \ {h} : hook'[g] = hook[g]
      BY <1>1, <2>1 DEF Delivery
    <2> QED BY <1>2, <2>1, <2>2 DEF TiedDelivery
  <1>4. CASE FindCharge(h)
    <2>1. UNCHANGED <<rows, omise>> /\ hook'[h].pc \in {"find", "rejected"}
          /\ \A g \in Hooks \ {h} : hook'[g] = hook[g]
      BY <1>1, <1>4 DEF FindCharge, HookGoes, TypeInv, TypeOK, HookTypeOK
    <2> QED BY <1>2, <2>1 DEF TiedDelivery
  <1>5. CASE FindTransaction(h)
    <2>1. PICK t \in RowsFor(hook[h].charge) :
            hook' = [hook EXCEPT ![h] = [@ EXCEPT !.pc = "load", !.tx = t,
                       !.source = rows[t].source, !.logs = LogsOf(t)]]
      BY <1>5 DEF FindTransaction
    <2>2. UNCHANGED <<rows, omise>> /\ hook[h].pc = "find"
      BY <1>5 DEF FindTransaction
    <2>3. omise[hook[h].charge].source # Null
      BY <2>2, BodyIsMade DEF TiedInv
    <2>4. Exists(t) /\ rows[t].source # Null
      BY <2>1, <2>3 DEF RowsFor
    <2>5. /\ hook'[h].pc = "load" /\ hook'[h].tx = t /\ hook'[h].source = rows[t].source
          /\ \A g \in Hooks \ {h} : hook'[g] = hook[g]
      BY <1>1, <2>1 DEF TypeInv, TypeOK, HookTypeOK
    <2> QED BY <1>2, <2>2, <2>4, <2>5 DEF TiedDelivery, Exists
  <1>6. CASE LoadForHookSave(h)
    <2>1. /\ UNCHANGED <<rows, omise>> /\ hook[h].pc = "load"
          /\ hook'[h].pc = "commit" /\ hook'[h].tx = hook[h].tx
          /\ hook'[h].plan.source \in {hook[h].source, Keep}
          /\ \A g \in Hooks \ {h} : hook'[g] = hook[g]
      BY <1>1, <1>6 DEF LoadForHookSave, PlanSave, Changed, TypeInv, TypeOK, HookTypeOK
    <2>2. hook'[h].plan.source # Null
      BY <1>1, <2>1, MarkersAssumption DEF TiedDelivery
    <2> QED BY <1>1, <1>2, <2>1, <2>2 DEF TiedDelivery, Exists
  <1>7. CASE CommitHookSave(h) \/ FailAfterHookSave(h)
    <2>1. /\ hook[h].pc = "commit" /\ UNCHANGED omise
          /\ CommitSave(hook[h].tx, hook[h].plan, h, hook[h].status)
          /\ hook'[h].pc \in {"send", "notify", "recorded", "swallowed"}
          /\ \A g \in Hooks \ {h} : hook'[g] = hook[g]
      BY <1>1, <1>7 DEF CommitHookSave, FailAfterHookSave, HookSaveWrites, HookEnds,
         NoDelivery, AfterSave, TypeInv, TypeOK, HookTypeOK
    <2>2. RowsStay /\ RowsAreInserted'
      BY <1>1, <2>1, SaveStaysTied DEF TiedDelivery
    <2>3. TiedDelivery(h)'
      BY <2>1 DEF TiedDelivery
    <2> QED BY <1>1, <2>1, <2>2, <2>3, RestStaysTied DEF TiedInv, Made
  <1>8. CASE NoTransaction(h) \/ HookSaveConflicts(h) \/ NoTag(h) \/ HookCallFails(h)
    <2>1. UNCHANGED <<rows, omise>> /\ \E how \in {"unmatched", "swallowed"} : HookEnds(h, how)
      BY <1>8 DEF NoTransaction, HookSaveConflicts, NoTag, HookCallFails
    <2>2. /\ hook'[h].pc \in {"unmatched", "swallowed"}
          /\ \A g \in Hooks \ {h} : hook'[g] = hook[g]
      BY <1>1, <2>1 DEF HookEnds, NoDelivery
    <2> QED BY <1>2, <2>1, <2>2 DEF TiedDelivery
  <1>9. CASE SendCredit(h) \/ PushNotification(h)
    <2>1. /\ UNCHANGED <<rows, omise>> /\ hook'[h].pc \in {"notify", "recorded", "swallowed"}
          /\ \A g \in Hooks \ {h} : hook'[g] = hook[g]
      BY <1>1, <1>9 DEF SendCredit, PushNotification, HookEnds, NoDelivery,
         TypeInv, TypeOK, HookTypeOK
    <2> QED BY <1>2, <2>1 DEF TiedDelivery
  <1> QED BY <1>3, <1>4, <1>5, <1>6, <1>7, <1>8, <1>9 DEF HookStep

LEMMA StepStaysTied ==
  ASSUME Foreign = {}, TypeInv, CreditInv, TiedInv, [Next]_vars
  PROVE  TiedInv' /\ RowsStay
  <1>1. CASE UNCHANGED vars
    BY <1>1 DEF vars, TiedInv, RowsStay, RowsAreInserted, TiedRequest, TiedDelivery,
       Exists, Made
  <1>2. CASE PaymentNext /\ UNCHANGED hookVars
    BY <1>2, PayStaysTied, ChargeStepStaysTied DEF PaymentNext
  <1>3. CASE CallbackNext /\ UNCHANGED payVars
    BY <1>3, DeliveryStaysTied DEF CallbackNext
  <1>4. CASE ProviderNext
    <2>1. UNCHANGED <<rows, pay, chg, hook>> /\ \E c \in AllCharges : SettleCharge(c)
      BY <1>4 DEF ProviderNext
    <2>2. \A c \in Charges : Made(c)' => Made(c) /\ omise'[c].source = omise[c].source
      BY <2>1 DEF SettleCharge, Made, TypeInv, TypeOK, OmiseTypeOK, AllCharges
    <2>3. RowsStay /\ RowsAreInserted'
      BY <2>1 DEF TiedInv, RowsStay, RowsAreInserted, Exists
    <2> QED BY <2>1, <2>2, <2>3, RestStaysTied DEF TiedInv
  <1>5. CASE CrashNext
    <2>1. PICK P \in SUBSET Tx, C \in SUBSET Charges, H \in SUBSET Hooks : Crash(P, C, H)
      BY <1>5 DEF CrashNext
    <2>2. /\ UNCHANGED <<rows, omise>>
          /\ \A t \in Tx : pay'[t] = "crashed" \/ pay'[t] = pay[t]
          /\ \A c \in Charges : chg'[c].pc = "crashed" \/ chg'[c] = chg[c]
          /\ \A h \in Hooks : hook'[h].pc = "crashed" \/ hook'[h] = hook[h]
      BY <2>1 DEF Crash, NoDelivery, TypeInv, TypeOK, PayTypeOK, ChargeRequest
    <2>3. RowsStay /\ RowsAreInserted'
      BY <2>2 DEF TiedInv, RowsStay, RowsAreInserted, Exists, PayActive
    <2>4. \A c \in Charges : chg'[c].pc = "crashed" => TiedRequest(c)'
      BY DEF TiedRequest
    <2>5. \A h \in Hooks : hook'[h].pc = "crashed" => TiedDelivery(h)'
      BY DEF TiedDelivery
    <2> QED BY <2>2, <2>3, <2>4, <2>5, RestStaysTied DEF TiedInv, Made
  <1> QED BY <1>1, <1>2, <1>3, <1>4, <1>5 DEF Next, ServiceNext

\* No save takes a row's source away, so that some charge's webhooks go on
\* finding it; even where a source may be charged twice.
THEOREM RowsStayTied ==
  ASSUME Foreign = {}
  PROVE  Spec => NeverUntied
  <1>1. Init => TiedInv
    BY DEF Init, StoreInit, OmiseInit, PayInit, HookInit, NoCharge, NoRow, NoRequest,
       NoDelivery, TiedInv, RowsAreInserted, TiedRequest, TiedDelivery, Exists, Made,
       AllCharges
  <1>2. TypeInv /\ CreditInv /\ TiedInv /\ [Next]_vars =>
          TiedInv' /\ [\A t \in Tx : rows[t].source # Null => rows'[t].source # Null]_vars
    BY StepStaysTied DEF RowsStay
  <1> QED BY <1>1, <1>2, AlwaysTypeInv, AlwaysCreditInv, PTL DEF Spec, NeverUntied
=============================================================================
