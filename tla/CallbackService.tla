-------------------------- MODULE CallbackService --------------------------
(***************************************************************************)
(* POST /payment/callback/omise (CallbackController and CallbackService),  *)
(* the message it sends to the credit queue (SqsService) and the push      *)
(* notification (NotificationService).  A delivery is handled in one step  *)
(* per await.  Whatever happens to it, the provider gets an HTTP 200, so a *)
(* delivery is never repeated by the provider because of it.               *)
(***************************************************************************)
EXTENDS TransactionStore, Omise

VARIABLES
  hook,     \* each webhook delivery: progress, body and local variables
  sqs,      \* messages sent to the credit queue
  notices   \* push notifications sent

hookVars == <<hook, sqs, notices>>

HookActive == {"validate", "find", "load", "commit", "send", "notify"}
HookEnded  == {"ignored", "rejected", "unmatched", "swallowed", "recorded",
               "crashed"}

\* charge and status are those of the body; tx, source and logs those of the
\* entity found; the entity's other columns are overwritten from the body.
NoDelivery == [pc |-> "idle", charge |-> Null, status |-> Null, tx |-> Null,
               source |-> Null, logs |-> {}, plan |-> NoPlan]

Credit == [hook : Hooks, tx : Tx, charge : AllCharges]
Notice == [hook : Hooks, charge : AllCharges, status : {"successful", "failed"}]

HookTypeOK ==
  /\ hook \in [Hooks -> [pc     : {"idle"} \cup HookActive \cup HookEnded,
                         charge : AllCharges \cup {Null},
                         status : Statuses \cup {Null},
                         tx     : Tx \cup {Null},
                         source : Sources \cup {Null},
                         logs   : SUBSET LogIds,
                         plan   : Plan]]
  /\ sqs \subseteq Credit
  /\ notices \subseteq Notice

HookInit == /\ hook = [h \in Hooks |-> NoDelivery]
            /\ sqs = {}
            /\ notices = {}

\* The request ends: its body is kept for the properties, its local
\* variables are gone.
HookEnds(h, how) ==
  hook' = [hook EXCEPT ![h] = [NoDelivery EXCEPT !.pc = how,
                                                 !.charge = hook[h].charge,
                                                 !.status = hook[h].status]]

HookGoes(h, from, to) ==
  hook[h].pc = from /\ hook' = [hook EXCEPT ![h].pc = to]

----------------------------------------------------------------------------
(* CallbackController.handleOmiseCallBack and validateChargeEvent *)

ValidEnvelope(e) == /\ e.id
                    /\ e.agent = "omise/current"
                    /\ e.key \in OmiseChargeEvents

\* The body is a snapshot of the charge at some point of its history: it may
\* be old when it arrives, and two of them may arrive in any order.
Deliver(h, c, s, e) ==
  /\ hook[h].pc = "idle"
  /\ s \in omise[c].statuses
  /\ hook' = [hook EXCEPT ![h] = [@ EXCEPT
                !.pc = IF e.object # "charge" THEN "ignored"
                       ELSE IF ValidEnvelope(e) THEN "validate"
                       ELSE "rejected",
                !.charge = c,
                !.status = s]]
  /\ UNCHANGED <<rows, logs, omise, sqs, notices>>

\* The answer of the provider is awaited, and not looked at.
FindCharge(h) ==
  /\ \/ HookGoes(h, "validate", "find")
     \/ Faults /\ HookGoes(h, "validate", "rejected")
  /\ UNCHANGED <<rows, logs, omise, sqs, notices>>

----------------------------------------------------------------------------
(* createTransactionLog *)

\* Mutated: the query has lost its condition.
AnyRow(c) == {t \in Tx : Exists(t)}

\* Mutated: the query is for the txId of the metadata, not the sourceId.
RowsByTxId(c) == {t \in Tx : Exists(t) /\ omise[c].tx = t}

\* The rows that the query for a charge's sourceId may return.  With no
\* sourceId the condition is dropped, and any row is the first one.
RowsFor(c) ==
  IF omise[c].source = Null THEN {t \in Tx : Exists(t)}
  ELSE {t \in Tx : Exists(t) /\ rows[t].source = omise[c].source}

FindTransaction(h) ==
  /\ hook[h].pc = "find"
  /\ \E t \in RowsFor(hook[h].charge) :
       hook' = [hook EXCEPT ![h] = [@ EXCEPT !.pc = "load", !.tx = t,
                  !.source = rows[t].source, !.logs = LogsOf(t)]]
  /\ UNCHANGED <<rows, logs, omise, sqs, notices>>

NoTransaction(h) ==
  /\ hook[h].pc = "find"
  /\ RowsFor(hook[h].charge) = {}
  /\ HookEnds(h, "unmatched")
  /\ UNCHANGED <<rows, logs, omise, sqs, notices>>

\* Mutated: the provider reference is not set before the save.
SaveKeepsRef(h) ==
  /\ hook[h].pc = "load"
  /\ hook' = [hook EXCEPT ![h] = [@ EXCEPT
                !.pc = "commit", !.source = Null, !.logs = {},
                !.plan = [PlanSave(hook[h].tx, hook[h].source, hook[h].charge,
                                   hook[h].status, hook[h].logs)
                            EXCEPT !.ref = Keep]]]
  /\ UNCHANGED <<rows, logs, omise, sqs, notices>>

\* The whole entity is saved: its source as it was found, the status and
\* provider reference of the body, the logs as they were found and the new.
LoadForHookSave(h) ==
  /\ hook[h].pc = "load"
  /\ hook' = [hook EXCEPT ![h] = [@ EXCEPT
                !.pc = "commit", !.source = Null, !.logs = {},
                !.plan = PlanSave(hook[h].tx, hook[h].source, hook[h].charge,
                                  hook[h].status, hook[h].logs)]]
  /\ UNCHANGED <<rows, logs, omise, sqs, notices>>

\* Mutated: the relation does not cascade, the log is not saved.
HookSaveWritesRow(h) ==
  /\ rows' = [rows EXCEPT ![hook[h].tx].status = hook[h].status]
  /\ UNCHANGED logs

HookSaveWrites(h) ==
  CommitSave(hook[h].tx, hook[h].plan, h, hook[h].status)

\* Mutated: whatever its status, a charge is notified of.
AlwaysNotify(status) == IF status = "successful" THEN "send" ELSE "notify"

\* Mutated: a complete charge is credited, whether it succeeded or failed.
CreditComplete(status) == IF status \in {"successful", "failed"} THEN "send"
                          ELSE "recorded"

\* Mutated: a successful charge is notified of and not credited.
NotifyOnly(status) == IF status \in {"successful", "failed"} THEN "notify"
                      ELSE "recorded"

\* Only a charge that succeeded is credited, and only one that is complete
\* is notified of.
AfterSave(status) == CASE status = "successful" -> "send"
                       [] status = "failed"     -> "notify"
                       [] OTHER                 -> "recorded"

CommitHookSave(h) ==
  /\ hook[h].pc = "commit"
  /\ HookSaveWrites(h)
  /\ IF AfterSave(hook[h].status) = "recorded" THEN HookEnds(h, "recorded")
     ELSE hook' = [hook EXCEPT ![h] = [@ EXCEPT
            !.pc = AfterSave(hook[h].status), !.plan = NoPlan]]
  /\ UNCHANGED <<omise, sqs, notices>>

\* The save is committed, but it, or the formatting of the message from the
\* transaction's metadata, throws.
FailAfterHookSave(h) ==
  /\ Faults
  /\ hook[h].pc = "commit"
  /\ HookSaveWrites(h)
  /\ HookEnds(h, "swallowed")
  /\ UNCHANGED <<omise, sqs, notices>>

HookSaveConflicts(h) ==
  /\ hook[h].pc = "commit"
  /\ ~RespectsIndex(hook[h].tx, hook[h].plan)
  /\ HookEnds(h, "swallowed")
  /\ UNCHANGED <<rows, logs, omise, sqs, notices>>

\* Mutated: the message is not awaited, and its failure goes unnoticed.
SendUnawaited(h) ==
  /\ HookGoes(h, "send", "notify")
  /\ \/ sqs' = sqs \cup {[hook |-> h, tx |-> hook[h].tx, charge |-> hook[h].charge]}
     \/ UNCHANGED sqs
  /\ UNCHANGED <<rows, logs, omise, notices>>

\* The message names the transaction found and the charge of the body.  It
\* may reach the queue and its acknowledgement be lost.
SendCredit(h) ==
  /\ hook[h].pc = "send"
  /\ sqs' = sqs \cup {[hook |-> h, tx |-> hook[h].tx, charge |-> hook[h].charge]}
  /\ \/ hook' = [hook EXCEPT ![h].pc = "notify"]
     \/ Faults /\ HookEnds(h, "swallowed")
  /\ UNCHANGED <<rows, logs, omise, notices>>

\* The payload is addressed to the user of the charge's metadata; without
\* one there is no payload and pushNotification throws.  Here too the answer
\* may be lost.
PushNotification(h) ==
  /\ hook[h].pc = "notify"
  /\ hook[h].charge \in Charges
  /\ notices' = notices \cup {[hook   |-> h, charge |-> hook[h].charge,
                               status |-> hook[h].status]}
  /\ \/ HookEnds(h, "recorded")
     \/ Faults /\ HookEnds(h, "swallowed")
  /\ UNCHANGED <<rows, logs, omise, sqs>>

NoTag(h) ==
  /\ hook[h].pc = "notify"
  /\ hook[h].charge \in Foreign
  /\ HookEnds(h, "swallowed")
  /\ UNCHANGED <<rows, logs, omise, sqs, notices>>

\* Any other awaited call may fail: the error is logged and forgotten.
HookCallFails(h) ==
  /\ Faults
  /\ hook[h].pc \in HookActive \ {"validate"}
  /\ HookEnds(h, "swallowed")
  /\ UNCHANGED <<rows, logs, omise, sqs, notices>>

----------------------------------------------------------------------------
HookStep(h) ==
  \/ FindCharge(h) \/ FindTransaction(h) \/ NoTransaction(h)
  \/ LoadForHookSave(h) \/ CommitHookSave(h) \/ FailAfterHookSave(h)
  \/ HookSaveConflicts(h) \/ SendCredit(h) \/ PushNotification(h) \/ NoTag(h)
  \/ HookCallFails(h)

CallbackNext ==
  \E h \in Hooks :
    \/ \E c \in AllCharges, s \in Statuses, e \in Envelopes : Deliver(h, c, s, e)
    \/ HookStep(h)
=============================================================================
