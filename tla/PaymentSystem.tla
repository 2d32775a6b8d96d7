--------------------------- MODULE PaymentSystem ---------------------------
(***************************************************************************)
(* The payment service at work: clients that open and charge transactions, *)
(* the provider that settles charges and sends webhooks about them, the    *)
(* requests in progress, and the death of a process with the requests it   *)
(* was serving.                                                            *)
(***************************************************************************)
EXTENDS PaymentService, CallbackService

vars == <<rows, logs, omise, pay, chg, hook, sqs, notices>>

TypeOK == StoreTypeOK /\ OmiseTypeOK /\ PayTypeOK /\ HookTypeOK

Init == StoreInit /\ OmiseInit /\ PayInit /\ HookInit

\* A process dies (a deployment, or an unhandled rejection of the message
\* that AppController.sendSQS does not await): the requests it was serving,
\* which may be any of those in progress, stop where they are.
Crash(P, C, H) ==
  /\ \A t \in P : pay[t] \in PayActive
  /\ \A c \in C : chg[c].pc \in ChargeActive
  /\ \A h \in H : hook[h].pc \in HookActive
  /\ P \cup C \cup H # {}
  /\ pay' = [t \in Tx |-> IF t \in P THEN "crashed" ELSE pay[t]]
  /\ chg' = [c \in Charges |->
               IF c \in C THEN [chg[c] EXCEPT !.pc = "crashed", !.plan = NoPlan]
               ELSE chg[c]]
  /\ hook' = [h \in Hooks |->
               IF h \in H THEN [NoDelivery EXCEPT !.pc = "crashed",
                                                  !.charge = hook[h].charge,
                                                  !.status = hook[h].status]
               ELSE hook[h]]
  /\ UNCHANGED <<rows, logs, omise, sqs, notices>>

ProviderNext == /\ \/ \E c \in Foreign : CreateForeignCharge(c)
                   \/ \E c \in AllCharges : SettleCharge(c)
                /\ UNCHANGED <<rows, logs, pay, chg, hook, sqs, notices>>

CrashNext == \E P \in SUBSET Tx, C \in SUBSET Charges, H \in SUBSET Hooks :
               Crash(P, C, H)

\* Every step but a crash.
ServiceNext ==
  \/ PaymentNext /\ UNCHANGED hookVars
  \/ CallbackNext /\ UNCHANGED payVars
  \/ ProviderNext

Next == ServiceNext \/ CrashNext

Spec == Init /\ [][Next]_vars

\* A request that is there goes on: the event loop runs the continuation of
\* an await whose call has answered, and every call answers or fails.  No
\* client, no delivery and no settlement has to happen.
FairRequests ==
  /\ \A t \in Tx : WF_vars(PayStep(t) /\ UNCHANGED hookVars)
  /\ \A c \in Charges : WF_vars(ChargeStep(c) /\ UNCHANGED hookVars)
  /\ \A h \in Hooks : WF_vars(HookStep(h) /\ UNCHANGED payVars)

\* The system while no process dies.
FairSpec == Init /\ [][ServiceNext]_vars /\ FairRequests

----------------------------------------------------------------------------
(* Safety *)

\* Nothing is credited that was not paid: the charge of every message sent
\* to the queue has been successful at the provider.
CreditOnlyPaid == \A m \in sqs : Paid(m.charge)

\* A credit leaves a trace that outlives it: the webhook that sent it has
\* stored its log, as successful.  The save comes before the message, and no
\* racing save removes a log (it may detach it).
CreditedIsRecorded == \A m \in sqs : logs[m.hook].status = "successful"

\* A user is told of a success only after the credit is on its way, and of
\* any outcome only after it is recorded.
NoticeFollowsCredit ==
  \A n \in notices :
    /\ logs[n.hook].status = n.status
    /\ n.status = "successful" =>
         \E m \in sqs : m.hook = n.hook /\ m.charge = n.charge

\* A row whose status is not 'pending' (one that the transaction list of its
\* user shows) got it from a webhook that stored a log with that status.
StatusIsLogged ==
  \A t \in Tx :
    Exists(t) /\ rows[t].status # "pending" =>
      \E h \in Hooks : logs[h].status = rows[t].status

\* What the logs and the queue disagree on: a webhook that stored its log as
\* successful has sent its credit, or is about to, or its process died or one
\* of its calls failed.  When no call fails, only a crash loses a credit that
\* is recorded.
RecordedIsCredited ==
  \A h \in Hooks : logs[h].status = "successful" =>
    \/ \E m \in sqs : m.hook = h /\ m.charge = hook[h].charge
    \/ hook[h].pc \in {"send", "crashed"}
    \/ Faults /\ hook[h].pc = "swallowed"
----------------------------------------------------------------------------
(* Safety, when a source is charged once and every charge is the service's *)

\* The source and the provider reference of a row, written by saves that
\* race, are those of one charge, made for that row.
RowMatchesCharge ==
  \A t \in Tx :
    \/ rows[t].source = Null /\ rows[t].ref = Null
    \/ \E c \in Charges : /\ rows[t].ref = c
                          /\ Made(c)
                          /\ omise[c].source = rows[t].source
                          /\ omise[c].tx = t

\* The transaction that a credit names is the one that its charge paid.
CreditsOwnPayment == \A m \in sqs : omise[m.charge].tx = m.tx

\* A settled status of a row is one that a charge of that row really had.
StatusIsReal ==
  \A t \in Tx :
    Exists(t) /\ rows[t].status # "pending" =>
      \E c \in Charges : omise[c].tx = t /\ rows[t].status \in omise[c].statuses

\* A log hangs from the transaction of the charge it reports, or from none.
LogsOfOwnCharges ==
  /\ \A c \in Charges : logs[c].tx # Null => logs[c].tx = omise[c].tx
  /\ \A h \in Hooks : logs[h].tx # Null => logs[h].tx = omise[hook[h].charge].tx

\* A charge request that was answered, the only charge made for its
\* transaction, is found by its webhooks and seen by its user from then on.
\* Requests that the provider or the service refused do not matter.
AnsweredIsFindable ==
  \A c \in Charges :
    /\ chg[c].pc = "answered"
    /\ \A d \in Charges \ {c} : ~(Made(d) /\ omise[d].tx = chg[c].tx)
    => rows[chg[c].tx].source = chg[c].source /\ rows[chg[c].tx].ref = c

\* The unique index on source never refuses a save that has been planned,
\* neither a webhook's, which would lose a payment, nor a charge request's.
NoSaveConflicts ==
  /\ \A h \in Hooks : hook[h].pc = "commit" => RespectsIndex(hook[h].tx, hook[h].plan)
  /\ \A c \in Charges : chg[c].pc = "commit" => RespectsIndex(chg[c].tx, chg[c].plan)

\* No save takes a row's source away: once an event can find it, some
\* charge's events always can.
NeverUntied ==
  [][\A t \in Tx : rows[t].source # Null => rows'[t].source # Null]_vars
----------------------------------------------------------------------------
(* Liveness, in a system where no call fails and no process dies *)

\* Every delivery that found its transaction, of a charge that succeeded, is
\* credited: neither a racing charge of the same transaction nor the unique
\* index makes its save fail.
FoundIsCredited ==
  \A h \in Hooks :
    hook[h].pc = "load" /\ hook[h].status = "successful"
      ~> \E m \in sqs : m.hook = h

\* The successful event of a charge that was answered, the only one made for
\* its transaction, reaches the queue.
PaidIsCredited ==
  \A h \in Hooks, c \in Charges :
    /\ hook[h].pc = "validate" /\ hook[h].charge = c
    /\ hook[h].status = "successful" /\ chg[c].pc = "answered"
    ~> \/ \E m \in sqs : m.hook = h
       \/ \E d \in Charges \ {c} : Made(d) /\ omise[d].tx = chg[c].tx

----------------------------------------------------------------------------
(* The abstract specification of the money *)

PaidFor == [c \in Charges |-> IF Paid(c) THEN omise[c].tx ELSE Null]

Ledger == INSTANCE CreditLedger
            WITH paidFor <- PaidFor, credits <- sqs, told <- notices

\* The service implements the ledger, when a source is charged once and
\* every charge is the service's.
ImplementsLedger == Ledger!LedgerSpec
----------------------------------------------------------------------------
(* What comments and tests of the repository say, and the code does not do *)

\* "should throw error when cannot find transaction status" (and when it
\* cannot create the log): a delivery about a successful charge of this
\* service that was let through is credited, or answered with an error.
UncreditedIsReported ==
  \A h \in Hooks :
    /\ hook[h].charge \in Charges
    /\ hook[h].status = "successful"
    /\ hook[h].pc \in {"unmatched", "swallowed", "recorded"}
    => \E m \in sqs : m.hook = h

\* "adds new transaction log to transaction status info": a webhook's save
\* leaves the transaction the logs it has.
WebhookOnlyAddsLogs ==
  [][\A h \in Hooks :
       hook[h].pc = "commit" /\ logs'[h] # logs[h] =>
         \A l \in LogIds : logs[l].tx = hook[h].tx => logs'[l].tx = hook[h].tx]_vars

\* "if transaction status does not exist": an event of a charge that no
\* transaction was charged with changes no transaction.
StrangersAreUnmatched ==
  [][\A h \in Hooks :
       hook[h].charge \in Foreign /\ hook'[h] # hook[h] => rows' = rows]_vars
=============================================================================
