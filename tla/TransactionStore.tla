-------------------------- MODULE TransactionStore --------------------------
(***************************************************************************)
(* The tables transaction_status and transaction_log, and what TypeORM's   *)
(* Repository.save does to them.  A save is two steps: it first reads the  *)
(* row and the ids of its logs and works out the difference with the       *)
(* object to save (PlanSave), then writes that difference, and only that,  *)
(* in one transaction (CommitSave).  Between the two the database is free  *)
(* to change.                                                              *)
(***************************************************************************)
EXTENDS PaymentBase

VARIABLES
  rows,  \* transaction_status: source, provider_ref_id and status of each id
  logs   \* transaction_log: the transaction a log hangs from, its status

storeVars == <<rows, logs>>

NoRow == [source |-> Null, ref |-> Null, status |-> Null]
NoLog == [tx |-> Null, status |-> Null]

Row  == [source : Sources \cup {Null},
         ref    : AllCharges \cup {Null},
         status : Statuses \cup {Null}]
Log  == [tx : Tx \cup {Null}, status : Statuses \cup {Null}]

\* The columns and log links a save is going to write.
Plan == [source : Sources \cup {Null, Keep},
         ref    : AllCharges \cup {Null, Keep},
         status : Statuses \cup {Keep},
         attach : SUBSET LogIds,
         detach : SUBSET LogIds]
NoPlan == [source |-> Keep, ref |-> Keep, status |-> Keep,
           attach |-> {}, detach |-> {}]

StoreTypeOK == rows \in [Tx -> Row] /\ logs \in [LogIds -> Log]

StoreInit == /\ rows = [t \in Tx |-> NoRow]
             /\ logs = [l \in LogIds |-> NoLog]

\* The status column is NOT NULL, so a row without one is not there.
Exists(t) == rows[t].status # Null

\* A log whose transaction is Null but whose status is not is an orphan.
LogsOf(t) == {l \in LogIds : logs[l].tx = t}

Changed(new, old) == IF new = old THEN Keep ELSE new
Written(change, old) == IF change = Keep THEN old ELSE change

\* The first half of a save: the columns of t that differ from those of the
\* object, and the difference between the object's list of logs and the
\* logs the database has for t.
PlanSave(t, source, ref, status, listed) ==
  [source |-> Changed(source, rows[t].source),
   ref    |-> Changed(ref, rows[t].ref),
   status |-> Changed(status, rows[t].status),
   attach |-> listed \ LogsOf(t),
   detach |-> LogsOf(t) \ listed]

\* The unique index on source: two rows never have the same one.
RespectsIndex(t, plan) ==
  plan.source \in {Null, Keep} \/ \A u \in Tx \ {t} : rows[u].source # plan.source

\* The second half: the plan is written, and the new log inserted.
CommitSave(t, plan, new, status) ==
  /\ RespectsIndex(t, plan)
  /\ rows' = [rows EXCEPT ![t] =
               [source |-> Written(plan.source, @.source),
                ref    |-> Written(plan.ref, @.ref),
                status |-> Written(plan.status, @.status)]]
  /\ logs' = [l \in LogIds |->
               IF l = new THEN [tx |-> t, status |-> status]
               ELSE IF l \in plan.attach THEN [logs[l] EXCEPT !.tx = t]
               ELSE IF l \in plan.detach THEN [logs[l] EXCEPT !.tx = Null]
               ELSE logs[l]]

\* The insertion of a new transaction: pending, with no source and no log.
InsertRow(t) ==
  /\ rows' = [rows EXCEPT ![t] =
               [source |-> Null, ref |-> Null, status |-> "pending"]]
  /\ UNCHANGED logs
=============================================================================
