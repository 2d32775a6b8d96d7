----------------------------- MODULE Migrations -----------------------------
(***************************************************************************)
(* SystemManagementController's migrate-up and migrate-down, run by any    *)
(* number of requests at once, on a database that the service may be       *)
(* using.  TypeORM reads the list of executed migrations, and then runs    *)
(* what is pending, or undoes the last one, in a transaction.              *)
(***************************************************************************)
EXTENDS Naturals

CONSTANTS
  Jobs,      \* callers of migrate-up and migrate-down, one call at a time
  Deployed,  \* how many migrations earlier releases may have run
  Faults,    \* whether the database may fail
  MaxId      \* bound: the highest id of the migrations table

\* The files of migrations/postgres, in the order of their timestamps.
Last == 7
Migration == 1..Last

ASSUME MigrationsAssumption ==
  /\ Deployed \subseteq 0..Last
  /\ Faults \in BOOLEAN
  /\ MaxId \in Nat

\* A list that an earlier release of the service left half way can be broken by
\* two calls that race; one of these cannot.
ASSUME DeployedAssumption == Deployed \subseteq {0, 5, 6, 7}

VARIABLES
  schema,    \* what the tables have
  executed,  \* the rows of the migrations table
  nextId,    \* its next id
  rows,      \* whether transaction_status has rows
  unpaid,    \* whether one of them has no source or provider reference
  pools,     \* callers of whose calls one has left its DataSource connected
  job        \* each call: where it is, and the list it has read

migrationVars == <<schema, executed, nextId, rows, unpaid, pools, job>>

\* What a migration makes or removes.  "foo" is the table that the fifth one
\* drops when it is undone; no migration makes it.
Part == {"tables", "local dates", "source required", "source index", "product",
         "product index", "zoned dates", "user index", "foo"}

Row == [id : Nat, name : Migration]
Job == [pc : {"idle", "load", "run", "close", "done", "failed"},
        op : {"up", "down"}, seen : SUBSET Row]

MigrationsTypeOK ==
  /\ schema \subseteq Part
  /\ executed \subseteq Row
  /\ nextId \in Nat
  /\ rows \in BOOLEAN /\ unpaid \in BOOLEAN
  /\ pools \subseteq Jobs
  /\ job \in [Jobs -> Job]

Names(list) == {r.name : r \in list}

\* The part each migration makes; the fifth one replaces the dates of the
\* first, and the seventh takes something away.
FirstTables  == {"tables", "local dates", "source required"}
SourceIndex  == {"source index"}
Product      == {"product"}
ProductIndex == {"product index"}
ZonedDates   == {"zoned dates"}
UserIndex    == {"user index"}

Makes ==
  <<FirstTables, SourceIndex, Product, ProductIndex, ZonedDates, UserIndex, {}>>
Removes == <<{}, {}, {}, {}, {"local dates"}, {}, {"source required"}>>

\* Mutated: the sixth migration says IF NOT EXISTS.
UpIfNotExists(m, s) ==
  /\ IF m = 1 THEN "tables" \notin s ELSE "tables" \in s
  /\ m \in {1, 2, 3, 4} => Makes[m] \cap s = {}
  /\ m = 4 => "product" \in s
  /\ m \in {3, 5} => ~rows

\* PostgreSQL executes up() of m: CREATE and ADD fail if the thing is there,
\* except that the fifth migration drops the columns before it adds them;
\* everything after the first needs the tables, an index its column; and a
\* NOT NULL column without default cannot be added to a table with rows.
UpWorks(m, s) ==
  /\ IF m = 1 THEN "tables" \notin s ELSE "tables" \in s
  /\ m \in {1, 2, 3, 4, 6} => Makes[m] \cap s = {}
  /\ m = 4 => "product" \in s
  /\ m \in {3, 5} => ~rows

Up(m, s) == (s \ Removes[m]) \cup Makes[m]

\* Mutated: down() of the fifth says IF EXISTS and keeps the rows.
DownIfExists(m, s) ==
  /\ "tables" \in s
  /\ m \in {2, 3, 4, 6} => Makes[m] \subseteq s
  /\ m = 7 => ~unpaid

\* down() of m: DROP needs the thing, dropping a column drops its index and
\* dropping the tables everything; source and provider reference can be
\* required only when no row is without.
DownWorks(m, s) ==
  /\ "tables" \in s
  /\ m \in {2, 3, 4, 6} => Makes[m] \subseteq s
  /\ m = 5 => "foo" \in s /\ ~rows
  /\ m = 7 => ~unpaid

\* Mutated: down() of the seventh leaves the columns as they are.
DownLeavesColumns(m, s) ==
  CASE m = 1 -> s \cap {"foo"}
    [] m = 3 -> s \ {"product", "product index"}
    [] m = 5 -> (s \ {"zoned dates", "foo"}) \cup {"local dates"}
    [] OTHER -> s \ Makes[m]

Down(m, s) ==
  CASE m = 1 -> s \cap {"foo"}
    [] m = 3 -> s \ {"product", "product index"}
    [] m = 5 -> (s \ {"zoned dates", "foo"}) \cup {"local dates"}
    [] m = 7 -> s \cup {"source required"}
    [] OTHER -> s \ Makes[m]

\* The schema after the migrations of S in their order: the reference for
\* what the list of executed migrations says.
SchemaOf(S) ==
  (UNION {Makes[m] : m \in S}) \ (UNION {Removes[m] : m \in S})

Init ==
  /\ \E d \in Deployed :
       /\ executed = {[id |-> m, name |-> m] : m \in 1..d}
       /\ schema = SchemaOf(1..d)
       /\ rows \in (IF d = 0 THEN {FALSE} ELSE BOOLEAN)
       /\ unpaid \in (IF d = Last /\ rows THEN BOOLEAN ELSE {FALSE})
  /\ nextId = Last
  /\ pools = {}
  /\ job = [j \in Jobs |-> [pc |-> "idle", op |-> "up", seen |-> {}]]

\* getOrm: a DataSource of its own is made for the call, and connects.
GetOrm(j, op) ==
  /\ job[j].pc \in {"idle", "done", "failed"}
  /\ \/ job' = [job EXCEPT ![j] = [pc |-> "load", op |-> op, seen |-> {}]]
     \/ /\ Faults
        /\ job' = [job EXCEPT ![j] = [pc |-> "failed", op |-> op, seen |-> {}]]
  /\ UNCHANGED <<schema, executed, nextId, rows, unpaid, pools>>

\* TypeORM reads the migrations table.
LoadExecuted(j) ==
  /\ job[j].pc = "load"
  /\ job' = [job EXCEPT ![j].pc = "run", ![j].seen = executed]
  /\ UNCHANGED <<schema, executed, nextId, rows, unpaid, pools>>

\* The migrations that were not in the list, oldest first.  One that fails
\* makes the whole fail.
Pending(seen) == Migration \ Names(seen)

Failed == {"failed"}

Then(m, s, todo) ==
  IF m \notin todo THEN s
  ELSE IF s # Failed /\ UpWorks(m, s) THEN Up(m, s) ELSE Failed

AllUp(s, todo) ==
  Then(7, Then(6, Then(5, Then(4, Then(3, Then(2, Then(1, s,
    todo), todo), todo), todo), todo), todo), todo)

\* Mutated: what a run has done before it fails is committed.
RunAnyway(j) ==
  LET todo == Pending(job[j].seen) IN
  /\ job[j].pc = "run" /\ job[j].op = "up"
  /\ nextId + Last <= MaxId
  /\ schema' = AllUp(schema, todo)
  /\ executed' = executed \cup {[id |-> nextId + m, name |-> m] : m \in todo}
  /\ nextId' = nextId + Last
  /\ job' = [job EXCEPT ![j].pc = "close", ![j].seen = {}]
  /\ UNCHANGED <<rows, unpaid, pools>>

\* Transaction 'all': the schema and the migrations table change together or
\* not at all.  The locks that DDL takes make another run of the same wait for
\* the end of this one, so it is one step, at its commit.
RunMigrations(j) ==
  LET todo == Pending(job[j].seen)
      result == AllUp(schema, todo)
  IN
  /\ job[j].pc = "run" /\ job[j].op = "up"
  /\ result # Failed
  /\ nextId + Last <= MaxId
  /\ schema' = result
  /\ executed' = executed \cup {[id |-> nextId + m, name |-> m] : m \in todo}
  /\ nextId' = nextId + Last
  /\ job' = [job EXCEPT ![j].pc = "close", ![j].seen = {}]
  /\ UNCHANGED <<rows, unpaid, pools>>

\* The row of the highest id is the migration to undo.
Latest(list) == {r.name : r \in {r \in list : \A q \in list : q.id <= r.id}}

\* down() runs, and all rows of its name go.
UndoLastMigration(j) ==
  \E m \in Latest(job[j].seen) :
  /\ job[j].pc = "run" /\ job[j].op = "down"
  /\ DownWorks(m, schema)
  /\ schema' = Down(m, schema)
  /\ executed' = {r \in executed : r.name # m}
  /\ rows' = (rows /\ m # 1)
  /\ unpaid' = (unpaid /\ m # 1)
  /\ job' = [job EXCEPT ![j].pc = "close", ![j].seen = {}]
  /\ UNCHANGED <<nextId, pools>>

\* With an empty list there is nothing to undo, and the answer is 'success'.
NothingToUndo(j) ==
  /\ job[j].pc = "run" /\ job[j].op = "down"
  /\ job[j].seen = {}
  /\ job' = [job EXCEPT ![j].pc = "close", ![j].seen = {}]
  /\ UNCHANGED <<schema, executed, nextId, rows, unpaid, pools>>

\* The transaction is rolled back.  The exception skips orm.destroy(), and
\* nothing else ever closes the connections.
RollBack(j) ==
  /\ job[j].pc = "run"
  /\ \/ Faults
     \/ job[j].op = "up" /\ AllUp(schema, Pending(job[j].seen)) = Failed
     \/ /\ job[j].op = "down"
        /\ \E m \in Latest(job[j].seen) : ~DownWorks(m, schema)
  /\ pools' = pools \cup {j}
  /\ job' = [job EXCEPT ![j].pc = "failed", ![j].seen = {}]
  /\ UNCHANGED <<schema, executed, nextId, rows, unpaid>>

Destroy(j) ==
  /\ job[j].pc = "close"
  /\ job' = [job EXCEPT ![j].pc = "done"]
  /\ UNCHANGED <<schema, executed, nextId, rows, unpaid, pools>>

\* The service inserts a transaction, which has no source yet, and completes
\* transactions when they are charged.
Pay ==
  /\ "product" \in schema /\ "source required" \notin schema
  /\ rows' = TRUE /\ unpaid' = TRUE
  /\ UNCHANGED <<schema, executed, nextId, pools, job>>

Charge ==
  /\ "product" \in schema
  /\ unpaid /\ unpaid' = FALSE
  /\ UNCHANGED <<schema, executed, nextId, rows, pools, job>>

Call(j) ==
  \/ \E op \in {"up", "down"} : GetOrm(j, op)
  \/ LoadExecuted(j) \/ RunMigrations(j) \/ UndoLastMigration(j)
  \/ NothingToUndo(j) \/ RollBack(j) \/ Destroy(j)

Next == (\E j \in Jobs : Call(j)) \/ Pay \/ Charge

Spec == Init /\ [][Next]_migrationVars

----------------------------------------------------------------------------
\* The tables are always as the list of executed migrations says, however the
\* calls interleave: what was pending, or last, when a call read the list may
\* not be when it runs.
SchemaIsOfDone == schema = SchemaOf(Names(executed))

\* No call ever takes the transactions away.  It is the failing down() of the
\* fifth migration that keeps migrate-down from the first one, which drops
\* the tables.
RowsSurvive == [][rows => rows']_migrationVars

\* Calls that race on stale lists do not always do what they would do one after
\* the other, but they do nothing worse than what SchemaHistory allows.
History == INSTANCE SchemaHistory WITH done <- Names(executed)

ImplementsHistory == History!HistorySpec

\* Two calls that run the same migration make two rows of it only if it can be
\* repeated.  Only the seventh can: it drops a constraint.
OnlyTheSeventhTwice ==
  \A r, q \in executed : r.name = q.name /\ r.id # q.id => r.name = 7
=============================================================================
