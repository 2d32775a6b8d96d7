# A verification of nestjs-payment-service

`src/` is a NestJS service that sells token packages: a client opens a
transaction (`POST /payment/pay`), charges it at the payment provider Omise
(`POST /payment/charge`), and the provider reports the outcome by webhook
(`POST /payment/callback/omise`), upon which the service settles the
transaction, sends a message that credits the tokens to an SQS queue and pushes
a notification to the user.  Around that exchange there are a cache, schema
migrations that are run over HTTP, and the guard, interceptors and exception
filter that every request passes.  This directory models all of it in TLA+,
checks it with TLC on small instances and proves theorems about it with TLAPS.

Paths below are relative to `src/src/`, unless they begin with `src/`.

## The system

| component | state | operations | talks to |
|---|---|---|---|
| Payment API: `controllers/payment.controller.ts`, `services/payment.service.ts`, `services/directus.service.ts` | the local variables of each request in progress | `pay`: package lookup, insert; `charge`: source lookup, row lookup, charge creation, save; two reads | CMS (Directus), provider, tables |
| Webhook callback: `controllers/callback.controller.ts`, `services/callback.service.ts` | the entity and the body that each delivery holds | validation, charge lookup, row lookup, save, credit message, notification | provider, tables, queue, notification service |
| Transaction tables: `entities/*`, TypeORM `Repository.save` | `transaction_status`, `transaction_log` | insert, save (load, diff, write), find | PostgreSQL |
| Payment provider client: `services/omise.service.ts` | none; the provider has the charges | create a charge, find a charge, a source's type | Omise |
| Credit queue: `services/sqs.service.ts`, `controllers/app.controller.ts` | messages sent | `sendSampleProcessorEvent` | SQS |
| Notification service: `services/notification.service/` | notifications sent | payload builders, push | notification API |
| Cache manager: `services/cache-manager.service.ts` | cached values with a time to live | `once`, get, set, remove, reset | Redis or memory |
| Request logger: `middleware/logger.interceptor.ts`, `logger/` | trace id, user, address and application, in one object | set at the start of a request, read at its end | stdout |
| Response envelope: `filters/`, `interceptors/`, `utils/lookup.util.ts` | none | result or exception to status and data | every controller |
| Schema migrations: `migrations/`, `controllers/system.controller.ts` | the schema, the list of migrations done, connections left open | migrate up, migrate down | PostgreSQL |
| Health check: `healthCheck/` | none | database and Redis indicators | PostgreSQL, Redis |
| API key guard: `middleware/xApiKey.guard.ts` | none | lets a request of the admin controller through or refuses it | envelope |
| Pagination and header helpers: `utils/` | none | pure functions | - |
| HTTP client, object storage, configuration | none, or constant after the start | wrappers | - |

A Node.js process runs one continuation at a time, so a request is atomic
between two awaits, and only there.  Any number of requests of any kind are in
progress at once, in one process or in several.  What they share is the two
tables, the cache, the schema and, within a process, one logger.  There is no lock, no transaction that spans two statements of the
service, no version column, no retry and no recovery.  What makes the code hard
to get right follows from that:

* **Interleaving.**  A webhook may arrive while the charge request that caused
  it still awaits its own save; two webhooks, or a webhook and a second charge,
  may save the same row at once.
* **Stale state.**  A webhook saves back the whole entity it read one await
  before, and TypeORM writes the difference between that object and what the
  row is when the save begins, not when it commits.
* **Ordering.**  Webhook bodies are snapshots.  They arrive in any order and
  may be arbitrarily late, and the row takes the status of the last one saved.
* **Protocol.**  `charge` accepts a transaction that was charged or even paid
  before.  The webhook finds its row by the source, so a second charge, with
  another source, makes the events of the first one unmatched.
* **Partial failure and crashes.**  Every await may fail with the effect done
  or not done.  `createTransactionLog` swallows every error and the provider is
  answered "received", so nothing ever tries again.
* **Writes nobody awaits.**  The cache is written after the value was returned.
  The write may take effect after a clear or after a newer one, or be refused,
  which ends the process.
* **Objects shared by requests.**  The logger is set when a request begins and
  read when it ends, so requests that overlap use each other's trace id.

What correctness means, component by component:

* *Tables*: a row's source and provider reference come from one charge, made
  for that row; its status is one such a charge had; a log hangs from the
  transaction of its charge; no save takes a row's source away, and none is
  refused by the unique index.
* *Webhook*: only paid charges are credited, to the transaction they paid for,
  after the record of it and before the news of it; what was found is credited,
  and what is recorded as a success lacks its credit only for a failure.
* *Payment API*: a charge request that was answered can be found by the events
  of its charge.
* *Cache*: no value outlives its time to live, no cleared value returns, a call
  that ignores the cache gets current data, and races leave nothing stale.
* *Logger*: a request is logged once, as it ended, under its own trace id.
* *Envelope, health*: each outcome gets the code of its class in the language of
  its request; a probe can tell a healthy service from another.
* *Migrations*: the schema is always that of the list of migrations done, and no
  transaction is lost.
* *Pagination*: the metadata agree with the pages, and the pages with the list.

## The modules

| module | models |
|---|---|
| `PaymentBase` | the participants, the values of columns and webhook fields, assumptions on the constants |
| `TransactionStore` | the two tables and the two halves of `Repository.save` |
| `Omise` | the provider: what the code of `OmiseService` and of the webhook relies on |
| `PaymentService` | `pay` and `charge`, one action per await and error path |
| `CallbackService` | the webhook from validation to notification, one action per await and error path |
| `PaymentSystem` | the composition, crashes, fairness, all properties |
| `CreditLedger` | the abstract specification of the money: paid, credited, told |
| `MCPayment` | what the configurations need: sets of envelopes, symmetry |
| `PaymentSystemProofs` | type correctness |
| `CreditProofs` | what holds of credits, notifications and logs without any assumption |
| `OwnershipProofs` | what holds when a source is charged once and every charge is the service's |
| `LedgerProofs` | that the service implements `CreditLedger` |
| `CacheOnce`, `MCCache` | `once`, the write it does not await, expiry, `clear-cache` |
| `CacheContract` | the abstract specification of a call: how old its answer may be |
| `CacheProofs` | its safety properties and the contract, for any keys, callers and ttls |
| `Migrations`, `MCMigrations` | `migrate-up` and `migrate-down` by racing callers, the seven migrations |
| `SchemaHistory` | the abstract specification of the schema: what comes, what goes, what stays |
| `MigrationProofs` | its safety properties and the history, for any number of callers |
| `ResponseEnvelope` | codes, languages, what the filter makes of an exception |
| `RequestPipeline`, `MCPipeline` | guard, interceptors, logger, handlers, health check, filter |
| `PipelineProofs` | its safety properties, for any number of requests |
| `Pagination`, `PaginationProofs` | pages of a list and their metadata, and that they agree |

`PaymentSystem` composes the four modules above it; `RequestPipeline` composes
the envelope with the logger and the health check.  Cache and migrations meet
the rest only through what is stored: the service that inserts and completes
rows while migrations run is part of `Migrations` (`Pay`, `Charge`).

### State and actions against the code

| variable | in the code |
|---|---|
| `rows` | `transaction_status`: `source`, `providerRefId`, `status` of each id; the NOT NULL status is `Null` while the row is not there |
| `logs` | `transaction_log`: the link to its transaction and its status, one log per charge request and per delivery, named after it |
| `omise` | what the provider has: the statuses each charge has had and the `txId` and `sourceId` of its metadata |
| `pay`, `chg` | the program counter of each request, its parameters, and the write that TypeORM has planned |
| `hook` | the program counter of each delivery, its body (charge, status), the entity it has found and the planned write |
| `sqs`, `notices` | messages and notifications sent |
| `cache`, `source` | the entry of each key, with its age and the ttl stated for it; which version of the data a resolver would read now |
| `call`, `sets` | each `once` in progress, before which await; the write of `setData` it has left under way |
| `schema`, `executed`, `nextId` | what the tables have; the rows of TypeORM's migrations table, and its sequence |
| `rows`, `unpaid` | whether `transaction_status` has rows, and one without source |
| `job`, `pools` | each migrate call and the list it has read; the callers of whose calls one has left its DataSource open |
| `request`, `answer`, `lines` | each HTTP request: its step, route, language, body and outcome; what its client got; what was logged of it |
| `traceId`, `database`, `redis` | the field of the one `CustomLogger`; whether the services behind the health check answer |

`clean`, `began`, `floor` and `later` are histories that no guard reads: what
the last undisturbed clear found, the data and that clear when a call began, and
which requests began while one was handled.

A program counter names the await the request stands before.  `charge` goes
through `type` (line 96 of `payment.service.ts`), `find` (102), `create` (104),
`load` and `commit` (the two halves of the save at 41); a delivery through
`validate` (line 66 of `callback.service.ts`), `find` (75), `load` and `commit`
(106), `send` (145) and `notify` (152).  What the code does between two awaits
is part of the action before the second.  Every awaited call has a variant that
fails without its effect and, when it has an effect, one that fails after it.

**Save.**  `Repository.save` is not one step.  It selects the row and the ids
of its logs, computes what differs from the object given, and writes only that.
`PlanSave` is the first half and `CommitSave` the second.  A column that did not
differ when the save began is not written (`Keep`), even if another request has
changed it since; a log that the row had and the object's list has not is
detached, its foreign key set to NULL; the new log is inserted.  The charge
request's object has no `status` and one log, its own.  The delivery's object is
the entity it found with the status and provider reference of the body and one
log more.  The commit respects the unique index on `source`, or fails.

**Lookup.**  The webhook looks the row up by `metadata.sourceId`.  A charge of
another program has none, TypeORM drops an undefined condition from the query,
and the first row of the table is the answer; which one that is, is not
defined, so `RowsFor` is every row.

**Provider.**  A charge is pending, and is settled at most once, except that a
card may be authorised at once.  A delivery is a snapshot of any status that its
charge has had.  That the provider refuses a source it has already charged
(`SingleUse`) is a fact about Omise and not about this code, so it is a switch,
and each property below says whether it needs it.

**Cache.**  `once` waits for the lookup and for the resolver, not for the write.
`Resolve` is the moment at which the resolver reads its data, `Store` what runs
when its promise is kept, `SetLands` and `SetFails` the two ends of the write.
Time runs in half seconds, because `Math.floor` matters: half a second becomes
0, and `ttl || defaultTime` makes 0 the default, half an hour.  A value is
truthy, falsy (stored, but never a hit) or one that the store refuses.  A
refused write is a rejection that nobody handles: the process ends with its
calls, and each of its other writes may have been sent or not; a cache in memory
is lost, Redis is not.

**Migrations.**  A call connects, reads the list, and then runs everything that
is pending, or undoes the last row of the list, in one transaction.  DDL locks
make transactions that touch the same table follow each other, so the step is at
the commit; what can be stale is the list.  A migration is what it makes, what
it removes and what PostgreSQL needs to execute it.  `down` of the fifth drops
`foo`, which nothing makes; `up` of the third and the fifth add NOT NULL columns,
which fails when there are rows.  A call that fails leaves its connections open,
since the exception passes `orm.destroy()`.

**Request pipeline.**  Nest runs both interceptors and the handler up to its
first wait without a pause, and what follows the handler, logger, envelope or
filter, without a pause too.  So a request has four steps, and the logger is
shared in between.  The header with the language is replaced by the first
interceptor; the filter reads it as it is then.  A `NOT_FOUND` is sent as it
stands, with HTTP 200.  `LookupFails` for a language that the lookup file has no
section for; in the filter nobody catches that, so the process ends and the
requests in progress are lost.  The masking of passwords works on the top level
of a body, and throws for a `cid` that is not a string; both are among the
bodies.  The key strategy calls `done` a second time after it let a request
through, to no effect, since the guard's promise is settled by then.

**Left out as data.**  Amounts, currencies, coin counts, texts, user names,
dates, QR codes.  Package lookup is kept as a call that succeeds or fails.  The
two GET handlers read and change nothing.

## What is checked

`tlc -config <module>_<run>.cfg <module>` for each run of `PROJECT.json`.

| run | instance | properties |
|---|---|---|
| `anything` | 2 transactions, 2 charges of one reusable source, 1 foreign charge, 1 delivery, all envelopes, failures, crashes | `TypeOK`, `CreditOnlyPaid`, `NoticeFollowsCredit`, `RecordedIsCredited` |
| `races` | 1 transaction, 2 charges from a source and a card, 2 deliveries, failures, crashes | `CreditedIsRecorded`, `StatusIsLogged`, `RowMatchesCharge`, `NeverUntied`, `ImplementsLedger` |
| `two_tx` | 2 transactions, 2 charges, 1 delivery, failures, crashes | `CreditsOwnPayment`, `StatusIsReal`, `LogsOfOwnCharges`, `AnsweredIsFindable`, `NoSaveConflicts` |
| `live` | as `two_tx` and a source that is not supported, no failures, no crashes, fairness | `RecordedIsCredited`, `FoundIsCredited`, `PaidIsCredited` |
| `cache` | 1 key whose data change once, 2 callers that call again and again, ttls of -1, 0.5 and 1.5 seconds or none, default of 2, Redis, failures | `CacheTypeOK`, `KeptWithinTtl`, `ClearedStaysCleared`, `IgnoreCacheIsCurrent`, `ImplementsContract`, `FreshInTheEnd` |
| `migrations` | 3 callers, databases without and with 5, 6 and 7 migrations, failures | `MigrationsTypeOK`, `SchemaIsOfDone`, `OnlyTheSeventhTwice`, `RowsSurvive`, `ImplementsHistory` |
| `pipeline` | 2 requests, one with a trace id, all routes, 4 languages, 4 bodies, services that come and go | `PipelineTypeOK`, `AnswerTellsOutcome`, `AnswersInLanguage`, `OnlyRefusalsAreFatal`, `LoggedOnce`, `TraceIsNotOlder`, `EveryRequestEnds` |
| `unreported`, `lost_log`, `stranger`, `trace`, `probe` | the least instance that shows the violation | one each, violated |

The conditions under which a property of payments holds are stated with its proof.
`CreditOnlyPaid`, `NoticeFollowsCredit`, `CreditedIsRecorded`,
`RecordedIsCredited` and `StatusIsLogged` need none.  `NeverUntied` needs that no
other program charges on the account, whose events have no source to write.
`RowMatchesCharge`, `CreditsOwnPayment`, `StatusIsReal`, `LogsOfOwnCharges`,
`AnsweredIsFindable`, `NoSaveConflicts` and `ImplementsLedger` need that and
single-use sources.  Without the first, a stranger's event is saved on some row;
without the second, two charges of one source have one row between them.

**Bounds.**  Every race of this code is between two savers of one row, or for
one value of the unique index, so two charges and two deliveries on one
transaction, and two transactions for the index and for mixed-up rows, are the
smallest instances in which nearly all of them happen; a third saver repeats
what the second does.  Two sources, one of them a card, cover both ways of
charging.  In `anything` two transactions are charged with one source, so that
the index refuses the save of a charge request.  It refuses that of a webhook
only with reusable sources, when after the `findOne` one more charge gives its row
another source and a third gives the first source to another row.  TLC finds that
with two transactions, three charges and one delivery, but exploring all of
that instance takes too long for a run; `HookSaveConflicts` is covered by the
proofs, which are about every step of any instance.  Every charge has all its statuses, so bodies come
in all orders.  In these modules nothing counts, so no counter is bounded: each
request and each delivery runs once, and the same request sent again is another
request.  Messages and notifications are sets, with one element per delivery and
content: a queue that gives one message twice is not told apart from one that
does not.

For the cache the races are between two writers of one key, and between one of
them and a clear.  `MaxVersion` bounds how often the data behind a key change:
once makes old and new.  For the migrations, three callers: one may act between
the read and the run of another, and a third between those two.  `MaxId` ends the
ids of the migrations table: 28 leaves room for three runs after the deployed
seven.  In the pipeline two requests that overlap, before or after one that the
guard refuses, are all that the one logger and the end of the process tell apart.

`DeployedAssumption` leaves out databases where an earlier release stopped at one
of the first four migrations.  On those, migrate-down undoes one after the other
and drops the tables with their rows, and a migrate-down that read its list
before a migrate-up drops what the list goes on to name; without the assumption
TLC finds both.  Since migrate-up runs all that is pending, such a database is
there only until the first migrate-up of this release.

**Symmetry** permutes deliveries, charge requests and transactions.  None has a
role in a definition, nor has a caller of a migration; it is used for invariants
and action properties only, and not in the runs that check liveness.

**Deadlock** is not an error: when every request has ended and every charge is
settled nothing is left to do.

**Fairness.**  `FairRequests` is weak fairness of the next step of each request
in progress: the event loop runs the continuation of an await whose call has
answered, and a call answers or fails.  For Omise, PostgreSQL and SQS the
clients' own timeouts see to that; `directus.service.ts` and the notification
service call axios without a timeout, which is listed as a hazard.  No client
has to send anything, the provider has to settle nothing, and no event has to
be delivered.  `live` has no failures and no crashes because with them the
claims are false: those are the hazards at `callback.service.ts:106` and 154,
and no code recovers from them.  What holds with them is `RecordedIsCredited`: a
delivery that has stored a success has sent its credit, or is about to, or has
died or met an error.

In `cache` the steps of a call, the end of a write and time are fair: the store
answers or fails, and clocks run.  Nobody has to call, clear or change anything.
In `pipeline` the next step of each request is: what a guard or a handler waits
for ends, which for the handlers is the assumption of `FairRequests` again.

**Liveness.**  `FreshInTheEnd`: once the data change no more, an outdated entry,
which a slow resolver may have written over a newer one, is gone for good,
because a hit does not prolong its life.  `EveryRequestEnds`: whichever of guard,
interceptor, logger, handler and filter ends a request, it is answered, unless
the process ends.  `FoundIsCredited`: a delivery of a successful charge that found
its row is credited whatever other requests do to that row meanwhile, so in
particular the unique index cannot stop its save.  `PaidIsCredited`: the event
of a charge whose request was answered, the only charge made for its transaction,
reaches the queue, whatever other requests for that transaction were refused.

**Refinement.**  `CreditLedger` says, without tables, requests or awaits: a
charge pays for one transaction; a delivery credits at most once, a paid charge,
to the transaction it paid for; it tells of a success only after it credited and
of a failure only if it did not.  `PaymentSystem` implements it under `paidFor
<- PaidFor`, which is the transaction of each charge that has been successful,
`credits <- sqs`, `told <- notices`.  The ledger lets two deliveries credit one
charge, because the code does: nothing compares a delivery with an earlier one.

`CacheContract` has no cache, no write under way and no awaits: a call is
answered with data between its floor and now.  The floor is what the last clear
found that had its effect before the call, or, for a call that ignores the
cache, what the data were when it began.  `CacheOnce` implements it; hits,
writes, expiry and clears that are undone by a write under way are stutters.

`SchemaHistory` has no tables and no ids: the first five migrations come at once
and for good, the last two come and go, and the seventh does not go while a
transaction has no source.  `Migrations` implements it under `done <-
Names(executed)`.  One call that migrates up adds both of the last two, but
calls that race are not as if one followed the other: one with a stale list may
record the seventh again while the sixth has just been undone, so `Advance` adds
any of the two.

### Where the code and its words differ

Five runs end in a violation, each of what a comment, a test, a decorator or a
deployment file says:

* `unreported` (`UncreditedIsReported`): the tests are named "should throw error
  when cannot find transaction status" and "... cannot create transaction log",
  but `createTransactionLog` logs and returns, or swallows.  The trace is the
  webhook that overtakes the charge's own save: dropped, and answered as received.
* `lost_log` (`WebhookOnlyAddsLogs`): "adds new transaction log to transaction
  status info".  The save also detaches every log attached since the `findOne`.
* `stranger` (`StrangersAreUnmatched`): "if transaction status does not exist".
  For a charge without `sourceId` some row is always found, and overwritten.
* `trace` (`OwnTrace`): `@Injectable({ scope: Scope.REQUEST })`.  `main.ts`
  makes one interceptor for all requests, so a request is logged under the trace
  id, user, application and address of one that began while it was handled.
  `TraceIsNotOlder` is what does hold.
* `probe` (`ProbeSeesFailure`): the task definition probes with
  `wget ... /health || exit 1`.  The filter answers a failed check with HTTP 200,
  so the probe of a service without database succeeds.

## What is proved

`tlapm` on the eight modules whose names end in `Proofs`.  All proofs are for any
sets of transactions, sources, charges, deliveries, envelopes, keys, ttls, callers
and requests, finite or not, under the named assumptions on the constants:
participants are told apart, markers are no values, switches are Booleans, and
`DeployedAssumption` for the migrations.

Payments:

* **`SaveAloneIsWhole`**: when nothing comes between its two halves, a save makes
  the row and its list of logs those of the object, whatever they were
  (`CommitMerges` says what it does in general).  It is what `Repository.save`
  promises, and what all other results have to do without.
* **`TypeCorrect`** (`Spec => []TypeOK`).  `TypeOK` alone is not inductive: a
  commit writes `hook[h].tx` and `chg[c].tx`, which might be `Null`.  `TypeInv`
  adds `ChargeProgress` and `HookProgress`: a request that has begun has its
  parameters, a delivery from `load` on has its row, one that sends is of a
  success, one that notifies of a success or a failure.
* **`OnlyPaidIsCredited`, `CreditsAreRecorded`, `RecordedAreCredited`,
  `NoticesFollowCredits`, `StatusesAreLogged`**, with failures, crashes, foreign charges and reusable
  sources.  They are proved together, of `CreditInv`, which adds: a charge is
  not made before its request makes it (`ChargeIsNew`), so creating it erases no
  history; a body's status is one its charge has had (`BodyIsTrue`); a plan
  writes no status but its body's (`PlanIsOfBody`); a delivery's log is not there
  before its save and has the body's status when it sends (`LogIsSaved`); a
  success that is about to be notified of has been sent (`CreditIsSent`); and
  who has sent something is past the save (`MessagesAreLate`), so that no later
  commit of the same delivery rewrites the log the message relies on.
* **`RowsMatchCharges`, `CreditsGoToTheirPayment`, `StatusesAreReal`,
  `LogsStayWithTheirCharges`, `AnsweredAreFindable`, `SavesDoNotConflict`**, assuming
  `Closed`: the provider refuses a source it has charged, and no other program
  charges on the account.  `OwnInv` adds what makes racing saves harmless.  A
  source identifies its charge and thereby its transaction (`ChargesAreOwn`).
  Hence a delivery's row is the one its charge was made for (`DeliveryIsOwn`).
  The crux is `PlanWhole`: a save that starts on a row of another charge differs
  from it in source *and* reference, one that starts on a row of its own in
  neither, so every planned write has both or none (`Whole`), and no
  interleaving of two half-done saves mixes them.  `Hangs` and `LogsHang` say the
  same of logs: what one save detaches, a later one may attach again, but only
  to the same transaction.  `RowsAreInserted` excludes an insert over a row that
  has been charged.  `WholePlanRespectsIndex` makes of the same facts that a
  planned source, being that of a charge of this row, is on no other row.
* **`RowsStayTied`**, assuming only that no other program charges on the account;
  sources may be charged twice.  `TiedInv`: what is planned, or held by a request
  or a delivery that is going to plan, has a source, and its row has been
  inserted, so that no insert comes after its save.
* **`LedgerIsImplemented`**, assuming `Closed`: initial states map to initial
  states, and a step to one of the ledger or to a stutter.  A charge that becomes
  successful maps to `Pay`, `SendCredit` to `CreditPayment`, `PushNotification`
  to `Tell`, all else to a stutter.  Beyond `AllInv` (the three invariants
  together) it needs `LateInv`: who has sent a credit tells of a success, and who
  has notified has ended.

Cache (`CacheProofs`):

* **`CacheTypeCorrect`, `ClearsLast`, `IgnoringIsCurrent`, `TtlIsKept`**, proved
  together, of `CacheInv`.  `NothingOldUnderWay` carries the second: a value in a
  call past its resolver, or in a write under way, is no older than what the last
  undisturbed clear of its key found, since a clear with such a value about is
  not undisturbed.  `IgnoringResolves` carries the third.  `YoungerThanLife` gives
  the fourth, with `FlooredIsLess`: flooring never prolongs, and makes 0 only of
  what is less than a second.
* **`CacheImplementsContract`**: `Begin` maps to `Ask`, `Hit` and `Store` to `Answer`,
  a resolver that fails and a refused write, with its crash, to `Break`, a clear
  and a change of the data to their like, all else to stutters.
  It needs of `CacheInv` that what a call holds is no older than its floor, and
  `Bounded`: nothing in a call, a write or the cache is newer than the data.

Migrations (`MigrationProofs`):

* **`MigrationsTypeCorrect`, `SchemaFollowsList`, `SeventhOnly`, `RowsAreKept`**,
  proved of `MigrationsInv`.  None is inductive without `LateFifth`: a list, that
  of the table or one that a call has read, is empty or has the first five
  migrations, and a row of the fifth is later than those of the first four.  So
  what is pending is everything, or among the last two (`PendingOfLate`), and
  what is to be undone is the fifth or later (`LatestIsLate`).  `down` of the
  fifth fails for want of `foo`, so no call gets past it to the one that drops
  the tables.  A migration that two stale lists both find pending fails the
  second time, because its part is there, except the seventh.
* **`CallsImplementHistory`**, from the same invariant: a migrate-up on an empty
  list maps to `Install` and any other to `Advance` (`RunIsHistory`), a
  migrate-down to `Retreat`, which is a stutter when another call undid the same
  migration before (`UndoIsHistory`).

Pipeline (`PipelineProofs`):

* **`PipelineTypeCorrect`, `OutcomesAreTold`, `LanguagesAreKept`,
  `OnlyRefusalsEndIt`, `RequestsAreLogged`, `TracesAreRecent`**, proved of
  `PipelineInv`.  `Progress` says what a request is at each step: nothing is
  logged and no outcome known before it ends; the header is as sent until the
  interceptor and `Normalised` after it, so that the filter finds it
  (`NormalisedIsKnown`); who is handled had the key.  `TraceOfOverlap` says whose
  trace id the logger has while a request is handled.  `OneMoves` reduces a step
  of one request to that request; a crash is the only step that moves more.

Pagination (`PaginationProofs`):

* **`MetadataAgreeWithPages`**: for every list and every page from -1 on, a next or
  previous page is announced if and only if `getPage` returns something for it.
  From -2 down that is false: `hasNextPage` looks at the length only.
  **`PagesDivideTheList`**: each element is on exactly one page.

Model-checked only: the four liveness properties (fairness and ENABLED are beyond
the prover).

## Not modelled

* **HTTP client, object storage**: provided and never injected; each method is one
  call of a library.  **Configuration**: read at the start and constant then, it
  appears as constants.  `BaselineConfig`, which would download a lookup file, is
  not provided by any module and never runs.
* **Logging beyond the request line**: levels, colours, the audit and error lines
  and the layout of what is printed.  No property is about them.
* **Header, mapper and UUID helpers**: maps from one value to another.
* **`pushNotificationCollection`** of the notification service: never called.
* **`GET /sendSQS`** beyond the unhandled rejection that can end the process.
* **Amounts**: `price * 100` is a product of floats (`payment.service.ts:67`);
  TLC has none to round with.
* **Libraries**: TypeORM, cache-manager, Nest's routing, passport, terminus, Omise
  and SQS appear as the code relies on them, and are marked external in the map.
* **Missing timeouts**: `directus.service.ts` waits for ever for a CMS that hangs;
  fairness assumes that it answers or fails.
