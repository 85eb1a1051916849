# Verification of chargeguard

TLA+ models of the chargeguard service (`src/`), the TLC runs that check them on small
instances, and TLAPS proofs about all but one of them for instances of any size. `PROJECT.json` lists the
components, runs, mutants, hazards and theorems, and maps every definition to source lines.

Run `tlc -workers 2 -config X.cfg M` on a module `MC...` and `tlapm M.tla` on a module `...Proofs`.

## 1. The system

chargeguard is an HTTP service over one SQLite database with append-only shard files beside it.
It keeps two bodies of work: hazards at charging stations (package `charging`), and handover
forms, mails, dispositions and batches of a mail ledger (packages `service`, `domain`).
Every request is a goroutine; the scheduler, the publishers of events and the command
`chargeguardctl` run beside the requests.

`NewStore` opens the database with one connection (`SetMaxOpenConns(1)`). A statement, or a
transaction, is therefore indivisible, and that is the grain of every module: **one action per
statement or transaction of a handler, with other requests in between.** What is *not*
protected is the span between the read and the write of one handler, and most of the hard
behaviour of this code lies there.

| Component | State | Operations | What is hard | What makes it correct |
|---|---|---|---|---|
| Charging hazards (`charging/service.go`, `sqlite_charging.go`) | stations, hazards with state, assignee, evidence, version | create, report, assign, rectify, verify | the decision is made on a copy; the UPDATE is guarded by the version | each operation acts as if indivisible; closed hazards stay closed and have evidence |
| Sessions (`auth/service.go`, `sqlite_auth.go`) | a map and the table `auth_sessions` | login, authenticate, logout | two copies of a session, restarts, failing statements | an acknowledged logout is final, an issued token survives a restart |
| Dispositions (`service/disposition.go`) | `disposition_requests`, the index `active_dispositions`, the mail | submit, review, withdraw, execute | rows are written back blindly, and so are the mails, which batches write too; execute is four writes | at most one active disposition per mail, named by the index; an execution is not undone; audit trail |
| Event stream (`eventbus.go`, `subscription.go`, `limiter.go`) | the events table, the subscriber's checkpoint, a channel per subscriber id, connection counts | publish, register, replay, stream, unregister | replay against live events, takeover, eviction, cancellation | nothing is missed, channels are closed once, slots are returned, handlers end |
| Handover forms (`service/handover.go`, `handler_handover_disp.go`) | `handover_forms`, `mail_items`, `signoffMu` | register, sign off, modify | edits do not take the lock; registration is many transactions | signatures and state agree, a signoff counts once |
| Batches (`service/batch.go`, `scheduler/tasks.go`) | `batch_records`, `batch_items`, mail states | create, process, compensate, requeue | item-by-item compensation, ignored errors, the task's stale list | completed means delivered, rolled back means undone, processing ends |
| Shard files (`sqlite.go`, `shard.go`, `recovery.go`) | the database rows, the file, its checksum | save and append, rebuild, verify | append after commit, torn lines, rebuild of a file that grows, lines that are replayed in part | the file holds the newest version of what was recorded and a rebuild brings it back; losses are bounded |
| Reminder queue (`charging/task_behavior.go`) | an unguarded map | claim | a yield between lookup and store | of several claims one succeeds |
| Scheduler (`scheduler/scheduler.go`, `app/app.go`) | running flag, wait group, contexts, `permanent_failures` | start, stop, tick, retry, resolve, close the store | stop against start, a signal in the middle of a backoff | no task works on a closed store, stop returns, a failure stays recorded until it is resolved |
| SLA rules, overdue reports (`sla/sla.go`, `service/ledger.go`, `scheduler/tasks.go`) | a rule table under a mutex; mails with their times; audit records | add, activate, deprecate, classify; list, record, report | boundaries, a page that is too small | a class that was in force; a late mail is recorded in the end |
| Circuit breaker (`circuit/breaker.go`) | gobreaker's counts | execute | refused requests count as failures | opens on failures of the dependency only |
| Import (`service/import_maintenance.go`) | none of its own | one registration per row | rows of one form | as for handover forms |
| Ledger, HTTP, store, app, audit | queries, decoding, wiring | | | |

Interactions: the HTTP layer calls the services; the services write through the repositories,
which append to the shard file after the commit, and publish to the event bus; dispositions and
batches both change mails, each from a copy it read before and wrote back whole; the scheduler's tasks write batches, audit records and failures, and prune
events; a rebuild writes every table.

## 2. Modules

| Module | Models | Variables and the code they stand for |
|---|---|---|
| `HazardLifecycle` | what the charging service promises: indivisible operations on a hazard | `hazard`: a row without its version |
| `ChargingHazards` | the service over its repository | `stations`, `row`: the tables; `req`: the copy a request read and the update it decided on |
| `Sessions` | `auth.Service` | `mem`: the map; `db`: the table; `req`: a login, request or logout between two steps; `now`: the clock |
| `Dispositions` | `DispositionService`, and `processItem` and `compensateItem` of `BatchService` as writers of the same mails | `disp`, `active`, `mail`: the tables, of a mail its state, `disposition_id` and whose address is in `receiver_addr`; `item`: the changed mail a batch attempt is about to save; `due`: the dispositions whose newest state still has to get its audit record; `req` |
| `EventStream` | `EventBus`, `HandleSSE`, the limiter, `EventPrunerTask`, for one subscriber id | `lastId`, `pruned`, `checkpoint`: tables; `registered`, `buf`, `closed`: the bus; `conn`: the handler's locals; `pub`: a publisher between append, send and eviction |
| `Handovers` | `HandoverService` and `ModifyHandover` | `form`, `mailOf`: tables; `lock`: `signoffMu`; `req` |
| `Batches` | `BatchService` and `BatchProcessorTask` | `batch`, `item`, `mail`: tables; `req`; `task`: the rows a task listed |
| `ShardRecovery` | `persistWithShard`, `RecoverFromShards`, `Verify`, for one shard | `row`, `rest`: versions in the database, and the saves its other columns show; `file`, `open`: the shard file; `meta`: its stored checksum; `hand`: committed records not yet appended; `read`: what a rebuild has read |
| `ReminderQueue` | `ReminderQueue` behind its handler | `claims`: the map; `call`: a claim between its steps; `dead`: the process was stopped by the runtime |
| `Scheduler` | `Scheduler`, `App.Start`, `App.Shutdown`, `main`, `ResolveFailure` | `starter`, `running`, `main`: the phases of start and stop; `signalled`, `cancelled`: the two contexts; `task`: each goroutine's place and attempt; `rows`, `listed`, `resolving`: the table of failures and the copies of it |
| `Overdue` | `sla.RuleSet`, `TimeoutMonitorTask`, `GetOverdueReport` | `rules`; `mail`: state, `registered_at`, `in_transit_at`; `detected`: the audit records; `monitor`, `report`: what each has listed and not yet handled |

`XProofs` holds the theorems about `X`, for `ChargingHazards`, `Sessions`, `Dispositions`, `Handovers`,
`EventStream`, `Batches` and `ShardRecovery`; `BackgroundProofs` extends both `Scheduler` and `Overdue`,
whose monitor the scheduler runs, and holds the theorems about each.

Modelling decisions that a reader should know:

- A request is a value of `req[w]` (or `conn`, `call`); its actions are the handler's statements in
  the order of the code. `Fail`, `Abandon`, `Crash`, `Restart` end requests half way: the timeout
  middleware cancels the context, a statement returns an error, the process stops.
- Variables marked *history* (`acked`, `won`, `met`, `stale`, `overwritten`, `overtaken`,
  `crossed`, `disturbed`, `writes`, ...) are never read by an action that models code. Some only name the exception under which a claim does not hold;
  section 4 says for each of them what happens in the exceptional case.
- The data race of `ReminderQueue` is a choice: the runtime notices the overlap and stops the
  process, or both goroutines go on.
- Statements whose error the code drops (`Batches`) may have no effect while the handler goes on.
- Names, addresses, quantities and timestamps are left out unless a property needs them. An address in `Dispositions`
  is the disposition it came from (`Addressed`: those submitted with a `target_address`).
- The columns of a row in `ShardRecovery` fall in two: `row` is the version the columns of its progress show (state and
  version, of a mail also `handover_id` and `disposition_id`), `rest` the saves whose changes all the other columns show. A save
  writes both, a replay over an existing row the first only.
- `Batches` and `Dispositions` both have the batch's steps on a mail: the former with the rows of the batch, whose properties they
  are about, the latter with only the copy, whatever batch it belongs to.
- `BatchVerifyMailItems` would write mails too, but only those of version 0, and every mail is registered with version 1.
- Nothing in the service moves a mail to `in_transit` except a compensation; `Depart` of
  `Batches` and of `Overdue` is that outside event. Nothing but the tests calls `UpdateStateTx`, the only
  writer of `in_transit_at`, so `Overdue` leaves the choice between a time and the zero time open.
- `BatchProcessorTask` is in `Batches`, `EventPrunerTask` in `EventStream`, `TimeoutMonitorTask` in
  `Overdue`; in `Scheduler` what a task does is only whether it succeeds, except for `RetryFailures`.
- A CSV row of an import is a registration with one mail, so an import is one clerk of `Handovers` who
  registers again and again; the second row of a form number is refused like any other.

## 3. Runs

Passing runs; every property has a mutant of the code in `PROJECT.json` that breaks it.

| Run | Instance | Shows |
|---|---|---|
| `mc_charging` | 1 hazard, 2 requests, 4 updates, the four accounts the service creates and one more person | with any interleaving, abandoned request and restart, the service implements `HazardLifecycle` (`ActsAtomically`); copies with the row's version are the row; evidence; finality; reassignment defeats a rectification |
| `mc_sessions` | 1 token, 3 requests, clock to 2 | an acknowledged logout is durable, only one logout wins, an ended session is refused, an issued token survives |
| `mc_dispositions` | 1 mail, registered or on the road, 2 dispositions with addresses, intercept or redirect, 2 requests, 1 batch attempt, 4 versions | the index names only active dispositions, and every active one unless a stale copy was written over its row; an execution is undone by no other execution and no batch, with the exceptions of section 4; a lost submission stays lost; no audit record is forgotten except by a request cut short |
| `mc_eventstream` | 2 connections, 2 publishers, 2 events, a buffer and a page of one event, limit 2 | no channel is closed twice, the limiter's count is exact, nothing falls between replay and channel, stopped connections end |
| `mc_handovers` | 2 forms, 1 mail number, 2 clerks, 1 editor, 4 versions | signatures and state agree, a form number is registered once and a registration that succeeded is complete, signoffs count once and stay unless an edit overwrote them |
| `mc_batches` | 1 batch, 2 mails, 1 request, the task, any faults, 10 versions | completed is delivered and final, rolled back is undone, processing ends |
| `mc_shards` | a mail, a form, a disposition; 2 writers, 2 faults, 5 records of 3 versions | losses are bounded, the file is current, a rebuild brings back the newest state and version of what was recorded, and of the other columns what the first line had, a file left alone since the rebuild that recorded its sum is not reported as damaged |
| `mc_scheduler` | 3 tasks (one of them `failure_retry`), 1 retry, 2 rows of failures | whenever the signal comes, no task works on a closed store and `Stop` returns; a failure stays recorded until it is resolved, and then stays resolved |
| `mc_overdue` | 2 mails of 1 route, a rule of 0 hours and the default, default and timeout of 1, a monitor page of 1, a report page of 2, clock to 3 | every class in a report is the one of a ceiling that was in force meanwhile; a mail that stays late and on the monitor's page is recorded |

Violations: each checks a claim of the repository's own text, and TLC finds the
behaviour of the code that contradicts it (quoted in `PROJECT.json`).

| Run | Claim | What happens |
|---|---|---|
| `dispositions_two_active` | a second active disposition of a mail is an error | an approval that read the row before a rejection revives it beside a new submission |
| `eventstream_order` | events arrive in order (`subscription_test.go:106`) | `lastSentID` does not follow the replay; an event both replayed and in the channel is sent again after newer ones |
| `reminders_two` | a claim of a claimed reminder is refused (`task_behavior.go:8`) | two claims overlap in the yield between lookup and store, and both are answered 204 |

Bounds. Two requests suffice for every lost update here: a copy is invalidated by one other
write, and requests share nothing but rows. Sessions get three, so that two logouts race beside a
served request. Versions are bounded so that every life cycle completes and leaves room
for a stale write; batches get ten, enough for three attempts with a requeue. A buffer of one event is
full as soon as one event waits, as a buffer of 256 is after 256, and a page of one event is too short
for a client two events behind, as a page of 500 is for one 501 behind. Two connections are enough for
takeover, for the deferred unregistration of the loser and for an eviction in between, two publishers for an
event that is overtaken; the limit of connections itself is not reached in that instance. Two reminders and
three names keep a claim of one reminder apart from claims of the other. Three tasks let `Stop` meet `Start` before,
between and after its goroutines, and one retry is enough for a signal in each place of an attempt. For `Overdue`, two mails
and a page of one make the page too short; a clock to 3 reaches elapsed times below, at and past the
ceiling and at twice the ceiling for a ceiling of one hour; both the default and the timeout come from
one setting (`app.go:64`, `72`), which is why they are equal. `CHECK_DEADLOCK FALSE` is set where the bounds (events, ids,
versions, connections) exhaust the instance; nothing in these components waits for anything but the
signoff lock and the map lock, which are released in the step that ends their holder.

Fairness. `EventStream!FairSpec`: weak fairness of each connection's handler, and of each of its two
ways out: the Go scheduler runs a ready goroutine, and `select` picks at random among
ready cases, so a case that stays ready is taken. Publishers and clients are not fair. `Batches!FairSpec`:
weak fairness of a handler's steps, a loop over a finite list without waiting.
`ProcessingEnds` says nothing of an attempt that was stopped; such a batch stays `processing`
until someone processes it again, which the state machine allows. `Scheduler!Fairness`: weak fairness
of a task's steps outside its `select` and of the end of `wg.Wait`; strong fairness of leaving the `select`, because a
`select` that finds its context ended again and again does not pick a stale tick each time. Signals and
operators are not fair. `OverdueFairness`: the ticker starts the monitor again and again, its loop goes on, and an audit
record that is tried in every round is not refused in all of them (strong fairness of `MonitorRecords`); nothing makes
a mail move.

## 4. Where the claims end

These follow from the models too; the properties state them as exceptions.

- Dispositions (`stale`, `crossed`): two writers of copies of one row store the same version twice and one
  change is lost; that is how an active disposition loses its index entry. A request cut after its
  transaction leaves a state without audit record (it leaves `due`), although README.md:11
  promises one for every change. A mail is `crossed`, and `NoExecutionIsUndone` says no more of it, once a disposition of it was
  overwritten by a stale copy, once a disposition was withdrawn or executed again while its execution was half way (the
  mail is intercepted all the same, and a new submission may be executed beside it), or once an execution wrote the
  mail while a batch had it in hand: the batch then writes its copy back, in transit or arrived and without the
  disposition's id, which is the loss of an execution the code does not prevent. `LostIsFinal` does not catch the
  revival of a *rejected* disposition; that is `dispositions_two_active`.
- Handovers (`overwritten`): `ModifyHandover` reads, decides and writes without `signoffMu`; a signoff
  in between is erased and the party signs again. A registration that fails half way leaves a form
  that counts mails which do not exist: the form and each mail are saved in transactions of their own.
- Batches (`met`, `Shared`): an attempt that stops between the mail and the item of a compensation
  leaves the item succeeded, and the next attempt skips it and completes the batch. The task writes back a row it
  listed before, so a batch completed since is pending again. Two requests may process one batch at once
  (processing to processing is legal). A mail in two batches is taken back by one of them after the
  other completed.
- Shard files (`disturbed`): two writers of a row append in another order than they commit, a rebuild that read
  the file before a save takes the row back, and a failing append or a torn line loses a record. Each concerns its row only:
  `FileIsCurrent` and `RebuildRestoresRecords` go on to hold of all the others. What a rebuild restores is the newest state
  and version (of a mail also its handover and disposition): `replayMail` and `replayDisposition` update nothing else on conflict
  (`recovery.go:158`, `189`). So after a lost database a redirected mail has its old `receiver_addr` again, and a disposition has no
  reviewer, issuer, times or reasons but those of its first line, the review or withdrawal that followed the submission; the file has
  them, the rebuild does not use them. A disposition that was only submitted has no record
  (`Submit` uses `SaveTx`), and handover forms are never restored: `replayHandover` names 19 columns
  and 20 placeholders, so each of its statements fails and is skipped. The checksum of the last rebuild is
  compared with a file that has grown since, so the first save after a rebuild makes an intact file look damaged
  (`import_maintenance.go:175`); `OnlyDamagedIsReported` speaks of files that were left alone. A rebuild does
  not fill `active_dispositions`, so after a lost database a mail accepts a second active
  disposition (`recovery.go:182`); the two modules are not composed.
- Event stream: the checkpoint is written under the cancelled context and never moves. A connection that was
  taken over unregisters its successor when it ends. `NothingIsMissed` names three kinds of lost event: pruned before the
  replay, beyond the one page that a replay lists although older than the registration, and handed out after another
  publisher's newer event, which the handler drops.
- Scheduler: a task that fails for good is recorded as `permanent`; `RetryFailures` lists `pending` and `retrying`, which
  nothing writes, so no failure is retried, although README.md:11 of the repository promises failure
  retries. `FailuresAreKept` holds because of that, and never meets a retry: only `ResolveFailure` changes a recorded row.
- Overdue: the monitor lists the 100 late mails registered last and the report 200; while a full page
  of newer ones stays late, an older one is never recorded (`OverdueIsDetected` says so), and `TotalOverdue` is the
  length of the page. Ceilings are naturals in the model, where `sla.go:112` answers `unknown_route` for negative ones as for 0, and one
  clock serves the listing and `Summary`, which the code reads twice. In the service nothing calls `Add` or `Activate` and nothing sets
  `in_transit_at`, so every class a report really shows is `unknown_route`.
- Sessions: a logout that cannot write the row answers "session is not active" and leaves the session
  active.
- Reminders: overlapping claims, see `reminders_two`; the later store owns the reminder. `Routes()` of `server.go` does not mount
  `TaskHTTPHandler` and nothing else calls it; the model is of the handler as it is written.
- Batches over HTTP: `POST /batches` passes no mails to `CreateBatch`, so a batch made that way is empty and completes when it is processed; `Batches`
  models `CreateBatch` with the mails it accepts.
- Charging: `AssignHazard` accepts an empty operator id (the handler ignores the decoding error of its body), and a
  hazard assigned to nobody may be rectified by any operator (`OnlyAssigneeRectifies` allows it), although README.md:17 says that operators handle only
  what is assigned to them. No operation moves a hazard to `rejected`, so the way back that README.md describes is
  never taken; `HazardLifecycle` shows the moves that exist. The service writes no audit record for a hazard, although README.md:11
  promises one for every change of state; there is no step of the code that could be modelled as one.

## 5. Proofs

Every theorem holds for any values of the constants that satisfy the assumptions, which TLC
evaluates in the runs of the module. Each proof module states an inductive invariant `IInv` (`OverdueIInv` for `Overdue`), proves
`Init => IInv` and `IInv /\ [Next]_vars => IInv'` with one lemma or step per action, and derives the
invariants and action properties from it. `IInv` itself was checked with TLC on the instance of the run
before it was proved; that of `Batches` also with two batches on one mail, and with two requests at once.

| Module | Theorems |
|---|---|
| `ChargingHazardsProofs` | `Invariance`; `TypeCorrect`, `SnapshotsCurrent`, `ClosedHazardsHaveEvidence`; the action properties `ClosedHazardsStayClosed`, `RectifiersAreAssigned`; `ServiceIsAtomic`: the service implements `HazardLifecycle` |
| `SessionsProofs` | `SessionInvariance`; `SessionsTypeCorrect`, `LogoutsDurable`, `TokensSurvive`, `EndedSessionsRefused` |
| `DispositionsProofs` | `DispositionInvariance`; `DispositionsTypeCorrect`, `IndexExact`, `StatesAudited`, `IssuersNamed`; the action properties `ExecutionsAreKept`, `LostForGood` |
| `HandoversProofs` | `HandoverInvariance`; `HandoversTypeCorrect`, `StatesShowSigners`, `RegistrationSound`, `SignoffsHold` |
| `EventStreamProofs` | `EventStreamInvariance`; `EventStreamTypeCorrect`, `ChannelsClosedOnce`, `LimiterIsExact`, `ReplayMeetsChannel` |
| `BatchesProofs` | `BatchInvariance`; `BatchesTypeCorrect`, `CompletedMeansDelivered`, `RolledBackMeansUndone`; the action property `CompletedStays` |
| `ShardRecoveryProofs` | `ShardInvariance`; `ShardTypeCorrect`, `FaultsCostNoMore`, `FileKeepsUp`, `VerifyTrustsTheUnwritten`; the action property `RebuildRestores` |
| `BackgroundProofs` | `SchedulerInvariance`; `SchedulerTypeCorrect`, `StoreOutlivesTasks`; the action property `FailuresKept`; `OverdueInvariance`; `OverdueTypeCorrect`, `ClassesInForce` |

**ChargingHazards.** Assumptions: `RoleAssumption` (every account has one of the four roles), `PeopleAssumption`
(operators are people, and the empty column names nobody), `EvidenceAssumption` (the empty column is
no evidence), `VersionAssumption` (versions start at 1). `ClosedIsFinal` is not inductive: a request in flight
might hold an old copy from which closing and rectifying both looked legal. The invariant
`TypeOK /\ SnapshotsAreCurrentOrOlder /\ RequestsAreDecided /\ ClosedWithEvidence`
says that a copy is never newer than its row and, if the versions agree, *is* the row, and that every request
decided legally on its copy. So when the UPDATE finds its version, the decision was made on
the row as it is now, which is exactly the abstract operation. The version column grows with every
update, which keeps an old copy from matching again.

**Sessions.** Assumptions: `TimeAssumption` (times are naturals), `MarkAssumption` (the mark of an absent session is
none). Added to the properties: `SavingIsFresh`, that between the map entry and the row of a login nobody else
knows the token, and `FoundIsCurrent`, that the session a request holds has the expiry of its row and is marked as
ended if a logout was acknowledged before the request began.

**Dispositions.** Assumptions: `VersionAssumption`, `NoneAssumption` (the mark `None` is no disposition, row or request).
`CopiesKeepIdentity`: a copy names the row's mail and type and carries a state its phase
can write. `CopiesAreCurrent`: without a stale write a copy to be written is one version ahead of its row or behind it.
`LastWriterIsThere`: while the record of a state is due, the request that wrote the state is on its way to the record.
`LostIsAlone`, `MailsShow` and `IssuersAreNamed` extend the claims from rows to the copies in flight, of requests and of batches,
which are what a later action writes. `ExecutionsAreKept` needs a second invariant, `Uncrossed`, proved on top of `IInv`: of a
mail that is not crossed, no disposition was overwritten by a stale copy (`StaleIsCrossed`), a request between the first save of
an execution and the write of the mail is the only one for that mail, and its disposition is executing (`ExecutesAlone`), so by
`IndexIsExact` it is the one active disposition of the mail; its copy of the mail has the address the mail has
(`CopiesHaveTheAddress`), and what a batch has in hand differs from the mail in the state only (`ItemsHaveTheMail`).

**Handovers.** Assumptions: `FormAssumption` (versions start at 1, finitely many mails), `NoneAssumption`.
`CopiesAgree`: state and signatures agree in every copy as in every row. `SaversAreAlone`: the request that saved a form
is the only one that saves its mails, and the mails saved and those to come are the ones the form counts.
`SignsAreCurrent`: what a signoff will write is its form with one more signature, which the lock guarantees
against other signoffs, and `overwritten` names the edits against which it does not.

**EventStream.** Assumption: `StreamAssumption` (naturals, finitely many connections, `None` is neither a connection nor
an event). `ChannelsFollowPhases`: a channel is open exactly while the bus holds it or its connection has not registered
yet. `EventsAreOwned`: an id has one publisher, and what waits in a buffer or was streamed last has left it.
`OldOnesAreOvertaken`: an id behind a newer one in a buffer was overtaken, and so was an id not
newer than `lastSentID`, unless it is older than the starting point or was sent. `JoinedMissNothing`: before the replay the
buffer holds whatever was handed out since the registration. So the page of the replay and the
buffer leave no gap, and what `Stream` drops is old.

**Batches.** Assumptions: `BatchAssumption` (versions start at 1), `NoneAssumption`. `Base` holds whatever fails: the
copies that will be written have the state and the room their phase needs (`CopiesAreDue`), and until two requests overlap
a batch has one request, which is not at work on a completed batch (`RequestsTakeTurns`; `CompletedStays` needs no more).
`Sound` holds while nothing is disturbed. `RequestIsSound` gives for each place of a request
the items its rows credit and the mails that have arrived: a delivery moves the mail first and the item
second, a compensation takes them back in the same order, so the two sets differ in `saveItem` and `restoreItem` only, and
by the item at hand. `Books`: all was delivered before this attempt, or what succeeded is exactly `done`, the list that is taken back;
this is where a skipped item could go wrong. `BatchIsSound`: between requests a batch is delivered whole or not at
all. `MailsHaveItems`: a mail that has arrived is in a batch, so a new batch that names it shares it. The proof covers any
number of batches, with mails in several of them, and requests that run beside each other, of which the run has one each.

**Scheduler.** Assumption: `SchedulerAssumption` (the retrier is a task; bounds are naturals). `StoppedMeansCancelled`: from the
first step of `Stop` on, the context of the tasks has ended or ends with `Start`. `StoppedTasksRest`: after
`Stop` no goroutine is inside its `RunFunc`, which `wg.Wait` alone does not give, as `Start` may add to the group later.
`BackoffIsFollowed` bounds the attempts; `NothingIsPending` says that nothing writes a status `ListPending` would list.

**ShardRecovery.** Assumptions: `BoundsAssumption` (finitely many writers; bounds are naturals), `NoneAssumption` (the mark
`None` is no row, record or content). `LossIsBounded` is not inductive: a torn line costs its record only when the next
append is glued to it, so `LossIsPaid` pays for the unfinished line beforehand, out of the one record more
that a fault may cost. `WritesAreSaves`: lines and records in hand are no more than the commits. `ReadOnce`: what a
rebuild read, and the sum it stored, are those of the file until the next write, which is why the count of writes
identifies the content. `UndisturbedIsCurrent`: of each undisturbed row at most one record is in hand, and it is the newest; with none in hand the
last line is the newest version, in the file and in what a rebuild has read of it; and the first line shows the first recorded
save (`Current`). `NothingFromNothing`, that a row never saved with a record is nowhere but in the database, covers the rows that
the file does not name, and gives the first line what it shows. The last and the first line of a row are the maximum and the
minimum of a set of numbers, whose existence needs induction over the file; `EndsAreFound` keeps it as a part of the invariant
instead: an append makes its own line the last one of its row, the first if there was none, and leaves the others'.

**Overdue.** Assumptions: `OverdueAssumption` (finitely many mails, each with a route; ceilings, timeout, pages and bounds
are naturals) and `NoRuleAssumption` (the mark of a missing entry is no rule). `ClassesWereInForce` compares each class with the ceilings the report has met, which
`PromisesAreKept` (what a route was promised is what `ActiveMax` finds) and `ReportIsSound` (a report at work has met every ceiling
in force) connect; `DepartedBefore`, that no time lies ahead of the clock it is compared with, keeps the elapsed
time from being negative. `ClassifyIs` and `BegunCeilings` show that the comparisons with the ceiling and with twice the ceiling
are the count of begun ceilings for any numbers.

Only model-checked: `ReminderQueue`, whose run exhibits the overlap of two claims and has no property that holds, and the
liveness properties (`StoppedConnectionsEnd`, `ProcessingEnds`, `StopReturns`, `OverdueIsDetected`): liveness under
fairness is beyond the prover here. Induction over data is too: lemmas about lines, counts and quotients rest on
the library's facts on finite sets and on arithmetic, and where an induction was needed the fact is a part of the invariant.

## 6. Not modelled

- The circuit breaker: `circuit/breaker.go` is a thin wrapper, and all state is in `sony/gobreaker`, which is not
  part of the repository. A refused `Execute` changes nothing; `Dispositions` covers it as a request that does not start.
- Import: the parsing and the results per row. Event stream: the insert of `EnsureSubscriber`, and `SweepIdle` of the
  limiter, which removes idle entries. Shards: missing files and damage marks of `Verify`,
  ledger records, `BatchVerifyMailItems`.
- Queries, paging, exports and the backlog part of the report; decoding, routing and status codes in the HTTP layer;
  configuration and wiring; structured logging; `CreateInspection`, which nothing calls.
- Password hashing and random tokens are taken as what they stand for: a token is drawn once.

## 7. Plan

Done, in this order: the charging core with its abstract specification and proofs, sessions, dispositions, the event
stream, handovers, batches, shard files, the reminder queue; then the scheduler, the overdue mails with the SLA rules,
the replay limit, pruning and a second publisher in the event stream, and the proofs about sessions,
dispositions, handovers, the scheduler, the event stream, batches, shard files and overdue mails.

Open:

1. A composition of `Dispositions` and `ShardRecovery`: after a rebuild the index is empty, so a mail
   accepts a second active disposition.
2. Two requests on one batch, and two batches on one mail, with a claim weaker than the one `Shared` exempts.
