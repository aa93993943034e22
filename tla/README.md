# Benday.CosmosDb: models, checks and proofs

TLA+ modules for the parts of Benday.CosmosDb in which something other than a
straight line of code happens: clients that save the same document, processes that
create the same container, requests that change the same user, a data
migration that is killed and resumed, write tasks that share a semaphore which
is replaced while they run, a bulk save that is throttled and cancelled, a log
sink with a background thread that is disposed of while it writes.  TLC checks
the modules on small instances, TLAPS proves the most important properties for
every value of the constants.

Paths below are relative to `src/`.  Short names: `Runner` is
`Benday.CosmosDb.MigrationTool/MigrationRunner.cs`, `Tracker` is
`ProgressTracker.cs` and `Controller` is `AdaptiveConcurrencyController.cs`
beside it, `Repo` is `Benday.CosmosDb/Repositories/CosmosRepository.cs`,
`TenantRepo` is `CosmosTenantItemRepository.cs` beside it, `Sink` is
`Benday.CosmosDb/Diagnostics/FileCosmosQueryLogSink.cs`, `UserStore` is
`Benday.Identity.CosmosDb/CosmosDbUserStore.cs`, `Seeder` is
`CosmosIdentitySeeder.cs` beside it, `Pages` is
`Benday.Identity.CosmosDb.UI/Pages`, and `passkey.js` is in
`Benday.Identity.CosmosDb.UI/wwwroot/js`.

## 1. The system

| Component | State it keeps | Operations | Hard behaviour |
|---|---|---|---|
| Container migration (`Runner`, `MigrateContainerCommand`) | source, destination, channel, statistics | a run: live, dry or validate-only | producer, consumer and write tasks interleave; kill and resume; partly failed batches |
| Progress tracker (`Tracker`) | `success/` and `failed/` batch files, ids loaded, a batch counter | load, clear failures, record success, record failure | the files outlive the run and are shared by all that use the directory; files half written; two directories, one numbering |
| Concurrency controller (`Controller`) | semaphore, concurrency, clean batches | wait, release, report a batch | the semaphore is replaced by another |
| Document transformer | none | rename keys, set ids and discriminator | pure |
| Repository (`Repo`) | an etag in each object | get, save, save a list, delete, query | optimistic concurrency between clients; lists that are several transactions; lost responses |
| Repository start-up (`Repo.Initialize`) | the cached database and container | find or create both on the first call | first calls race without a lock, in one object and between processes; failures half way; keys of one level or two |
| Batch utility (`Utilities/BatchUtility.cs`) | none | cut a list into batches | the last batch |
| Tenant repository (`TenantRepo`) | none of its own | save all, delete all of a tenant, pages | a task per item, semaphore, retries of 429, cancellation |
| Parented repository, service layers | none | queries and delegation | none |
| Log sink (`Sink`) | bounded queue, thread, token, dropped count | record, write, dispose | recorders, worker and Dispose interleave; a disk that fails or is stuck |
| Diagnostics registry, options, events | configuration | start-up | none |
| Configuration and registration helpers, serialization, exceptions | configuration | start-up, conversion | none |
| Identity stores (`UserStore` and its neighbours) | users, roles, claims as documents | the ASP.NET Identity store interfaces | find, change, save over etags; uniqueness without a constraint; role changes that save twice |
| Identity seeder (`Seeder`) | the administrator | create user, role, membership | stops half way, runs twice, races with pages |
| Identity pages (`Pages`, `passkey.js`) | a challenge in a cookie, a button | forms over the stores, passkey ceremonies | find-then-update by several people; tabs that share a cookie; prompts that fail |
| Identity configuration, e-mail | none | start-up, one call | none |
| Sample application: note attachments | a note's flag and blobs | attach, remove | two stores that must agree |
| Sample application: controllers and services | none | forms over the repository | the repository's get, edit, save |

How they interact.  The command builds a `MigrationRunner`, which opens the
progress directory, then runs two tasks: the producer reads pages of the source
container, skips what the tracker says is done, transforms the rest and puts a
batch into a bounded channel; the consumer takes a batch, starts one write task
per document under the controller's semaphore, awaits them all, records
successes and failures in the tracker and reports the number of 429s to the
controller.  The web application and the identity stores call service layers,
these call a tenant repository, this calls the Cosmos DB SDK, and every query
hands its diagnostics to the configured `ICosmosQueryLogSink`, which for the
file sink is a queue that a thread of its own empties.  A page of the identity
package calls ASP.NET's `UserManager` or `SignInManager`, which reads a user
through `UserStore`, changes the object in memory and saves it with the etag it
was read with; for a passkey the browser first fetches a challenge, lets the
user sign it and posts the answer.  The tools and the application share nothing
but the database.

What makes each part correct:

* migration: what a resumed run skips is in the destination; what cannot be
  written leaves a trace; the summary is true; a dry run changes nothing; a run
  ends;
* controller: permits are neither lost nor made, the limits hold, no task is
  stranded on a semaphore that was replaced;
* repository: an update that was acknowledged is not lost; an etag always names
  a version its object has seen; a conflict is real; a list reported as saved is;
* start-up: what a repository caches exists; racing to create it fails nobody; a
  failure does not stick; an operation's key fits the container;
* identity: concurrent changes of one user are neither lost nor made twice, and
  nobody is told too early; duplicate names need a race; every request ends;
* bulk operations: what was not done is reported, nothing is applied twice, the
  retries are bounded, the call returns;
* log sink: the file is in order, Dispose flushes and returns, a failing disk
  stops nothing, the sink never takes the process down.

## 2. Modules

| Module | Models | Kind |
|---|---|---|
| `AdaptiveConcurrency` | `Controller` and the write tasks of `Runner.WriteBatchAsync` | state machine |
| `Migration` | `Runner` and `Tracker`, runs after runs | state machine; contains `Writer == INSTANCE AdaptiveConcurrency WITH Items <- Docs` and `Promise == INSTANCE ResumableCopy WITH copied <- dest, ...` and refines both |
| `Repository` | `Repo`'s get, save, list save and delete by several clients, `BatchUtility` | state machine |
| `BulkOperation` | one call of `TenantRepo.SaveAllAsync` or `DeleteAllByTenantIdAsync` | state machine |
| `FileLogSink` | `Sink` | state machine |
| `RepositoryStartup` | `Repo.Initialize` by several calls, objects and processes; the partition keys of the operations | state machine |
| `ResumableCopy` | what the migration promises: copies in runs that stop and resume | abstract state machine |
| `UserDocument` | the document of a user and what each job makes of it | operators |
| `UserDirectory` | what the users' store promises to concurrent requests | abstract state machine |
| `IdentityStore` | requests of `Pages`, the sign-in and `Seeder` through `UserStore` | state machine; contains `Directory == INSTANCE UserDirectory WITH directory <- ...` and refines it |
| `MCMigration`, `MCRepository`, `MCAdaptiveConcurrency`, `MCRepositoryStartup`, `MCIdentityStore` | values of the constants for TLC; `MCAdaptiveConcurrency` also has an observer | |
| `...Proofs` | inductive invariants, lemmas, theorems | |

A definition whose name begins with `Mutant_` is not part of a model.  It is a
wrong version of the definition that follows it, wrong in the way a plausible
mistake in the code would be, and is there to show that the properties notice.

### AdaptiveConcurrency

`currentConcurrency`, `consecutiveCleanBatches` and `permits` are the fields of
the controller (`permits` is `_semaphore.CurrentCount`), `task` is where every
write task of the batch is.  `orphans` has no counterpart in the code: it holds
the tasks whose semaphore was replaced, since the code's `Release` goes to the
semaphore that is current when it is called, not to the one the task waited for.

| Action | Code |
|---|---|
| `Init`, `NewController` | the constructor with its clamp |
| `StartBatch` | `WriteBatchAsync` creates the tasks |
| `Acquire` | `WaitAsync` completes |
| `Release` | the upsert returns or throws, the `finally` releases |
| `ReportBatchResult` | after `Task.WhenAll`: halve, step up or count a clean batch; `AdjustSemaphore` |

`StartTasks` and `AdaptToResult` are what the second and the last do, without
their guards: the code has none, it is `Runner` that must start a batch only
when there is none and report one only when all its tasks have ended.  Here
`StartBatch` and `ReportBatchResult` keep that order by their guards; `Migration`
uses the effects and has to keep it by its own control.

The count of clean batches stops at `RampUpAfter`, because the code only
compares it with that.  `rampDownFactor` is 0.5, the default no caller changes.

### Migration

The state is in two parts.  `ready`, `dest` and the two directories
`successFiles` and `failedFiles` (functions from batch numbers to sets of ids)
survive; everything else is memory of a process and is lost by `Kill` and
`EndRun`.

| Action | Code |
|---|---|
| `Start`, `ClearFailures`, `BeginCopy` | `RunAsync` up to the two tasks: the tracker loads the ids and counts the files; the failed files are deleted one by one; the destination is created unless the run is dry; controller and channel are made |
| `Validate` | `/validate-only` |
| `ReadPage`, `EnqueueBatch`, `EndProducer` | `RunProducerAsync`: a page, `WriteAsync` on the full or not full channel, the `finally` that completes it |
| `ConsumeBatch`, `EndBatch`, `RecordSuccess`, `RecordFailure`, `RecordFails`, `ReportBatch`, `EndConsumer` | `RunConsumerAsync`, step by step |
| `WaitForPermit`, `Upsert` | the write tasks: `Acquire` and `Release` of `AdaptiveConcurrency` (their guards are the semaphore's) with the effect on the destination |
| `EndRun` | `Task.WhenAll` and the end of the process |
| `Kill` | the process ends at any moment |

`ConsumeBatch` and `ReportBatch` apply `StartTasks` and `AdaptToResult` with no
guard of the controller's: what keeps `Runner` from starting tasks over running
ones, or from reporting a batch that still has some, is the consumer's stages
and `Task.WhenAll`.  A runner that went wrong there would make a step
`AdaptiveConcurrency` does not have, and `DrivesWriter` would fail; its mutant
leaves out the `await` of the tasks.

Pages are any sets of at most `BatchSize` unread documents: the query promises
no order and may return fewer.  An upsert that is throttled is not applied; one
that fails otherwise may have been.  `RecordFails` leaves any part of a batch
file behind.  Ids are atomic, so an id cut short by a crash that happens to be
another document's id is not modelled.

`ResumableCopy` is the migration without its machinery: a run begins and skips
what is recorded, copies one document after the other, records what it has
copied, refuses the rest, finishes when nothing is left, or ends before that.
`Migration` implements it with `dest` as what was copied, the ids of the success
files as what is recorded and those of the failed files as what is refused;
dry runs and validations do nothing there.  Two of its clauses are weaker than
one would wish, because the code is: `Record` may lose what was recorded (the
overwritten file of `MigrationOverwrite`), and `Begin` skips what was copied to
any account, not only to that of the run.

### Repository

Every write the server applies appends to `versions`, and the etag of a version
is its index there: etags are unique, as those of Cosmos DB are, and `0` is the
empty etag of a new object.  `store` maps a key to the version that is current.
`items` are the objects the clients hold.  The content of a document is the set
of edits in it, so "my update is still there" is set inclusion.  `acknowledged`
collects the edits whose saves were reported as successful and is there for
`NoLostUpdate` only.

| Action | Code |
|---|---|
| `New`, `Edit` | the caller makes or changes an object |
| `Get` | `GetByIdAsync` |
| `Save`, `SaveRefused`, `SaveFails` | `SaveAsync(T)`: the upsert with `IfMatchEtag` is applied, refused (412, `OptimisticConcurrencyException`), or ends in another error with or without having been applied |
| `StartList`, `SaveBatch`, `SaveBatchFails` | `SaveAsync(IList<T>)`: batches of `BatchUtility`, each a transaction |
| `Delete` | `DeleteAsync` by id or of an item, unconditional |

A batch has two sides.  `BatchResponse` is what the server answers: one etag per
operation, in the order of the batch.  `ItemResponse` is what the client makes of
it, by index, and `UpdatedItems` is the loop that gives each object the etag of
its last place in the batch (`LastOf`).  A client that read the wrong index would
give an object the etag of another, which is the mutant of `EtagNamesAncestor`.

A single save and a batch update the etag only if the response has a `Resource`
(`Repo`:1018 and 1121).  It has one unless a `CosmosClient` is built with
`EnableContentResponseOnWrite = false`, which no code of the library does;
`ContentOnWrite` is that option.

What the server answers to an etag when it has no such document is left open:
the upsert may be applied or refused.  A client is one caller at a time; what
interleaves is requests of different clients.

### BulkOperation

One call (`operation` says which), its tasks, and the other clients.  A task waits for a permit, sends a
request, and on 429 delays and sends again with its permit in hand, at most
`MaxRetries` times.  `CancelToken` may come at any moment: a task that waits
for a permit ends as cancelled, outside the `try` (`CancelWait`); one that
delays is caught and becomes a failed item (`CancelDelay`); and `Task.WhenAll`
then throws before the failures are looked at, so `Return` puts "cancelled"
first.  `requests`, `applied` and `removed` count what was sent, what the server
applied and what others deleted; the code has no such variables.

### FileLogSink

`Record` and `TryAdd` are the two steps of `Record` (test of
`IsAddingCompleted`, then `TryAdd`), `Enumerate`, `Take` and `Write` are the
worker, `CompleteAdding`, `Join`, `Cancel` and `DisposeQueue` are `Dispose`.
The queue is a .NET `BlockingCollection`, modelled by what it documents and how
`Sink` uses it.  There is no clock: `Join` either finds the worker ended or
times out (`JoinTimesOut`), which it may as long as the worker has not ended;
`timedOut` remembers which, because the code ignores it.

### RepositoryStartup

`database` and `container` are what the service has; the container is known by
the levels of its partition key, 0 if there is none.  `cached` says which of
`_Database` and `_Container` an object holds.  `hit` collects the calls that
the service or a crash failed and is there for `OnlyFaultsFail` only.

| Action | Code |
|---|---|
| `Begin` | `Initialize`: both cached, or `WithCreateStructures` not set, or the listing |
| `ListDatabases`, `ListContainers` | the query iterators that look for the name |
| `Create`, `CreateError` | `CreateDatabaseIfNotExistsAsync` and `CreateContainerIfNotExistsAsync`: created, refused because another was first (forgiven), or another error (thrown), which may come after the service has done it |
| `Operate` | any operation, with the key `GetByIdAsync`, `DeleteAsync`, `GetPartitionKey` or `GetQueryContextAsync` builds |
| `RequestFails`, `Restart` | an error of the service; a process dies with its cache and calls |

The options of every object and the container found at the start are
parameters, so that repositories that disagree can be put side by side.

### UserDocument, UserDirectory, IdentityStore

A request has one job, drawn from what the pages, the sign-in and the seeder
do.  `EffectsAt` in `UserDocument` is the change a job makes of a document: the
name, the password, the administrators' role, a claim, the count of failed
sign-ins and the lockout, a recovery code, the passkeys.  `UserDirectory` makes
each change in one step on the document as it is at that moment.
`IdentityStore` does it as the code does:

| Action | Code |
|---|---|
| `Click`, `Options`, `Prompt`, `BrowserError` | the passkey buttons of `Account/Login.cshtml` and `Account/ManagePasskeys.cshtml` with `startPasskeyLogin` of `passkey.js` |
| `Attest` | the posted credential belongs to a challenge that another tab has replaced or used |
| `New` | `Register`, `Admin/Users/Create` and `Seeder` make a new user |
| `Find` | `FindByIdAsync`, `FindByNameAsync` or `FindByPasskeyIdAsync`, and the change of the copy in memory or the refusal |
| `ResolveRole` | `ResolveRoleNameAsync` and the claim that `AddToRoleAsync` and `RemoveFromRoleAsync` change |
| `Validate` | `UserManager`'s look for another user of that name |
| `Save`, `SaveRefused` | `UserStore.CreateAsync`, `UpdateAsync` and the save inside the role methods, down to `Repo.SaveAsync` with its etag |
| `Delete` | `UserStore.DeleteAsync`, without an etag |
| `EnsureRole`, `CreateRole`, `DropRole` | the seeder's role; `Admin/Roles/Index` |
| `Return`, `Crash`, `Tick` | the answer; a request that dies or loses its last response; time, in periods of one lockout |

`copy` is the user object of the request.  `applied`, `answer` and `past`, and
`taken` in a copy, are observed only.  `UserManager`, `SignInManager`, the
browser and the service are external and modelled by what the code relies on.

Three clauses of `UserDirectory` are weaker than a reader may expect, because
the code is: `Bases` and `Revive` let a deleted user come back (an upsert with
an etag may be applied where there is no document any more); `Unchecked` names
two pages that report success whatever `UpdateAsync` returned; and `Refuse`
lets a change of roles be reported as an error after it was made, as the role
methods save before `UserManager` validates and saves once more.

## 3. Properties and runs

Passing runs:

| Run | Instance | Properties | Shows |
|---|---|---|---|
| `MCAdaptiveConcurrency` | 3 items, limits 1..4, ramp-up of 2 after 2 batches, 9 asked for | `TypeOK`, `ConcurrencyWithinLimits`, `PermitsConserved`, `NoOrphanedTask`, `RampUpNeedsCleanStreak`, `BatchCompletes` | the controller and its tasks in all orders; a batch is reported even with a single permit |
| `MCMigration` | 3 documents, one untransformable, batches of 2, channel of 1, 3 runs in every mode, all faults | `TypeOK`, `SummaryAddsUp`, `SummaryIsBacked`, `NothingForgotten`, `SkipsOnlyWritten`, `DryRunOnlyReads`, `DrivesWriter`, `ImplementsResumableCopy` | a run, its resumption, and the resumption of that |
| `MigrationLive` | 1 run, 3 batches, channel of 1, all faults | `RunEnds` | channel and semaphore block no run for ever |
| `MCRepository` | 3 clients, 2 documents of a tenant, single saves and deletes, server errors | `NoLostUpdate`, `ConflictIsReal` | optimistic concurrency |
| `RepositoryFaults` | 2 clients, 2 documents of one tenant and 1 of another, single saves and lists of up to 3 with repetitions in batches of 2, lost responses and server errors | `TypeOK`, `EtagNamesAncestor`, `SaveKeepsWhatItReplaces`, `ListSaved` | batches of two objects and of two tenants, lists that fail half way, saves whose outcome is unknown |
| `FileLogSink` | 4 events, queue of 2, a disk that fails or never answers, a join that may time out | `TypeOK`, `FileInOrder`, `FlushedOnDispose`, `SurvivesTimelyDispose`, `DisposeReturns`, `QueueDrains` | Dispose at any moment returns; one that does not time out has flushed and leaves the process alive; a failing disk does not stop the worker |
| `BulkOperation` | save or delete of up to 3 items, 2 permits, 1 retry, cancellation, other clients | `TypeOK`, `ReturnIsTrue`, `AppliedOnce`, `RetryBudget`, `PermitsConserved`, `CallReturns` | throttling, errors, timeouts, cancellation, a tenant that changes meanwhile |
| `IdentityStore` | 3 requests: every two jobs, and the triples that meet in one field, name, role or challenge; crashes, failing prompts | `TypeOK`, `DuplicatesComeFromRaces`, `ImplementsDirectory`, `EveryRequestEnds` | the store of the users implements `UserDirectory`; names are unique but for races; no request hangs and no button stays disabled |
| `RepositoryStartup` | 4 calls, 2 of them on one object, on 3 objects of 3 processes, one of which creates nothing; errors and restarts | `TypeOK`, `ReadyMeansExists`, `OnlyFaultsFail` | the unlocked first calls are harmless |

Runs that show a violation, each of something the repository says of itself:

| Run | Says | What happens |
|---|---|---|
| `MigrationOverwrite` (`ProgressIsKept`) | `Tracker`:3-5: a resumed run can skip what was written | The counter starts at the number of files of both directories, and `ClearFailures` deletes some of them: run 1 writes success 1, failed 2 and success 3, run 2 clears the failure and writes success 4, run 3 counts three files and writes its first success as number 4, so a new success file replaces an old one. The ids that it named are written again by later runs, which is safe with upserts but not what the tracker promises |
| `FileLogSinkCrash` (`ProcessSurvives`) | `Sink`:123-124, `ICosmosQueryLogSink.cs`:27-28 "a broken sink must not prevent" queries from completing | Dispose's join is limited to five seconds and its result ignored; the worker then comes back to a queue that is disposed of, `ObjectDisposedException` is not caught and ends the process |
| `StartupFlatKey` (`KeysFit`) | `TenantRepo`:48-53 "Gets an entity by its id and tenant id. ... Matching item or null if not found" (`ITenantItemRepository.cs`:37-43 says the same) | Without `UseHierarchicalPartitionKey`, the default, the container has a key of one level (`CosmosRepository.cs`:879) and `SaveAsync` uses one (1178); `GetByIdAsync` addresses the item with two (`TenantRepo`:66), so an item that was saved cannot be read by its id: the request fails. `DeleteAsync` of an item has the same key (`TenantRepo`:123-126) |

More disagreements follow from changing a constant of these
configurations or a premise of a property, and are the reason for assumptions of theorems below:

* `FlushedOnDispose` fails without its `~timedOut`: events that are still queued
  when the join times out are lost, although `Sink`:157-158 says that Dispose
  "blocks until the background writer has flushed everything currently queued".
* `SkipsOnlyWritten` fails with `IdOf <- MCSharedIds` in `MCMigration.cfg`:
  progress is kept by id without the partition key, so that a document that
  failed is skipped because another partition's document of its id was written.
* `NoLostUpdate` fails with `"list"` among the `Operations` of `MCRepository`:
  the upserts of a list carry no etag, although `README.md`:34 promises
  "optimistic concurrency control using ETags".
* `SkipsOnlyWritten` fails with two `Endpoints`: the default progress directory
  is named after database and containers only (`Runner`:66), so that a run
  against another account skips what was written to the first.
* `NoLostUpdate` fails with `"lost"` among the `Faults` of `MCRepository`: a
  create that was applied and whose response was lost leaves the object with an
  empty etag, and saving it again is unconditional (`Repo`:1004).
* `NoLostUpdate` and `ConflictIsReal` fail with `ContentOnWrite = FALSE`: the
  objects keep the etags they had, so that a second save of the same object is
  refused, or unconditional if the object was new.
* `RunEnds` fails without its exception, the deadlock of `Runner`:217 described
  under Fairness: the property delimits that deadlock and does not exclude it.
* `DryRunOnlyReads` leaves the failed files out, because a dry run does delete
  them (`Tracker`:59): with them it would fail.
* `OnlyFaultsFail` and `KeysFit` fail when two repositories of one container
  disagree about `UseHierarchicalPartitionKey`: whoever comes second finds a
  container of the right name and does not look at its key.

The identity code has more that its documentation does not say, which the models
take as it is:

* An administrator cannot reset a password, though `Benday.Identity.CosmosDb/README.md`:30
  and 245 list it: the page calls `RemovePasswordAsync`, which sets the hash to
  null, and `SetPasswordHashAsync` throws (`UserStore`:181-186).  The job "reset
  password" fails before it changes anything.
* `Seeder` assigns the role `AdminRoleName` only, not also "Admin" as
  line 254 of that README says.
* A conflict of two requests is an exception the pages do not catch, not an
  `IdentityResult` (`SaveRefused`).
* If a role is deleted while a user is given it, the claim holds the name in
  capitals that `UserManager` passes (`ResolvedName`).
* All tabs of a browser share the passkey challenge: the second prompt makes the
  answer to the first worthless.

### Bounds, and why they are enough

* Three items and limits 1..4 are enough for the controller to be below, at and
  above the number of tasks, to ramp up twice, to reach the ceiling by a step
  that would exceed it, and to halve to and below the floor.
* `Migration`: `MaxRuns` bounds how often the tool is started.  Three runs are a
  resumption of a resumption, which the overwritten file of `MigrationOverwrite`
  needs.  A channel of one and three batches of one
  (`MigrationLive`) is the least in which the producer can be blocked while the
  consumer works and one batch is queued; the code's 3 adds nothing to that.
  With batches of two of three documents a batch can be partly written, partly
  throttled and partly skipped.  The controller's limits are 1..2 here: its own
  runs have the larger ones, and `DrivesWriter` says that nothing `Migration`
  does is outside what these checked.
* `Repository`: `MaxVersions` bounds the writes, `MaxEdits` the edits.  A lost
  update takes two clients, two edits and three writes.  Three clients allow a
  chain of reads.  Lists of three in batches of two have a full and a partial
  batch, and name an object twice within a batch and across batches; two
  documents of one tenant make a batch of two distinct objects, the third one
  makes a batch over two partitions, which the service refuses.
* `BulkOperation`: one retry has a first, a last and no further attempt; two
  permits for three items have a task that waits.
* `FileLogSink`: a queue of two and four events fill the queue while one is in
  the worker's hand, and drop one.
* `IdentityStore`: `Jobs` are all pairs of jobs, with a third request that saves
  nothing, and the triples in which three can meet: names, lockouts, the role,
  passkeys, a deletion.  `MaxFailed` of 2 has a failure that counts and one that
  locks; `MaxTime` of 2 has a lockout and a time after it; `MaxClaims` of 2 lets
  one claim be there twice; `MaxClicks` of 2 lets a button be used again after
  an error.  `DuplicatesComeFromRaces` speaks of runs without a deletion only: a
  deletion frees a name that was taken when a request began, and an upsert that
  revives the deleted user brings it back.
* `RepositoryStartup`: two calls on one object share its cache, a third has an
  object of another process to race with, a fourth finds what the others make.

Symmetry is used for the clients of `Repository` and for its two documents of
one tenant: its properties are safety properties and treat them alike; no run with a liveness property uses it.  `CHECK_DEADLOCK
FALSE` is set where the system stops: all runs used up, the bound of versions
reached, the call returned, the sink disposed of,
all requests and calls answered.  `AdaptiveConcurrency` never
stops and is checked for deadlock.

### Fairness

All of it is weak fairness of steps the code takes by itself.

* `AdaptiveConcurrency`, `Migration`: a free permit reaches a waiting task, an
  upsert returns (the SDK bounds its retries and its time), the two tasks of a
  run go on while they can, the progress files are written.  Weak fairness is
  enough because a batch is finite: permits that come back are never taken from
  a waiting task for ever.  Nothing is assumed of the user (no run must start),
  nor of kills and faults.
* `BulkOperation`: requests are answered, delays end, the call returns.  Nothing
  is assumed of cancellation.
* `FileLogSink`: the worker goes on and a Dispose that was called goes on
  (`Fairness`), its join ends or times out.  That `AppendAllText` returns is
  assumed by `QueueDrains` itself (`DiskResponds`); `DisposeReturns` is checked
  without it.
* `IdentityStore`: a request that has begun is worked on, a fetch is answered
  and a prompt ends at the latest by its timeout.  Nothing is assumed of users
  who have not clicked, nor of time or crashes.
* `Repository` and `RepositoryStartup` have safety properties only: a client may
  stop at any time.

`RunEnds` names the one exception: if writing a progress file throws, the
consumer's task is over, nobody reads the channel, and the producer waits for
ever once it is full.  `Task.WhenAll` then never completes and the exception is
not seen (`Runner`:217).

## 4. Proofs

All theorems are about `Safe == Init /\ [][Next]_vars` (and hence about `Spec`
where there is one),
for every value of the constants that satisfies the module's assumption.

| Module | Theorems | Inductive invariant and why it is needed |
|---|---|---|
| `AdaptiveConcurrencyProofs` | `ControllerTypeOK`, `ConcurrencyIsClamped`, `PermitsAreConserved`, `NoTaskIsOrphaned`, `RampUpsNeedAStreak` | `IInv`: four properties together. `Release` caps at the concurrency, so that it restores a permit follows from `PermitsConserved`; that a report finds no outstanding task comes from its guard; the limits need each other through the two ramps. `StreakInv` adds that the count of clean batches is no more than what the observer of `MCAdaptiveConcurrency` saw of them at the present concurrency |
| `MigrationProofs` | `MigrationTypeOK`, `RecordedIdsWereWritten`, `SkippingIsSafe`, `DryRunsOnlyRead` | `MInv`: types, `RecordedWasWritten`, and three facts about the tasks: `TasksInLiveRun` and `TasksInRun` (tasks exist only while the consumer is at a batch of a live run) and `OkIsWritten` (a task that ended well has its document in the destination). `RecordSuccess` records ids of tasks, so recorded ids are written only by way of `OkIsWritten` |
| `MigrationAccountingProofs` | `AccountsAgree`, `SummaryIsTrue`, `SummaryDoesNotBoast`, `TriedIsTraced`, `NothingIsForgotten`, `ProgressKeptUntilCleared`, `MigrationDrivesWriter`, `MigrationIsResumableCopy` | `AInv`, on top of `MInv`, says where every document is that was read: skipped, refused, pending, in the channel or in the consumer's hands, each in one place only (`BatchesApart`), and counted once it has left them; that the stages of producer, channel and consumer agree; and that what the run counted as written is in the destination and what it counted as failed is in a failed file. `BatchesFilled`: what waits in the channel or is in the consumer's hands is never empty, so that a batch starts a task. `NumberedInTurn` says that the numbers of the files are those up to their number |
| `RepositoryProofs` | `RepositoryTypeOK`, `EtagsNameAncestors`, `SavesKeepWhatTheyReplace`, `SingleSavesLoseNothing`, `ConflictsAreReal`, `ListsAreSaved` | `RInv`: types, `StoreNamesOwn` (the store's version of a key is one of that key) and `EtagNamesAncestor`; a conditional save replaces the version its etag names, whose edits the object has. `NInv` adds, when there are neither lists nor lost responses, that an object with an empty etag has a key nobody has saved (`Fresh`), that nothing is acknowledged of a deleted document, and `NoLostUpdate`. `OwnIsKnown`: the client that wrote the version a document has holds its etag or none. `SavedSoFar`: the items of a list before its current batch are saved as the client has them, by lemmas on how `BatchUtility` cuts the list (`BatchesCover`) and which etag of the response each item gets |
| `BulkOperationProofs` | `BulkTypeOK`, `NothingMissedSilently`, `NothingAppliedTwice`, `RetriesAreBounded`, `BulkPermitsConserved` | `IInv`: types, permits, and per item (`ItemOK`) how requests and applied writes follow from the task's state and attempt; per failure (`FailureOK`) that its task has ended; `ResultOK` |
| `FileLogSinkProofs` | `SinkInvariant`, `DisposeFlushes`, `TimelyDisposeKillsNoProcess`, `SinkTypeOK`, `LogKeepsOrder` | `IInv`: an ended worker has left the queue empty (`EndedIsEmpty`), and Dispose gets past the join only after the worker has ended (`WorkerEndsLast`), both unless the join timed out. `InOrder`: the file, the worker's hand and the queue, one after the other, are what the queue took, in that order, without failed writes |
| `IdentityStoreProofs` | `IdentityTypes`, `StoreImplementsDirectory`, `DuplicatesNeedARace` | `IInv`: types; every document is among the past ones (`PastKnown`); where a request is agrees with what it has done (`Control`); its copy was made of some past document and, as long as its etag is the store's, of the present one (`Held`); a new user is not there before it is saved (`NotYet`). `NInv` adds, without deletions, what a request that passed the look for a name knows of the names (`NamesHold`) |
| `RepositoryStartupProofs` | `StartupTypeOK`, `ReadyRepositoriesExist`, `RacingFailsNobody` | `SInv`: types and `ReadyMeansExists`; what exists never goes (`Grows`), so a cache stays true while others work. `HInv` adds that the container has no key or one of two levels, and `OnlyFaultsFail` |

`StoreImplementsDirectory` is the refinement: every step of `IdentityStore` is a
step of `UserDirectory` or changes nothing there.  A save whose etag is current
is `Change` on the present document, by `Held`; one that is applied although the
document is gone is `Change` on a past one, or `Revive`; all else is a step of
the request alone.  It holds for any number of requests, jobs and faults.

`MigrationDrivesWriter` is the composition: every step of `Migration`, seen
through the variables of the controller and the write tasks, is a step of
`AdaptiveConcurrency` or leaves them alone; so what is proved of that module
holds of a migration.  This does not hold by definition: that `ConsumeBatch`
starts tasks only when none are left, and a batch that is not empty, and that
`ReportBatch` comes after the end of every task, follow from the stages of the
consumer in `MInv` and `AInv` and from `BatchesFilled`.

`MigrationIsResumableCopy` is the refinement of `ResumableCopy`, without
assumptions on ids, accounts or faults: an `Upsert` is `Copy`, a recording is
`Record` or `Refuse` by `OkIsWritten`, the end of the consumer is `Finish` because
`AInv` has accounted for every document by then, and all other steps are hidden.

`ProgressKeptUntilCleared` is the counterpart of the run `MigrationOverwrite`: in
any behaviour in which no failed file is deleted (`FailuresStay`), recorded
progress is never lost, whatever is killed or fails.  So the deletion by
`ClearFailures` is the one cause of the overwritten file.

Assumptions beyond those of the modules, each a condition without which the
property fails (section 3): `SkippingIsSafe`, `SummaryDoesNotBoast` and
`NothingIsForgotten` assume `UniqueIds` (no two documents have the same id) and
`OneAccount`, while `TriedIsTraced` says without them what holds of the documents
that are not skipped; `ProgressKeptUntilCleared` assumes that no failures are
cleared; `SingleSavesLoseNothing` assumes no list saves and no lost responses,
`ConflictsAreReal` no lost responses, and both and `ListsAreSaved` assume
`ContentOnWrite`; `RacingFailsNobody` assumes
`AllHierarchical` (all repositories of the container ask for two levels, and
what is there has two).  Among the assumptions of the modules two are not
enforced by the code: `Floor <= Ceiling` (a smaller ceiling makes the
controller's constructor throw) and, in `BulkOperation`, `MaxRetries \in Nat`:
the public `SaveAllAsync` and `DeleteAllByTenantIdAsync` take any `maxRetries`,
and with a negative one the retry loop (`TenantRepo`:258, 373) makes no attempt
and reports no failure, so `NothingMissedSilently` and `RetriesAreBounded` say
nothing of such a call.  That the join did not time out is part of the two
properties of `FileLogSink` about Dispose.

Model-checked and not proved: liveness (`BatchCompletes`, `RunEnds`,
`CallReturns`, `DisposeReturns`, `QueueDrains`, `EveryRequestEnds`), which needs
fairness and `ENABLED`, out of the prover's reach.  Every other property of a
passing run is a theorem.

## 5. Plan

Written so far, in this order: `AdaptiveConcurrency`, `Migration` over it,
`Repository`, `FileLogSink`, `BulkOperation`, `IdentityStore` with
`UserDirectory`, `RepositoryStartup`, the proofs of each, `ResumableCopy` with the
proof that `Migration` implements it.

To come, the most important first:

1. An abstract specification of a document with conditional saves that
   `Repository` without lists implements, as `INSTANCE ... WITH`, as a property of
   a run, then as a theorem.
2. `DocumentTransform` and `BatchUtility` as pure functions against reference
   definitions; the copy command; pages and continuation tokens.

## 6. Not modelled

* `DocumentTransformer`: a pure function; `Migration` knows only which documents
  it accepts.  Planned.
* Queries, pages and continuation tokens: what they return is decided by the
  service's query engine.
* The copy command: a sequential loop over pages; planned.
* Note attachments of the sample: the blobs are another service, the code changes
  one store and then the other and has no compensation whose order could be
  checked.
* Identity: external logins, the authenticator key, two-factor and phone
  settings (setters of one field), claim definitions (the same read and save
  again), the principal factory, queries that list users or roles, e-mail
  confirmation and forgotten passwords, which depend on tokens of the framework.
* `startPasskeyRegistration` of `passkey.js`: no page calls it, `ManagePasskeys`
  has a handler of its own, which is modelled.
* JavaScript other than `passkey.js`: `docs/styles` is the theme of the
  documentation generator, `wwwroot/lib` holds third-party libraries, and
  `site.js` is a comment.  None of it is part of the program, which is C#.
* Parented repositories, service layers, sample controllers: delegation without
  state of its own.
* Diagnostics registry, options and events, configuration and registration
  helpers, serialization, exceptions, e-mail: start-up code, conversions and
  one-shot calls.
* Formatting of messages and log lines everywhere.
