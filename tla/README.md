# kyaraben: verification

TLA+ models of *kyaraben*, a service that runs Android virtual machines on
OpenStack and Docker for its users, with TLC configurations that check them and
proofs that TLAPS checks. The source is `src/ats/kyaraben/`; paths below are
relative to it unless they begin with `doc/`.

## 1. The system

An HTTP server answers quickly: it reads and writes PostgreSQL and publishes a
*task* to RabbitMQ. Worker processes, any number of them, take tasks one at a
time and call Heat, Docker, RabbitMQ's management interface and the database. A
retry process reschedules the tasks that were rejected. The processes share
nothing but the database and the broker. There are no locks and no long
transactions: each query is a transaction of its own, and everything else can
happen at every `await` in between.

| component | state it keeps | operations | source |
|---|---|---|---|
| task delivery | queues `orchestration`, `.retry`, `.failed`; what each process has unacknowledged | publish, deliver, delay (`TaskDelay`), fail, dead-letter, repost with back-off, discard | `tasks.py`, `worker/main.py`, `retry/main.py` |
| error recording | statuses | `is_task_obsolete` before a task, `set_status_error` after an exception | `worker/task_errors.py` |
| live machines (AVMs) | `avms`, `billing`; per machine a RabbitMQ user with queues, a Heat stack, player containers | POST, DELETE; `avm_create`, `avm_containers_create`, `avm_delete` | `server/handlers/android.py`, `model/android.py`, `worker/tasks.py`, `worker/compose.py`, `worker/amqp`, `worker/openstack` |
| test campaigns | `campaigns`, `testruns`, `testrun_apks`, `testrun_packages`, `avm_commands`, and machines | POST, DELETE; `campaign_run`, `campaign_avm_create`, `campaign_containers_create`, `campaign_runtest`, `campaign_delete` | `server/handlers/campaign.py`, `model/campaign.py`, `worker/tasks.py` |
| commands on a machine | `avm_commands` | `apk_install`, `avm_monkey`, `avm_test_run` | `server/handlers/android.py`, `model/command.py`, `worker/tasks.py` |
| projects | `projects`, one volume container each | POST, DELETE, share; `project_container_create`, `project_container_delete` | `server/handlers/project.py`, `model/project.py`, `worker/compose.py` |
| APKs and camera files | `project_apks`, `project_camera`; temporary files, files in the volume | POST, DELETE; `apk_upload`, `apk_delete`, `camera_upload`, `camera_delete` | `server/handlers/{apk,camera,misc}.py`, `model/`, `worker/tasks.py` |
| test sources | `testsources`, and one row of `project_apks` each; compiler containers, a file in the volume | upload, change, compile, delete; `testsource_compile`, `apk_delete` | `server/handlers/testsource.py`, `model/testsource.py`, `worker/tasks.py` |
| schema migration | `schema_version`, the tables | start with or without `--db-update`: `db_update`, `db_require_latest_version` | `server/db/schema.py`, `server/main.py` |
| the rest | none | read-only handlers, the command line client, configuration, child processes | see `PROJECT.json` |

What makes each part correct, and what is hard about it:

* **Task delivery.** No published task vanishes; two workers do not run the same
  task unless one of them crashed; a rejected task is retried until a timeout and
  no further. Hard: crashes between the two steps of every hand-over (publish the
  successor, acknowledge the predecessor), the back-off at its numeric limit, the
  declaration of queues by a process that may not have started yet.
* **Machines.** What is DELETED has left nothing behind, what is READY is
  deployed and billed, the quota holds, every creation and deletion ends. Hard:
  three tasks and two handlers about one machine interleave at every call, are
  delivered twice, fail half-way, and statuses are written without being read.
* **Campaigns.** Each test run gets one machine, within a quota that the test runs
  of one campaign compete for; a campaign is READY when all was tested; deleting
  it removes its machines. Hard: the end is found by a query that looks at the
  rows of all test runs while other workers change them, and tasks of a deleted
  campaign are still on their way.
* **APKs and camera files.** What is READY is in the volume and no longer in the
  temporary directory, what is DELETED is gone from the volume; uploads and
  deletions end.
  Hard: each task moves a file between three places that fail separately, unlinks
  what a second delivery of it would need, and never looks whether the row it read
  was there.
* **Commands.** READY comes with the output, and a READY install is on the machine;
  commands end. Hard: the row is inserted after the task is published; an install
  uninstalls first, so two of them, or one delivered twice, interfere; the machine
  and the APK may be deleted at any point.
* **Projects.** A DELETED project is empty and stays deleted, a READY one has its
  volume, a deletion is carried out or refused. Hard: whether a project is active is
  asked twice, by the handler and by the task, while machines and campaigns are made in
  it; every task of a project may put it into ERROR, at any time.
* **Test sources.** The APK is made from what the source was when its compilation was
  asked for, or from something newer; what shows as compiling is being compiled; no
  container is forgotten. Hard: a request changes two tables in six transactions, two
  requests interleave, and the task reads its input when it runs.
* **Schema.** A server that serves has the schema it was written for, and a
  `--db-update` that was committed stays, except that an older server may run a
  repeatable script once more and set the version back. Hard: servers of several releases may update
  at once, in transactions that read the version before they lock anything, and stop
  or fail half-way.

`PROJECT.json` lists every hazard with its line and the properties that would
catch it going wrong.

## 2. Modules

```
TaskService          what the queue promises: at least once, or given up
   ^ implemented by
TaskDelivery         broker, workers, retry process        TaskDelivery_proofs
   : at-least-once, any order, assumed by
AvmLifecycle         one user's machines, call by call     AvmLifecycle_proofs
Campaign             a campaign and its machines           Campaign_proofs
AssetLifecycle       the files of a project                AssetLifecycle_proofs
CommandLifecycle     the commands on one machine           CommandLifecycle_proofs
TestSource           a source and its APK                  TestSource_proofs
ProjectLifecycle     a project and what goes on in it      ProjectLifecycle_proofs
SchemaUpdate         servers that start on one database    SchemaUpdate_proofs

MachineService       what a project may count on of a machine
   ^ implemented by AvmLifecycle and Campaign, and kept to by ProjectLifecycle

MC<module>           constants and symmetry for TLC, where a cfg cannot say them
```

Each component module has the same layout: constants with a named assumption,
variables, `Init`, a section of *mutants* (variants of the operations with a
plausible bug, used to see each property fail), the operations, `Next`, `Spec`,
`Fairness`, `FairSpec`, and last the properties. A worker or handler is a program
counter: `wpc[w]` names the call it awaits next, and one action is one call.

### TaskDelivery (and TaskService)

A message occupies a slot; `at[i]` says where it is (a queue, the delayed-message
exchange, or a process that has it unacknowledged) and `msg[i]` holds what matters
of it: the task, whether it has its first `message_id`, its age (the AMQP timestamp),
the retry count, the delay left. Whoever publishes the successor of a message still has
the message itself: `Succeed` keeps both.

| model | code |
|---|---|
| `Publish`, `Undelay`, `Deliver`, `DeliverRetry` | `TaskBroker.publish`, the broker |
| `RaiseEarly`, `FindObsolete`, `CheckRaises`, `StartHandler` | `handle_message` up to the handler; `Rejects` are the ids a process was given with `--reject`. A retry keeps the id (`retry/main.py:67`), a `TaskDelay` makes up a new one (`Rejected`) |
| `HandlerDone`, `HandlerDelays`, `HandlerFails` | how the handler ends; what it does is the subject of the other modules |
| `Republish`, `RecordError`, `RecordRaises`, `Ack`, `Nack` | the rest of `handle_message` and `App.consume` |
| `StartRetry`, `Repost`, `RepostRaises`, `AckRetry`, `Discard` | `retry/main.py` |
| `CrashWorker`, `CrashRetry`, `StartWorker`, `OutageBegin`, `OutageEnd` | the environment |

`RepostRaises` is the case where `delay_min * 1.5 ** retries` is no longer a finite
float; `FloatLimit` stands for the largest count that is fine (1733 with a delay_min of
one second; 1 in `delivery`, 2 in `retry_overflow`). The retry process is then
"stalled" until somebody restarts it. `Backoff` is the integer arithmetic of the code.
`dropped` are the tasks that are nacked before a retry process has ever declared its
queues (`worker/main.py:86`, "if defined"): there is nothing yet to dead-letter them to.

`TaskService` has five variables: tasks that are pending, their results, those
given up, those lost, and whether the place for failed tasks has been set up, before
which a task may be lost and after which not. `TaskDelivery!Service` maps them to
the tasks some message carries, to `outcome`, the failed queue, `dropped` and `declared`.

### AvmLifecycle

`status`, `stackName` and `billing` are columns of the database; `amqp`, `stack`
and `containers` say what exists outside; `queue[a][k]` counts messages, so that
order is free and a message may be there twice.

| model | code |
|---|---|
| `CreateChecksQuota`, `CreateInserts`, `CreatePublishes` | `AndroidHandler.create` |
| `DeleteLooksUp`, `DeletePublishes`, `DeleteSetsStatus` | `AndroidHandler.delete` |
| `Abort` | a handler that is cancelled at an `await` |
| `Take`, `Check`, `SetError`, `Ack` | the dispatcher |
| `Redeliver` | a crash, or a database outage: the message comes back |
| `Fail` | any other exception of a task, with or without the effect of the call |
| `Get` ... `PublishContainers` | `avm_create`, `avm_amqp_config_create` |
| `StackOutput` ... `SetReady` | `avm_containers_create` |
| `PlayerDown` ... `SetDeleted` | `avm_delete`, `avm_amqp_config_delete` |

### Campaign

The same conventions, one level coarser where AvmLifecycle has the detail: building
a machine (`CreateBuilds`) and removing it (`TestTearsDown`, `AvmDeletes`) are one
step each. `machine[a]` goes from "building" to "up" to "booted" on its own
(`StackBuilt`, `DeviceBoots`); the tasks poll it and delay themselves. `command[t][j]`
is the status of the j-th command of a test run, "NULL" before it is linked to its
row in `testrun_apks` or `testrun_packages`. `Found` is the SQL of
`Campaign.command_statuses`: an outer join in which a package without a command
disappears behind an APK that has one. The query of `campaign_run` repeats each APK of a
test run once per package; the model installs it once, which is the same for a test run
with one package (`Tests = 1` in the runs).

### MachineService

Two variables: `row`, which is "ACTIVE" as long as `Project.is_active` counts the
machine, and `built`, whether anything of it exists outside the database. A machine is
inserted before it is built (`Inserts`, `Builds`), and is over when nothing of it is left
(`Goes`); a status that is written late takes it back, with nothing built (`Revives`).
AvmLifecycle maps `built` to the RabbitMQ user, the stack or the containers, Campaign to
`machine[a]`, and ProjectLifecycle to its own `built`. This is where the three modules
about machines meet: what ProjectLifecycle lets its machines do is among what
MachineService allows, and what the other two do is too.

### AssetLifecycle

`status[f]` is the row of a file, `temp[f]` and `stored[f]` say whether it is in the
temporary directory and in the volume. APKs and camera files have the same handlers
and tasks but for three things: the status a row begins with (`Inserted`), the
refusal by `aapt` (`UploadRefuses`), and the error of an APK that is written to the
row of a command (`SetError`).

| model | code |
|---|---|
| `UploadDumps`, `UploadRefuses`, `UploadInserts`, `UploadPublishes` | `upload` of `APKHandler`, `CameraFileHandler`; `dump_stream` |
| `DeleteLooksUp`, `DeletePublishes`, `DeleteSetsStatus` | `delete` of both |
| `Get`, `Copy`, `SetFinal`, `Unlink` | `apk_upload`, `camera_upload` |
| `Get`, `Remove`, `SetFinal` | `apk_delete`, `camera_delete` |
| `Take`, `Check`, `SetError`, `Ack`, `Redeliver`, `Fail`, `Abort` | as in AvmLifecycle |

### CommandLifecycle

One machine, any commands for it. `asking[c]` is how far the handler has got that asks
for c (check, publish, insert); `status[c]` and `output[c]` are the row; `installed`
is what the machine holds. `Plan` lists which commands are installs, and of what. All
APKs hold the same package with different signatures, which is the case the
uninstall in `apk_install` is there for. Deletions of the machine and of APKs are
those of AvmLifecycle and AssetLifecycle, reduced to what a command sees of them
(`MachineGoes`, `ApkGoes`).

| model | code |
|---|---|
| `AskChecks`, `AskPublishes`, `AskInserts` | `apk_install`, `monkey`, `test_run` of `AndroidHandler` |
| `Get`, `SetRunning`, `Record`, `SetReady` | the three tasks |
| `Uninstall`, `ExecuteInstall` | `tasks.apk_install` |
| `ExecuteTest` | `avm_monkey`, `avm_test_run` |
| `Obsolete`, `Check`, `SetError` | `is_task_obsolete`, `set_status_error` |

### TestSource

One source. `source`, `content` and `linked` are its row (contents are numbered in
the order of upload), `apk[a]` the rows of the APKs it had, `used` the APKs a campaign
refers to, `stored[a]` the content from which the file in the volume was made.
`boxes[w]` are the compiler containers of a running task and `left` those that nobody
will remove; each `docker rm` is a step of its own (`Removes`). `asked` is a history variable: the content when a compilation was last
queued. A compilation that fails leaves its ERROR in the project (`SetError`), because
its message names no APK; a source that a compiler refuses, in the APK (`refuse_dsl`,
`refuse_java`).

| model | code |
|---|---|
| `Uploads` | `TestsourceHandler.upload`, `update` |
| `CompileReads` ... `CompilePublishes` | `TestsourceHandler.compile`; `CompileDeletesRow` and `CompileInsertsRow` are `APK.insert`, with the foreign keys of `testsources` and `testrun_apks` |
| `DeleteReads`, `DeleteSetsDeleting`, `RemovalPublishes`, `DeleteDrops` | `TestsourceHandler.delete` |
| `RemoveLooksUp`, `RemovalPublishes`, `RemoveSetsDeleting` | `APKHandler.delete` |
| `ReadsApkId` ... `Stores` (`Compile`) | `testsource_compile`, `cmd_docker_cp` |
| `DeleteGets`, `DeleteRemoves`, `DeleteUnlinks` (`Delete`) | `apk_delete`, which goes on when `APK.get` returned `None` and raises at its end |

### ProjectLifecycle

`project` and `volume` are the row and the container; `tenant[x]` is a machine or a
campaign as `Project.is_active` counts it, and `built[x]` says that a machine has its
stack, or that a campaign is RUNNING. `named[x]` is the stack name, without which
`AndroidHandler.delete` finds no machine: so one that failed before `Names` is never
over. The task of a tenant is one message: AvmLifecycle and Campaign have the rest. A
compilation is the example of a task that
needs the volume and is *not* looked for by `is_active`.

| model | code |
|---|---|
| `PostInserts`, `PostPublishes` | `ProjectHandler.create` |
| `Asks`, `DeleteChecks`, `DeletePublishes`, `DeleteSetsDeleting` | `ProjectHandler.delete` |
| `TenantAsks`, `TenantInserts`, `TenantPublishes`, `TenantGoes` | POST of a machine or a campaign; its end |
| `Get`, `Sets`, `Composes`, `DeleteAsks` | `project_container_create`, `project_container_delete` |
| `Get`, `Names`, `Builds`, `RunPublishes` | `avm_create` up to its successor |
| `Get`, `Runs`, `RunPublishes` | `campaign_run`, which sets RUNNING whatever the campaign was |
| `MachineRevives` | the handler that sets DELETING over DELETED |
| `Check`, `SetError` | `is_task_obsolete`, `set_status_error` |

### SchemaUpdate

`db` is what is committed, the version and the set of scripts that have been applied;
`tx` is what the transaction of `holder` has changed. `db_update` reads the version
without a lock; the first script it runs, or the creation of the table, takes locks
that another server waits for until COMMIT or rollback. So `Applies`, `ScriptFails` and
`CreatesTable` need that the holder is the server itself or nobody, and `Selects` sees
what is committed. A script fails when it was applied before, unless it is in
`Repeatable` (0007, 0009 and 0010 of the repository, which replace a view or set the
type of a column). PostgreSQL's behaviour is modelled from
what `schema.py` relies on, and marked external.

| model | code |
|---|---|
| `Start`, `Stops` | `server/main.py` |
| `FindsTable`, `CreatesTable`, `WaitsForTable`, `TableCollides` | `schema_version_table` |
| `Selects`, `SkipsEmpty`, `Applies`, `ScriptIsMissing`, `ScriptFails`, `Commits` | `db_update` |
| `Serves`, `Refuses` | `db_require_latest_version` |

## 3. Runs

The numbers are small on purpose; each is large enough for the case the run is
about, and the mutant of every property shows that the run can see it fail.

| run | instance | what it shows |
|---|---|---|
| `delivery` | 1 task, 2 workers of which one rejects it, retry queues not declared yet, 1 crash, timeout of 1 tick, float limit 1, so that a message may be dropped, discarded, or stall the retry process | one message per process; a task is lost only before the queues are declared; copies only from crashes; no early discard; `TaskService` is implemented; every task is settled or dropped, unless the retry process stalls |
| `retry_overflow` (violation) | 1 task, 1 worker, timeout of 3 ticks, float limit 2: the order of the default configuration | the retry process stops at a message and the retry queue no longer drains |
| `avm_one_worker` | 3 machines, quota 1, 2 requests, 2 DELETEs, 1 abort, 1 fault, 1 worker | DELETED is clean, READY is deployed, the quota is exceeded by at most one machine, no creation is lost but to an aborted POST |
| `avm_many_workers` | 1 machine, 2 workers, 1 DELETE, 1 fault | `Traceable`, and that creations and deletions end |
| `campaign_one_worker` | 2 test runs, 2 machines, quota 1, 1 DELETE, 1 fault, 1 worker | quota kept, one machine per test run and fault, no orphans, DELETED is final; and without the fault, READY means tested, the campaign ends, every machine goes |
| `campaign_ready_early` (violation) | 2 test runs, 2 workers | a campaign is READY before it was tested |
| `asset_one_worker` | 1 APK, 1 camera file, 2 requests, 2 DELETEs, 1 trouble, 1 worker | the volume matches the status (READY is stored, DELETED is gone), READY is tidy, uploads and deletions end |
| `command_two_workers` | an install and another install or a test, 2 APKs of which one may go, 2 workers, 1 trouble | READY comes with output and is installed, two installs leave one, commands end |
| `source_one_worker` | 2 uploads, 2 requests (compile, delete the source or its APK), 1 campaign, 1 trouble, 1 worker | a READY APK is current, an unfinished one is pending, no container is forgotten, compilations end |
| `project_one_worker` | 1 machine, 1 campaign, 2 requests (delete, compile), 1 trouble, 1 worker | DELETED is empty and final, READY has its volume, deletions are carried out or refused |
| `schema_rolling_upgrade` | releases 1..2, 1..3, 1..4 and {1, 3, 4, 5}; script 1 empty, 3 repeatable | what serves is up to date; a committed update stays and counts, but for a repeatable script; what is committed is whole releases; the version goes back only to a repeatable script |
| `schema_releases` (violation) | the last three releases of the repository, with 7, 9 and 10 repeatable | a server whose update was committed is told to update again |

The types (`TypeOK` of each module) are proved, and in no run.

Bounds: `MaxCrashes`, `MaxDeletes`, `MaxAborts`, `MaxFaults` and `MaxTroubles` (faults
and aborts together) bound how often the environment interferes; `Plan`, `Deletable`,
`MaxUploads`, `MaxRequests` and `MaxCampaigns` bound what clients ask for; they are guards of the actions of that name and of nothing
else. One fault is enough to have a message delivered twice, a call fail half-way,
or a successor published by a worker that then dies; two DELETEs of a machine or
a file give a deletion that overtakes another; campaigns have one (the theorems are for
any number). Two requests to a source give two compilations at once, a
compilation of what is being deleted, or one APK deleted twice; two uploads, a task
that reads a newer content than it was queued for. In SchemaUpdate nothing is bounded:
servers stop and start for ever. The fourth release lacks script 2: it can only serve
after one of the others has updated. The four slots of `delivery` leave out one case, in
which both workers and the retry process are at once between publishing a successor and
acknowledging; whenever they are all used, one of the three is about to free its slot
(`SlotsComeFree` of MCTaskDelivery, which holds in this run). In TaskDelivery ages
saturate one tick past the timeout: older messages do not differ. A float limit of 1 means
one repost; `AgedByRetries` for more is `RetriesTakeTime` of section 5. Symmetry (of
machines and requests) is used in `avm_one_worker` only, which has no liveness.

Deadlock is not checked where the system comes to rest with all its work done
(the requests are bounded). TaskDelivery and SchemaUpdate never rest.

**Why one worker.** `doc/source/server.rst:43-44` says that any number of workers
may run, and with one worker most of what follows is simple. `DeletedIsClean`,
`ReadyIsDeployed`, `AsyncQuotaKept`, `NoOrphans`, `StaysDeleted`, `ReadyMeansTested`,
`VolumeMatches`, `ReadyIsCurrent`, `DeletedIsEmpty`, `ReadyHasVolume` and
`StaysDeleted` of a project hold for one worker, under faults and repeated delivery where
the run has them, and TLC refutes each of them for two. This is the main result about the code: it keeps
its promises where tasks are serial, and the points at which they are not are
those of section 6.

## 4. Fairness

* TaskDelivery: each process keeps running and is restarted (one WF per process: it is
  sequential), time passes and the delayed exchange routes what is due (WF). The broker
  serves the messages of each task and what a handler polls for is ready in the end
  (SF on `Deliver`, `DeliverRetry` and `HandlerDone` per task: the process they need is
  free again and again). No end of an outage is assumed. `EventuallySettled` says nothing
  once the retry process is stalled for ever, which is `retry_overflow`'s subject, and
  counts a dropped task as ended.
* AvmLifecycle: WF on each step of handlers and workers, SF on taking messages of
  each kind, SF on a stack that is polled getting its address. `Abort`, `Redeliver`,
  `Fail` have none. `avm_many_workers` has no aborted request: an aborted POST leaves
  its machine QUEUED for ever (section 6).
* Campaign: WF on handlers, workers, stacks and devices; SF on taking *some* message
  of the group of test runs that wait for a slot, and *some* of all others. This is
  weaker than fairness for each message, which RabbitMQ gives (it is first in, first
  out), and enough. A task that failed is not repeated, so `CampaignEnds`, `MachinesGo`
  and `ReadyMeansTested` say nothing after a fault; `NoOrphans` and `StaysDeleted` do.
* AssetLifecycle, CommandLifecycle: WF on each handler and each worker, SF on taking
  the messages about a file of one kind, or about a command. None for clients (who
  may never ask), deletions and troubles.
* TestSource: WF on each handler and worker, SF on taking a compilation and on taking
  a removal of each APK; none for clients and troubles. An aborted request is an
  alternative in `CompileEnds`.
* ProjectLifecycle: WF on workers, SF on taking the two messages about the project.
  Handlers have none: that is their `Abort` at any call. SchemaUpdate has no fairness
  and no liveness: a server that waits may be stopped, and then nothing happens.

## 5. Proofs

Theorems hold for every number of tasks, slots, workers, machines, requests,
files, commands, servers, scripts and faults, under the assumption named in each module
(`DeliveryAssumption` and `PowerAssumption`, `LifecycleAssumption`,
`CampaignAssumption`, `AssetAssumption`, `CommandAssumption`, `SourceAssumption`,
`ProjectAssumption`, `SchemaAssumption`), which only types the constants
(`PowerAssumption`: the arithmetic of `1.5 ** retries`, whose powers the prover cannot
compute). Where a theorem assumes more (one worker, a finite set, the fleet of
`SafeFleet`), its own ASSUME says so.

**TaskDelivery_proofs.** `TypeOK` is not inductive by itself: a worker's step is well
typed only because the message in its hand is there and is its only one.
`Owned == TypeOK /\ OneAtATime /\ SlotsInUse` is inductive (`TypeStep`, `OwnedStep`)
and gives `TypeCorrect` and `OneMessageEach`. On top of it, `SomeCopy`: a published
task without a result is carried by a message that is not about to be acknowledged.
That is what makes each hand-over safe, and gives `NoLoss`. `Refinement`, whether the retry
queues exist at first or not: each step maps to a step of TaskService or stutters
(`ServiceStep`); an acknowledgement maps to `Settle`, which needs that the task has
a result or another message; a nack into nothing maps to `Lose`, `StartRetry` to `SetUp`.
`RetriesTakeTime`: by `Aged` a message is as old as the
delays of its retries, less what it still has to wait, at every place it may be.
`CopiesStayBounded`: `Copies` leaves out a message that its owner only has to
acknowledge because the next one is published, so that a step replaces a copy by
another, or begins with the first; only a crash brings such a message back (`Doubled`).

**AvmLifecycle_proofs.** `Typed` adds `InItsTask` to the types: a worker makes only
the calls of the task it has. `Named` strengthens `Traceable` to messages and
workers on the way to a player: the name is written before the stack is asked for.
`Billed` strengthens `ReadyIsBilled`. These hold for any number of workers. With
`OneWorker == \A v, w \in Worker : v = w`, `Cleaning` says how far `avm_delete` has
got and that nobody works on a DELETED machine, and gives `DeletedClean`;
`Deploying` gives `ReadyDeployed`. `OvershootStaysBounded`, for a finite number of
requests: `Overshoot` counts the visible machines *together with those a handler holds*
(`Occupied`), because the DELETING that comes late makes a machine visible again. Only
a POST adds to them (`OccupiedShrinks`), and it found fewer than the quota.
`NoCreationLost`, for any number of workers: a machine that shows QUEUED or CREATING has a
creating task in the broker, with a worker or with its handler, whatever failed and however
often it came back; `Stranded` are the others, and each of them cost an aborted POST.
`EndsAreRecorded` says the same of every end of a task: it is acknowledged only after
DELETED, ERROR, READY or the next message was recorded. `MachineRefinement`, for one
worker: every step maps to a step of MachineService or stutters; `Goes` needs `Cleaning`,
`Builds` needs that nobody works on a DELETED machine.

**Campaign_proofs.** `TypeCorrect`. `DeletedStays`: `Seen` says that a worker which
has looked at the campaign finds it as it saw it, up to DELETING.
`QuotaAlwaysKept`: the invariant `QuotaInv` counts `Live`, the visible machines
*together with the one in a worker's hand*. A worker that is about to write a
status of a machine may otherwise revive a deleted one; counting it makes every
step but the insertion shrink `Live` (`LiveShrinks`), and the insertion adds one to a
set that was found smaller than the quota (`InsertAfterCheck`). `Known` and `Marked`
are the support: what messages and workers name exists, and the machine
`campaign_delete` is at has not been deleted since it looked. `OneMachineEach`, for any
finite number of workers: `Counted` adds to the machines of a test run everything that may
still become one (the POST, the messages, the workers that have one and have not used it).
`NobodyForgotten`: when a task about a machine ends, the machine is *safe* (gone, in
ERROR, or with a message waiting; `EndsSafe`), and `campaign_delete` has made safe all it
has been through (`LeavesSafe`). `ReadyWasTested`, without faults: a test run has one
machine and a machine one task, which goes through the commands in order (`InOrder`); a test
run that was begun has a command that shows RUNNING when the others look (`Visibly`).
`LeaksAreFaults`, for one worker: `Leaked` are the machines that stand while no task
that would remove them is in the broker or in hand and no ERROR tells of them; there are
no more of them than faults. `MachineRefinement` is that of AvmLifecycle, through the
three tasks and the handler that tear a machine down.

Two theorems are what the liveness of a campaign needs besides fairness: with one worker
and no faults it does not come to rest too early. `RestsWhenOver`: while nothing is being
deleted, each test run of a RUNNING campaign was tested, or has a task that asks for a
machine or a machine whose task is on its way (`OnTheWay`); when all were tested, the task
of the last one has yet to look (`LastSees`); and no machine is anybody else's prey
(`Spared`). `Ordered` says what the calls before have established, `RunAhead` that a QUEUED
campaign still has its `campaign_run`. A campaign without test runs is excluded
(`Testrun # {}`): it stays RUNNING, see section 6. `NothingLeft`: `Doomed` are the machines
an `avm_delete` is about; whoever gives up a machine that stands dooms it first
(`FailedGo`), and `campaign_delete` has doomed all that it has been through. `Blank` says
that before the POST there is nothing. One fault makes both false, for a task that failed
is not repeated; and a second worker `NothingLeft`. TLC has found no counterexample to
`RestsWhenOver` with two workers: only its proof needs one.

**AssetLifecycle_proofs.** `TypeCorrect`. `AlwaysTidy`, for any number of workers: by
`OneUpload` an upload is in one place (its handler, the broker or one worker), so
only the worker that has it sets READY; by `Settled`, when that worker lets go of it
the temporary file is gone, or the file is not READY, or an error was lost. A file
that is tidy stays so, because a row is there and its identifier is not used again
(`StaysTidy`), and only an acknowledgement ends an upload (`PendingStays`). For one
worker, `VolumeInv` says of every place in the two tasks whether the file is in the
volume, and gives `VolumeAlwaysMatches`. `NoUploadLost`, for any number of workers: a file
that shows QUEUED or UPLOADING has its upload in the broker, in its handler or with a
worker that will record how it ended (`UploadPending`); a step loses one file at most
(`OneLost`), and only one that uses up a trouble (`TroublesGrow`). By `FreshOf`, what has no
row is in nobody's hand.

**CommandLifecycle_proofs.** `TypeCorrect`. `OutputAlwaysWithReady`: by `OneCopy` a
command is in one place, so that between the output and READY nobody else sets it
RUNNING again (`Recorded`). The property is about the step from RUNNING: a command
whose row was inserted between the two is the gap of section 6. `ReadyStaysInstalled`:
by `KeptInv` the worker that has an install in hand shows RUNNING before it takes anything
away, so that only another install makes a READY one untrue. `OneIsLeft`: as long as
nothing failed, the machine has a package or somebody is between uninstall and install
(`Installing`). `RunningStaysOnItsWay`, for any number of workers and faults: a command that
shows RUNNING is in the broker or with a worker that has yet to record READY or ERROR
(`OnItsWay`), unless its machine or APK was deleted. `OneCopy` makes it inductive: nobody
else acknowledges the command, and what is obsolete stays so (`ObsoleteStays`).

**TestSource_proofs.** `TypeCorrect`. `ContainersCounted`: what a worker has started is
in `boxes`, two at most, and empty when it acknowledges; only `Fail` and `Redeliver`
add to `left`, and each uses up a trouble. `NeverForgotten`, for any number of workers:
`Supplied` says of a linked APK that is not finished that it is *fresh* (a compilation
is in the broker, or with a worker that has yet to read the identifier, is compiling
this APK, or is about to record an ERROR), or a handler has it, or the project says
ERROR. A worker that finishes another APK does not matter, because it read its
identifier before this one was linked, and the handler that linked it publishes later.
`ReadyWasCurrent`, for one worker: `Reading` says that what the worker read is as new as
the last request, or another compilation waits; `Current` is `Supplied` for a
READY APK, whose file may also be new enough, or whose deletion is pending.

**ProjectLifecycle_proofs.** `TypeCorrect`; for one worker, `InTime` says what
the worker's place in a task implies: between `is_active` and DELETED nothing is built,
because building is a task and there is one worker; between `docker-compose up` and
READY the volume is there. A message that is left over is obsolete or finds no project
(`Untouched`). This gives `DeletedEmpty`, `ReadyWithVolume` and `DeletedStays`.
`MachineRefinement`: the machines of a project keep to MachineService. With those of
AvmLifecycle and Campaign it says that all three modules are about one kind of machine;
it does not say that ProjectLifecycle has every behaviour of the other two, whose machines
also go while no project is looked at. `CreationAlwaysGoesOn`, for any number of workers and
troubles: a project is created by one message (`OneCreation`), and as long as it shows
QUEUED or CREATING that message is in its handler, in the broker or with a worker that has
yet to record READY or ERROR (`Creation`).

**SchemaUpdate_proofs.** `TypeCorrect`. `UpToDate`: by `Truthful`, below the version of a
state of the database, committed or not, every script that is not empty has been applied; a
server that counts scripts as its own has them in what it sees. `Ordered` is the same of
every script applied, and adds that nothing above the version has been, unless the script
it counts is repeatable: a server that read the version too early fails at a script that
is not (`AppliesInOrder`). `Counting` says that the server with the locks has counted what
it ran and goes no further than its release. Their conjunction is inductive (`Counted`), and
gives three theorems for every set of releases: `UpdateIsEnough` (`UpdateCounts`) and `Monotone`
(`VersionFalls`), with the exceptions those properties name, and `OnlyReleases`: what is
committed is nothing, or the scripts of a release, all of them, so that a start that is
stopped or fails half-way leaves nothing of itself. `SafeFleet` says which releases need no
exception: if none ends with an empty script, and only the newest with a repeatable one, a
server whose update was committed is not told to update again. Those of the repository are
not of this kind (section 6).

**Only model-checked:** the liveness properties, because fairness and ENABLED are out of
the prover's reach: `EventuallySettled`, `CreationEnds`,
`DeletionIsCarriedOut` (of machines and of files), `CampaignEnds`, `MachinesGo`, `UploadEnds`,
`CommandEnds`, `CompileEnds` and `DeletionIsDecided`. For most of them the part that is a
matter of safety is proved, namely that what has not ended is on its way to its end:
`NoTaskLost`, `CreationNotLost`, `RestsOver`, `RestsClean`, `UploadNotLost`,
`RunningIsOnItsWay`, `UnfinishedIsPending`. Every other property that a passing run checks
is proved. Some theorems are about formulas that no run has as a property, for they add no
question to those of the runs: the types, `FewLeaks`, `RestsOver`, `RestsClean`,
`UploadNotLost`, `RunningIsOnItsWay`, `CreationGoesOn`, `ReadyIsBilled`, `LeavesRecord` and the
refinements of MachineService; and `UpdateSuffices`, which the repository's releases violate
and `SafeFleet` proves for others.

Where a theorem assumes one worker, TLC refutes its
property with two: those named in section 3, `OvershootBounded` (a late task writes
ERROR over DELETED, which makes a deleted machine count again), `FewLeaks`, `RestsClean` and
the refinements of MachineService. `RestsOver` is the exception.

## 6. Where the code disagrees with its documentation

Found while modelling. The first three have runs that show them (`PROJECT.json`, findings):

* `campaign_ready_early`: `model/campaign.py:166` takes a test run between its last APK and
  its first test for finished.
* `retry_overflow`: `retry/main.py:62` computes the back-off before it caps it: at the
  1734th retry (delay_min 1 s) `1.5 ** retries` is no longer finite, `int()` raises, the
  message stays unacknowledged, and with prefetch 1 no failed task is rescheduled any more.
  With a delay_max of 30 s that is after about 14.4 hours, before the default fail_timeout
  of 24; `doc/source/server.rst:61-64` promises retries until then.
* `schema_releases`: two servers of different releases that update at once rely on a script
  to fail when it is run again. The last one of release 10 does not: `0010.sql` sets the
  type of a column, which it may do twice (`0007.sql` and `0009.sql` replace views). A server of release 10 that read
  version 9 sets the version back to 10 after one of release 11 has committed, and 0011
  then fails for every server that updates. The server of release 11, which was started
  with `--db-update`, is told to run it again (`schema.py:79-80`).

The following are in the models too, and no run is kept for them. Where a property is
named, TLC refutes it in the module and under the constants given:

* `worker/main.py:86` dead-letters a failed task to the retry queue "if defined". Until a
  retry process has run once it is not, and the task is gone without a result. In
  TaskDelivery this is `dropped`, which `NoTaskLost` and `EventuallySettled` name as their
  exception; `doc/source/server.rst:61` calls the process optional.
* `server/handlers/android.py:206` publishes before it sets DELETING, which then
  overwrites DELETED, and no task is left to change it
  (`doc/source/_static/diagrams/AndroidDelete.txt:17-30` has the opposite order).
  `DeletionEnds` of AvmLifecycle, with one worker, one machine and no fault.
* So a task that comes late finds more than it should. After two DELETEs a machine may show
  DELETING and be gone; if its creation is delivered again only then, `is_task_obsolete`
  does not stop it, and the machine is built after its deletion. The same holds of an
  upload or the creation of a project that has waited that long. (In MachineService this is
  `Revives` and then `Builds`.)
* `worker/tasks.py:295` starts a bill without asking whether the machine was deleted
  while the task ran. `DeletedIsOffTheBill` of AvmLifecycle, with two workers.
* A DELETED project may keep a machine. POST inserts its row between the task's
  `is_active` and DELETED (`tasks.py:70-76`); nothing is built for it, but it is hidden
  (`permission_avms`), cannot be deleted, and keeps its slot of the quota, whereas
  `model/project.py:94-97` says that such a project cannot be deleted.
  `ActiveIsNotDeleted` of ProjectLifecycle, with one worker.
* With two workers a project that is DELETED before `project_container_create` has ended
  gets a volume, or READY, again; and `set_status_error` (`task_errors.py:61`) writes ERROR
  over DELETED. TLC refutes `DeletedIsEmpty`, `ReadyHasVolume` and `StaysDeleted`. DELETING
  overwrites DELETED as with machines (`project.py:109-114`).
* A failed compilation, or a compilation of a source that was deleted meanwhile, puts its
  project into ERROR (the message has no `apk_id`), and its APK keeps COMPILING.
  `UnfinishedIsPending` and `CompileEnds` count the project's ERROR as an answer.
* `TestsourceHandler.compile` unlinks the APK (`testsource.py:233`) before `APK.insert`
  deletes its row. If a campaign used the APK, the foreign key of `testrun_apks` refuses,
  the request fails, and the source has lost its APK. A source whose APK was used once
  cannot be compiled again into the same APK.
* Two first compilations of a source at once make two APKs; one is left QUEUED and
  linked to nothing. While one request is between `233` and `240`, the task of another
  finds no APK, and the project gets its ERROR.
* With two workers a slow compilation may overwrite the file of a newer one: TLC refutes
  `ReadyIsCurrent`.
* `schema.py:59` passes over an empty script without counting it: if it is the last one,
  the server runs into `db_require_latest_version` for ever.
* A failed task is acknowledged with status ERROR, not rescheduled
  (`worker/main.py:76-95`); `doc/source/http-api.rst:376-379` says that creation tasks
  that failed in OpenStack are. In TaskDelivery this is `RecordError` followed by `Ack`.
* DELETE answers 404 to a machine that never got a stack name (`android.py:203`);
  such a machine, after a failed creation or an aborted POST, can never be removed
  and keeps its slot of the quota. In `DeleteLooksUp` it is the guard `stackName[a]`.
* The quota of live machines is read and the machine inserted in two transactions;
  `OvershootBounded` says by how much it can be exceeded with one worker. The quota of
  campaigns has the same race between workers: `AsyncQuotaKept` fails for two.
* `campaign_avm_create` looks at its campaign once. With two workers a campaign can be
  deleted while it builds a machine, which then stays, in state ERROR, with its stack.
* A campaign without tests is inserted without test runs, is set RUNNING and never READY
  (`handlers/campaign.py:47-71`, `tasks.py` `campaign_run`): nobody is left to look.
* `campaign_run` sets RUNNING over DELETING when the DELETE overtook it.
* Tasks of a deleted campaign raise, and `set_status_error` puts their *project* into
  ERROR (`task_errors.py:61`), though deleting a running campaign is documented.
* The three handlers for commands publish the task (`android.py:282, 339, 410`) before
  they insert the row (`296, 350, 419`); `doc/source/_static/diagrams/AndroidMonkey.txt:9-10`
  has it the other way round. A worker that is fast enough updates nothing: the
  command stays QUEUED for ever, or turns READY without its output. `CommandEnds` and
  `OutputWithReady` are therefore about commands that have their row.
* A command whose machine or APK was deleted is obsolete and stays as it is, QUEUED or
  RUNNING (`Obsolete` in `CommandEnds`).
* The ERROR of an APK is written `WHERE apk_id = command_id`, which is NULL there
  (`task_errors.py:44`): a failed upload shows QUEUED for ever, and a deletion that
  failed after `rm` leaves an APK READY and gone (`ErrorLost`).
* `apk_upload` and `camera_upload` unlink the temporary file last. Delivered again after
  that, they fail: a camera file that was READY becomes ERROR.
* With two workers, an upload may copy its file after a deletion removed it, or set
  READY over DELETING: TLC then refutes `VolumeMatches`. A camera
  file that is DELETED may come back as ERROR.
* A file that `aapt` refuses, or whose handler ends before it has published, stays in
  the temporary directory (`apk.py:50`); so does one deleted before its upload ran.

## 7. What is not modelled

* Payloads, names, image data, HTTP decoding, permissions: an object is visible or
  not, which is what the control depends on. Users and shared projects are left out;
  the machines of AvmLifecycle belong to one user.
* The results of commands (`stdout`, exit codes); a test that fails is a failure of
  the task in the model, as in the code.
* Projects are constant in all modules but ProjectLifecycle, which has them with tenants
  reduced to one step each. Renaming and sharing a project are not modelled.
* In TestSource, the local copies `cmd_docker_cp` leaves behind when its second `docker cp`
  fails, and the package name. The status of a source is READY in any case, and nobody
  asks for it.
* In SchemaUpdate a script is a number: applied, or not. Transactions that deadlock are
  stopped servers.
* `campaign_get_packages`: the packages of a campaign are given.
* Read-only handlers, the command line client, configuration, child processes,
  templates: no state of the system.
* In Campaign a failing call has no partial effect; AvmLifecycle has those.
* In AssetLifecycle the project is there throughout, and there is room in the volume. In
  CommandLifecycle one machine stands for all, since commands for different machines
  share nothing, and APKs are uploaded before they are installed.

## 8. Plan

Done: all components that change state (sections 2 to 5), and what their machines have in
common (MachineService). What would add most next:

1. What campaigns promise to the project they are in, as MachineService says it of machines,
   so that `DeletedIsEmpty` follows for what Campaign has.
2. The safety part of the liveness of TestSource and of deletions: what is being deleted is
   on its way to its end.
3. `campaign_get_packages`, which chooses the packages of a campaign on a machine of its
   own.
