------------------------------- MODULE Campaign --------------------------------
(* A test campaign: the handlers of server/handlers/campaign.py, the tasks      *)
(* campaign_run, campaign_avm_create, campaign_containers_create,               *)
(* campaign_runtest and campaign_delete (worker/tasks.py), and how a campaign   *)
(* knows that it has finished (model/campaign.py).                              *)
(*                                                                              *)
(* Every test run gets a machine of its own, within a quota shared by all, runs *)
(* its commands there and deletes it. The calls that build or remove a machine  *)
(* are one step here; AvmLifecycle takes them apart. Messages are delivered at  *)
(* least once, in any order (TaskDelivery).                                     *)
EXTENDS Naturals, FiniteSets

CONSTANTS
    Testrun,      \* test runs of the campaign
    Avm,          \* identifiers for the machines they get
    None,         \* neither a test run nor a machine
    Worker,       \* worker processes
    Installs,     \* APKs a test run installs
    Tests,        \* packages it tests afterwards (see TestRuns for more than one)
    VmAsyncMax,   \* quota.vm_async_max; 0 means no limit
    MaxDeletes,   \* bound: DELETE requests
    MaxFaults     \* bound: crashes, outages, failing services and tests

ASSUME CampaignAssumption ==
    /\ None \notin Testrun \cup Avm
    /\ IsFiniteSet(Avm)
    /\ Testrun \cap Avm = {}
    /\ Installs \in Nat \ {0} /\ Tests \in Nat \ {0}
    /\ VmAsyncMax \in Nat /\ MaxDeletes \in Nat /\ MaxFaults \in Nat

VARIABLES
    campaign,    \* campaigns.status, "NONE" without a row
    project,     \* projects.status
    command,     \* command[t][j]: status of the j-th command of t, "NULL" if not linked
    owner,       \* avms.testrun_id, None without a row
    status,      \* avms.status
    machine,     \* the stack with its containers and queues: "none", "building",
                 \* "up" (it has an address), "booted"
    queue,       \* queue[m]: messages <<task, object>> in the broker
    post,        \* the handler of POST: "idle", "publish", "done"
    del,         \* the handler of DELETE: "idle", "publish", "set"
    wmsg, wpc,   \* wmsg[w]: the message in hand; wpc[w]: the next call
    wavm,        \* the machine campaign_avm_create inserted
    wtodo,       \* what the loop of campaign_run or campaign_delete has left
    wjob,        \* the command campaign_runtest is at
    deletes, faults

rows == <<campaign, project, command, owner, status>>
http == <<post, del, deletes>>
work == <<wmsg, wpc, wavm, wtodo, wjob>>
vars == <<rows, machine, queue, http, work, faults>>

Command == 1..(Installs + Tests)

Message ==
    ({"campaign_run", "campaign_delete"} \X {None})
        \cup ({"campaign_avm_create"} \X Testrun)
        \cup ({"campaign_containers_create", "campaign_runtest", "avm_delete"} \X Avm)

NoMessage == <<"none", None>>

\* Campaign.get, AndroidVM.get
CampaignVisible == campaign \notin {"NONE", "DELETED"}
AvmVisible(a) == status[a] \notin {"NONE", "DELETED"}

\* quota_usage.async_current
AsyncCurrent == Cardinality({a \in Avm : AvmVisible(a)})

\* What Campaign.command_statuses finds for a test run: an outer join of packages,
\* APKs and commands, in which a package without a command only shows as QUEUED
\* beside an APK without one.
Found(t) ==
    LET linked == {j \in Command : command[t][j] # "NULL"} IN
    {command[t][j] : j \in linked}
        \cup (IF 1..Installs \subseteq linked \/ (Installs + 1)..(Installs + Tests) \subseteq linked
              THEN {} ELSE {"QUEUED"})

CommandStatuses == UNION {Found(t) : t \in Testrun}

Init == /\ campaign = "NONE" /\ project = "READY"
        /\ command = [t \in Testrun |-> [j \in Command |-> "NULL"]]
        /\ owner = [a \in Avm |-> None]
        /\ status = [a \in Avm |-> "NONE"]
        /\ machine = [a \in Avm |-> "none"]
        /\ queue = [m \in Message |-> 0]
        /\ post = "idle" /\ del = "idle"
        /\ wmsg = [w \in Worker |-> NoMessage]
        /\ wpc = [w \in Worker |-> "idle"]
        /\ wavm = [w \in Worker |-> None]
        /\ wtodo = [w \in Worker |-> {}]
        /\ wjob = [w \in Worker |-> 0]
        /\ deletes = 0 /\ faults = 0

Publish(task, x) == queue' = [queue EXCEPT ![<<task, x>>] = @ + 1]

--------------------------------------------------------------------------------
(* The HTTP handlers.                                                           *)

PostInserts ==
    /\ post = "idle"
    /\ campaign' = "QUEUED"
    /\ post' = "publish"
    /\ UNCHANGED <<project, command, owner, status, machine, queue, del, deletes, work, faults>>

PostPublishes ==
    /\ post = "publish"
    /\ Publish("campaign_run", None)
    /\ post' = "done"
    /\ UNCHANGED <<rows, machine, del, deletes, work, faults>>

DeleteLooksUp ==
    /\ del = "idle" /\ deletes < MaxDeletes
    /\ CampaignVisible
    /\ del' = "publish"
    /\ deletes' = deletes + 1
    /\ UNCHANGED <<rows, machine, queue, post, work, faults>>

DeletePublishes ==
    /\ del = "publish"
    /\ Publish("campaign_delete", None)
    /\ del' = "set"
    /\ UNCHANGED <<rows, machine, post, deletes, work, faults>>

DeleteSetsStatus ==
    /\ del = "set"
    /\ campaign' = "DELETING"
    /\ del' = "idle"
    /\ UNCHANGED <<project, command, owner, status, machine, queue, post, deletes, work, faults>>

--------------------------------------------------------------------------------
(* A worker: the message in hand and the next call of its handler.              *)

At(w, task, x, pc) == wmsg[w] = <<task, x>> /\ wpc[w] = pc
Goto(w, pc) == wpc' = [wpc EXCEPT ![w] = pc] /\ UNCHANGED <<wmsg, wavm, wtodo, wjob>>
Rest(w) == /\ wmsg' = [wmsg EXCEPT ![w] = NoMessage]
           /\ wpc' = [wpc EXCEPT ![w] = "idle"]
           /\ wavm' = [wavm EXCEPT ![w] = None]
           /\ wtodo' = [wtodo EXCEPT ![w] = {}]
           /\ wjob' = [wjob EXCEPT ![w] = 0]

--------------------------------------------------------------------------------
(* Plausible bugs, substituted for the definitions below to see a property fail. *)

\* `>` for `>=` in the check of the quota.
CreateChecksQuotaLate(w, t) ==
    /\ At(w, "campaign_avm_create", t, "quota")
    /\ Goto(w, IF VmAsyncMax > 0 /\ AsyncCurrent > VmAsyncMax THEN "delay" ELSE "insert")
    /\ UNCHANGED <<rows, machine, queue, http, faults>>

\* Campaign.get without `status <> 'DELETED'` in campaign_run.
RunGetsDeleted(w) ==
    /\ At(w, "campaign_run", None, "get")
    /\ Goto(w, IF campaign # "NONE" THEN "running" ELSE "error")
    /\ UNCHANGED <<rows, machine, queue, http, faults>>

\* The query of campaign_run without its GROUP BY: a row for each APK and package.
RunPublishesUngrouped(w, t) ==
    /\ At(w, "campaign_run", None, "loop")
    /\ t \in wtodo[w]
    /\ queue' = [queue EXCEPT ![<<"campaign_avm_create", t>>] = @ + 1 + Installs * Tests]
    /\ wtodo' = [wtodo EXCEPT ![w] = @ \ {t}]
    /\ UNCHANGED <<rows, machine, http, wmsg, wpc, wavm, wjob, faults>>

\* A test run that is READY anywhere will do.
TestReadsAnyStatus(w, a) ==
    /\ At(w, "campaign_runtest", a, "statuses")
    /\ Goto(w, IF "READY" \in CommandStatuses THEN "finished" ELSE "ack")
    /\ UNCHANGED <<rows, machine, queue, http, faults>>

\* The machine keeps its slot: nobody sets it DELETED.
TestKeepsStatus(w, a) ==
    /\ At(w, "campaign_runtest", a, "deleted")
    /\ Goto(w, "statuses")
    /\ UNCHANGED <<rows, machine, queue, http, faults>>

\* campaign_delete skips the machines whose test is still to come.
DeleteReadsReady(w) ==
    /\ At(w, "campaign_delete", None, "get")
    /\ wtodo' = [wtodo EXCEPT ![w] = {a \in Avm : status[a] = "READY"}]
    /\ wpc' = [wpc EXCEPT ![w] = IF CampaignVisible THEN "loop" ELSE "loop_missing"]
    /\ UNCHANGED <<rows, machine, queue, http, wmsg, wavm, wjob, faults>>

\* The obsolete check takes a machine that is being deleted for deleted.
CheckTooEager(w) ==
    /\ wpc[w] = "check"
    /\ LET x == wmsg[w][2]
       IN  Goto(w, IF x \in Avm /\ status[x] \in {"DELETING", "DELETED"} THEN "ack" ELSE "get")
    /\ UNCHANGED <<rows, machine, queue, http, faults>>

--------------------------------------------------------------------------------
(* The dispatcher (worker/main.py handle_message).                              *)

Take(w, m) ==
    /\ wpc[w] = "idle"
    /\ queue[m] > 0
    /\ queue' = [queue EXCEPT ![m] = @ - 1]
    /\ wmsg' = [wmsg EXCEPT ![w] = m]
    /\ wpc' = [wpc EXCEPT ![w] = "check"]
    /\ UNCHANGED <<rows, machine, http, wavm, wtodo, wjob, faults>>

\* is_task_obsolete knows about machines and projects, not about campaigns.
Check(w) ==
    /\ wpc[w] = "check"
    /\ LET x == wmsg[w][2]
       IN  Goto(w, IF x \in Avm /\ status[x] = "DELETED" THEN "ack" ELSE "get")
    /\ UNCHANGED <<rows, machine, queue, http, faults>>

\* TaskDelay: the same message once more.
Delay(w) ==
    /\ wpc[w] = "delay"
    /\ queue' = [queue EXCEPT ![wmsg[w]] = @ + 1]
    /\ Goto(w, "ack")
    /\ UNCHANGED <<rows, machine, http, faults>>

\* set_status_error: the row of the machine, if the message names one, else that
\* of the project.
SetError(w) ==
    /\ wpc[w] = "error"
    /\ LET x == wmsg[w][2] IN
       \/ x \in Avm /\ status' = [status EXCEPT ![x] = "ERROR"] /\ UNCHANGED project
       \/ x \notin Avm /\ project' = "ERROR" /\ UNCHANGED status
    /\ Goto(w, "ack")
    /\ UNCHANGED <<campaign, command, owner, machine, queue, http, faults>>

Ack(w) ==
    /\ wpc[w] = "ack"
    /\ Rest(w)
    /\ UNCHANGED <<rows, machine, queue, http, faults>>

\* A crash or an outage: the message comes back.
Redeliver(w) ==
    /\ wpc[w] # "idle"
    /\ faults < MaxFaults
    /\ faults' = faults + 1
    /\ queue' = [queue EXCEPT ![wmsg[w]] = @ + 1]
    /\ Rest(w)
    /\ UNCHANGED <<rows, machine, http>>

\* A service or a test command fails.
Fail(w) ==
    /\ wpc[w] \notin {"idle", "check", "delay", "error", "ack"}
    /\ faults < MaxFaults
    /\ faults' = faults + 1
    /\ Goto(w, "error")
    /\ UNCHANGED <<rows, machine, queue, http>>

--------------------------------------------------------------------------------
(* campaign_run.                                                                *)

RunGets(w) ==
    /\ At(w, "campaign_run", None, "get")
    /\ Goto(w, IF CampaignVisible THEN "running" ELSE "error")
    /\ UNCHANGED <<rows, machine, queue, http, faults>>

RunSetsStatus(w) ==
    /\ At(w, "campaign_run", None, "running")
    /\ campaign' = "RUNNING"
    /\ wtodo' = [wtodo EXCEPT ![w] = Testrun]
    /\ wpc' = [wpc EXCEPT ![w] = "loop"]
    /\ UNCHANGED <<project, command, owner, status, machine, queue, http, wmsg, wavm, wjob, faults>>

RunPublishes(w, t) ==
    /\ At(w, "campaign_run", None, "loop")
    /\ t \in wtodo[w]
    /\ Publish("campaign_avm_create", t)
    /\ wtodo' = [wtodo EXCEPT ![w] = @ \ {t}]
    /\ UNCHANGED <<rows, machine, http, wmsg, wpc, wavm, wjob, faults>>

RunEnds(w) ==
    /\ At(w, "campaign_run", None, "loop")
    /\ wtodo[w] = {}
    /\ Goto(w, "ack")
    /\ UNCHANGED <<rows, machine, queue, http, faults>>

--------------------------------------------------------------------------------
(* campaign_avm_create.                                                         *)

CreateGets(w, t) ==
    /\ At(w, "campaign_avm_create", t, "get")
    /\ Goto(w, IF CampaignVisible THEN "quota" ELSE "error")
    /\ UNCHANGED <<rows, machine, queue, http, faults>>

CreateChecksQuota(w, t) ==
    /\ At(w, "campaign_avm_create", t, "quota")
    /\ Goto(w, IF VmAsyncMax > 0 /\ AsyncCurrent >= VmAsyncMax THEN "delay" ELSE "insert")
    /\ UNCHANGED <<rows, machine, queue, http, faults>>

CreateInserts(w, t, a) ==
    /\ At(w, "campaign_avm_create", t, "insert")
    /\ owner[a] = None
    /\ owner' = [owner EXCEPT ![a] = t]
    /\ status' = [status EXCEPT ![a] = "QUEUED"]
    /\ wavm' = [wavm EXCEPT ![w] = a]
    /\ wpc' = [wpc EXCEPT ![w] = "creating"]
    /\ UNCHANGED <<campaign, project, command, machine, queue, http, wmsg, wtodo, wjob, faults>>

CreateSetsCreating(w, t) ==
    LET a == wavm[w] IN
    /\ At(w, "campaign_avm_create", t, "creating")
    /\ \/ /\ AvmVisible(a)
          /\ status' = [status EXCEPT ![a] = "CREATING"]
          /\ Goto(w, "build")
       \/ ~AvmVisible(a) /\ Goto(w, "error") /\ UNCHANGED status
    /\ UNCHANGED <<campaign, project, command, owner, machine, queue, http, faults>>

\* From avm_amqp_config_create, which looks at the machine again, to heat.stack_create.
CreateBuilds(w, t) ==
    LET a == wavm[w] IN
    /\ At(w, "campaign_avm_create", t, "build")
    /\ \/ /\ AvmVisible(a)
          /\ machine' = [machine EXCEPT ![a] = "building"]
          /\ Goto(w, "publish")
       \/ ~AvmVisible(a) /\ Goto(w, "error") /\ UNCHANGED machine
    /\ UNCHANGED <<rows, queue, http, faults>>

CreatePublishes(w, t) ==
    /\ At(w, "campaign_avm_create", t, "publish")
    /\ Publish("campaign_containers_create", wavm[w])
    /\ Goto(w, "ack")
    /\ UNCHANGED <<rows, machine, http, faults>>

--------------------------------------------------------------------------------
(* campaign_containers_create.                                                  *)

PlayersGet(w, a) ==
    /\ At(w, "campaign_containers_create", a, "get")
    /\ Goto(w, IF AvmVisible(a) THEN "output" ELSE "error")
    /\ UNCHANGED <<rows, machine, queue, http, faults>>

\* The stack is gone, not ready, or has its address: the players are started.
PlayersStart(w, a) ==
    /\ At(w, "campaign_containers_create", a, "output")
    /\ \/ machine[a] = "none" /\ Goto(w, "error")
       \/ machine[a] = "building" /\ Goto(w, "delay")
       \/ machine[a] \in {"up", "booted"} /\ Goto(w, "ready")
    /\ UNCHANGED <<rows, machine, queue, http, faults>>

PlayersReady(w, a) ==
    /\ At(w, "campaign_containers_create", a, "ready")
    /\ status' = [status EXCEPT ![a] = "READY"]
    /\ Goto(w, "publish")
    /\ UNCHANGED <<campaign, project, command, owner, machine, queue, http, faults>>

PlayersPublish(w, a) ==
    /\ At(w, "campaign_containers_create", a, "publish")
    /\ Publish("campaign_runtest", a)
    /\ Goto(w, "ack")
    /\ UNCHANGED <<rows, machine, http, faults>>

--------------------------------------------------------------------------------
(* campaign_runtest.                                                            *)

TestGets(w, a) ==
    /\ At(w, "campaign_runtest", a, "get")
    /\ Goto(w, IF CampaignVisible /\ AvmVisible(a) THEN "boot" ELSE "error")
    /\ UNCHANGED <<rows, machine, queue, http, faults>>

\* dev.bootcomplete; a machine that is gone does not respond.
TestWaitsForBoot(w, a) ==
    /\ At(w, "campaign_runtest", a, "boot")
    /\ \/ machine[a] # "booted" /\ Goto(w, "delay")
       \/ /\ machine[a] = "booted"
          /\ wpc' = [wpc EXCEPT ![w] = "link"]
          /\ wjob' = [wjob EXCEPT ![w] = 1]
          /\ UNCHANGED <<wmsg, wavm, wtodo>>
    /\ UNCHANGED <<rows, machine, queue, http, faults>>

\* INSERT INTO avm_commands, UPDATE testrun_apks or testrun_packages, then RUNNING.
TestLinks(w, a) ==
    /\ At(w, "campaign_runtest", a, "link")
    /\ command' = [command EXCEPT ![owner[a]][wjob[w]] = "RUNNING"]
    /\ Goto(w, "exec")
    /\ UNCHANGED <<campaign, project, owner, status, machine, queue, http, faults>>

\* docker exec adb ..., its result, then READY. Each APK and each package has its turn
\* once; with two packages or more, the outer join of campaign_run repeats the APKs, and
\* one that is installed again gets another command in the place of the first.
TestRuns(w, a) ==
    /\ At(w, "campaign_runtest", a, "exec")
    /\ \/ /\ machine[a] # "none"
          /\ command' = [command EXCEPT ![owner[a]][wjob[w]] = "READY"]
          /\ wpc' = [wpc EXCEPT ![w] = IF wjob[w] < Installs + Tests THEN "link" ELSE "down"]
          /\ wjob' = [wjob EXCEPT ![w] = IF @ < Installs + Tests THEN @ + 1 ELSE 0]
          /\ UNCHANGED <<wmsg, wavm, wtodo>>
       \/ machine[a] = "none" /\ Goto(w, "error") /\ UNCHANGED command
    /\ UNCHANGED <<campaign, project, owner, status, machine, queue, http, faults>>

\* From player_down to heat.stack_delete, with a look at the machine in between.
TestTearsDown(w, a) ==
    /\ At(w, "campaign_runtest", a, "down")
    /\ \/ /\ AvmVisible(a)
          /\ machine' = [machine EXCEPT ![a] = "none"]
          /\ Goto(w, "deleted")
       \/ ~AvmVisible(a) /\ Goto(w, "error") /\ UNCHANGED machine
    /\ UNCHANGED <<rows, queue, http, faults>>

TestSetsDeleted(w, a) ==
    /\ At(w, "campaign_runtest", a, "deleted")
    /\ status' = [status EXCEPT ![a] = "DELETED"]
    /\ Goto(w, "statuses")
    /\ UNCHANGED <<campaign, project, command, owner, machine, queue, http, faults>>

TestReadsStatuses(w, a) ==
    /\ At(w, "campaign_runtest", a, "statuses")
    /\ Goto(w, IF CommandStatuses = {"READY"} THEN "finished" ELSE "ack")
    /\ UNCHANGED <<rows, machine, queue, http, faults>>

TestFinishesCampaign(w, a) ==
    /\ At(w, "campaign_runtest", a, "finished")
    /\ campaign' = "READY"
    /\ Goto(w, "ack")
    /\ UNCHANGED <<project, command, owner, status, machine, queue, http, faults>>

--------------------------------------------------------------------------------
(* campaign_delete and avm_delete.                                              *)

\* Campaign.get, whose result is looked at only in the end, and campaign_resources.
DeleteReads(w) ==
    /\ At(w, "campaign_delete", None, "get")
    /\ wtodo' = [wtodo EXCEPT ![w] = {a \in Avm : owner[a] # None}]
    /\ wpc' = [wpc EXCEPT ![w] = IF CampaignVisible THEN "loop" ELSE "loop_missing"]
    /\ UNCHANGED <<rows, machine, queue, http, wmsg, wavm, wjob, faults>>

\* One row: a machine that is still there gets its avm_delete ...
DeletePublishesAvm(w, a) ==
    /\ wmsg[w] = <<"campaign_delete", None>> /\ wpc[w] \in {"loop", "loop_missing"}
    /\ a \in wtodo[w] /\ wavm[w] = None
    /\ \/ /\ AvmVisible(a)
          /\ Publish("avm_delete", a)
          /\ wavm' = [wavm EXCEPT ![w] = a]
          /\ UNCHANGED wtodo
       \/ /\ ~AvmVisible(a)
          /\ wtodo' = [wtodo EXCEPT ![w] = @ \ {a}]
          /\ UNCHANGED <<queue, wavm>>
    /\ UNCHANGED <<rows, machine, http, wmsg, wpc, wjob, faults>>

\* ... and then its status.
DeleteSetsAvm(w, a) ==
    /\ wmsg[w] = <<"campaign_delete", None>> /\ wpc[w] \in {"loop", "loop_missing"}
    /\ wavm[w] = a
    /\ status' = [status EXCEPT ![a] = "DELETING"]
    /\ wavm' = [wavm EXCEPT ![w] = None]
    /\ wtodo' = [wtodo EXCEPT ![w] = @ \ {a}]
    /\ UNCHANGED <<campaign, project, command, owner, machine, queue, http, wmsg, wpc, wjob, faults>>

\* A campaign that was not found has no set_status.
DeleteEnds(w) ==
    /\ wmsg[w] = <<"campaign_delete", None>>
    /\ wtodo[w] = {}
    /\ \/ wpc[w] = "loop" /\ campaign' = "DELETED" /\ Goto(w, "ack")
       \/ wpc[w] = "loop_missing" /\ Goto(w, "error") /\ UNCHANGED campaign
    /\ UNCHANGED <<project, command, owner, status, machine, queue, http, faults>>

AvmDeletes(w, a) ==
    /\ At(w, "avm_delete", a, "get")
    /\ \/ /\ AvmVisible(a)
          /\ machine' = [machine EXCEPT ![a] = "none"]
          /\ Goto(w, "deleted")
       \/ ~AvmVisible(a) /\ Goto(w, "error") /\ UNCHANGED machine
    /\ UNCHANGED <<rows, queue, http, faults>>

AvmSetsDeleted(w, a) ==
    /\ At(w, "avm_delete", a, "deleted")
    /\ status' = [status EXCEPT ![a] = "DELETED"]
    /\ Goto(w, "ack")
    /\ UNCHANGED <<campaign, project, command, owner, machine, queue, http, faults>>

--------------------------------------------------------------------------------
Server == PostInserts \/ PostPublishes \/ DeleteLooksUp \/ DeletePublishes \/ DeleteSetsStatus

CampaignRun(w) == \/ RunGets(w) \/ RunSetsStatus(w) \/ RunEnds(w)
                  \/ \E t \in Testrun : RunPublishes(w, t)

CampaignAvmCreate(w) ==
    \E t \in Testrun : \/ CreateGets(w, t) \/ CreateChecksQuota(w, t)
                       \/ \E a \in Avm : CreateInserts(w, t, a)
                       \/ CreateSetsCreating(w, t) \/ CreateBuilds(w, t)
                       \/ CreatePublishes(w, t)

CampaignContainersCreate(w) ==
    \E a \in Avm : PlayersGet(w, a) \/ PlayersStart(w, a) \/ PlayersReady(w, a)
                                    \/ PlayersPublish(w, a)

CampaignRuntest(w) ==
    \E a \in Avm : \/ TestGets(w, a) \/ TestWaitsForBoot(w, a) \/ TestLinks(w, a)
                   \/ TestRuns(w, a) \/ TestTearsDown(w, a) \/ TestSetsDeleted(w, a)
                   \/ TestReadsStatuses(w, a) \/ TestFinishesCampaign(w, a)

CampaignDelete(w) ==
    \/ DeleteReads(w) \/ DeleteEnds(w)
    \/ \E a \in Avm : DeletePublishesAvm(w, a) \/ DeleteSetsAvm(w, a)

\* OpenStack and Android, on their own: the stack gets its address, the device boots.
StackBuilt(a) ==
    /\ machine[a] = "building"
    /\ machine' = [machine EXCEPT ![a] = "up"]
    /\ UNCHANGED <<rows, queue, http, work, faults>>

DeviceBoots(a) ==
    /\ machine[a] = "up"
    /\ machine' = [machine EXCEPT ![a] = "booted"]
    /\ UNCHANGED <<rows, queue, http, work, faults>>

AvmDelete(w) == \E a \in Avm : AvmDeletes(w, a) \/ AvmSetsDeleted(w, a)

WorkerStep(w) ==
    \/ Check(w) \/ Delay(w) \/ SetError(w) \/ Ack(w)
    \/ CampaignRun(w) \/ CampaignAvmCreate(w) \/ CampaignContainersCreate(w)
    \/ CampaignRuntest(w) \/ CampaignDelete(w) \/ AvmDelete(w)

Next == \/ Server
        \/ \E a \in Avm : StackBuilt(a) \/ DeviceBoots(a)
        \/ \E w \in Worker : \/ \E m \in Message : Take(w, m)
                             \/ WorkerStep(w) \/ Redeliver(w) \/ Fail(w)

Spec == Init /\ [][Next]_vars

\* Handlers and workers go on, stacks get an address and devices boot. RabbitMQ
\* serves every message; what is needed of that is that tests waiting for a slot of
\* the quota keep no other message waiting for ever, nor these the tests.
Waiting == {"campaign_avm_create"} \X Testrun
Served(messages) == SF_vars(\E w \in Worker, m \in messages : Take(w, m))
Fairness ==
    /\ WF_vars(PostPublishes)
    /\ WF_vars(DeletePublishes \/ DeleteSetsStatus)
    /\ \A a \in Avm : WF_vars(StackBuilt(a) \/ DeviceBoots(a))
    /\ Served(Waiting) /\ Served(Message \ Waiting)
    /\ \A w \in Worker : WF_vars(WorkerStep(w))

FairSpec == Spec /\ Fairness
--------------------------------------------------------------------------------
(* Properties.                                                                  *)

Call == {"idle", "check", "get", "delay", "error", "ack", "running", "loop", "loop_missing",
         "quota", "insert", "creating", "build", "publish", "output", "ready", "boot", "link",
         "exec", "down", "deleted", "statuses", "finished"}

TypeOK ==
    /\ campaign \in {"NONE", "QUEUED", "RUNNING", "READY", "DELETING", "DELETED"}
    /\ project \in {"READY", "ERROR"}
    /\ command \in [Testrun -> [Command -> {"NULL", "RUNNING", "READY"}]]
    /\ owner \in [Avm -> Testrun \cup {None}]
    /\ status \in [Avm -> {"NONE", "QUEUED", "CREATING", "READY", "DELETING", "DELETED", "ERROR"}]
    /\ machine \in [Avm -> {"none", "building", "up", "booted"}]
    /\ queue \in [Message -> Nat]
    /\ post \in {"idle", "publish", "done"} /\ del \in {"idle", "publish", "set"}
    /\ wmsg \in [Worker -> Message \cup {NoMessage}]
    /\ wpc \in [Worker -> Call]
    /\ \A w \in Worker : wmsg[w] = NoMessage <=> wpc[w] = "idle"
    /\ wavm \in [Worker -> Avm \cup {None}]
    /\ wtodo \in [Worker -> SUBSET (Testrun \cup Avm)]
    /\ wjob \in [Worker -> Command \cup {0}]
    /\ deletes \in 0..MaxDeletes /\ faults \in 0..MaxFaults

\* The machines of campaigns that are not DELETED keep within the quota: what was
\* checked still holds when the machine is inserted (tasks.py campaign_avm_create),
\* and no late error brings more machines back than were checked for.
AsyncQuotaKept == VmAsyncMax > 0 => AsyncCurrent <= VmAsyncMax

\* campaign_run asks for one machine for each test run. Only a crash or an outage gives
\* it another one: waiting for a slot of the quota, however often, does not.
MachinesPerTestrun ==
    \A t \in Testrun : Cardinality({a \in Avm : owner[a] = t}) <= 1 + faults

\* A campaign that was DELETED is not taken up again by a task that was on its way;
\* only the DELETE handler's own DELETING may come late.
StaysDeleted == [][campaign = "DELETED" => campaign' \in {"DELETED", "DELETING"}]_campaign

\* When a campaign is DELETED, each of its machines is gone, or on record as failed,
\* or a task that deletes it or finds the campaign gone is on the way (tasks.py
\* campaign_delete).
InHand(m) == \E w \in Worker : wmsg[w] = m
NoOrphans ==
    campaign = "DELETED" =>
        \A a \in Avm : machine[a] # "none" =>
            \/ status[a] = "ERROR"
            \/ \E m \in Message : m[2] = a /\ (queue[m] > 0 \/ InHand(m))

\* "Used to know when a campaign has finished" (model/campaign.py command_statuses):
\* in a READY campaign, every APK was installed and every package tested, if nothing
\* failed on the way.
ReadyMeansTested ==
    campaign = "READY" /\ faults = 0 => \A t \in Testrun, j \in Command : command[t][j] = "READY"

\* What the project sees of the machines of a campaign is what MachineService promises.
RowOf(a) == CASE status[a] = "NONE" -> "NONE"
              [] status[a] = "DELETED" -> "OVER"
              [] OTHER -> "ACTIVE"
Stands(a) == machine[a] # "none"
Service == INSTANCE MachineService WITH
    Machine <- Avm, row <- [a \in Avm |-> RowOf(a)], built <- [a \in Avm |-> Stands(a)]
ImplementsMachines == Service!Spec

\* Every campaign ends, by itself or by a DELETE, though its test runs have to wait
\* for each other's machines. (A failed test run keeps it RUNNING.)
CampaignEnds == campaign = "QUEUED" ~> campaign \in {"READY", "DELETING", "DELETED"} \/ faults > 0

\* No machine outlives its test or its campaign, if nothing fails.
MachinesGo == \A a \in Avm : machine[a] # "none" ~> machine[a] = "none" \/ faults > 0
================================================================================
