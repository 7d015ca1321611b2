----------------------------- MODULE AvmLifecycle ------------------------------
(* The life of a virtual machine: the HTTP handlers that create and delete it   *)
(* (server/handlers/android.py), the tasks avm_create, avm_containers_create    *)
(* and avm_delete of the workers (worker/tasks.py), and what these leave in the *)
(* database (model/android.py), in RabbitMQ, in Heat and in Docker.             *)
(*                                                                              *)
(* Handlers and workers interleave at every await: one action is one call to a  *)
(* service. Messages are those of TaskDelivery, seen through its contract: a    *)
(* published task is taken at least once, in any order. Whatever sends a        *)
(* message back (a crash, a database outage) is Redeliver; any other exception  *)
(* of a handler is Fail.                                                        *)
EXTENDS Naturals, FiniteSets

CONSTANTS
    Avm,          \* identifiers of virtual machines (all of one user)
    None,         \* no virtual machine
    Worker,       \* worker processes
    Request,      \* HTTP requests the server handles at the same time
    VmLiveMax,    \* quota.vm_live_max; 0 means no limit
    MaxDeletes,   \* bound: DELETE requests
    MaxAborts,    \* bound: requests that end before their handler does
    MaxFaults     \* bound: crashes, outages, failing services

ASSUME LifecycleAssumption ==
    /\ None \notin Avm
    /\ VmLiveMax \in Nat /\ MaxDeletes \in Nat
    /\ MaxAborts \in Nat /\ MaxFaults \in Nat

VARIABLES
    status,      \* avms.status, "NONE" without a row
    stackName,   \* avms.stack_name is not null
    billing,     \* the row in billing: "none", "open", or "closed" (ts_stopped set)
    amqp,        \* event queues or a RabbitMQ user exist
    stack,       \* the Heat stack exists
    containers,  \* player containers exist
    queue,       \* queue[a][k]: messages of kind k about a in the broker
    wtask, wavm, \* wtask[w], wavm[w]: the message worker w has in hand
    wpc,         \* wpc[w]: the call worker w awaits next
    havm, hpc,   \* havm[r], hpc[r]: the same for the request handlers
    deletes, aborts, faults

rows == <<status, stackName, billing>>
resources == <<amqp, stack, containers>>
work == <<wtask, wavm, wpc>>
asked == <<deletes, aborts>>
http == <<havm, hpc, asked>>
vars == <<rows, resources, queue, work, http, faults>>

Kind == {"avm_create", "avm_containers_create", "avm_delete"}

Status == {"NONE", "QUEUED", "CREATING", "READY", "DELETING", "DELETED", "ERROR"}

\* The calls each task makes, in the order of the code.
CreatePc == {"c_get", "c_status", "c_amqp", "c_name", "c_stack", "c_publish"}
PlayerPc == {"p_get", "p_output", "p_delay", "p_up", "p_bill", "p_ready"}
DeletePc == {"d_get", "d_down", "d_bill", "d_amqp", "d_stack", "d_deleted"}
Running == CreatePc \cup PlayerPc \cup DeletePc

\* permission_avms: neither the machine nor its project is DELETED (projects
\* stay in this module; ProjectLifecycle deletes them).
Visible(a) == status[a] \notin {"NONE", "DELETED"}

\* quota_usage.live_current
Live == {a \in Avm : Visible(a)}

Init == /\ status = [a \in Avm |-> "NONE"]
        /\ stackName = [a \in Avm |-> FALSE]
        /\ billing = [a \in Avm |-> "none"]
        /\ amqp = [a \in Avm |-> FALSE]
        /\ stack = [a \in Avm |-> FALSE]
        /\ containers = [a \in Avm |-> FALSE]
        /\ queue = [a \in Avm |-> [k \in Kind |-> 0]]
        /\ wtask = [w \in Worker |-> "none"]
        /\ wavm = [w \in Worker |-> None]
        /\ wpc = [w \in Worker |-> "idle"]
        /\ havm = [r \in Request |-> None]
        /\ hpc = [r \in Request |-> "idle"]
        /\ deletes = 0
        /\ aborts = 0
        /\ faults = 0

Put(a, k) == queue' = [queue EXCEPT ![a][k] = @ + 1]

\* Where a handler is, in its calls; where a worker is; where a task begins.
HandlerAt(r, a, pc) == havm[r] = a /\ hpc[r] = pc
HandlerGoto(r, pc) == hpc' = [hpc EXCEPT ![r] = pc] /\ UNCHANGED havm
HandlerEnds(r) == hpc' = [hpc EXCEPT ![r] = "idle"] /\ havm' = [havm EXCEPT ![r] = None]

At(w, a, pc) == wavm[w] = a /\ wpc[w] = pc
Goto(w, pc) == wpc' = [wpc EXCEPT ![w] = pc] /\ UNCHANGED <<wtask, wavm>>
Rest(w) == /\ wpc' = [wpc EXCEPT ![w] = "idle"]
           /\ wtask' = [wtask EXCEPT ![w] = "none"]
           /\ wavm' = [wavm EXCEPT ![w] = None]

First == [k \in Kind |-> CASE k = "avm_create" -> "c_get"
                           [] k = "avm_containers_create" -> "p_get"
                           [] k = "avm_delete" -> "d_get"]

--------------------------------------------------------------------------------
(* Mutants: operations with a plausible bug, for seeing each property fail.     *)

\* Off by one in the quota.
CreateChecksQuotaLate(r, a) ==
    /\ hpc[r] = "idle"
    /\ status[a] = "NONE" /\ \A s \in Request : havm[s] # a
    /\ VmLiveMax = 0 \/ Cardinality(Live) <= VmLiveMax
    /\ hpc' = [hpc EXCEPT ![r] = "insert"]
    /\ havm' = [havm EXCEPT ![r] = a]
    /\ UNCHANGED <<rows, resources, queue, work, asked, faults>>

\* A machine that is being deleted is taken for deleted.
CheckTooEager(w, a) ==
    /\ At(w, a, "check")
    /\ Goto(w, IF status[a] \in {"DELETING", "DELETED"} THEN "ack" ELSE First[wtask[w]])
    /\ UNCHANGED <<rows, resources, queue, http, faults>>

\* The exception is logged, and no more.
SetErrorForgotten(w, a) ==
    /\ At(w, a, "error")
    /\ Goto(w, "ack")
    /\ UNCHANGED <<rows, resources, queue, http, faults>>

\* The name is computed and not saved.
UpdateStackNameUnsaved(w, a) ==
    /\ At(w, a, "c_name")
    /\ Goto(w, "c_stack")
    /\ UNCHANGED <<rows, resources, queue, http, faults>>

\* A missing stack is taken for one that has an address.
StackOutputUnchecked(w, a) ==
    /\ At(w, a, "p_output")
    /\ Goto(w, "p_delay") \/ Goto(w, "p_up")
    /\ UNCHANGED <<rows, resources, queue, http, faults>>

\* The deletion of the stack is not awaited, and its failure goes unnoticed.
DeleteStackUnawaited(w, a) ==
    /\ At(w, a, "d_stack")
    /\ stack' \in {stack, [stack EXCEPT ![a] = FALSE]}
    /\ Goto(w, "d_deleted")
    /\ UNCHANGED <<rows, amqp, containers, queue, http, faults>>

--------------------------------------------------------------------------------
(* The HTTP handlers.                                                           *)

\* POST /android: the quota is read; the identifier is a new one.
CreateChecksQuota(r, a) ==
    /\ hpc[r] = "idle"
    /\ status[a] = "NONE" /\ \A s \in Request : havm[s] # a
    /\ VmLiveMax = 0 \/ Cardinality(Live) < VmLiveMax
    /\ hpc' = [hpc EXCEPT ![r] = "insert"]
    /\ havm' = [havm EXCEPT ![r] = a]
    /\ UNCHANGED <<rows, resources, queue, work, asked, faults>>

CreateInserts(r, a) ==
    /\ HandlerAt(r, a, "insert")
    /\ status' = [status EXCEPT ![a] = "QUEUED"]
    /\ HandlerGoto(r, "publish_create")
    /\ UNCHANGED <<stackName, billing, resources, queue, work, asked, faults>>

CreatePublishes(r, a) ==
    /\ HandlerAt(r, a, "publish_create")
    /\ Put(a, "avm_create")
    /\ HandlerEnds(r)
    /\ UNCHANGED <<rows, resources, work, asked, faults>>

\* DELETE /android/{avm_id}; without a stack name the answer is 404, and no more.
DeleteLooksUp(r, a) ==
    /\ hpc[r] = "idle"
    /\ deletes < MaxDeletes
    /\ Visible(a) /\ stackName[a]
    /\ deletes' = deletes + 1
    /\ hpc' = [hpc EXCEPT ![r] = "publish_delete"]
    /\ havm' = [havm EXCEPT ![r] = a]
    /\ UNCHANGED <<rows, resources, queue, work, aborts, faults>>

DeletePublishes(r, a) ==
    /\ HandlerAt(r, a, "publish_delete")
    /\ Put(a, "avm_delete")
    /\ HandlerGoto(r, "set_deleting")
    /\ UNCHANGED <<rows, resources, work, asked, faults>>

DeleteSetsStatus(r, a) ==
    /\ HandlerAt(r, a, "set_deleting")
    /\ status' = [status EXCEPT ![a] = "DELETING"]
    /\ HandlerEnds(r)
    /\ UNCHANGED <<stackName, billing, resources, queue, work, asked, faults>>

\* The client disconnects, or the server stops: the handler ends at its await.
Abort(r) ==
    /\ hpc[r] # "idle"
    /\ aborts < MaxAborts
    /\ aborts' = aborts + 1
    /\ HandlerEnds(r)
    /\ UNCHANGED <<rows, resources, queue, work, deletes, faults>>

--------------------------------------------------------------------------------
(* The dispatcher of a worker (worker/main.py handle_message).                  *)

Take(w, a, k) ==
    /\ wpc[w] = "idle"
    /\ queue[a][k] > 0
    /\ queue' = [queue EXCEPT ![a][k] = @ - 1]
    /\ wpc' = [wpc EXCEPT ![w] = "check"]
    /\ wtask' = [wtask EXCEPT ![w] = k]
    /\ wavm' = [wavm EXCEPT ![w] = a]
    /\ UNCHANGED <<rows, resources, http, faults>>

\* is_task_obsolete
Check(w, a) ==
    /\ At(w, a, "check")
    /\ Goto(w, IF status[a] = "DELETED" THEN "ack" ELSE First[wtask[w]])
    /\ UNCHANGED <<rows, resources, queue, http, faults>>

\* An exception, caught by the dispatcher, which then calls set_status_error.
SetError(w, a) ==
    /\ At(w, a, "error")
    /\ status' = [status EXCEPT ![a] = "ERROR"]
    /\ Goto(w, "ack")
    /\ UNCHANGED <<stackName, billing, resources, queue, http, faults>>

Ack(w) ==
    /\ wpc[w] = "ack"
    /\ Rest(w)
    /\ UNCHANGED <<rows, resources, queue, http, faults>>

\* The worker crashes, or the database is away: the message comes back.
Redeliver(w, a) ==
    /\ wavm[w] = a /\ wpc[w] # "idle"
    /\ faults < MaxFaults
    /\ faults' = faults + 1
    /\ Put(a, wtask[w])
    /\ Rest(w)
    /\ UNCHANGED <<rows, resources, http>>

\* A service fails during a call awaited by a task. (A republication that fails
\* is an exception of the dispatcher itself: Redeliver.) The call may have taken
\* effect all the same.
Fail(w, a) ==
    /\ wavm[w] = a /\ wpc[w] \in Running \ {"p_delay"}
    /\ faults < MaxFaults
    /\ faults' = faults + 1
    /\ \/ UNCHANGED resources
       \/ /\ wpc[w] \in {"c_amqp", "d_amqp"}
          /\ amqp' = [amqp EXCEPT ![a] = (wpc[w] = "c_amqp")]
          /\ UNCHANGED <<stack, containers>>
       \/ /\ wpc[w] \in {"c_stack", "d_stack"}
          /\ stack' = [stack EXCEPT ![a] = (wpc[w] = "c_stack")]
          /\ UNCHANGED <<amqp, containers>>
       \/ /\ wpc[w] \in {"p_up", "d_down"}
          /\ containers' = [containers EXCEPT ![a] = (wpc[w] = "p_up")]
          /\ UNCHANGED <<amqp, stack>>
    /\ Goto(w, "error")
    /\ UNCHANGED <<rows, queue, http>>

\* AndroidVM.get, at the start of every task: no permission on what is deleted.
Get(w, a, here, next) ==
    /\ At(w, a, here)
    /\ Goto(w, IF Visible(a) THEN next ELSE "error")
    /\ UNCHANGED <<rows, resources, queue, http, faults>>

--------------------------------------------------------------------------------
(* avm_create.                                                                  *)

SetCreating(w, a) ==
    /\ At(w, a, "c_status")
    /\ status' = [status EXCEPT ![a] = "CREATING"]
    /\ Goto(w, "c_amqp")
    /\ UNCHANGED <<stackName, billing, resources, queue, http, faults>>

\* avm_amqp_config_create looks the machine up again.
ConfigureAmqp(w, a) ==
    /\ At(w, a, "c_amqp")
    /\ \/ Visible(a) /\ amqp' = [amqp EXCEPT ![a] = TRUE] /\ Goto(w, "c_name")
       \/ ~Visible(a) /\ Goto(w, "error") /\ UNCHANGED amqp
    /\ UNCHANGED <<rows, stack, containers, queue, http, faults>>

UpdateStackName(w, a) ==
    /\ At(w, a, "c_name")
    /\ stackName' = [stackName EXCEPT ![a] = TRUE]
    /\ Goto(w, "c_stack")
    /\ UNCHANGED <<status, billing, resources, queue, http, faults>>

\* Heat refuses a second stack of the same name.
CreateStack(w, a) ==
    /\ At(w, a, "c_stack")
    /\ stack' = [stack EXCEPT ![a] = TRUE]
    /\ Goto(w, IF stack[a] THEN "error" ELSE "c_publish")
    /\ UNCHANGED <<rows, amqp, containers, queue, http, faults>>

PublishContainers(w, a) ==
    /\ At(w, a, "c_publish")
    /\ Put(a, "avm_containers_create")
    /\ Goto(w, "ack")
    /\ UNCHANGED <<rows, resources, http, faults>>

--------------------------------------------------------------------------------
(* avm_containers_create.                                                       *)

\* The stack is gone, or not ready yet, or has an address.
StackOutput(w, a) ==
    /\ At(w, a, "p_output")
    /\ \/ ~stack[a] /\ Goto(w, "error")
       \/ stack[a] /\ Goto(w, "p_delay")
       \/ stack[a] /\ Goto(w, "p_up")
    /\ UNCHANGED <<rows, resources, queue, http, faults>>

Republish(w, a) ==
    /\ At(w, a, "p_delay")
    /\ Put(a, "avm_containers_create")
    /\ Goto(w, "ack")
    /\ UNCHANGED <<rows, resources, http, faults>>

PlayerUp(w, a) ==
    /\ At(w, a, "p_up")
    /\ containers' = [containers EXCEPT ![a] = TRUE]
    /\ Goto(w, "p_bill")
    /\ UNCHANGED <<rows, amqp, stack, queue, http, faults>>

\* INSERT ... WHERE NOT EXISTS
StartBilling(w, a) ==
    /\ At(w, a, "p_bill")
    /\ billing' = [billing EXCEPT ![a] = IF @ = "none" THEN "open" ELSE @]
    /\ Goto(w, "p_ready")
    /\ UNCHANGED <<status, stackName, resources, queue, http, faults>>

SetReady(w, a) ==
    /\ At(w, a, "p_ready")
    /\ status' = [status EXCEPT ![a] = "READY"]
    /\ Goto(w, "ack")
    /\ UNCHANGED <<stackName, billing, resources, queue, http, faults>>

--------------------------------------------------------------------------------
(* avm_delete.                                                                  *)

PlayerDown(w, a) ==
    /\ At(w, a, "d_down")
    /\ containers' = [containers EXCEPT ![a] = FALSE]
    /\ Goto(w, "d_bill")
    /\ UNCHANGED <<rows, amqp, stack, queue, http, faults>>

\* UPDATE: nothing happens without a row.
StopBilling(w, a) ==
    /\ At(w, a, "d_bill")
    /\ billing' = [billing EXCEPT ![a] = IF @ = "none" THEN @ ELSE "closed"]
    /\ Goto(w, "d_amqp")
    /\ UNCHANGED <<status, stackName, resources, queue, http, faults>>

\* avm_amqp_config_delete looks the machine up again; a missing user is fine.
RemoveAmqp(w, a) ==
    /\ At(w, a, "d_amqp")
    /\ \/ Visible(a) /\ amqp' = [amqp EXCEPT ![a] = FALSE] /\ Goto(w, "d_stack")
       \/ ~Visible(a) /\ Goto(w, "error") /\ UNCHANGED amqp
    /\ UNCHANGED <<rows, stack, containers, queue, http, faults>>

\* A stack that is gone already is fine.
DeleteStack(w, a) ==
    /\ At(w, a, "d_stack")
    /\ stack' = [stack EXCEPT ![a] = FALSE]
    /\ Goto(w, "d_deleted")
    /\ UNCHANGED <<rows, amqp, containers, queue, http, faults>>

SetDeleted(w, a) ==
    /\ At(w, a, "d_deleted")
    /\ status' = [status EXCEPT ![a] = "DELETED"]
    /\ Goto(w, "ack")
    /\ UNCHANGED <<stackName, billing, resources, queue, http, faults>>

--------------------------------------------------------------------------------
Handler(r, a) ==
    \/ CreateInserts(r, a) \/ CreatePublishes(r, a)
    \/ DeletePublishes(r, a) \/ DeleteSetsStatus(r, a)

AvmCreate(w, a) ==
    \/ Get(w, a, "c_get", "c_status")
    \/ SetCreating(w, a) \/ ConfigureAmqp(w, a) \/ UpdateStackName(w, a)
    \/ CreateStack(w, a) \/ PublishContainers(w, a)

AvmContainersCreate(w, a) ==
    \/ Get(w, a, "p_get", "p_output")
    \/ StackOutput(w, a) \/ Republish(w, a) \/ PlayerUp(w, a)
    \/ StartBilling(w, a) \/ SetReady(w, a)

AvmDelete(w, a) ==
    \/ Get(w, a, "d_get", "d_down")
    \/ PlayerDown(w, a) \/ StopBilling(w, a) \/ RemoveAmqp(w, a)
    \/ DeleteStack(w, a) \/ SetDeleted(w, a)

WorkerStep(w, a) ==
    \/ Check(w, a) \/ AvmCreate(w, a) \/ AvmContainersCreate(w, a) \/ AvmDelete(w, a)
    \/ SetError(w, a)

Next ==
    \/ \E r \in Request, a \in Avm :
          CreateChecksQuota(r, a) \/ DeleteLooksUp(r, a) \/ Handler(r, a)
    \/ \E r \in Request : Abort(r)
    \/ \E w \in Worker, a \in Avm :
          \/ \E k \in Kind : Take(w, a, k)
          \/ WorkerStep(w, a) \/ Redeliver(w, a) \/ Fail(w, a)
    \/ \E w \in Worker : Ack(w)

Spec == Init /\ [][Next]_vars

\* Workers and handlers go on, the broker serves every message, and a stack that
\* is polled again and again gets its address.
Fairness ==
    /\ \A r \in Request, a \in Avm : WF_vars(Handler(r, a))
    /\ \A w \in Worker : WF_vars(Ack(w))
    /\ \A w \in Worker, a \in Avm :
          /\ WF_vars(WorkerStep(w, a))
          /\ SF_vars(StackOutput(w, a) /\ wpc'[w] = "p_up")
    /\ \A a \in Avm, k \in Kind : SF_vars(\E w \in Worker : Take(w, a, k))

FairSpec == Spec /\ Fairness

--------------------------------------------------------------------------------
(* Properties.                                                                  *)

\* Every variable stays within its type: no status, pc or message is unforeseen.
TypeOK ==
    /\ status \in [Avm -> Status]
    /\ stackName \in [Avm -> BOOLEAN]
    /\ billing \in [Avm -> {"none", "open", "closed"}]
    /\ amqp \in [Avm -> BOOLEAN]
    /\ stack \in [Avm -> BOOLEAN]
    /\ containers \in [Avm -> BOOLEAN]
    /\ queue \in [Avm -> [Kind -> Nat]]
    /\ wtask \in [Worker -> Kind \cup {"none"}]
    /\ wavm \in [Worker -> Avm \cup {None}]
    /\ wpc \in [Worker -> Running \cup {"idle", "check", "error", "ack"}]
    /\ havm \in [Request -> Avm \cup {None}]
    /\ hpc \in [Request -> {"idle", "insert", "publish_create", "publish_delete",
                            "set_deleting"}]
    /\ deletes \in 0..MaxDeletes
    /\ aborts \in 0..MaxAborts
    /\ faults \in 0..MaxFaults

\* Whatever is paid for can be found again: a machine with a Heat stack, with
\* containers or with a bill has its stack name in the database, so DELETE does
\* not answer "not found"; avm_create writes the name before it asks for a stack.
Traceable == \A a \in Avm : stack[a] \/ containers[a] \/ billing[a] # "none" => stackName[a]

\* A machine is READY only once it is on the bill, through every interleaving of
\* its three tasks and every redelivery.
ReadyIsBilled == \A a \in Avm : status[a] = "READY" => billing[a] # "none"

\* A machine is DELETED with nothing left behind, in RabbitMQ, Heat, Docker or on
\* the bill.
DeletedIsClean ==
    \A a \in Avm : status[a] = "DELETED" =>
        ~amqp[a] /\ ~stack[a] /\ ~containers[a] /\ billing[a] # "open"

\* A READY machine has its stack and its players, unless its deletion is on the way.
ReadyIsDeployed ==
    \A a \in Avm : status[a] = "READY" =>
        \/ stack[a] /\ containers[a]
        \/ queue[a]["avm_delete"] > 0
        \/ \E w \in Worker : wavm[w] = a /\ wtask[w] = "avm_delete"

\* A machine that shows QUEUED or CREATING is being created, however often its task
\* fails, is polled or is delivered again: only a POST that ended between its row and
\* its task (android.py:136-146) leaves one for which nothing will ever be done.
Creating == {"avm_create", "avm_containers_create"}
CreationPending(a) ==
    \/ \E k \in Creating : queue[a][k] > 0
    \/ \E w \in Worker : wavm[w] = a /\ wtask[w] \in Creating /\ wpc[w] \notin {"idle", "ack"}
    \/ \E r \in Request : HandlerAt(r, a, "publish_create")
Stranded == {a \in Avm : status[a] \in {"QUEUED", "CREATING"} /\ ~CreationPending(a)}
CreationNotLost == Cardinality(Stranded) <= aborts

\* POST reads the quota and inserts the machine in two transactions, and DELETE
\* revives a machine its task has deleted already; still the user exceeds the quota
\* by at most the requests that were under way together, less one.
OvershootBounded ==
    VmLiveMax > 0 => Cardinality(Live) <= VmLiveMax + Cardinality(Request) - 1

\* What the project of the machine sees of all this is what MachineService promises.
RowOf(a) == CASE status[a] = "NONE" -> "NONE"
              [] status[a] = "DELETED" -> "OVER"
              [] OTHER -> "ACTIVE"
Stands(a) == amqp[a] \/ stack[a] \/ containers[a]
Service == INSTANCE MachineService WITH
    Machine <- Avm, row <- [a \in Avm |-> RowOf(a)], built <- [a \in Avm |-> Stands(a)]
ImplementsMachines == Service!Spec

\* A creation ends: no machine stays QUEUED or CREATING.
CreationEnds == \A a \in Avm : status[a] = "QUEUED" ~> status[a] \notin {"QUEUED", "CREATING"}

\* A deletion the server has queued is carried out, or its failure recorded.
DeletionIsCarriedOut ==
    \A a \in Avm : queue[a]["avm_delete"] > 0 ~> status[a] \in {"DELETED", "ERROR"}

\* AndroidDelete.txt:17-30: the server sets DELETING, then the worker deletes and
\* sets DELETED; so no machine stays DELETING.
DeletionEnds == \A a \in Avm : status[a] = "DELETING" ~> status[a] # "DELETING"

\* 0003.sql:16: billing.ts_stopped is the time of deletion.
DeletedIsOffTheBill == \A a \in Avm : status[a] = "DELETED" => billing[a] # "open"
================================================================================
