--------------------------- MODULE ProjectLifecycle ----------------------------
(* A project: its row and its volume, the handlers that create and delete it    *)
(* (server/handlers/project.py), the tasks project_container_create and         *)
(* project_container_delete (worker/tasks.py), and what else goes on in it: its *)
(* tenants, which are the machines and campaigns that Project.is_active looks   *)
(* for, and compilations, which it does not look for.                           *)
(*                                                                              *)
(* One action is one awaited call, and messages are taken at least once, in any *)
(* order. What a tenant or a compilation does is reduced to what the project    *)
(* sees of it: machines are those of MachineService, which AvmLifecycle and     *)
(* Campaign implement; TestSource has compilations.                             *)
EXTENDS Naturals

CONSTANTS
    Machine, Campaign,  \* the tenants
    None,               \* no tenant
    Worker,             \* worker processes
    MaxRequests,        \* bound: requests to delete the project or to compile
    MaxTroubles         \* bound: crashes, outages, failing services, aborted requests

Tenant == Machine \cup Campaign
Request == 1..MaxRequests

ASSUME ProjectAssumption ==
    /\ Machine \cap Campaign = {}
    /\ None \notin Tenant
    /\ MaxRequests \in Nat /\ MaxTroubles \in Nat

VARIABLES
    project,    \* projects.status, "NONE" without a row
    volume,     \* the container with the volume of the project exists
    tenant,     \* tenant[x]: "NONE" without a row, "ACTIVE" as is_active counts it, "OVER"
    named,      \* named[x]: machine x has its stack name, without which DELETE finds nothing
    built,      \* built[x]: machine x has its stack; campaign x is RUNNING (its machines are
                \* tenants of their own)
    queue,      \* queue[m]: messages <<task, tenant or None>> in the broker
    post,       \* the handler of POST /projects: "idle", "publish", "done"
    hpc,        \* hpc[r]: the next call of request r
    tpc,        \* tpc[x]: the next call of the handler that creates x
    wmsg, wpc,  \* wmsg[w]: the message worker w has in hand; wpc[w]: the call it awaits next
    troubles

rows == <<project, tenant, named>>
http == <<post, hpc, tpc>>
work == <<wmsg, wpc>>
vars == <<rows, volume, built, queue, http, work, troubles>>

Message == ({"create", "delete", "compile"} \X {None}) \cup ({"run"} \X Tenant)
NoMessage == <<"none", None>>

Calls == {"c_get", "creating", "up", "ready", "d_get", "active", "down", "deleted",
          "t_get", "name", "build", "publish", "k_get", "store"}
HandlerPc == {"idle", "active", "publish_delete", "deleting", "publish_compile", "done"}

\* permission_projects, and with it Project.get and whatever is asked for by its project.
Visible == project \notin {"NONE", "DELETED"}

\* Project.is_active
IsActive == \E x \in Tenant : tenant[x] = "ACTIVE"

Init == /\ project = "NONE" /\ volume = FALSE
        /\ tenant = [x \in Tenant |-> "NONE"]
        /\ named = [x \in Machine |-> FALSE]
        /\ built = [x \in Tenant |-> FALSE]
        /\ queue = [m \in Message |-> 0]
        /\ post = "idle"
        /\ hpc = [r \in Request |-> "idle"]
        /\ tpc = [x \in Tenant |-> "idle"]
        /\ wmsg = [w \in Worker |-> NoMessage]
        /\ wpc = [w \in Worker |-> "idle"]
        /\ troubles = 0

Publish(task, x) == queue' = [queue EXCEPT ![<<task, x>>] = @ + 1]
Proceed(r, pc) == hpc' = [hpc EXCEPT ![r] = pc] /\ UNCHANGED <<post, tpc>>
Advance(x, pc) == tpc' = [tpc EXCEPT ![x] = pc] /\ UNCHANGED <<post, hpc>>

At(w, task, pc) == wmsg[w][1] = task /\ wpc[w] = pc
Goto(w, pc) == wpc' = [wpc EXCEPT ![w] = pc] /\ UNCHANGED wmsg
Rest(w) == /\ wmsg' = [wmsg EXCEPT ![w] = NoMessage]
           /\ wpc' = [wpc EXCEPT ![w] = "idle"]

\* The first call of the task of a message.
First(m) == CASE m[1] = "create" -> "c_get"
              [] m[1] = "delete" -> "d_get"
              [] m[1] = "compile" -> "k_get"
              [] OTHER -> "t_get"

Trouble == troubles < MaxTroubles /\ troubles' = troubles + 1

--------------------------------------------------------------------------------
(* Mutants: operations with a plausible bug, for seeing each property fail.     *)

\* The worker takes the server's word that the project is not active.
ActiveUnchecked(w) ==
    /\ At(w, "delete", "active")
    /\ Goto(w, "down")
    /\ UNCHANGED <<rows, volume, built, queue, http, troubles>>

\* READY first, and docker-compose in the background.
SetsReadyFirst(w, task, here, status, next) ==
    /\ At(w, task, here)
    /\ project' = IF task = "create" THEN "READY" ELSE status
    /\ Goto(w, next)
    /\ UNCHANGED <<tenant, named, volume, built, queue, http, troubles>>

\* is_task_obsolete does not know about projects.
CheckMachinesOnly(w) ==
    LET x == wmsg[w][2] IN
    /\ wpc[w] = "check"
    /\ Goto(w, IF x \in Machine /\ tenant[x] = "OVER" THEN "ack" ELSE First(wmsg[w]))
    /\ UNCHANGED <<rows, volume, built, queue, http, troubles>>

\* The exception is logged, and no more.
SetErrorForgotten(w) ==
    /\ wpc[w] = "error"
    /\ Goto(w, "ack")
    /\ UNCHANGED <<rows, volume, built, queue, http, troubles>>

--------------------------------------------------------------------------------
(* The HTTP server.                                                             *)

PostInserts ==
    /\ post = "idle"
    /\ project' = "QUEUED"
    /\ post' = "publish"
    /\ UNCHANGED <<tenant, named, volume, built, queue, hpc, tpc, work, troubles>>

PostPublishes ==
    /\ post = "publish"
    /\ Publish("create", None)
    /\ post' = "done"
    /\ UNCHANGED <<rows, volume, built, hpc, tpc, work, troubles>>

\* Requests are numbered in the order they arrive: context_project finds the project.
Asks(r, pc) ==
    /\ hpc[r] = "idle" /\ \A q \in Request : q < r => hpc[q] # "idle"
    /\ Visible
    /\ Proceed(r, pc)
    /\ UNCHANGED <<rows, volume, built, queue, work, troubles>>

\* DELETE: 409 to an active project.
DeleteChecks(r) ==
    /\ hpc[r] = "active"
    /\ Proceed(r, IF IsActive THEN "done" ELSE "publish_delete")
    /\ UNCHANGED <<rows, volume, built, queue, work, troubles>>

DeletePublishes(r) ==
    /\ hpc[r] = "publish_delete"
    /\ Publish("delete", None)
    /\ Proceed(r, "deleting")
    /\ UNCHANGED <<rows, volume, built, work, troubles>>

DeleteSetsDeleting(r) ==
    /\ hpc[r] = "deleting"
    /\ project' = "DELETING"
    /\ Proceed(r, "done")
    /\ UNCHANGED <<tenant, named, volume, built, queue, work, troubles>>

\* A compilation, from testsource.py.
CompilePublishes(r) ==
    /\ hpc[r] = "publish_compile"
    /\ Publish("compile", None)
    /\ Proceed(r, "done")
    /\ UNCHANGED <<rows, volume, built, work, troubles>>

\* POST of a machine or a campaign: the project is looked up, and asked no more.
TenantAsks(x) ==
    /\ tpc[x] = "idle"
    /\ Visible
    /\ Advance(x, "insert")
    /\ UNCHANGED <<rows, volume, built, queue, work, troubles>>

TenantInserts(x) ==
    /\ tpc[x] = "insert"
    /\ tenant' = [tenant EXCEPT ![x] = "ACTIVE"]
    /\ Advance(x, "publish")
    /\ UNCHANGED <<project, named, volume, built, queue, work, troubles>>

TenantPublishes(x) ==
    /\ tpc[x] = "publish"
    /\ Publish("run", x)
    /\ Advance(x, "done")
    /\ UNCHANGED <<rows, volume, built, work, troubles>>

\* A machine with a stack name is deleted, by a worker that is free for it; a campaign
\* ends or is deleted. Both are found as long as the project is visible.
TenantGoes(x) ==
    /\ Visible
    /\ tenant[x] = "ACTIVE"
    /\ x \in Machine => named[x] /\ \E w \in Worker : wpc[w] = "idle"
    /\ tenant' = [tenant EXCEPT ![x] = "OVER"]
    /\ built' = [built EXCEPT ![x] = FALSE]
    /\ UNCHANGED <<project, named, volume, queue, http, work, troubles>>

\* The handler that deletes a machine sets DELETING when it is DELETED already.
MachineRevives(x) ==
    /\ tenant[x] = "OVER"
    /\ tenant' = [tenant EXCEPT ![x] = "ACTIVE"]
    /\ UNCHANGED <<project, named, volume, built, queue, http, work, troubles>>

\* The client is gone and the handler is cancelled, or a query fails.
Abort(r) ==
    /\ hpc[r] \notin {"idle", "done"}
    /\ Trouble
    /\ Proceed(r, "done")
    /\ UNCHANGED <<rows, volume, built, queue, work>>

--------------------------------------------------------------------------------
(* The dispatcher (worker/main.py, worker/task_errors.py).                      *)

Take(w, m) ==
    /\ wpc[w] = "idle" /\ queue[m] > 0
    /\ queue' = [queue EXCEPT ![m] = @ - 1]
    /\ wmsg' = [wmsg EXCEPT ![w] = m]
    /\ wpc' = [wpc EXCEPT ![w] = "check"]
    /\ UNCHANGED <<rows, volume, built, http, troubles>>

\* is_task_obsolete
Check(w) ==
    LET x == wmsg[w][2] IN
    /\ wpc[w] = "check"
    /\ Goto(w, IF project = "DELETED" \/ (x \in Machine /\ tenant[x] = "OVER")
               THEN "ack" ELSE First(wmsg[w]))
    /\ UNCHANGED <<rows, volume, built, queue, http, troubles>>

\* set_status_error: a machine has an ERROR of its own (it stays active); all else is
\* recorded in the project, whatever its status.
SetError(w) ==
    /\ wpc[w] = "error"
    /\ project' = IF wmsg[w][2] \in Machine THEN project ELSE "ERROR"
    /\ Goto(w, "ack")
    /\ UNCHANGED <<tenant, named, volume, built, queue, http, troubles>>

Ack(w) ==
    /\ wpc[w] = "ack"
    /\ Rest(w)
    /\ UNCHANGED <<rows, volume, built, queue, http, troubles>>

\* A crash or an outage of the database: the message comes back.
Redeliver(w) ==
    /\ wpc[w] # "idle"
    /\ Trouble
    /\ queue' = [queue EXCEPT ![wmsg[w]] = @ + 1]
    /\ Rest(w)
    /\ UNCHANGED <<rows, volume, built, http>>

\* The call raises. That it did its work all the same is a failure of the call after it.
Fail(w) ==
    /\ wpc[w] \in Calls
    /\ Trouble
    /\ Goto(w, "error")
    /\ UNCHANGED <<rows, volume, built, queue, http>>

--------------------------------------------------------------------------------
(* The tasks.                                                                   *)

\* Project.get of each task; a machine or campaign is looked up as well. A campaign that
\* is over is found unless it is DELETED.
Get(w, here, next) ==
    LET x == wmsg[w][2] IN
    /\ wpc[w] = here
    /\ \/ /\ Visible /\ (x \in Machine => tenant[x] = "ACTIVE")
          /\ Goto(w, next)
       \/ /\ ~Visible \/ (x # None /\ tenant[x] # "ACTIVE")
          /\ Goto(w, "error")
    /\ UNCHANGED <<rows, volume, built, queue, http, troubles>>

\* project.set_status
Sets(w, task, here, status, next) ==
    /\ At(w, task, here)
    /\ project' = status
    /\ Goto(w, next)
    /\ UNCHANGED <<tenant, named, volume, built, queue, http, troubles>>

\* project_up and project_down.
Composes(w, task, here, up, next) ==
    /\ At(w, task, here)
    /\ volume' = up
    /\ Goto(w, next)
    /\ UNCHANGED <<rows, built, queue, http, troubles>>

\* project_container_delete asks once more.
DeleteAsks(w) ==
    /\ At(w, "delete", "active")
    /\ Goto(w, IF IsActive THEN "error" ELSE "down")
    /\ UNCHANGED <<rows, volume, built, queue, http, troubles>>

\* avm_create: the stack name, the stack, and a message to go on with, which is the
\* business of the machine.
Names(w, x) ==
    /\ wmsg[w] = <<"run", x>> /\ wpc[w] = "name"
    /\ named' = [named EXCEPT ![x] = TRUE]
    /\ Goto(w, "build")
    /\ UNCHANGED <<project, tenant, volume, built, queue, http, troubles>>

Builds(w, x) ==
    /\ wmsg[w] = <<"run", x>> /\ wpc[w] = "build"
    /\ built' = [built EXCEPT ![x] = TRUE]
    /\ Goto(w, "publish")
    /\ UNCHANGED <<rows, volume, queue, http, troubles>>

\* campaign_run: the campaign is RUNNING, whatever it was.
Runs(w, x) ==
    /\ wmsg[w] = <<"run", x>> /\ wpc[w] = "build"
    /\ tenant' = [tenant EXCEPT ![x] = "ACTIVE"]
    /\ built' = [built EXCEPT ![x] = TRUE]
    /\ Goto(w, "publish")
    /\ UNCHANGED <<project, named, volume, queue, http, troubles>>

RunPublishes(w) ==
    /\ At(w, "run", "publish")
    /\ Goto(w, "ack")
    /\ UNCHANGED <<rows, volume, built, queue, http, troubles>>

\* testsource_compile needs the volume for its result.
CompileStores(w) ==
    /\ At(w, "compile", "store")
    /\ Goto(w, IF volume THEN "ack" ELSE "error")
    /\ UNCHANGED <<rows, volume, built, queue, http, troubles>>

WorkerStep(w) ==
    \/ Check(w) \/ SetError(w) \/ Ack(w)
    \/ Get(w, "c_get", "creating")
    \/ Sets(w, "create", "creating", "CREATING", "up")
    \/ Composes(w, "create", "up", TRUE, "ready")
    \/ Sets(w, "create", "ready", "READY", "ack")
    \/ Get(w, "d_get", "active")
    \/ DeleteAsks(w)
    \/ Composes(w, "delete", "down", FALSE, "deleted")
    \/ Sets(w, "delete", "deleted", "DELETED", "ack")
    \/ Get(w, "t_get", IF wmsg[w][2] \in Machine THEN "name" ELSE "build")
    \/ \E x \in Machine : Names(w, x) \/ Builds(w, x)
    \/ (\E x \in Campaign : Runs(w, x)) \/ RunPublishes(w)
    \/ Get(w, "k_get", "store") \/ CompileStores(w)

Handler(r) == DeleteChecks(r) \/ DeletePublishes(r) \/ DeleteSetsDeleting(r) \/ CompilePublishes(r)
TenantHandler(x) == TenantInserts(x) \/ TenantPublishes(x)

Next ==
    \/ PostInserts \/ PostPublishes
    \/ \E r \in Request : Asks(r, "active") \/ Asks(r, "publish_compile") \/ Handler(r) \/ Abort(r)
    \/ \E x \in Tenant : TenantAsks(x) \/ TenantHandler(x) \/ TenantGoes(x)
    \/ \E x \in Machine : MachineRevives(x)
    \/ \E w \in Worker : \/ \E m \in Message : Take(w, m)
                         \/ WorkerStep(w) \/ Redeliver(w) \/ Fail(w)

Spec == Init /\ [][Next]_vars

\* Workers go on, and the broker serves the messages about the project itself; handlers
\* may stop at any call.
Fairness ==
    /\ \A w \in Worker : WF_vars(WorkerStep(w))
    /\ \A task \in {"create", "delete"} : SF_vars(\E w \in Worker : Take(w, <<task, None>>))

FairSpec == Spec /\ Fairness

--------------------------------------------------------------------------------
(* Properties.                                                                  *)

\* Every variable stays within its type.
TypeOK ==
    /\ project \in {"NONE", "QUEUED", "CREATING", "READY", "DELETING", "DELETED", "ERROR"}
    /\ volume \in BOOLEAN
    /\ tenant \in [Tenant -> {"NONE", "ACTIVE", "OVER"}]
    /\ named \in [Machine -> BOOLEAN]
    /\ built \in [Tenant -> BOOLEAN]
    /\ queue \in [Message -> Nat]
    /\ post \in {"idle", "publish", "done"}
    /\ hpc \in [Request -> HandlerPc]
    /\ tpc \in [Tenant -> {"idle", "insert", "publish", "done"}]
    /\ wmsg \in [Worker -> Message \cup {NoMessage}]
    /\ wpc \in [Worker -> Calls \cup {"idle", "check", "error", "ack"}]
    /\ troubles \in 0..MaxTroubles

Pending(m) == queue[m] > 0 \/ \E w \in Worker : wmsg[w] = m

\* A DELETED project has no volume, no machine of it has a stack, and no campaign is
\* RUNNING: a tenant that a handler inserts between the two looks of is_active and
\* DELETED is found by the second one, or its own task is found obsolete.
DeletedIsEmpty == project = "DELETED" => ~volume /\ \A x \in Tenant : ~built[x]

\* Whatever a READY project needs its volume for finds one, unless a deletion has
\* taken it away and is about to say so.
ReadyHasVolume == project = "READY" => volume \/ Pending(<<"delete", None>>)

\* What still runs in a deleted project does not bring it back: only the handler of
\* DELETE itself may set DELETING late, which is undone by another DELETE.
StaysDeleted == [][project = "DELETED" => project' \in {"DELETED", "DELETING"}]_project

\* The machines of a project are those of MachineService, which AvmLifecycle and Campaign
\* implement: what this module lets a tenant do is no more than they do.
Service == INSTANCE MachineService WITH row <- [x \in Machine |-> tenant[x]],
                                        built <- [x \in Machine |-> built[x]]
ImplementsMachines == Service!Spec

\* A deletion the server has queued is carried out, or refused with an ERROR.
DeletionIsDecided == queue[<<"delete", None>>] > 0 ~> project \in {"DELETED", "ERROR"}

\* Project.is_active: "A project is active (i.e. cannot be deleted) if it has VMs that
\* have not been deleted, or asynchronous campaigns that will create VMs."
ActiveIsNotDeleted == project = "DELETED" => ~IsActive
================================================================================
