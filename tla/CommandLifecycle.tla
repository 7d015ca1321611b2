--------------------------- MODULE CommandLifecycle ----------------------------
(* The commands on a virtual machine, apk_install, monkey and test_run: the     *)
(* HTTP handlers that ask for them and report on them                           *)
(* (server/handlers/android.py), the tasks that run them (worker/tasks.py) and  *)
(* the row of each in avm_commands (model/command.py).                          *)
(*                                                                              *)
(* All commands are for one machine, and all APKs are signed differently and    *)
(* hold the same package, so that one install needs the uninstall of another.   *)
(* They are uploaded, as http-api.rst:429 asks, and go as apk_delete makes them *)
(* go, and the machine as avm_delete does. One action is one awaited call       *)
(* (reads in a row are one); messages are taken at least once, in any order.    *)
EXTENDS Naturals

CONSTANTS
    Command,      \* identifiers of commands
    Apk,          \* identifiers of APKs
    None,         \* no command, no APK
    Plan,         \* bound: the commands clients ask for (the values of apkOf)
    Deletable,    \* bound: the APKs clients delete
    Worker,       \* worker processes
    MaxTroubles   \* bound: crashes, outages, failing services, aborted requests

ASSUME CommandAssumption ==
    /\ None \notin Command /\ None \notin Apk
    /\ Plan \subseteq [Command -> Apk \cup {None}]
    /\ Deletable \subseteq Apk
    /\ MaxTroubles \in Nat

VARIABLES
    apkOf,       \* apkOf[c]: what c installs; None: c is a monkey or a test run
    machine,     \* the machine: "up", "down" (no containers), "DELETED"
    apk,         \* each APK: "READY", "gone" (its file is), "DELETED"
    installed,   \* the APK whose package is on the machine, or None
    status,      \* avm_commands.status, "NONE" without a row
    output,      \* avm_commands.ts_end, proc_*: the output of the command is there
    asking,      \* asking[c]: the next call of the handler that asks for c
    queue,       \* queue[c]: messages about c in the broker
    wcmd,        \* wcmd[w]: the command worker w has in hand
    wpc,         \* wpc[w]: the call worker w awaits next
    success,     \* success[w]: the command worker w ran said 'Success'
    troubles

around == <<apkOf, machine, apk>>
row == <<status, output>>
work == <<wcmd, wpc, success>>
vars == <<around, installed, row, asking, queue, work, troubles>>

Status == {"NONE", "QUEUED", "RUNNING", "READY", "ERROR"}
Calls == {"get", "running", "uninstall", "execute", "record", "ready"}

Install(c) == apkOf[c] # None

Init == /\ apkOf \in Plan
        /\ machine = "up"
        /\ apk = [x \in Apk |-> "READY"]
        /\ installed = None
        /\ status = [c \in Command |-> "NONE"]
        /\ output = [c \in Command |-> FALSE]
        /\ asking = [c \in Command |-> "no"]
        /\ queue = [c \in Command |-> 0]
        /\ wcmd = [w \in Worker |-> None]
        /\ wpc = [w \in Worker |-> "idle"]
        /\ success = [w \in Worker |-> FALSE]
        /\ troubles = 0

At(w, c, pc) == wcmd[w] = c /\ wpc[w] = pc
Goto(w, pc) == wpc' = [wpc EXCEPT ![w] = pc] /\ UNCHANGED <<wcmd, success>>
Hand(w, c, pc) == /\ wcmd' = [wcmd EXCEPT ![w] = c]
                  /\ wpc' = [wpc EXCEPT ![w] = pc]
                  /\ success' = [success EXCEPT ![w] = FALSE]
Ran(w, ok) == /\ success' = [success EXCEPT ![w] = ok]
              /\ wpc' = [wpc EXCEPT ![w] = "record"]
              /\ UNCHANGED wcmd

\* UPDATE avm_commands SET status: nothing happens without a row.
Update(c, s) == status' = [status EXCEPT ![c] = IF @ = "NONE" THEN @ ELSE s]

Ask(c, here, next) == asking[c] = here /\ asking' = [asking EXCEPT ![c] = next]

Trouble == troubles < MaxTroubles /\ troubles' = troubles + 1

--------------------------------------------------------------------------------
(* Mutants: operations with a plausible bug, for seeing each property fail.     *)

\* Only a test shows that it is running.
SetRunningForTests(w, c) ==
    /\ At(w, c, "running")
    /\ IF Install(c) THEN UNCHANGED status ELSE Update(c, "RUNNING")
    /\ Goto(w, IF Install(c) THEN "uninstall" ELSE "execute")
    /\ UNCHANGED <<around, installed, output, asking, queue, troubles>>

\* A failed install cleans up after itself.
ExecuteInstallOrCleanUp(w, c) ==
    /\ At(w, c, "execute") /\ Install(c)
    /\ machine = "up"
    /\ LET fits == installed \in {None, apkOf[c]} /\ apk[apkOf[c]] = "READY"
       IN  installed' = (IF fits THEN apkOf[c] ELSE None) /\ Ran(w, fits)
    /\ UNCHANGED <<around, row, asking, queue, troubles>>

\* READY before the output.
RecordAfterwards(w, c) ==
    /\ At(w, c, "record")
    /\ Goto(w, IF success[w] THEN "ready" ELSE "error")
    /\ UNCHANGED <<around, installed, row, asking, queue, troubles>>

\* The exception is logged, and no more.
SetErrorForgotten(w, c) ==
    /\ At(w, c, "error")
    /\ Goto(w, "ack")
    /\ UNCHANGED <<around, installed, row, asking, queue, troubles>>

--------------------------------------------------------------------------------
(* The HTTP handlers.                                                           *)

\* The machine is looked up; for an install the APK too (whatever its status),
\* and the machine must have booted.
AskChecks(c) ==
    /\ Ask(c, "no", "publish")
    /\ machine # "DELETED"
    /\ Install(c) => apk[apkOf[c]] # "DELETED" /\ machine = "up"
    /\ UNCHANGED <<around, installed, row, queue, work, troubles>>

AskPublishes(c) ==
    /\ Ask(c, "publish", "insert")
    /\ queue' = [queue EXCEPT ![c] = @ + 1]
    /\ UNCHANGED <<around, installed, row, work, troubles>>

\* The row comes after the message.
AskInserts(c) ==
    /\ Ask(c, "insert", "done")
    /\ status' = [status EXCEPT ![c] = "QUEUED"]
    /\ UNCHANGED <<around, installed, output, queue, work, troubles>>

\* The client disconnects, or the server stops: the handler ends at its await.
Abort(c) ==
    /\ asking[c] \in {"publish", "insert"}
    /\ asking' = [asking EXCEPT ![c] = "done"]
    /\ Trouble
    /\ UNCHANGED <<around, installed, row, queue, work>>

--------------------------------------------------------------------------------
(* What happens to the machine and to the APKs meanwhile.                       *)

\* avm_delete: player_down, and later DELETED.
MachineGoes ==
    /\ \/ machine = "up" /\ machine' = "down"
       \/ machine = "down" /\ machine' = "DELETED"
    /\ UNCHANGED <<apkOf, apk, installed, row, asking, queue, work, troubles>>

\* apk_delete: rm, and later DELETED.
ApkGoes(x) ==
    /\ x \in Deletable
    /\ \/ apk[x] = "READY" /\ apk' = [apk EXCEPT ![x] = "gone"]
       \/ apk[x] = "gone" /\ apk' = [apk EXCEPT ![x] = "DELETED"]
    /\ UNCHANGED <<apkOf, machine, installed, row, asking, queue, work, troubles>>

--------------------------------------------------------------------------------
(* The dispatcher of a worker (worker/main.py handle_message).                  *)

Take(w, c) ==
    /\ wpc[w] = "idle"
    /\ queue[c] > 0
    /\ queue' = [queue EXCEPT ![c] = @ - 1]
    /\ Hand(w, c, "check")
    /\ UNCHANGED <<around, installed, row, asking, troubles>>

\* is_task_obsolete: the row of the command is left as it is.
Obsolete(c) == machine = "DELETED" \/ (Install(c) /\ apk[apkOf[c]] = "DELETED")

Check(w, c) ==
    /\ At(w, c, "check")
    /\ Goto(w, IF Obsolete(c) THEN "ack" ELSE "get")
    /\ UNCHANGED <<around, installed, row, asking, queue, troubles>>

SetError(w, c) ==
    /\ At(w, c, "error")
    /\ Update(c, "ERROR")
    /\ Goto(w, "ack")
    /\ UNCHANGED <<around, installed, output, asking, queue, troubles>>

Ack(w) ==
    /\ wpc[w] = "ack"
    /\ Hand(w, None, "idle")
    /\ UNCHANGED <<around, installed, row, asking, queue, troubles>>

\* The worker crashes, or the database is away: the message comes back.
Redeliver(w, c) ==
    /\ wcmd[w] = c /\ wpc[w] # "idle"
    /\ Trouble
    /\ queue' = [queue EXCEPT ![c] = @ + 1]
    /\ Hand(w, None, "idle")
    /\ UNCHANGED <<around, installed, row, asking>>

\* A call fails; the APK may have been installed all the same. The failure of an
\* uninstall is ignored.
Fail(w, c) ==
    /\ wcmd[w] = c /\ wpc[w] \in Calls
    /\ Trouble
    /\ \/ UNCHANGED installed
       \/ At(w, c, "execute") /\ Install(c) /\ installed' = apkOf[c]
    /\ Goto(w, IF wpc[w] = "uninstall" THEN "execute" ELSE "error")
    /\ UNCHANGED <<around, row, asking, queue>>

--------------------------------------------------------------------------------
(* The tasks.                                                                   *)

\* AndroidVM.get raises without a machine; without an APK get_package_name does.
Get(w, c) ==
    /\ At(w, c, "get")
    /\ Goto(w, IF Obsolete(c) THEN "error" ELSE "running")
    /\ UNCHANGED <<around, installed, row, asking, queue, troubles>>

SetRunning(w, c) ==
    /\ At(w, c, "running")
    /\ Update(c, "RUNNING")
    /\ Goto(w, IF Install(c) THEN "uninstall" ELSE "execute")
    /\ UNCHANGED <<around, installed, output, asking, queue, troubles>>

\* pm uninstall, which removes nothing from a machine without containers.
Uninstall(w, c) ==
    /\ At(w, c, "uninstall")
    /\ installed' = IF machine = "up" THEN None ELSE installed
    /\ Goto(w, "execute")
    /\ UNCHANGED <<around, row, asking, queue, troubles>>

\* adb install -r: another signature, or no file, and the install fails, with an
\* exit status or in its output only.
Installable(c) == installed \in {None, apkOf[c]} /\ apk[apkOf[c]] = "READY"

ExecuteInstall(w, c) ==
    /\ At(w, c, "execute") /\ Install(c)
    /\ \/ /\ machine = "up" /\ Installable(c)
          /\ installed' = apkOf[c]
          /\ Ran(w, TRUE)
       \/ /\ machine = "up" /\ ~Installable(c)
          /\ Ran(w, FALSE)
          /\ UNCHANGED installed
       \/ /\ machine # "up" \/ ~Installable(c)
          /\ Goto(w, "error")
          /\ UNCHANGED installed
    /\ UNCHANGED <<around, row, asking, queue, troubles>>

\* adb shell monkey, adb shell am instrument: the output is not looked at.
ExecuteTest(w, c) ==
    /\ At(w, c, "execute") /\ ~Install(c)
    /\ \/ machine = "up" /\ Ran(w, TRUE)
       \/ Goto(w, "error")
    /\ UNCHANGED <<around, installed, row, asking, queue, troubles>>

Record(w, c) ==
    /\ At(w, c, "record")
    /\ output' = [output EXCEPT ![c] = @ \/ status[c] # "NONE"]
    /\ Goto(w, IF success[w] THEN "ready" ELSE "error")
    /\ UNCHANGED <<around, installed, status, asking, queue, troubles>>

SetReady(w, c) ==
    /\ At(w, c, "ready")
    /\ Update(c, "READY")
    /\ Goto(w, "ack")
    /\ UNCHANGED <<around, installed, output, asking, queue, troubles>>

--------------------------------------------------------------------------------
Handler(c) == AskPublishes(c) \/ AskInserts(c)

Task(w, c) ==
    \/ Get(w, c) \/ SetRunning(w, c) \/ Uninstall(w, c)
    \/ ExecuteInstall(w, c) \/ ExecuteTest(w, c) \/ Record(w, c) \/ SetReady(w, c)

WorkerStep(w, c) == Check(w, c) \/ Task(w, c) \/ SetError(w, c)

Next ==
    \/ \E c \in Command : AskChecks(c) \/ Handler(c) \/ Abort(c)
    \/ MachineGoes
    \/ \E x \in Apk : ApkGoes(x)
    \/ \E w \in Worker, c \in Command :
          Take(w, c) \/ WorkerStep(w, c) \/ Redeliver(w, c) \/ Fail(w, c)
    \/ \E w \in Worker : Ack(w)

Spec == Init /\ [][Next]_vars

\* Workers and handlers go on, and the broker serves every message.
Fairness ==
    /\ \A c \in Command : WF_vars(Handler(c))
    /\ \A w \in Worker : WF_vars(Ack(w))
    /\ \A w \in Worker, c \in Command : WF_vars(WorkerStep(w, c))
    /\ \A c \in Command : SF_vars(\E w \in Worker : Take(w, c))

FairSpec == Spec /\ Fairness

--------------------------------------------------------------------------------
(* Properties.                                                                  *)

\* Every variable stays within its type: no status, pc or message is unforeseen.
TypeOK ==
    /\ apkOf \in [Command -> Apk \cup {None}]
    /\ machine \in {"up", "down", "DELETED"}
    /\ apk \in [Apk -> {"READY", "gone", "DELETED"}]
    /\ installed \in Apk \cup {None}
    /\ status \in [Command -> Status]
    /\ output \in [Command -> BOOLEAN]
    /\ asking \in [Command -> {"no", "publish", "insert", "done"}]
    /\ queue \in [Command -> Nat]
    /\ wcmd \in [Worker -> Command \cup {None}]
    /\ wpc \in [Worker -> Calls \cup {"idle", "check", "error", "ack"}]
    /\ success \in [Worker -> BOOLEAN]
    /\ troubles \in 0..MaxTroubles

\* A client that polls a RUNNING command until it is READY gets the output in the
\* same answer, whatever was delivered twice before.
OutputWithReady ==
    [][\A c \in Command :
          status[c] = "RUNNING" /\ status'[c] = "READY" => output'[c]]_vars

\* What a READY install put on the machine is there, unless another install was
\* asked for: a command that runs again shows RUNNING before it takes anything away.
ReadyIsInstalled ==
    \A c \in Command : Install(c) /\ status[c] = "READY" =>
        \/ installed = apkOf[c]
        \/ \E d \in Command \ {c} : Install(d) /\ asking[d] # "no"

\* Each install uninstalls first, and may then find the APK of another: still,
\* where every APK is there and nothing failed, installs that are over leave one
\* of their APKs on the machine.
InstallsLeaveOne ==
    /\ machine = "up" /\ troubles = 0
    /\ \A x \in Apk : apk[x] = "READY"
    /\ \E c \in Command : Install(c) /\ status[c] \in {"READY", "ERROR"}
    /\ \A c \in Command : Install(c) => queue[c] = 0 /\ \A w \in Worker : wcmd[w] # c
    => installed # None

\* A command whose row is there when a worker takes it ends, READY or ERROR,
\* unless its machine or its APK was deleted: then the row stays as it is.
CommandEnds ==
    \A c \in Command :
        status[c] = "RUNNING" \/ (status[c] = "QUEUED" /\ queue[c] > 0) ~>
            status[c] \in {"READY", "ERROR"} \/ Obsolete(c)
================================================================================
