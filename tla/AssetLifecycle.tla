---------------------------- MODULE AssetLifecycle -----------------------------
(* The files of a project, APKs and camera files: the HTTP handlers that upload *)
(* and delete them (server/handlers/apk.py, server/handlers/camera.py), the     *)
(* tasks of the workers that move them (worker/tasks.py), and the three places  *)
(* a file leaves a trace in: the database, the temporary directory that server  *)
(* and workers share, and the volume of the project.                            *)
(*                                                                              *)
(* One action is one awaited call, as in AvmLifecycle, and messages are taken   *)
(* at least once, in any order. The project itself is there throughout.         *)
EXTENDS Naturals

CONSTANTS
    Apk, Camera,  \* identifiers of the files
    None,         \* no file
    Worker,       \* worker processes
    Request,      \* HTTP requests the server handles at the same time
    MaxDeletes,   \* bound: DELETE requests
    MaxTroubles   \* bound: crashes, outages, failing services, aborted requests

File == Apk \cup Camera

ASSUME AssetAssumption ==
    /\ Apk \cap Camera = {}
    /\ None \notin File
    /\ MaxDeletes \in Nat /\ MaxTroubles \in Nat

VARIABLES
    status,            \* project_apks.status, project_camera.status; "NONE" without a row
    temp,              \* the file is in the temporary directory
    stored,            \* the file is in the volume of the project
    queue,             \* queue[f][k]: messages of kind k about f in the broker
    wtask, wfile,      \* wtask[w], wfile[w]: the message worker w has in hand
    wpc,               \* wpc[w]: the call worker w awaits next
    found,             \* found[w]: its look-up of the file returned a row
    hfile, hpc,        \* hfile[r], hpc[r]: the file and the next call of a request
    deletes, troubles

places == <<status, temp, stored>>
work == <<wtask, wfile, wpc, found>>
http == <<hfile, hpc, deletes>>
vars == <<places, queue, work, http, troubles>>

Kind == {"upload", "delete"}
Status == {"NONE", "QUEUED", "UPLOADING", "READY", "DELETING", "DELETED", "ERROR"}

\* The calls a task makes, and those of them that may fail.
Calls == {"u_get", "u_copy", "u_ready", "d_get", "d_rm", "d_deleted"}
WorkerPc == Calls \cup {"u_unlink", "idle", "check", "error", "ack"}
HandlerPc == {"idle", "insert", "publish_upload", "publish_delete", "set_deleting"}

First == [k \in Kind |-> IF k = "upload" THEN "u_get" ELSE "d_get"]

\* What APK.get and Camera.get find.
Visible(f) == status[f] \notin {"NONE", "DELETED"}

\* A row begins in the default of its table.
Inserted(f) == IF f \in Apk THEN "QUEUED" ELSE "UPLOADING"

Init == /\ status = [f \in File |-> "NONE"]
        /\ temp = [f \in File |-> FALSE]
        /\ stored = [f \in File |-> FALSE]
        /\ queue = [f \in File |-> [k \in Kind |-> 0]]
        /\ wtask = [w \in Worker |-> "none"]
        /\ wfile = [w \in Worker |-> None]
        /\ wpc = [w \in Worker |-> "idle"]
        /\ found = [w \in Worker |-> FALSE]
        /\ hfile = [r \in Request |-> None]
        /\ hpc = [r \in Request |-> "idle"]
        /\ deletes = 0
        /\ troubles = 0

Put(f, k) == queue' = [queue EXCEPT ![f][k] = @ + 1]

HandlerAt(r, f, pc) == hfile[r] = f /\ hpc[r] = pc
HandlerGoto(r, f, pc) == hpc' = [hpc EXCEPT ![r] = pc] /\ hfile' = [hfile EXCEPT ![r] = f]
HandlerEnds(r) == HandlerGoto(r, None, "idle")

At(w, f, pc) == wfile[w] = f /\ wpc[w] = pc
Goto(w, pc) == wpc' = [wpc EXCEPT ![w] = pc] /\ UNCHANGED <<wtask, wfile, found>>
Hand(w, k, f, pc) == /\ wtask' = [wtask EXCEPT ![w] = k]
                     /\ wfile' = [wfile EXCEPT ![w] = f]
                     /\ wpc' = [wpc EXCEPT ![w] = pc]
                     /\ found' = [found EXCEPT ![w] = FALSE]

Trouble == troubles < MaxTroubles /\ troubles' = troubles + 1

--------------------------------------------------------------------------------
(* Mutants: operations with a plausible bug, for seeing each property fail.     *)

\* The project is not asked: a file is ready when the container is told of it.
CopyMissing(w, f) ==
    /\ At(w, f, "u_copy")
    /\ stored' = [stored EXCEPT ![f] = temp[f]]
    /\ Goto(w, "u_ready")
    /\ UNCHANGED <<status, temp, queue, http, troubles>>

\* The temporary file is left to the system.
UnlinkForgotten(w, f) ==
    /\ At(w, f, "u_unlink")
    /\ Goto(w, "ack")
    /\ UNCHANGED <<places, queue, http, troubles>>

\* rm in the background.
RemoveUnawaited(w, f) ==
    /\ At(w, f, "d_rm")
    /\ stored' \in {stored, [stored EXCEPT ![f] = FALSE]}
    /\ Goto(w, "d_deleted")
    /\ UNCHANGED <<status, temp, queue, http, troubles>>

\* A file that is being deleted is taken for deleted.
CheckTooEager(w, f) ==
    /\ At(w, f, "check")
    /\ Goto(w, IF status[f] \in {"DELETING", "DELETED"} THEN "ack" ELSE First[wtask[w]])
    /\ UNCHANGED <<places, queue, http, troubles>>

\* The exception is logged, and no more.
SetErrorForgotten(w, f) ==
    /\ At(w, f, "error")
    /\ Goto(w, "ack")
    /\ UNCHANGED <<places, queue, http, troubles>>

--------------------------------------------------------------------------------
(* The HTTP handlers.                                                           *)

\* POST: the body goes to a temporary file, under a new identifier.
UploadDumps(r, f) ==
    /\ hpc[r] = "idle"
    /\ status[f] = "NONE" /\ ~temp[f]
    /\ temp' = [temp EXCEPT ![f] = TRUE]
    /\ HandlerGoto(r, f, "insert")
    /\ UNCHANGED <<status, stored, queue, work, deletes, troubles>>

\* aapt does not take the file for an APK: 400, and the temporary file stays.
UploadRefuses(r, f) ==
    /\ HandlerAt(r, f, "insert")
    /\ f \in Apk
    /\ HandlerEnds(r)
    /\ UNCHANGED <<places, queue, work, deletes, troubles>>

UploadInserts(r, f) ==
    /\ HandlerAt(r, f, "insert")
    /\ status' = [status EXCEPT ![f] = Inserted(f)]
    /\ HandlerGoto(r, f, "publish_upload")
    /\ UNCHANGED <<temp, stored, queue, work, deletes, troubles>>

UploadPublishes(r, f) ==
    /\ HandlerAt(r, f, "publish_upload")
    /\ Put(f, "upload")
    /\ HandlerEnds(r)
    /\ UNCHANGED <<places, work, deletes, troubles>>

\* DELETE; 404 for what is not visible.
DeleteLooksUp(r, f) ==
    /\ hpc[r] = "idle"
    /\ deletes < MaxDeletes
    /\ Visible(f)
    /\ deletes' = deletes + 1
    /\ HandlerGoto(r, f, "publish_delete")
    /\ UNCHANGED <<places, queue, work, troubles>>

DeletePublishes(r, f) ==
    /\ HandlerAt(r, f, "publish_delete")
    /\ Put(f, "delete")
    /\ HandlerGoto(r, f, "set_deleting")
    /\ UNCHANGED <<places, work, deletes, troubles>>

DeleteSetsStatus(r, f) ==
    /\ HandlerAt(r, f, "set_deleting")
    /\ status' = [status EXCEPT ![f] = "DELETING"]
    /\ HandlerEnds(r)
    /\ UNCHANGED <<temp, stored, queue, work, deletes, troubles>>

\* The client disconnects, or the server stops: the handler ends at its await.
Abort(r) ==
    /\ hpc[r] # "idle"
    /\ Trouble
    /\ HandlerEnds(r)
    /\ UNCHANGED <<places, queue, work, deletes>>

--------------------------------------------------------------------------------
(* The dispatcher of a worker (worker/main.py handle_message).                  *)

Take(w, f, k) ==
    /\ wpc[w] = "idle"
    /\ queue[f][k] > 0
    /\ queue' = [queue EXCEPT ![f][k] = @ - 1]
    /\ Hand(w, k, f, "check")
    /\ UNCHANGED <<places, http, troubles>>

\* is_task_obsolete
Check(w, f) ==
    /\ At(w, f, "check")
    /\ Goto(w, IF status[f] = "DELETED" THEN "ack" ELSE First[wtask[w]])
    /\ UNCHANGED <<places, queue, http, troubles>>

\* set_status_error: the UPDATE for an APK names the identifier of a command,
\* and changes nothing.
SetError(w, f) ==
    /\ At(w, f, "error")
    /\ status' = [status EXCEPT ![f] = IF f \in Camera THEN "ERROR" ELSE @]
    /\ Goto(w, "ack")
    /\ UNCHANGED <<temp, stored, queue, http, troubles>>

Ack(w) ==
    /\ wpc[w] = "ack"
    /\ Hand(w, "none", None, "idle")
    /\ UNCHANGED <<places, queue, http, troubles>>

\* The worker crashes, or the database is away: the message comes back.
Redeliver(w, f) ==
    /\ wfile[w] = f /\ wpc[w] # "idle"
    /\ Trouble
    /\ Put(f, wtask[w])
    /\ Hand(w, "none", None, "idle")
    /\ UNCHANGED <<places, http>>

\* A call fails; it may have taken effect in the volume all the same.
Fail(w, f) ==
    /\ wfile[w] = f /\ wpc[w] \in Calls
    /\ Trouble
    /\ \/ UNCHANGED stored
       \/ wpc[w] = "u_copy" /\ temp[f] /\ stored' = [stored EXCEPT ![f] = TRUE]
       \/ wpc[w] = "d_rm" /\ stored' = [stored EXCEPT ![f] = FALSE]
    /\ Goto(w, "error")
    /\ UNCHANGED <<status, temp, queue, http>>

\* APK.get, Camera.get: nobody looks at the result before the status is set.
Get(w, f, here, next) ==
    /\ At(w, f, here)
    /\ found' = [found EXCEPT ![w] = Visible(f)]
    /\ wpc' = [wpc EXCEPT ![w] = next]
    /\ UNCHANGED <<wtask, wfile, places, queue, http, troubles>>

--------------------------------------------------------------------------------
(* The tasks.                                                                   *)

\* docker cp and chmod, or the conversion of a camera file.
Copy(w, f) ==
    /\ At(w, f, "u_copy")
    /\ stored' = [stored EXCEPT ![f] = @ \/ temp[f]]
    /\ Goto(w, IF temp[f] THEN "u_ready" ELSE "error")
    /\ UNCHANGED <<status, temp, queue, http, troubles>>

\* Without a row the look-up returned None, which has no set_status.
SetFinal(w, f, here, final, next) ==
    /\ At(w, f, here)
    /\ status' = [status EXCEPT ![f] = IF found[w] THEN final ELSE @]
    /\ Goto(w, IF found[w] THEN next ELSE "error")
    /\ UNCHANGED <<temp, stored, queue, http, troubles>>

Unlink(w, f) ==
    /\ At(w, f, "u_unlink")
    /\ temp' = [temp EXCEPT ![f] = FALSE]
    /\ Goto(w, IF temp[f] THEN "ack" ELSE "error")
    /\ UNCHANGED <<status, stored, queue, http, troubles>>

\* rm -f; an uploaded APK belongs to no test source, so there is none to update.
Remove(w, f) ==
    /\ At(w, f, "d_rm")
    /\ stored' = [stored EXCEPT ![f] = FALSE]
    /\ Goto(w, "d_deleted")
    /\ UNCHANGED <<status, temp, queue, http, troubles>>

--------------------------------------------------------------------------------
Handler(r, f) ==
    \/ UploadRefuses(r, f) \/ UploadInserts(r, f) \/ UploadPublishes(r, f)
    \/ DeletePublishes(r, f) \/ DeleteSetsStatus(r, f)

Upload(w, f) == \/ Get(w, f, "u_get", "u_copy")
                \/ Copy(w, f)
                \/ SetFinal(w, f, "u_ready", "READY", "u_unlink")
                \/ Unlink(w, f)

Delete(w, f) == \/ Get(w, f, "d_get", "d_rm")
                \/ Remove(w, f)
                \/ SetFinal(w, f, "d_deleted", "DELETED", "ack")

WorkerStep(w, f) == Check(w, f) \/ Upload(w, f) \/ Delete(w, f) \/ SetError(w, f)

Next ==
    \/ \E r \in Request, f \in File :
          UploadDumps(r, f) \/ DeleteLooksUp(r, f) \/ Handler(r, f)
    \/ \E r \in Request : Abort(r)
    \/ \E w \in Worker, f \in File :
          \/ \E k \in Kind : Take(w, f, k)
          \/ WorkerStep(w, f) \/ Redeliver(w, f) \/ Fail(w, f)
    \/ \E w \in Worker : Ack(w)

Spec == Init /\ [][Next]_vars

\* Workers and handlers go on, and the broker serves every message.
Fairness ==
    /\ \A r \in Request, f \in File : WF_vars(Handler(r, f))
    /\ \A w \in Worker : WF_vars(Ack(w))
    /\ \A w \in Worker, f \in File : WF_vars(WorkerStep(w, f))
    /\ \A f \in File, k \in Kind : SF_vars(\E w \in Worker : Take(w, f, k))

FairSpec == Spec /\ Fairness

--------------------------------------------------------------------------------
(* Properties.                                                                  *)

\* Every variable stays within its type: no status, pc or message is unforeseen.
TypeOK ==
    /\ status \in [File -> Status]
    /\ temp \in [File -> BOOLEAN]
    /\ stored \in [File -> BOOLEAN]
    /\ queue \in [File -> [Kind -> Nat]]
    /\ wtask \in [Worker -> Kind \cup {"none"}]
    /\ wfile \in [Worker -> File \cup {None}]
    /\ wpc \in [Worker -> WorkerPc]
    /\ found \in [Worker -> BOOLEAN]
    /\ hfile \in [Request -> File \cup {None}]
    /\ hpc \in [Request -> HandlerPc]
    /\ deletes \in 0..MaxDeletes
    /\ troubles \in 0..MaxTroubles

\* A task of kind k about f is in the broker or in the hands of a worker.
Pending(f, k) == \/ queue[f][k] > 0
                 \/ \E w \in Worker : wfile[w] = f /\ wtask[w] = k

\* The error of a task about an APK may have gone unrecorded (see SetError).
ErrorLost(f) == f \in Apk /\ troubles > 0

\* What the lists of APKs and camera files show as READY is in the volume of the
\* project, where apk_install and the player look for it, unless the task that
\* deletes it is pending. (A deletion that fails after rm leaves an APK READY and
\* gone: its ERROR is not recorded.)
ReadyIsStored ==
    \A f \in File : status[f] = "READY" =>
        \/ stored[f]
        \/ Pending(f, "delete")
        \/ ErrorLost(f)

\* A DELETED file is no longer in the volume, whatever became of its upload.
DeletedIsGone == \A f \in File : status[f] = "DELETED" => ~stored[f]

\* The status of a file says what the volume holds, through uploads and deletions that
\* overlap, fail between docker and the database, and are delivered again.
VolumeMatches == ReadyIsStored /\ DeletedIsGone

\* A READY file has left the temporary directory, or the task that takes it out
\* (after READY, and a crash in between brings it back) is pending.
ReadyIsTidy == \A f \in File : status[f] = "READY" => ~temp[f] \/ Pending(f, "upload") \/ ErrorLost(f)

\* An upload the server has queued ends: READY, or deleted, or ERROR; save for an
\* APK whose task failed, which shows QUEUED for ever.
UploadEnds ==
    \A f \in File : queue[f]["upload"] > 0 ~>
        \/ status[f] \notin {"QUEUED", "UPLOADING"}
        \/ ErrorLost(f)

\* A deletion the server has queued is carried out, or its failure recorded (or
\* lost, for an APK).
DeletionIsCarriedOut ==
    \A f \in File : queue[f]["delete"] > 0 ~>
        \/ status[f] \in {"DELETED", "ERROR"}
        \/ ErrorLost(f)
================================================================================
