------------------------------ MODULE TestSource -------------------------------
(* A test source and the APK that is compiled from it: the HTTP handlers that   *)
(* upload, change, compile and delete it (server/handlers/testsource.py), the   *)
(* DELETE of its APK (server/handlers/apk.py), and the tasks testsource_compile *)
(* and apk_delete (worker/tasks.py) with the containers they leave behind.      *)
(*                                                                              *)
(* One action is one awaited call; look-ups that follow each other and change   *)
(* nothing are one. There is one source: sources share nothing but the project. *)
(* Contents are numbered in the order they are uploaded.                        *)
EXTENDS Naturals, FiniteSets

CONSTANTS
    Worker,       \* worker processes
    MaxUploads,   \* bound: uploads of the source
    MaxRequests,  \* bound: requests that compile or delete
    MaxCampaigns, \* bound: APKs that campaigns are made with
    MaxTroubles   \* bound: crashes, outages, failing services, aborted requests

ASSUME SourceAssumption ==
    MaxUploads \in Nat /\ MaxRequests \in Nat /\ MaxCampaigns \in Nat /\ MaxTroubles \in Nat

\* Requests are numbered in the order they arrive, APKs in the order they get an
\* identifier: one request needs at most one.
Request == 1..MaxRequests
Apk == 1..MaxRequests
None == 0

VARIABLES
    source,       \* the row in testsources: "NONE" yet, "THERE", or "GONE"
    content,      \* testsources.content: number of the latest upload
    linked,       \* testsources.apk_id
    apk,          \* apk[a]: project_apks.status, "NONE" without a row
    used,         \* APKs that a campaign refers to (testrun_apks)
    stored,       \* stored[a]: content from which the file in the volume was made; 0 is no file
    project,      \* projects.status
    issued,       \* number of identifiers that were given out
    asked,        \* the content when the last compilation was queued
    compiles,     \* testsource_compile messages in the broker
    removals,     \* removals[a]: apk_delete messages about a in the broker
    hpc, hapk,    \* hpc[r]: the next call of request r; hapk[r]: its apk_id
    wmsg, wapk,   \* wmsg[w]: the task worker w has in hand; wapk[w]: its apk_id
    wpc,          \* wpc[w]: the call worker w awaits next
    wcontent,     \* wcontent[w]: the content it read
    boxes,        \* boxes[w]: the compiler containers it has started and not removed
    left,         \* containers that nobody will remove
    unrecorded,   \* APKs whose ERROR was written nowhere
    troubles

rows == <<source, content, linked, apk, used>>
http == <<hpc, hapk>>
work == <<wmsg, wapk, wpc, wcontent, boxes>>
queue == <<compiles, removals>>
history == <<issued, asked, unrecorded>>
vars == <<rows, stored, project, history, queue, http, work, left, troubles>>

Status == {"NONE", "QUEUED", "COMPILING DSL", "COMPILING JAVA", "READY", "DELETING",
           "DELETED", "ERROR"}
Unfinished == {"QUEUED", "COMPILING DSL", "COMPILING JAVA"}

HandlerPc == {"idle", "unlink", "delete_row", "insert_row", "link", "get", "queued",
              "relink", "publish", "deleting", "publish_delete", "drop", "publish_remove",
              "late", "done", "aborted"}

CompileCalls == {"apk_id", "content", "get", "dsl", "dslcc", "refuse_dsl", "copy", "java",
                 "testcc", "refuse_java", "rm_failed", "rm_last", "rm_dslcc", "store", "rm_testcc",
                 "ready"}
DeleteCalls == {"d_get", "d_rm", "d_unlink", "d_deleted", "m_rm", "m_unlink"}
Calls == CompileCalls \cup DeleteCalls
WorkerPc == Calls \cup {"idle", "check", "error", "ack"}

SourceThere == source = "THERE"

\* What APK.get finds.
Visible(a) == a # None /\ apk[a] \notin {"NONE", "DELETED"}

\* UPDATE project_apks ... WHERE apk_id = a, which may match no row.
SetApk(a, status) == apk' = [apk EXCEPT ![a] = IF @ = "NONE" THEN @ ELSE status]

Init == /\ source = "NONE" /\ content = 0 /\ linked = None
        /\ apk = [a \in Apk |-> "NONE"] /\ used = {}
        /\ stored = [a \in Apk |-> 0]
        /\ project = "READY"
        /\ issued = 0 /\ asked = 0 /\ unrecorded = {}
        /\ compiles = 0 /\ removals = [a \in Apk |-> 0]
        /\ hpc = [r \in Request |-> "idle"] /\ hapk = [r \in Request |-> None]
        /\ wmsg = [w \in Worker |-> "none"] /\ wapk = [w \in Worker |-> None]
        /\ wpc = [w \in Worker |-> "idle"]
        /\ wcontent = [w \in Worker |-> 0]
        /\ boxes = [w \in Worker |-> {}]
        /\ left = 0 /\ troubles = 0

Proceed(r, pc) == hpc' = [hpc EXCEPT ![r] = pc] /\ UNCHANGED hapk
Finish(r) == hpc' = [hpc EXCEPT ![r] = "done"] /\ hapk' = [hapk EXCEPT ![r] = None]
Begin(r, pc, a) == /\ hpc[r] = "idle" /\ \A q \in Request : q < r => hpc[q] # "idle"
                   /\ hpc' = [hpc EXCEPT ![r] = pc]
                   /\ hapk' = [hapk EXCEPT ![r] = a]

Goto(w, pc) == wpc' = [wpc EXCEPT ![w] = pc] /\ UNCHANGED <<wmsg, wapk, wcontent, boxes>>
\* What the task has started and not removed stays.
Abandon(w) == /\ left' = left + Cardinality(boxes[w])
              /\ boxes' = [boxes EXCEPT ![w] = {}]
Rest(w) == /\ wmsg' = [wmsg EXCEPT ![w] = "none"]
           /\ wapk' = [wapk EXCEPT ![w] = None]
           /\ wpc' = [wpc EXCEPT ![w] = "idle"]
           /\ wcontent' = [wcontent EXCEPT ![w] = 0]
           /\ Abandon(w)

Trouble == troubles < MaxTroubles /\ troubles' = troubles + 1

--------------------------------------------------------------------------------
(* Mutants: operations with a plausible bug, for seeing each property fail.     *)

At(w, task, pc) == wmsg[w] = task /\ wpc[w] = pc

\* An APK that is in the volume is left as it is.
StoresOnce(w) ==
    /\ At(w, "compile", "store")
    /\ stored' = [stored EXCEPT ![wapk[w]] = IF @ = 0 THEN wcontent[w] ELSE @]
    /\ Goto(w, "rm_testcc")
    /\ UNCHANGED <<rows, project, history, queue, http, left, troubles>>

\* The exception is logged, and no more.
SetErrorForgotten(w) ==
    /\ wpc[w] = "error"
    /\ Goto(w, "ack")
    /\ UNCHANGED <<rows, stored, project, history, queue, http, left, troubles>>

\* The containers of a source that is refused are not removed.
RemovesNothing(w, here, gone, next) ==
    /\ At(w, "compile", here)
    /\ boxes' = [boxes EXCEPT ![w] = IF here \in {"rm_failed", "rm_last"} THEN @ ELSE @ \ gone]
    /\ wpc' = [wpc EXCEPT ![w] = next]
    /\ UNCHANGED <<rows, stored, project, history, queue, http, wmsg, wapk, wcontent, left, troubles>>

--------------------------------------------------------------------------------
(* The HTTP server. A request that fails or is refused is done without a trace. *)

\* upload and update. The status that both set in the end is asked by nobody, and an
\* update does not look at what Testsource.get returned.
Uploads ==
    /\ source # "GONE" /\ content < MaxUploads
    /\ source' = "THERE"
    /\ content' = content + 1
    /\ UNCHANGED <<linked, apk, used, stored, project, history, queue, http, work, left, troubles>>

\* compile: the source, its apk_id and its name are read; a source that was never
\* compiled gets a new identifier.
CompileReads(r) ==
    /\ SourceThere
    /\ Begin(r, "unlink", IF linked # None THEN linked ELSE issued + 1)
    /\ issued' = IF linked # None THEN issued ELSE issued + 1
    /\ UNCHANGED <<rows, stored, project, asked, unrecorded, queue, work, left, troubles>>

\* UPDATE testsources SET apk_id = NULL, so that the row of the APK may go.
CompileUnlinks(r) ==
    /\ hpc[r] = "unlink"
    /\ linked' = None
    /\ Proceed(r, "delete_row")
    /\ UNCHANGED <<source, content, apk, used, stored, project, history, queue, work, left, troubles>>

\* The DELETE of APK.insert, refused by the foreign keys of testsources and testrun_apks.
CompileDeletesRow(r) ==
    LET a == hapk[r] IN
    /\ hpc[r] = "delete_row"
    /\ \/ /\ linked # a /\ a \notin used
          /\ apk' = [apk EXCEPT ![a] = "NONE"]
          /\ Proceed(r, "insert_row")
       \/ (linked = a \/ a \in used) /\ Finish(r) /\ UNCHANGED apk
    /\ UNCHANGED <<source, content, linked, used, stored, project, history, queue, work, left, troubles>>

\* Its INSERT, refused if another request was faster.
CompileInsertsRow(r) ==
    LET a == hapk[r] IN
    /\ hpc[r] = "insert_row"
    /\ \/ apk[a] = "NONE" /\ apk' = [apk EXCEPT ![a] = "QUEUED"] /\ Proceed(r, "link")
       \/ apk[a] # "NONE" /\ Finish(r) /\ UNCHANGED apk
    /\ UNCHANGED <<source, content, linked, used, stored, project, history, queue, work, left, troubles>>

\* update_apk, twice; refused if the row of the APK was deleted by another request,
\* and without effect if the source was.
CompileLinks(r, here, next) ==
    LET a == hapk[r] IN
    /\ hpc[r] = here
    /\ \/ ~SourceThere /\ Proceed(r, next) /\ UNCHANGED linked
       \/ SourceThere /\ apk[a] # "NONE" /\ linked' = a /\ Proceed(r, next)
       \/ SourceThere /\ apk[a] = "NONE" /\ Finish(r) /\ UNCHANGED linked
    /\ UNCHANGED <<source, content, apk, used, stored, project, history, queue, work, left, troubles>>

\* APK.get, which may find nothing.
CompileGets(r) ==
    /\ hpc[r] = "get"
    /\ IF Visible(hapk[r]) THEN Proceed(r, "queued") ELSE Finish(r)
    /\ UNCHANGED <<rows, stored, project, history, queue, work, left, troubles>>

CompileSetsQueued(r) ==
    /\ hpc[r] = "queued"
    /\ SetApk(hapk[r], "QUEUED")
    /\ Proceed(r, "relink")
    /\ UNCHANGED <<source, content, linked, used, stored, project, history, queue, work, left, troubles>>

CompilePublishes(r) ==
    /\ hpc[r] = "publish"
    /\ compiles' = compiles + 1
    /\ asked' = content
    /\ Finish(r)
    /\ UNCHANGED <<rows, stored, project, issued, unrecorded, removals, work, left, troubles>>

\* delete: the source, its apk_id and APK.get.
DeleteReads(r) ==
    /\ SourceThere
    /\ Begin(r, IF Visible(linked) THEN "deleting" ELSE "drop", linked)
    /\ UNCHANGED <<rows, stored, project, history, queue, work, left, troubles>>

DeleteSetsDeleting(r) ==
    /\ hpc[r] = "deleting"
    /\ SetApk(hapk[r], "DELETING")
    /\ Proceed(r, "publish_delete")
    /\ UNCHANGED <<source, content, linked, used, stored, project, history, queue, work, left, troubles>>

\* The handlers of the source and of the APK publish apk_delete.
RemovalPublishes(r, here, next) ==
    /\ hpc[r] = here
    /\ removals' = [removals EXCEPT ![hapk[r]] = @ + 1]
    /\ Proceed(r, next)
    /\ UNCHANGED <<rows, stored, project, history, compiles, work, left, troubles>>

DeleteDrops(r) ==
    /\ hpc[r] = "drop"
    /\ source' = "GONE" /\ linked' = None
    /\ Finish(r)
    /\ UNCHANGED <<content, apk, used, stored, project, history, queue, work, left, troubles>>

\* DELETE of the APK itself: published first, DELETING afterwards.
RemoveLooksUp(r, a) ==
    /\ Visible(a)
    /\ Begin(r, "publish_remove", a)
    /\ UNCHANGED <<rows, stored, project, history, queue, work, left, troubles>>

RemoveSetsDeleting(r) ==
    /\ hpc[r] = "late"
    /\ SetApk(hapk[r], "DELETING")
    /\ Finish(r)
    /\ UNCHANGED <<source, content, linked, used, stored, project, history, queue, work, left, troubles>>

\* POST of a campaign with the APK (Campaign.insert).
CampaignUses(a) ==
    /\ Visible(a) /\ Cardinality(used) < MaxCampaigns
    /\ used' = used \cup {a}
    /\ UNCHANGED <<source, content, linked, apk, stored, project, history, queue, http, work, left, troubles>>

\* The client is gone and the handler is cancelled, or a query fails.
Abort(r) ==
    /\ hpc[r] \notin {"idle", "done", "aborted"}
    /\ Trouble
    /\ Proceed(r, "aborted")
    /\ UNCHANGED <<rows, stored, project, history, queue, work, left>>

--------------------------------------------------------------------------------
(* The dispatcher (worker/main.py, worker/task_errors.py).                      *)

TakeCompile(w) ==
    /\ wpc[w] = "idle" /\ compiles > 0
    /\ compiles' = compiles - 1
    /\ wmsg' = [wmsg EXCEPT ![w] = "compile"]
    /\ wpc' = [wpc EXCEPT ![w] = "check"]
    /\ UNCHANGED <<rows, stored, project, history, removals, http, wapk, wcontent, boxes, left, troubles>>

TakeRemoval(w, a) ==
    /\ wpc[w] = "idle" /\ removals[a] > 0
    /\ removals' = [removals EXCEPT ![a] = @ - 1]
    /\ wmsg' = [wmsg EXCEPT ![w] = "delete"]
    /\ wapk' = [wapk EXCEPT ![w] = a]
    /\ wpc' = [wpc EXCEPT ![w] = "check"]
    /\ UNCHANGED <<rows, stored, project, history, compiles, http, wcontent, boxes, left, troubles>>

\* is_task_obsolete: a compilation names no object of its own, a deletion its APK.
Check(w) ==
    /\ wpc[w] = "check"
    /\ Goto(w, IF wmsg[w] = "compile" THEN "apk_id"
               ELSE IF apk[wapk[w]] = "DELETED" THEN "ack" ELSE "d_get")
    /\ UNCHANGED <<rows, stored, project, history, queue, http, left, troubles>>

\* set_status_error: the message of a compilation names the project only; that of a
\* deletion names an APK, and the UPDATE looks for another identifier.
SetError(w) ==
    /\ wpc[w] = "error"
    /\ \/ wmsg[w] = "compile" /\ project' = "ERROR" /\ UNCHANGED unrecorded
       \/ wmsg[w] = "delete" /\ unrecorded' = unrecorded \cup {wapk[w]} /\ UNCHANGED project
    /\ Goto(w, "ack")
    /\ UNCHANGED <<rows, stored, issued, asked, queue, http, left, troubles>>

Ack(w) ==
    /\ wpc[w] = "ack"
    /\ Rest(w)
    /\ UNCHANGED <<rows, stored, project, history, queue, http, troubles>>

\* A crash or an outage of the database: the message comes back.
Redeliver(w) ==
    /\ wpc[w] # "idle"
    /\ Trouble
    /\ IF wmsg[w] = "compile"
       THEN compiles' = compiles + 1 /\ UNCHANGED removals
       ELSE removals' = [removals EXCEPT ![wapk[w]] = @ + 1] /\ UNCHANGED compiles
    /\ Rest(w)
    /\ UNCHANGED <<rows, stored, project, history, http>>

\* A call raises: anything but the ProcessError of a compiler.
Fail(w) ==
    /\ wpc[w] \in Calls
    /\ Trouble
    /\ Abandon(w)
    /\ wpc' = [wpc EXCEPT ![w] = "error"]
    /\ UNCHANGED <<rows, stored, project, history, queue, http, wmsg, wapk, wcontent>>

--------------------------------------------------------------------------------
(* testsource_compile. The apk_id it reads may be None, or change afterwards.   *)

\* Testsource.get and the reads of its row fail on a source that is gone.
ReadsApkId(w) ==
    /\ At(w, "compile", "apk_id")
    /\ wapk' = [wapk EXCEPT ![w] = linked]
    /\ wpc' = [wpc EXCEPT ![w] = IF SourceThere THEN "content" ELSE "error"]
    /\ UNCHANGED <<rows, stored, project, history, queue, http, wmsg, wcontent, boxes, left, troubles>>

ReadsContent(w) ==
    /\ At(w, "compile", "content")
    /\ wcontent' = [wcontent EXCEPT ![w] = content]
    /\ wpc' = [wpc EXCEPT ![w] = IF SourceThere THEN "get" ELSE "error"]
    /\ UNCHANGED <<rows, stored, project, history, queue, http, wmsg, wapk, boxes, left, troubles>>

GetsApk(w) ==
    /\ At(w, "compile", "get")
    /\ Goto(w, IF Visible(wapk[w]) THEN "dsl" ELSE "error")
    /\ UNCHANGED <<rows, stored, project, history, queue, http, left, troubles>>

\* A status of the APK is set.
Sets(w, task, here, status, next) ==
    /\ At(w, task, here)
    /\ SetApk(wapk[w], status)
    /\ Goto(w, next)
    /\ UNCHANGED <<source, content, linked, used, stored, project, history, queue, http, left, troubles>>

\* docker run of a compiler: it accepts its input, or a ProcessError is caught. The
\* container is there in either case.
Runs(w, here, next, refuse) ==
    /\ At(w, "compile", here)
    /\ boxes' = [boxes EXCEPT ![w] = @ \cup {here}]
    /\ \E pc \in {next, refuse} : wpc' = [wpc EXCEPT ![w] = pc]
    /\ UNCHANGED <<rows, stored, project, history, queue, http, wmsg, wapk, wcontent, left, troubles>>

\* docker cp of the generated source, which is then read.
Copies(w) ==
    /\ At(w, "compile", "copy")
    /\ Goto(w, "java")
    /\ UNCHANGED <<rows, stored, project, history, queue, http, left, troubles>>

\* docker rm -f, of one container; "rm_last" is that of the only one or of the second one
\* of a source that is refused. Before "rm_testcc" comes set_package_name.
Removes(w, here, gone, next) ==
    /\ At(w, "compile", here)
    /\ boxes' = [boxes EXCEPT ![w] = @ \ gone]
    /\ wpc' = [wpc EXCEPT ![w] = next]
    /\ UNCHANGED <<rows, stored, project, history, queue, http, wmsg, wapk, wcontent, left, troubles>>

\* cmd_docker_cp, from the container of the compiler to the volume of the project.
Stores(w) ==
    /\ At(w, "compile", "store")
    /\ stored' = [stored EXCEPT ![wapk[w]] = wcontent[w]]
    /\ Goto(w, "rm_testcc")
    /\ UNCHANGED <<rows, project, history, queue, http, left, troubles>>

Compile(w) ==
    \/ ReadsApkId(w) \/ ReadsContent(w) \/ GetsApk(w)
    \/ Sets(w, "compile", "dsl", "COMPILING DSL", "dslcc")
    \/ Runs(w, "dslcc", "copy", "refuse_dsl")
    \/ Copies(w)
    \/ Sets(w, "compile", "java", "COMPILING JAVA", "testcc")
    \/ Runs(w, "testcc", "rm_dslcc", "refuse_java")
    \/ Sets(w, "compile", "refuse_dsl", "ERROR", "rm_last")
    \/ Sets(w, "compile", "refuse_java", "ERROR", "rm_failed")
    \/ Removes(w, "rm_failed", {"dslcc"}, "rm_last")
    \/ Removes(w, "rm_last", {"dslcc", "testcc"}, "ack")
    \/ Removes(w, "rm_dslcc", {"dslcc"}, "store")
    \/ Stores(w)
    \/ Removes(w, "rm_testcc", {"testcc"}, "ready")
    \/ Sets(w, "compile", "ready", "READY", "ack")

--------------------------------------------------------------------------------
(* apk_delete, which goes on though APK.get returned None.                      *)

DeleteGets(w) ==
    /\ At(w, "delete", "d_get")
    /\ Goto(w, IF Visible(wapk[w]) THEN "d_rm" ELSE "m_rm")
    /\ UNCHANGED <<rows, stored, project, history, queue, http, left, troubles>>

DeleteRemoves(w, here, next) ==
    /\ At(w, "delete", here)
    /\ stored' = [stored EXCEPT ![wapk[w]] = 0]
    /\ Goto(w, next)
    /\ UNCHANGED <<rows, project, history, queue, http, left, troubles>>

\* UPDATE testsources SET apk_id = NULL WHERE apk_id = ...
DeleteUnlinks(w, here, next) ==
    /\ At(w, "delete", here)
    /\ linked' = IF linked = wapk[w] THEN None ELSE linked
    /\ Goto(w, next)
    /\ UNCHANGED <<source, content, apk, used, stored, project, history, queue, http, left, troubles>>

\* None has no set_status: the calls m_* end in an error.
Delete(w) ==
    \/ DeleteGets(w)
    \/ DeleteRemoves(w, "d_rm", "d_unlink") \/ DeleteRemoves(w, "m_rm", "m_unlink")
    \/ DeleteUnlinks(w, "d_unlink", "d_deleted") \/ DeleteUnlinks(w, "m_unlink", "error")
    \/ Sets(w, "delete", "d_deleted", "DELETED", "ack")

--------------------------------------------------------------------------------
Handler(r) ==
    \/ CompileUnlinks(r) \/ CompileDeletesRow(r) \/ CompileInsertsRow(r)
    \/ CompileLinks(r, "link", "get") \/ CompileGets(r) \/ CompileSetsQueued(r)
    \/ CompileLinks(r, "relink", "publish") \/ CompilePublishes(r)
    \/ DeleteSetsDeleting(r) \/ RemovalPublishes(r, "publish_delete", "drop") \/ DeleteDrops(r)
    \/ RemovalPublishes(r, "publish_remove", "late") \/ RemoveSetsDeleting(r)

Ask(r) == \/ CompileReads(r) \/ DeleteReads(r)
          \/ \E a \in Apk : RemoveLooksUp(r, a)

WorkerStep(w) == Check(w) \/ Compile(w) \/ Delete(w) \/ SetError(w) \/ Ack(w)

Take(w) == TakeCompile(w) \/ \E a \in Apk : TakeRemoval(w, a)

Next ==
    \/ \E r \in Request : Ask(r) \/ Handler(r) \/ Abort(r)
    \/ Uploads \/ \E a \in Apk : CampaignUses(a)
    \/ \E w \in Worker : Take(w) \/ WorkerStep(w) \/ Redeliver(w) \/ Fail(w)

Spec == Init /\ [][Next]_vars

\* Handlers and workers go on, and the broker serves every message.
Fairness ==
    /\ \A r \in Request : WF_vars(Handler(r))
    /\ \A w \in Worker : WF_vars(WorkerStep(w))
    /\ SF_vars(\E w \in Worker : TakeCompile(w))
    /\ \A a \in Apk : SF_vars(\E w \in Worker : TakeRemoval(w, a))

FairSpec == Spec /\ Fairness

--------------------------------------------------------------------------------
(* Properties.                                                                  *)

\* Every variable stays within its type.
TypeOK ==
    /\ source \in {"NONE", "THERE", "GONE"}
    /\ content \in Nat /\ asked \in Nat
    /\ linked \in Apk \cup {None}
    /\ apk \in [Apk -> Status] /\ used \subseteq Apk
    /\ stored \in [Apk -> Nat]
    /\ project \in {"READY", "ERROR"}
    /\ issued \in 0..MaxRequests /\ unrecorded \subseteq Apk
    /\ compiles \in Nat /\ removals \in [Apk -> Nat]
    /\ hpc \in [Request -> HandlerPc] /\ hapk \in [Request -> Apk \cup {None}]
    /\ wmsg \in [Worker -> {"none", "compile", "delete"}]
    /\ wapk \in [Worker -> Apk \cup {None}]
    /\ wpc \in [Worker -> WorkerPc]
    /\ wcontent \in [Worker -> Nat]
    /\ boxes \in [Worker -> SUBSET {"dslcc", "testcc"}]
    /\ left \in Nat /\ troubles \in 0..MaxTroubles

\* A request that is about to compile or delete APK a, or was cut off before it did.
HandlerHas(a) == \E r \in Request : hapk[r] = a /\ hpc[r] \notin {"idle", "done"}
CompilePending == compiles > 0 \/ \E w \in Worker : wmsg[w] = "compile"
RemovalPending(a) == removals[a] > 0 \/ \E w \in Worker : wmsg[w] = "delete" /\ wapk[w] = a

\* A READY APK was made from the source as it was when its compilation was last
\* asked for, or later: a compilation reads the source when it runs, after the
\* request, whatever was uploaded, compiled or deleted in between. When it fails
\* without a word in the APK, the project says ERROR.
ReadyIsCurrent ==
    linked # None /\ apk[linked] = "READY" =>
        \/ stored[linked] >= asked
        \/ CompilePending \/ RemovalPending(linked) \/ HandlerHas(linked)
        \/ project = "ERROR" \/ linked \in unrecorded

\* The APK of a source is not shown as queued or compiling when nothing goes on: its
\* compilation is on the way, the handler is still to publish it or was cut off, or
\* the failure is on record in the project.
UnfinishedIsPending ==
    linked # None /\ apk[linked] \in Unfinished =>
        \/ CompilePending
        \/ HandlerHas(linked)
        \/ project = "ERROR"

\* Only a failure or a crash leaves containers behind, and each at most the two of
\* its compilation: a source the compilers refuse leaves none.
NoContainersLeft == left <= 2 * troubles

\* A compilation that was queued ends, in the APK or as ERROR of the project, unless
\* the source lets go of the APK, or took it from a request that was cut off.
CompileEnds ==
    \A a \in Apk :
        (linked = a /\ apk[a] \in Unfinished /\ CompilePending)
            ~> \/ linked # a \/ apk[a] \notin Unfinished \/ project = "ERROR"
               \/ \E r \in Request : hapk[r] = a /\ hpc[r] = "aborted"
================================================================================
