------------------------- MODULE AssetLifecycle_proofs -------------------------
(* Theorems about AssetLifecycle, for any number of files, workers, requests    *)
(* and troubles.                                                                *)
(*                                                                              *)
(* The argument for ReadyIsTidy: an upload is in one place (OneUpload), so only *)
(* the worker that has it sets READY; and when that worker lets go of it, the   *)
(* temporary file is gone, or the file is not READY, or an error was lost       *)
(* (Settled).                                                                   *)
(*                                                                              *)
(* VolumeMatches takes one worker: then nothing happens to the volume between a *)
(* call of a task and its next (OwnWork). With two, an upload may copy between  *)
(* the rm and the DELETED of a deletion.                                        *)
EXTENDS AssetLifecycle, FiniteSetTheorems, TLAPS

USE AssetAssumption

--------------------------------------------------------------------------------
(* Types.                                                                       *)

UploadPc == {"u_get", "u_copy", "u_ready", "u_unlink"}
DeletePc == {"d_get", "d_rm", "d_deleted"}

\* A worker makes the calls of the task it has in hand.
InItsTask ==
    \A w \in Worker :
        /\ wpc[w] # "idle" => wtask[w] \in Kind /\ wfile[w] \in File
        /\ wpc[w] = "idle" => wtask[w] = "none"
        /\ wpc[w] \in UploadPc => wtask[w] = "upload"
        /\ wpc[w] \in DeletePc => wtask[w] = "delete"

Typed == TypeOK /\ InItsTask

LEMMA FirstCall == First["upload"] = "u_get" /\ First["delete"] = "d_get"
BY DEF First, Kind

LEMMA TypeInit == Init => Typed
BY DEF Init, Typed, TypeOK, InItsTask, Status, Kind, WorkerPc, HandlerPc, Calls, UploadPc,
       DeletePc

LEMMA TypeStep == Typed /\ [Next]_vars => TypeOK'
<1> SUFFICES ASSUME Typed, [Next]_vars PROVE TypeOK'
  OBVIOUS
<1> USE DEF Typed, TypeOK, Status, Kind, WorkerPc, HandlerPc, Calls, places, work, http, Put
<1>1. ASSUME NEW r \in Request, NEW f \in File,
             UploadDumps(r, f) \/ DeleteLooksUp(r, f) \/ Handler(r, f)
      PROVE  TypeOK'
  <2> USE DEF HandlerGoto, HandlerEnds
  <2>1. CASE UploadDumps(r, f)       BY <2>1 DEF UploadDumps
  <2>2. CASE DeleteLooksUp(r, f)     BY <2>2 DEF DeleteLooksUp
  <2>3. CASE UploadRefuses(r, f)     BY <2>3 DEF UploadRefuses
  <2>4. CASE UploadInserts(r, f)     BY <2>4 DEF UploadInserts, Inserted
  <2>5. CASE UploadPublishes(r, f)   BY <2>5 DEF UploadPublishes
  <2>6. CASE DeletePublishes(r, f)   BY <2>6 DEF DeletePublishes
  <2>7. CASE DeleteSetsStatus(r, f)  BY <2>7 DEF DeleteSetsStatus
  <2> QED  BY <1>1, <2>1, <2>2, <2>3, <2>4, <2>5, <2>6, <2>7 DEF Handler
<1>2. ASSUME NEW r \in Request, Abort(r) PROVE TypeOK'
  BY <1>2 DEF Abort, Trouble, HandlerGoto, HandlerEnds
<1>3. ASSUME NEW w \in Worker, NEW f \in File, NEW k \in Kind, Take(w, f, k) PROVE TypeOK'
  BY <1>3 DEF Take, Hand
<1>4. ASSUME NEW w \in Worker, NEW f \in File, Redeliver(w, f) PROVE TypeOK'
  <2>1. wtask[w] \in Kind
    BY <1>4 DEF Redeliver, InItsTask
  <2> QED  BY <1>4, <2>1 DEF Redeliver, Trouble, Hand
<1>5. ASSUME NEW w \in Worker, NEW f \in File, Fail(w, f) PROVE TypeOK'
  <2>1. stored' \in [File -> BOOLEAN]
    BY <1>5 DEF Fail
  <2> QED  BY <1>5, <2>1 DEF Fail, Trouble, Goto
<1>6. ASSUME NEW w \in Worker, Ack(w) PROVE TypeOK'
  BY <1>6 DEF Ack, Hand
<1>7. ASSUME NEW w \in Worker, NEW f \in File, WorkerStep(w, f) PROVE TypeOK'
  <2> USE DEF At, Goto
  <2>1. CASE Check(w, f)     BY <2>1, FirstCall DEF Check, InItsTask
  <2>2. CASE SetError(w, f)  BY <2>2 DEF SetError
  <2>3. CASE Upload(w, f)
    <3>1. CASE Get(w, f, "u_get", "u_copy")                        BY <3>1 DEF Get, Visible
    <3>2. CASE Copy(w, f)                                          BY <3>2 DEF Copy
    <3>3. CASE SetFinal(w, f, "u_ready", "READY", "u_unlink")      BY <3>3 DEF SetFinal
    <3>4. CASE Unlink(w, f)                                        BY <3>4 DEF Unlink
    <3> QED  BY <2>3, <3>1, <3>2, <3>3, <3>4 DEF Upload
  <2>4. CASE Delete(w, f)
    <3>1. CASE Get(w, f, "d_get", "d_rm")                          BY <3>1 DEF Get, Visible
    <3>2. CASE Remove(w, f)                                        BY <3>2 DEF Remove
    <3>3. CASE SetFinal(w, f, "d_deleted", "DELETED", "ack")       BY <3>3 DEF SetFinal
    <3> QED  BY <2>4, <3>1, <3>2, <3>3 DEF Delete
  <2> QED  BY <1>7, <2>1, <2>2, <2>3, <2>4 DEF WorkerStep
<1>8. CASE UNCHANGED vars
  BY <1>8 DEF vars
<1> QED  BY <1>1, <1>2, <1>3, <1>4, <1>5, <1>6, <1>7, <1>8 DEF Next

\* A step of a task, or its failure: the worker keeps what it has in hand.
LEMMA StepInHand ==
    ASSUME Typed, NEW w \in Worker, NEW f \in File, WorkerStep(w, f) \/ Fail(w, f)
    PROVE  /\ UNCHANGED <<queue, wtask, wfile, http>>
           /\ wfile[w] = f /\ wpc[w] # "idle"
           /\ \E pc : /\ wpc' = [wpc EXCEPT ![w] = pc]
                      /\ \/ pc \in {"error", "ack"}
                         \/ wpc[w] = "check" /\ pc = First[wtask[w]]
                         \/ wpc[w] \in UploadPc /\ pc \in UploadPc
                         \/ wpc[w] \in DeletePc /\ pc \in DeletePc
<1> USE DEF At, Goto, UploadPc, DeletePc
<1>1. CASE Check(w, f) \/ SetError(w, f) \/ Fail(w, f)
  BY <1>1 DEF Check, SetError, Fail, Calls
<1>2. CASE Upload(w, f)
  BY <1>2 DEF Upload, Get, Copy, SetFinal, Unlink
<1>3. CASE Delete(w, f)
  BY <1>3 DEF Delete, Get, Remove, SetFinal
<1> QED  BY <1>1, <1>2, <1>3 DEF WorkerStep

LEMMA TaskStep == Typed /\ [Next]_vars => InItsTask'
<1> SUFFICES ASSUME Typed, [Next]_vars PROVE InItsTask'
  OBVIOUS
<1> USE DEF Typed, TypeOK, InItsTask, UploadPc, DeletePc, Kind
<1>1. CASE UNCHANGED work
  BY <1>1 DEF work
<1>2. ASSUME NEW w \in Worker, NEW f \in File, NEW k \in Kind, Take(w, f, k) PROVE InItsTask'
  BY <1>2 DEF Take, Hand
<1>3. ASSUME NEW w \in Worker, NEW f \in File, WorkerStep(w, f) \/ Fail(w, f) PROVE InItsTask'
  BY <1>3, StepInHand, FirstCall
<1>4. ASSUME NEW w \in Worker, NEW f \in File, Redeliver(w, f) PROVE InItsTask'
  BY <1>4 DEF Redeliver, Hand
<1>5. ASSUME NEW w \in Worker, Ack(w) PROVE InItsTask'
  BY <1>5 DEF Ack, Hand
<1>6. CASE \E r \in Request : \/ Abort(r)
                              \/ \E f \in File : \/ UploadDumps(r, f) \/ DeleteLooksUp(r, f)
                                                 \/ Handler(r, f)
  BY <1>1, <1>6 DEF Abort, UploadDumps, DeleteLooksUp, Handler, UploadRefuses, UploadInserts,
                    UploadPublishes, DeletePublishes, DeleteSetsStatus
<1>7. CASE UNCHANGED vars
  BY <1>1, <1>7 DEF vars
<1> QED  BY <1>2, <1>3, <1>4, <1>5, <1>6, <1>7 DEF Next

LEMMA TypedAlways == Spec => []Typed
<1>1. Typed /\ [Next]_vars => Typed'
  BY TypeStep, TaskStep DEF Typed
<1> QED  BY TypeInit, <1>1, PTL DEF Spec

\* Every variable stays within its type.
THEOREM TypeCorrect == Spec => []TypeOK
<1>1. Typed => TypeOK
  BY DEF Typed
<1> QED  BY TypedAlways, <1>1, PTL

--------------------------------------------------------------------------------
(* An upload is in one place.                                                   *)

Uploads(w, f) == wfile[w] = f /\ wtask[w] = "upload"
NoUpload(f) == queue[f]["upload"] = 0 /\ \A w \in Worker : ~Uploads(w, f)
Uploading(r, f) == hfile[r] = f /\ hpc[r] \in {"insert", "publish_upload"}

OneUploadOf(f) ==
    /\ queue[f]["upload"] <= 1
    /\ \A w \in Worker : Uploads(w, f) => queue[f]["upload"] = 0
    /\ \A v, w \in Worker : Uploads(v, f) /\ Uploads(w, f) => v = w
    /\ ~NoUpload(f) => status[f] # "NONE"
    /\ \A r \in Request : Uploading(r, f) => NoUpload(f)
    /\ \A r \in Request : HandlerAt(r, f, "insert") => temp[f]
    /\ \A r \in Request : HandlerAt(r, f, "publish_upload") => status[f] # "NONE"
    /\ \A r, s \in Request : Uploading(r, f) /\ Uploading(s, f) => r = s

OneUpload == \A f \in File : OneUploadOf(f)

LEMMA UploadInit == Init => OneUpload
BY DEF Init, OneUpload, OneUploadOf, NoUpload, Uploads, Uploading, HandlerAt, Kind

LEMMA UploadStep == Typed /\ OneUpload /\ [Next]_vars => OneUpload'
<1> SUFFICES ASSUME Typed, OneUpload, [Next]_vars, NEW g \in File PROVE OneUploadOf(g)'
  BY DEF OneUpload
<1>0. OneUploadOf(g) /\ TypeOK /\ InItsTask
  BY DEF OneUpload, Typed
<1> USE DEF TypeOK, InItsTask, Kind, OneUploadOf, NoUpload, Uploads, Uploading, HandlerAt,
            work, http, places
<1>1. ASSUME NEW r \in Request, NEW f \in File,
             UploadDumps(r, f) \/ DeleteLooksUp(r, f) \/ Handler(r, f)
      PROVE  OneUploadOf(g)'
  <2> USE <1>0 DEF HandlerGoto, HandlerEnds, Put
  <2>1. CASE UploadDumps(r, f)       BY <2>1 DEF UploadDumps
  <2>2. CASE DeleteLooksUp(r, f)     BY <2>2 DEF DeleteLooksUp
  <2>3. CASE UploadRefuses(r, f)     BY <2>3 DEF UploadRefuses
  <2>4. CASE UploadInserts(r, f)     BY <2>4 DEF UploadInserts, Inserted
  <2>5. CASE UploadPublishes(r, f)   BY <2>5 DEF UploadPublishes
  <2>6. CASE DeletePublishes(r, f)   BY <2>6 DEF DeletePublishes
  <2>7. CASE DeleteSetsStatus(r, f)  BY <2>7 DEF DeleteSetsStatus
  <2> QED  BY <1>1, <2>1, <2>2, <2>3, <2>4, <2>5, <2>6, <2>7 DEF Handler
<1>2. ASSUME NEW r \in Request, Abort(r) PROVE OneUploadOf(g)'
  BY <1>0, <1>2 DEF Abort, HandlerGoto, HandlerEnds
<1>3. ASSUME NEW w \in Worker, NEW f \in File, NEW k \in Kind, Take(w, f, k)
      PROVE  OneUploadOf(g)'
  BY <1>0, <1>3 DEF Take, Hand
<1>4. ASSUME NEW w \in Worker, NEW f \in File, Redeliver(w, f) PROVE OneUploadOf(g)'
  BY <1>0, <1>4 DEF Redeliver, Hand, Put
<1>5. ASSUME NEW w \in Worker, Ack(w) PROVE OneUploadOf(g)'
  BY <1>0, <1>5 DEF Ack, Hand
<1>6. ASSUME NEW w \in Worker, NEW f \in File, WorkerStep(w, f) \/ Fail(w, f)
      PROVE  OneUploadOf(g)'
  <2>1. UNCHANGED <<queue, wtask, wfile, http>>
    BY <1>6, StepInHand
  <2>2. status[g] # "NONE" => status'[g] # "NONE"
    BY <1>0, <1>6 DEF WorkerStep, Fail, Check, SetError, Upload, Delete, Get, Copy, SetFinal,
                      Unlink, Remove
  <2>3. Unlink(w, g) \/ temp'[g] = temp[g]
    BY <1>0, <1>6 DEF WorkerStep, Fail, Check, SetError, Upload, Delete, Get, Copy, SetFinal,
                      Unlink, Remove
  <2>4. Unlink(w, g) => Uploads(w, g)
    BY <1>0 DEF Unlink, At, UploadPc
  <2> QED  BY <1>0, <2>1, <2>2, <2>3, <2>4
<1>7. CASE UNCHANGED vars
  BY <1>0, <1>7 DEF vars
<1> QED  BY <1>1, <1>2, <1>3, <1>4, <1>5, <1>6, <1>7 DEF Next

--------------------------------------------------------------------------------
(* What a worker lets go of is settled.                                         *)

Tidy(f) == ~temp[f] \/ status[f] # "READY" \/ ErrorLost(f)

Settled(w, f) == Uploads(w, f) =>
    /\ wpc[w] = "ack" => Tidy(f)
    /\ wpc[w] = "error" => f \in Camera \/ Tidy(f)
    /\ wpc[w] \in {"u_copy", "u_ready"} /\ ~found[w] => status[f] # "READY"

TidyInv == /\ ReadyIsTidy
           /\ \A w \in Worker, f \in File : Settled(w, f)

LEMMA TidyInit == Init => TidyInv
BY DEF Init, TidyInv, ReadyIsTidy, Settled, Uploads

\* READY comes from the worker that has the upload, and a file that has a row is
\* not dumped again.
LEMMA ReadyFrom ==
    ASSUME Typed, OneUpload, [Next]_vars, NEW f \in File
    PROVE  /\ status'[f] = "READY" /\ status[f] # "READY" =>
                 \E w \in Worker : Uploads(w, f) /\ SetFinal(w, f, "u_ready", "READY", "u_unlink")
           /\ status[f] # "NONE" /\ temp'[f] => temp[f]
           /\ troubles' \in Nat /\ (troubles > 0 => troubles' > 0)
<1> USE DEF Typed, TypeOK
<1>1. troubles' \in Nat /\ (troubles > 0 => troubles' > 0)
  BY DEF Next, vars, UploadDumps, DeleteLooksUp, Handler, UploadRefuses, UploadInserts,
         UploadPublishes, DeletePublishes, DeleteSetsStatus, Abort, Take, WorkerStep, Check,
         SetError, Upload, Delete, Get, Copy, SetFinal, Unlink, Remove, Redeliver, Fail, Ack,
         Trouble
<1>2. status[f] # "NONE" /\ temp'[f] => temp[f]
  BY DEF Next, vars, places, UploadDumps, DeleteLooksUp, Handler, UploadRefuses, UploadInserts,
         UploadPublishes, DeletePublishes, DeleteSetsStatus, Abort, Take, WorkerStep, Check,
         SetError, Upload, Delete, Get, Copy, SetFinal, Unlink, Remove, Redeliver, Fail, Ack
<1>3. ASSUME status'[f] = "READY", status[f] # "READY"
      PROVE  \E w \in Worker : Uploads(w, f) /\ SetFinal(w, f, "u_ready", "READY", "u_unlink")
  <2>1. PICK w \in Worker, g \in File : SetFinal(w, g, "u_ready", "READY", "u_unlink")
    BY <1>3 DEF Next, vars, places, UploadDumps, DeleteLooksUp, Handler, UploadRefuses,
                UploadInserts, Inserted, UploadPublishes, DeletePublishes, DeleteSetsStatus,
                Abort, Take, WorkerStep, Check, SetError, Upload, Delete, Get, Copy, SetFinal,
                Unlink, Remove, Redeliver, Fail, Ack
  <2>2. g = f
    BY <1>3, <2>1 DEF SetFinal
  <2> QED  BY <2>1, <2>2 DEF SetFinal, At, Uploads, InItsTask, UploadPc
<1> QED  BY <1>1, <1>2, <1>3

\* Once tidy, a file stays so, as long as nobody sets it READY.
LEMMA StaysTidy ==
    ASSUME Typed, OneUpload, [Next]_vars, NEW f \in File, status[f] # "NONE", Tidy(f),
           \A w \in Worker : Uploads(w, f) => wpc[w] # "u_ready"
    PROVE  Tidy(f)'
<1>1. ErrorLost(f) => ErrorLost(f)'
  BY ReadyFrom DEF ErrorLost
<1>2. status'[f] = "READY" => status[f] = "READY"
  BY ReadyFrom DEF SetFinal, At
<1>3. ~temp[f] => ~temp'[f]
  BY ReadyFrom
<1> QED  BY <1>1, <1>2, <1>3 DEF Tidy

LEMMA SettledStep ==
    ASSUME Typed, OneUpload, TidyInv, [Next]_vars, NEW v \in Worker, NEW g \in File
    PROVE  Settled(v, g)'
<1> SUFFICES ASSUME Uploads(v, g)' PROVE Settled(v, g)'
  BY DEF Settled
<1> USE DEF Typed, TypeOK, Uploads
<1>1. CASE /\ wtask'[v] = wtask[v] /\ wfile'[v] = wfile[v]
           /\ wpc'[v] = wpc[v] /\ found'[v] = found[v]
  <2>1. Uploads(v, g) /\ status[g] # "NONE" /\ Settled(v, g) /\ OneUploadOf(g)
    BY <1>1 DEF OneUpload, OneUploadOf, NoUpload, TidyInv
  <2>2. ASSUME wpc[v] # "u_ready" PROVE Tidy(g) => Tidy(g)'
    BY <2>1, <2>2, StaysTidy DEF OneUploadOf
  <2>3. status[g] # "READY" => status'[g] # "READY"
    <3>1. ASSUME NEW w \in Worker, Uploads(w, g) PROVE w = v
      BY <2>1, <3>1 DEF OneUploadOf
    <3>2. ~SetFinal(v, g, "u_ready", "READY", "u_unlink")
      BY <1>1 DEF SetFinal, At, Goto
    <3> QED  BY <3>1, <3>2, ReadyFrom
  <2> QED  BY <1>1, <2>1, <2>2, <2>3 DEF Settled
<1>2. ASSUME NEW k \in Kind, NEW f \in File, Take(v, f, k) PROVE Settled(v, g)'
  BY <1>2 DEF Take, Hand, Settled
<1>3. ASSUME NEW f \in File, Redeliver(v, f) \/ Ack(v) PROVE Settled(v, g)'
  BY <1>3 DEF Redeliver, Ack, Hand
<1>4. ASSUME NEW f \in File, WorkerStep(v, f) \/ Fail(v, f) PROVE Settled(v, g)'
  <2>1. f = g /\ Uploads(v, g) /\ Settled(v, g) /\ status[g] # "NONE" /\ OneUploadOf(g)
    BY <1>4, StepInHand DEF TidyInv, OneUpload, OneUploadOf, NoUpload
  <2> USE DEF At, Goto, Tidy, Settled
  <2>2. CASE Check(v, g)
    BY <2>1, <2>2, FirstCall DEF Check, places
  <2>3. CASE SetError(v, g)
    <3>1. CASE g \in Camera  BY <2>1, <2>3, <3>1 DEF SetError
    <3>2. CASE g \notin Camera
      <4>1. Tidy(g) /\ wpc[v] = "error"
        BY <2>1, <2>3, <3>2 DEF SetError
      <4>2. Tidy(g)'
        BY <2>1, <4>1, StaysTidy DEF OneUploadOf
      <4> QED  BY <2>3, <4>2 DEF SetError
    <3> QED  BY <3>1, <3>2
  <2>4. CASE Upload(v, g)
    <3>1. CASE Get(v, g, "u_get", "u_copy")  BY <2>1, <3>1 DEF Get, Visible, places
    <3>2. CASE Copy(v, g)                    BY <2>1, <3>2 DEF Copy
    <3>3. CASE SetFinal(v, g, "u_ready", "READY", "u_unlink")
      BY <2>1, <3>3 DEF SetFinal
    <3>4. CASE Unlink(v, g)                  BY <2>1, <3>4 DEF Unlink
    <3> QED  BY <2>4, <3>1, <3>2, <3>3, <3>4 DEF Upload
  <2>5. CASE Delete(v, g)
    BY <2>1, <2>5 DEF Delete, Get, Remove, SetFinal, InItsTask, DeletePc
  <2>6. CASE Fail(v, g)
    BY <2>6 DEF Fail, Trouble, ErrorLost, File
  <2> QED  BY <1>4, <2>1, <2>2, <2>3, <2>4, <2>5, <2>6 DEF WorkerStep
<1>5. ASSUME NEW w \in Worker, w # v, \/ Ack(w)
             \/ \E f \in File : \/ WorkerStep(w, f) \/ Fail(w, f) \/ Redeliver(w, f)
                              \/ \E k \in Kind : Take(w, f, k)
      PROVE  Settled(v, g)'
  <2>1. /\ wtask'[v] = wtask[v] /\ wfile'[v] = wfile[v]
        /\ wpc'[v] = wpc[v] /\ found'[v] = found[v]
    BY <1>5 DEF Ack, WorkerStep, Check, SetError, Upload, Delete, Get, Copy, SetFinal, Unlink,
                Remove, Redeliver, Fail, Take, Hand, Goto
  <2> QED  BY <1>1, <2>1
<1>6. CASE UNCHANGED work
  BY <1>1, <1>6 DEF work
<1>7. CASE \E r \in Request : \/ Abort(r)
                              \/ \E f \in File : \/ UploadDumps(r, f) \/ DeleteLooksUp(r, f)
                                                 \/ Handler(r, f)
  BY <1>6, <1>7 DEF Abort, UploadDumps, DeleteLooksUp, Handler, UploadRefuses, UploadInserts,
                    UploadPublishes, DeletePublishes, DeleteSetsStatus
<1> QED  BY <1>2, <1>3, <1>4, <1>5, <1>6, <1>7 DEF Next, vars

\* Only its acknowledgement takes an upload away.
LEMMA PendingStays ==
    ASSUME Typed, [Next]_vars, NEW f \in File, Pending(f, "upload"),
           \A w \in Worker : ~(Uploads(w, f) /\ Ack(w))
    PROVE  Pending(f, "upload")'
<1> USE DEF Typed, TypeOK, InItsTask, Pending, Uploads, Kind
<1>1. ASSUME NEW r \in Request, NEW g \in File,
             UploadDumps(r, g) \/ DeleteLooksUp(r, g) \/ Handler(r, g) \/ Abort(r)
      PROVE  Pending(f, "upload")'
  <2>1. UNCHANGED work
    BY <1>1 DEF UploadDumps, DeleteLooksUp, Handler, UploadRefuses, UploadInserts,
                UploadPublishes, DeletePublishes, DeleteSetsStatus, Abort
  <2>2. UNCHANGED queue \/ Put(g, "upload") \/ Put(g, "delete")
    BY <1>1 DEF UploadDumps, DeleteLooksUp, Handler, UploadRefuses, UploadInserts,
                UploadPublishes, DeletePublishes, DeleteSetsStatus, Abort, places
  <2> QED  BY <2>1, <2>2 DEF work, Put
<1>2. ASSUME NEW w \in Worker, NEW g \in File, NEW k \in Kind, Take(w, g, k)
      PROVE  Pending(f, "upload")'
  <2>1. CASE g = f /\ k = "upload"
    BY <1>2, <2>1 DEF Take, Hand
  <2>2. CASE ~(g = f /\ k = "upload")
    BY <1>2, <2>2 DEF Take, Hand
  <2> QED  BY <2>1, <2>2
<1>3. ASSUME NEW w \in Worker, NEW g \in File, Redeliver(w, g) PROVE Pending(f, "upload")'
  <2>1. CASE Uploads(w, f)
    BY <1>3, <2>1 DEF Redeliver, Put
  <2>2. CASE ~Uploads(w, f)
    BY <1>3, <2>2 DEF Redeliver, Put, Hand
  <2> QED  BY <2>1, <2>2
<1>4. ASSUME NEW w \in Worker, NEW g \in File, WorkerStep(w, g) \/ Fail(w, g)
      PROVE  Pending(f, "upload")'
  BY <1>4, StepInHand
<1>5. ASSUME NEW w \in Worker, Ack(w) PROVE Pending(f, "upload")'
  BY <1>5 DEF Ack, Hand
<1>6. CASE UNCHANGED vars
  BY <1>6 DEF vars, work
<1> QED  BY <1>1, <1>2, <1>3, <1>4, <1>5, <1>6 DEF Next

LEMMA TidyStep == Typed /\ OneUpload /\ TidyInv /\ [Next]_vars => TidyInv'
<1> SUFFICES ASSUME Typed, OneUpload, TidyInv, [Next]_vars, NEW f \in File, status'[f] = "READY"
             PROVE  ~temp'[f] \/ Pending(f, "upload")' \/ ErrorLost(f)'
  BY SettledStep DEF TidyInv, ReadyIsTidy
<1> USE DEF Typed, TypeOK
<1>1. CASE status[f] # "READY"
  BY <1>1, ReadyFrom DEF SetFinal, Goto, Pending, Uploads
<1>2. CASE status[f] = "READY" /\ Pending(f, "upload")
  <2>1. CASE \A w \in Worker : ~(Uploads(w, f) /\ Ack(w))
    BY <1>2, <2>1, PendingStays
  <2>2. ASSUME NEW w \in Worker, Uploads(w, f), Ack(w) PROVE Tidy(f)'
    <3>1. Tidy(f) /\ OneUploadOf(f)
      BY <2>2 DEF TidyInv, Settled, OneUpload, Ack
    <3>2. \A v \in Worker : Uploads(v, f) => v = w
      BY <2>2, <3>1 DEF OneUploadOf
    <3> QED  BY <1>2, <2>2, <3>1, <3>2, StaysTidy DEF Ack
  <2> QED  BY <2>1, <2>2 DEF Tidy
<1>3. CASE status[f] = "READY" /\ ~Pending(f, "upload")
  <2>1. Tidy(f) /\ \A w \in Worker : ~Uploads(w, f)
    BY <1>3 DEF TidyInv, ReadyIsTidy, Tidy, Pending, Uploads
  <2> QED  BY <1>3, <2>1, StaysTidy DEF Tidy
<1> QED  BY <1>1, <1>2, <1>3

\* A READY file has left the temporary directory, or the task that takes it out is
\* pending, or an error about an APK was lost: with any number of workers, crashes
\* and deletions on the way.
THEOREM AlwaysTidy == Spec => []ReadyIsTidy
<1> DEFINE Inv == Typed /\ OneUpload /\ TidyInv
<1>1. Init => Inv
  BY TypeInit, UploadInit, TidyInit
<1>2. Inv /\ [Next]_vars => Inv'
  BY TypeStep, TaskStep, UploadStep, TidyStep DEF Typed
<1>3. Inv => ReadyIsTidy
  BY DEF TidyInv
<1> HIDE DEF Inv
<1> QED  BY <1>1, <1>2, <1>3, PTL DEF Spec
--------------------------------------------------------------------------------
(* What has yet to be uploaded is on its way.                                   *)

\* The row is as it was inserted.
Fresh(f) == status[f] \in {"QUEUED", "UPLOADING"}

\* The request is about to publish the upload of f, or it is in the broker, or with a
\* worker that has yet to record how it ended (for an APK an ERROR is not recorded).
UploadPending(f) ==
    \/ queue[f]["upload"] > 0
    \/ \E r \in Request : HandlerAt(r, f, "publish_upload")
    \/ \E w \in Worker : Uploads(w, f) /\ wpc[w] # "ack" /\ (wpc[w] = "error" => f \in Camera)

Lost == {f \in File : Fresh(f) /\ ~UploadPending(f)}

UploadNotLost == Cardinality(Lost) <= troubles

\* A fresh file is still where the request has put it, and the worker that has its upload
\* has found its row.
FreshOf(f) == Fresh(f) =>
    /\ temp[f]
    /\ \A w \in Worker : Uploads(w, f) =>
          /\ wpc[w] # "u_unlink"
          /\ wpc[w] \in {"u_copy", "u_ready"} => found[w]

LEMMA FreshInit == Init => \A f \in File : FreshOf(f)
BY DEF Init, FreshOf, Fresh

LEMMA FreshStep ==
    ASSUME Typed, OneUpload, [Next]_vars, NEW g \in File, FreshOf(g) PROVE FreshOf(g)'
<1> SUFFICES ASSUME Fresh(g)' PROVE FreshOf(g)'
  BY DEF FreshOf
<1>0. OneUploadOf(g) /\ TypeOK /\ InItsTask
  BY DEF OneUpload, Typed
<1> USE DEF FreshOf, Fresh, Uploads, Kind, work, http, places
<1>1. ASSUME NEW r \in Request, NEW f \in File,
             UploadDumps(r, f) \/ DeleteLooksUp(r, f) \/ Handler(r, f)
      PROVE  FreshOf(g)'
  <2> USE <1>0 DEF TypeOK
  <2>1. CASE UploadDumps(r, f)       BY <2>1 DEF UploadDumps
  <2>2. CASE DeleteLooksUp(r, f)     BY <2>2 DEF DeleteLooksUp
  <2>3. CASE UploadRefuses(r, f)     BY <2>3 DEF UploadRefuses
  <2>4. CASE UploadInserts(r, f)
    BY <2>4 DEF UploadInserts, OneUploadOf, NoUpload, Uploading, HandlerAt
  <2>5. CASE UploadPublishes(r, f)   BY <2>5 DEF UploadPublishes
  <2>6. CASE DeletePublishes(r, f)   BY <2>6 DEF DeletePublishes
  <2>7. CASE DeleteSetsStatus(r, f)  BY <2>7 DEF DeleteSetsStatus
  <2> QED  BY <1>1, <2>1, <2>2, <2>3, <2>4, <2>5, <2>6, <2>7 DEF Handler
<1>2. ASSUME NEW r \in Request, Abort(r) PROVE FreshOf(g)'
  BY <1>0, <1>2 DEF Abort
<1>3. ASSUME NEW w \in Worker, NEW f \in File, NEW k \in Kind, Take(w, f, k) PROVE FreshOf(g)'
  BY <1>0, <1>3 DEF Take, Hand, TypeOK
<1>4. ASSUME NEW w \in Worker, NEW f \in File, Redeliver(w, f) PROVE FreshOf(g)'
  BY <1>0, <1>4 DEF Redeliver, Hand, TypeOK
<1>5. ASSUME NEW w \in Worker, Ack(w) PROVE FreshOf(g)'
  BY <1>0, <1>5 DEF Ack, Hand, TypeOK
<1>6. ASSUME NEW w \in Worker, NEW f \in File, WorkerStep(w, f) \/ Fail(w, f)
      PROVE  FreshOf(g)'
  <2> USE <1>0 DEF TypeOK, At, Goto
  <2>1. CASE Check(w, f)     BY <2>1, FirstCall DEF Check, InItsTask
  <2>2. CASE SetError(w, f)  BY <2>2 DEF SetError
  <2>3. CASE Fail(w, f)      BY <2>3 DEF Fail
  <2>4. CASE Upload(w, f)
    <3>1. CASE Get(w, f, "u_get", "u_copy")                    BY <3>1 DEF Get, Visible
    <3>2. CASE Copy(w, f)                                      BY <3>2 DEF Copy
    <3>3. CASE SetFinal(w, f, "u_ready", "READY", "u_unlink")  BY <3>3 DEF SetFinal
    <3>4. CASE Unlink(w, f)
      BY <3>4 DEF Unlink, InItsTask, UploadPc
    <3> QED  BY <2>4, <3>1, <3>2, <3>3, <3>4 DEF Upload
  <2>5. CASE Delete(w, f)
    <3>1. CASE Get(w, f, "d_get", "d_rm")                      BY <3>1 DEF Get
    <3>2. CASE Remove(w, f)                                    BY <3>2 DEF Remove
    <3>3. CASE SetFinal(w, f, "d_deleted", "DELETED", "ack")   BY <3>3 DEF SetFinal
    <3> QED  BY <2>5, <3>1, <3>2, <3>3 DEF Delete
  <2> QED  BY <1>6, <2>1, <2>2, <2>3, <2>4, <2>5 DEF WorkerStep
<1>7. CASE UNCHANGED vars
  BY <1>0, <1>7 DEF vars
<1> QED  BY <1>1, <1>2, <1>3, <1>4, <1>5, <1>6, <1>7 DEF Next

\* Only a trouble takes an upload off its way: the end of the request between the row and
\* the task, or the failure of a call.
LEMMA LostStep ==
    ASSUME Typed, OneUpload, [Next]_vars, NEW g \in File, FreshOf(g), g \in Lost', g \notin Lost
    PROVE  \/ \E r \in Request : Abort(r) /\ hfile[r] = g
           \/ \E w \in Worker : Fail(w, g)
<1>0. OneUploadOf(g) /\ TypeOK /\ InItsTask /\ (g \in Apk \/ g \in Camera)
  BY DEF OneUpload, Typed, File
<1> USE <1>0 DEF TypeOK, Lost, Fresh, UploadPending, Uploads, Kind, work, http, places
<1>1. ASSUME NEW r \in Request, NEW f \in File,
             UploadDumps(r, f) \/ DeleteLooksUp(r, f) \/ Handler(r, f)
      PROVE  FALSE
  <2> USE DEF HandlerAt, HandlerGoto, HandlerEnds, Put
  <2>1. CASE UploadDumps(r, f)       BY <2>1 DEF UploadDumps
  <2>2. CASE DeleteLooksUp(r, f)     BY <2>2 DEF DeleteLooksUp
  <2>3. CASE UploadRefuses(r, f)     BY <2>3 DEF UploadRefuses
  <2>4. CASE UploadInserts(r, f)     BY <2>4 DEF UploadInserts
  <2>5. CASE UploadPublishes(r, f)   BY <2>5 DEF UploadPublishes
  <2>6. CASE DeletePublishes(r, f)   BY <2>6 DEF DeletePublishes
  <2>7. CASE DeleteSetsStatus(r, f)  BY <2>7 DEF DeleteSetsStatus
  <2> QED  BY <1>1, <2>1, <2>2, <2>3, <2>4, <2>5, <2>6, <2>7 DEF Handler
<1>2. ASSUME NEW r \in Request, Abort(r), hfile[r] # g PROVE FALSE
  BY <1>2 DEF Abort, HandlerAt, HandlerGoto, HandlerEnds
<1>3. ASSUME NEW w \in Worker, NEW f \in File, NEW k \in Kind, Take(w, f, k) PROVE FALSE
  BY <1>3 DEF Take, Hand, HandlerAt, InItsTask
<1>4. ASSUME NEW w \in Worker, NEW f \in File, Redeliver(w, f) PROVE FALSE
  BY <1>4 DEF Redeliver, Hand, Put, HandlerAt
<1>5. ASSUME NEW w \in Worker, Ack(w) PROVE FALSE
  BY <1>5 DEF Ack, Hand, HandlerAt
<1>6. ASSUME NEW w \in Worker, NEW f \in File, WorkerStep(w, f) \/ (f # g /\ Fail(w, f))
      PROVE  FALSE
  <2>0. /\ UNCHANGED <<queue, wtask, wfile, http>> /\ wfile[w] = f /\ wpc[w] # "idle"
        /\ \A v \in Worker : v # w => wpc'[v] = wpc[v]
    BY <1>6, StepInHand
  <2>1. CASE f # g
    <3>1. status'[g] = status[g]
      BY <1>6, <2>1 DEF WorkerStep, Fail, Check, SetError, Upload, Delete, Get, Copy, SetFinal,
                        Unlink, Remove
    <3> QED  BY <2>0, <2>1, <3>1 DEF HandlerAt
  <2> USE <2>0 DEF At, Goto, HandlerAt
  <2>2. CASE Check(w, g)     BY <2>2, FirstCall DEF Check, InItsTask
  <2>3. CASE SetError(w, g)  BY <2>3 DEF SetError
  <2>4. CASE Upload(w, g)
    <3> USE DEF FreshOf
    <3>1. CASE Get(w, g, "u_get", "u_copy")                    BY <3>1 DEF Get, Visible
    <3>2. CASE Copy(w, g)                                      BY <3>2 DEF Copy
    <3>3. CASE SetFinal(w, g, "u_ready", "READY", "u_unlink")
      BY <3>3 DEF SetFinal, InItsTask, UploadPc
    <3>4. CASE Unlink(w, g)
      BY <3>4 DEF Unlink, InItsTask, UploadPc
    <3> QED  BY <2>4, <3>1, <3>2, <3>3, <3>4 DEF Upload
  <2>5. CASE Delete(w, g)
    BY <2>5 DEF Delete, Get, Remove, SetFinal, InItsTask, DeletePc
  <2> QED  BY <1>6, <2>1, <2>2, <2>3, <2>4, <2>5 DEF WorkerStep
<1>7. CASE UNCHANGED vars
  BY <1>7 DEF vars, HandlerAt
<1> HIDE DEF Lost, TypeOK, Kind
<1> QED  BY <1>1, <1>2, <1>3, <1>4, <1>5, <1>6, <1>7 DEF Next

LEMMA TroublesGrow ==
    ASSUME Typed, [Next]_vars
    PROVE  /\ troubles \in Nat /\ troubles' \in Nat /\ troubles <= troubles'
           /\ (\E r \in Request : Abort(r)) \/ (\E w \in Worker, f \in File : Fail(w, f))
                 => troubles' = troubles + 1
<1> USE DEF Typed, TypeOK
<1>1. CASE Trouble
  BY <1>1 DEF Trouble
<1>2. CASE UNCHANGED troubles /\ ~Trouble
  BY <1>2 DEF Abort, Fail
<1>3. Trouble \/ UNCHANGED troubles
  BY DEF Next, vars, UploadDumps, DeleteLooksUp, Handler, UploadRefuses, UploadInserts,
         UploadPublishes, DeletePublishes, DeleteSetsStatus, Abort, Take, WorkerStep, Check,
         SetError, Upload, Delete, Get, Copy, SetFinal, Unlink, Remove, Redeliver, Fail, Ack
<1> QED  BY <1>1, <1>2, <1>3 DEF Trouble

\* One trouble loses one upload at most.
LEMMA OneLost ==
    ASSUME Typed, OneUpload, [Next]_vars, \A f \in File : FreshOf(f)
    PROVE  \/ Lost' \subseteq Lost
           \/ /\ troubles' = troubles + 1
              /\ \E f \in File : Lost' \subseteq Lost \cup {f}
<1> SUFFICES ASSUME NEW f \in Lost', f \notin Lost
             PROVE  troubles' = troubles + 1 /\ Lost' \subseteq Lost \cup {f} /\ f \in File
  OBVIOUS
<1>1. \A g \in Lost' : g \in File
  BY DEF Lost
<1>2. \A g \in Lost' : g \in Lost \/ \/ \E r \in Request : Abort(r) /\ hfile[r] = g
                                     \/ \E w \in Worker : Fail(w, g)
  BY <1>1, LostStep
<1>3. troubles' = troubles + 1
  BY <1>1, <1>2, TroublesGrow
<1>4. ASSUME NEW g \in Lost', g \notin Lost PROVE g = f
  <2>1. CASE \E r \in Request : Abort(r)
    <3>1. PICK r \in Request : Abort(r)
      BY <2>1
    <3>2. /\ hpc'[r] = "idle" /\ hpc[r] # "idle" /\ work' = work
          /\ \A q \in Request : q # r => hpc'[q] = hpc[q]
      BY <3>1 DEF Abort, HandlerEnds, HandlerGoto, Typed, TypeOK
    <3>3. ~\E w \in Worker, h \in File : Fail(w, h)
      BY <3>2 DEF Fail, Goto, work, Typed, TypeOK, Calls
    <3>4. \A q \in Request : Abort(q) => q = r
      BY <3>2 DEF Abort, HandlerEnds, HandlerGoto, Typed, TypeOK
    <3> QED  BY <1>1, <1>2, <1>4, <3>3, <3>4
  <2>2. CASE ~\E r \in Request : Abort(r)
    <3>1. PICK v \in Worker, w \in Worker : Fail(v, f) /\ Fail(w, g)
      BY <1>1, <1>2, <1>4, <2>2
    <3>2. v = w
      BY <3>1 DEF Fail, Goto, Typed, TypeOK, Calls
    <3> QED  BY <3>1, <3>2 DEF Fail
  <2> QED  BY <2>1, <2>2
<1> QED  BY <1>1, <1>3, <1>4

\* A file that shows QUEUED or UPLOADING is being uploaded: its task is in the broker, or
\* with a worker that will record how it ended, with any number of workers, crashes and
\* deletions on the way. The exceptions are no more than the requests that ended between
\* the row and the task (upload of apk.py, camera.py) and the calls that failed.
THEOREM NoUploadLost == Spec => []UploadNotLost
<1> DEFINE Inv == /\ Typed /\ OneUpload
                  /\ \A f \in File : FreshOf(f)
                  /\ IsFiniteSet(Lost) /\ UploadNotLost
<1>1. Init => Inv
  <2> SUFFICES ASSUME Init PROVE IsFiniteSet(Lost) /\ UploadNotLost
    BY TypeInit, UploadInit, FreshInit
  <2>1. Lost = {} /\ troubles = 0
    BY DEF Init, Lost, Fresh
  <2> QED  BY <2>1, FS_EmptySet DEF UploadNotLost
<1>2. Inv /\ [Next]_vars => Inv'
  <2> SUFFICES ASSUME Inv, [Next]_vars PROVE IsFiniteSet(Lost)' /\ UploadNotLost'
    BY TypeStep, TaskStep, UploadStep, FreshStep DEF Typed
  <2>0. /\ Cardinality(Lost) \in Nat /\ Cardinality(Lost) <= troubles
        /\ troubles \in Nat /\ troubles' \in Nat /\ troubles <= troubles'
    BY FS_CardinalityType, TroublesGrow DEF UploadNotLost
  <2>1. CASE Lost' \subseteq Lost
    <3>1. IsFiniteSet(Lost') /\ Cardinality(Lost') <= Cardinality(Lost)
      BY <2>1, FS_Subset
    <3>2. Cardinality(Lost') \in Nat
      BY <3>1, FS_CardinalityType
    <3> QED  BY <2>0, <3>1, <3>2 DEF UploadNotLost
  <2>2. ASSUME NEW f \in File, troubles' = troubles + 1, Lost' \subseteq Lost \cup {f}
        PROVE  IsFiniteSet(Lost)' /\ UploadNotLost'
    <3>1. /\ IsFiniteSet(Lost \cup {f})
          /\ Cardinality(Lost \cup {f}) <= Cardinality(Lost) + 1
      BY <2>0, FS_AddElement
    <3>2. IsFiniteSet(Lost') /\ Cardinality(Lost') <= Cardinality(Lost \cup {f})
      BY <2>2, <3>1, FS_Subset
    <3>3. Cardinality(Lost') \in Nat /\ Cardinality(Lost \cup {f}) \in Nat
      BY <3>1, <3>2, FS_CardinalityType
    <3> QED  BY <2>0, <2>2, <3>1, <3>2, <3>3 DEF UploadNotLost
  <2> QED  BY <2>1, <2>2, OneLost
<1>3. Inv => UploadNotLost
  OBVIOUS
<1> HIDE DEF Inv
<1> QED  BY <1>1, <1>2, <1>3, PTL DEF Spec

--------------------------------------------------------------------------------
(* One worker: what it finds in the volume is what its task has put there.      *)

OneWorker == \A v, w \in Worker : v = w

\* What the worker knows of the file it has in hand, from the calls it has made.
OwnWork(w, f) == wfile[w] = f =>
    /\ wpc[w] \in {"u_get", "u_copy"} => status[f] # "DELETED"
    /\ wpc[w] = "u_ready" => stored[f]
    /\ wpc[w] = "d_deleted" => ~stored[f]
    /\ wpc[w] \in {"d_rm", "d_deleted"} /\ ~found[w] => status[f] # "READY"
    /\ wtask[w] = "delete" =>
          /\ wpc[w] = "error" => f \in Camera \/ status[f] # "READY" \/ ErrorLost(f)
          /\ wpc[w] = "ack" => status[f] # "READY" \/ ErrorLost(f)

VolumeOf(f) ==
    /\ status[f] = "DELETED" => ~stored[f]
    /\ status[f] = "READY" => stored[f] \/ Pending(f, "delete") \/ ErrorLost(f)
    /\ \A w \in Worker : OwnWork(w, f)

VolumeInv == \A f \in File : VolumeOf(f)

LEMMA VolumeInit == Init => VolumeInv
BY AssetAssumption DEF Init, VolumeInv, VolumeOf, OwnWork

LEMMA VolumeStep == OneWorker /\ Typed /\ VolumeInv /\ [Next]_vars => VolumeInv'
<1> SUFFICES ASSUME OneWorker, Typed, VolumeInv, [Next]_vars, NEW g \in File
             PROVE  VolumeOf(g)'
  BY DEF VolumeInv
<1>0. VolumeOf(g) /\ TypeOK /\ InItsTask /\ OneWorker /\ (g \in Apk \/ g \in Camera)
  BY DEF VolumeInv, Typed, File
<1> USE DEF VolumeOf, OwnWork, Pending, ErrorLost, Kind, work, http, places
<1>1. ASSUME NEW r \in Request, NEW f \in File,
             UploadDumps(r, f) \/ DeleteLooksUp(r, f) \/ Handler(r, f)
      PROVE  VolumeOf(g)'
  <2> USE <1>0 DEF TypeOK, Put
  <2>1. CASE UploadDumps(r, f)       BY <2>1 DEF UploadDumps
  <2>2. CASE DeleteLooksUp(r, f)     BY <2>2 DEF DeleteLooksUp
  <2>3. CASE UploadRefuses(r, f)     BY <2>3 DEF UploadRefuses
  <2>4. CASE UploadInserts(r, f)     BY <2>4 DEF UploadInserts, Inserted
  <2>5. CASE UploadPublishes(r, f)   BY <2>5 DEF UploadPublishes
  <2>6. CASE DeletePublishes(r, f)   BY <2>6 DEF DeletePublishes
  <2>7. CASE DeleteSetsStatus(r, f)  BY <2>7 DEF DeleteSetsStatus
  <2> QED  BY <1>1, <2>1, <2>2, <2>3, <2>4, <2>5, <2>6, <2>7 DEF Handler
<1>2. ASSUME NEW r \in Request, Abort(r) PROVE VolumeOf(g)'
  BY <1>0, <1>2 DEF Abort, Trouble, TypeOK
<1>3. ASSUME NEW w \in Worker, NEW f \in File, NEW k \in Kind, Take(w, f, k) PROVE VolumeOf(g)'
  BY <1>0, <1>3 DEF Take, Hand, OneWorker, TypeOK, InItsTask
<1>4. ASSUME NEW w \in Worker, NEW f \in File, Redeliver(w, f) PROVE VolumeOf(g)'
  BY <1>0, <1>4 DEF Redeliver, Hand, Put, Trouble, OneWorker, TypeOK, InItsTask
<1>5. ASSUME NEW w \in Worker, Ack(w) PROVE VolumeOf(g)'
  BY <1>0, <1>5 DEF Ack, Hand, OneWorker, TypeOK, InItsTask
<1>6. ASSUME NEW w \in Worker, NEW f \in File, WorkerStep(w, f) \/ Fail(w, f)
      PROVE  VolumeOf(g)'
  <2>1. UNCHANGED <<queue, wtask, wfile, http>> /\ wfile[w] = f /\ wpc[w] # "idle"
    BY <1>6, StepInHand
  <2>2. \A v \in Worker : v = w
    BY <1>0 DEF OneWorker
  <2>3. CASE f # g
    <3>1. status'[g] = status[g] /\ stored'[g] = stored[g]
      BY <1>0, <1>6, <2>3 DEF TypeOK, WorkerStep, Fail, Check, SetError, Upload, Delete, Get,
                              Copy, SetFinal, Unlink, Remove
    <3>2. troubles' \in Nat /\ (troubles > 0 => troubles' > 0)
      BY <1>0, <1>6 DEF TypeOK, WorkerStep, Fail, Check, SetError, Upload, Delete, Get, Copy,
                        SetFinal, Unlink, Remove, Trouble
    <3> QED  BY <1>0, <2>1, <2>2, <2>3, <3>1, <3>2
  <2>4. CASE f = g
    <3>1. CASE Check(w, g)     BY <1>0, <2>1, <2>2, <2>4, <3>1, FirstCall
                               DEF Check, At, Goto, TypeOK, InItsTask
    <3>2. CASE SetError(w, g)  BY <1>0, <2>1, <2>2, <2>4, <3>2 DEF SetError, At, Goto, TypeOK
    <3>3. CASE Fail(w, g)
      <4>1. troubles' > 0
        BY <1>0, <3>3 DEF Fail, Trouble, TypeOK
      <4>2. /\ status' = status /\ wpc'[w] = "error"
            /\ stored'[g] # stored[g] => \/ wpc[w] = "u_copy" /\ stored'[g]
                                         \/ wpc[w] = "d_rm" /\ ~stored'[g]
        BY <1>0, <3>3 DEF Fail, Goto, TypeOK
      <4>3. wpc[w] = "d_rm" => wtask[w] = "delete"
        BY <1>0 DEF InItsTask, DeletePc
      <4> QED  BY <1>0, <2>1, <2>2, <2>4, <4>1, <4>2, <4>3
    <3>4. CASE Get(w, g, "u_get", "u_copy")
      BY <1>0, <2>1, <2>2, <2>4, <3>4 DEF Get, At, TypeOK
    <3>5. CASE Copy(w, g)
      BY <1>0, <2>1, <2>2, <2>4, <3>5 DEF Copy, At, Goto, TypeOK, InItsTask, UploadPc
    <3>6. CASE SetFinal(w, g, "u_ready", "READY", "u_unlink")
      BY <1>0, <2>1, <2>2, <2>4, <3>6 DEF SetFinal, At, Goto, TypeOK, InItsTask, UploadPc
    <3>7. CASE Unlink(w, g)
      BY <1>0, <2>1, <2>2, <2>4, <3>7 DEF Unlink, At, Goto, TypeOK, InItsTask, UploadPc
    <3>8. CASE Get(w, g, "d_get", "d_rm")
      BY <1>0, <2>1, <2>2, <2>4, <3>8 DEF Get, At, Visible, TypeOK
    <3>9. CASE Remove(w, g)
      BY <1>0, <2>1, <2>2, <2>4, <3>9 DEF Remove, At, Goto, TypeOK, InItsTask, DeletePc
    <3>10. CASE SetFinal(w, g, "d_deleted", "DELETED", "ack")
      BY <1>0, <2>1, <2>2, <2>4, <3>10 DEF SetFinal, At, Goto, TypeOK
    <3> QED  BY <1>6, <2>4, <3>1, <3>2, <3>3, <3>4, <3>5, <3>6, <3>7, <3>8, <3>9, <3>10
             DEF WorkerStep, Upload, Delete
  <2> QED  BY <2>3, <2>4
<1>7. CASE UNCHANGED vars
  BY <1>0, <1>7 DEF vars
<1> QED  BY <1>1, <1>2, <1>3, <1>4, <1>5, <1>6, <1>7 DEF Next

LEMMA VolumeAlways == OneWorker => (Spec => []VolumeInv)
<1> SUFFICES ASSUME OneWorker PROVE Spec => []VolumeInv
  OBVIOUS
<1>1. Typed /\ VolumeInv /\ [Next]_vars => VolumeInv'
  BY VolumeStep
<1> QED  BY VolumeInit, TypedAlways, <1>1, PTL DEF Spec

\* With one worker, the status of a file says what the volume holds: a DELETED file is
\* no longer there, whatever became of its upload and however often either task was
\* delivered; a READY one is, or the task that deletes it is pending, or an error about
\* an APK was lost.
THEOREM VolumeAlwaysMatches == ASSUME OneWorker PROVE Spec => []VolumeMatches
<1>1. VolumeInv => VolumeMatches
  BY DEF VolumeInv, VolumeOf, VolumeMatches, ReadyIsStored, DeletedIsGone
<1>2. Spec => []VolumeInv
  BY VolumeAlways
<1> QED  BY <1>1, <1>2, PTL
================================================================================
