--------------------------- MODULE TestSource_proofs ---------------------------
(* Theorems about TestSource, for any number of workers, uploads, requests,     *)
(* campaigns and troubles; the last one, ReadyWasCurrent, for one worker.       *)
EXTENDS TestSource, FiniteSetTheorems, TLAPS

USE SourceAssumption

\* Identifiers do not run out, and a deletion in hand names an APK.
Numbered ==
    /\ \A r \in Request : hpc[r] = "idle" => issued < r
    /\ \A w \in Worker : wmsg[w] = "delete" => wapk[w] \in Apk

Typed == TypeOK /\ Numbered

LEMMA BoxesAreFew ==
    ASSUME NEW B \in SUBSET {"dslcc", "testcc"}
    PROVE  Cardinality(B) \in 0..2 /\ (B = {} => Cardinality(B) = 0)
<1>1. IsFiniteSet({"dslcc"}) /\ Cardinality({"dslcc"}) = 1
  BY FS_Singleton
<1>2. {"dslcc", "testcc"} = {"dslcc"} \cup {"testcc"}
  OBVIOUS
<1>3. IsFiniteSet({"dslcc", "testcc"}) /\ Cardinality({"dslcc", "testcc"}) = 2
  BY <1>1, <1>2, FS_AddElement
<1>4. IsFiniteSet(B) /\ Cardinality(B) <= Cardinality({"dslcc", "testcc"})
  BY <1>3, FS_Subset
<1>5. Cardinality(B) \in Nat
  BY <1>4, FS_CardinalityType
<1>6. Cardinality(B) \in 0..2
  BY <1>3, <1>4, <1>5
<1> QED  BY <1>6, FS_EmptySet

LEMMA TypeInit == Init => Typed
<1> SUFFICES ASSUME Init PROVE Typed
  OBVIOUS
<1>1. TypeOK
  BY DEF Init, TypeOK, Status, HandlerPc, WorkerPc, None
<1>2. Numbered
  BY DEF Init, Numbered, Request
<1> QED  BY <1>1, <1>2 DEF Typed

LEMMA SetApkTypes ==
    ASSUME Typed, NEW a, NEW status \in Status, SetApk(a, status)
    PROVE  apk' \in [Apk -> Status]
BY DEF Typed, TypeOK, SetApk

\* What the handlers do to their own variables.
LEMMA HandlerTypes ==
    ASSUME Typed, NEW r \in Request, NEW pc \in HandlerPc \ {"idle"},
           Proceed(r, pc) \/ Finish(r)
    PROVE  /\ hpc' \in [Request -> HandlerPc]
           /\ hapk' \in [Request -> Apk \cup {None}]
           /\ \A q \in Request : hpc'[q] = "idle" => hpc[q] = "idle"
BY DEF Typed, TypeOK, Proceed, Finish, HandlerPc

LEMMA HandlerStepTypes ==
    ASSUME Typed, NEW r \in Request, Handler(r) \/ Abort(r)
    PROVE  Typed'
<1> USE DEF rows, history, queue, work, HandlerPc
<1>1. CASE CompileUnlinks(r)
  BY <1>1, HandlerTypes DEF CompileUnlinks, Typed, TypeOK, Numbered
<1>2. CASE CompileDeletesRow(r)
  BY <1>2, HandlerTypes DEF CompileDeletesRow, Typed, TypeOK, Numbered, Status
<1>3. CASE CompileInsertsRow(r)
  BY <1>3, HandlerTypes DEF CompileInsertsRow, Typed, TypeOK, Numbered, Status
<1>4. CASE CompileLinks(r, "link", "get") \/ CompileLinks(r, "relink", "publish")
  BY <1>4, HandlerTypes DEF CompileLinks, Typed, TypeOK, Numbered
<1>5. CASE CompileGets(r)
  BY <1>5, HandlerTypes DEF CompileGets, Typed, TypeOK, Numbered
<1>6. CASE CompileSetsQueued(r) \/ DeleteSetsDeleting(r) \/ RemoveSetsDeleting(r)
  <2>1. SetApk(hapk[r], "QUEUED") \/ SetApk(hapk[r], "DELETING")
    BY <1>6 DEF CompileSetsQueued, DeleteSetsDeleting, RemoveSetsDeleting
  <2>2. apk' \in [Apk -> Status]
    BY <2>1, SetApkTypes DEF Status
  <2>3. Proceed(r, "relink") \/ Proceed(r, "publish_delete") \/ Finish(r)
    BY <1>6 DEF CompileSetsQueued, DeleteSetsDeleting, RemoveSetsDeleting
  <2>4. /\ hpc' \in [Request -> HandlerPc]
        /\ hapk' \in [Request -> Apk \cup {None}]
        /\ \A q \in Request : hpc'[q] = "idle" => hpc[q] = "idle"
    BY <2>3, HandlerTypes
  <2> QED  BY <1>6, <2>2, <2>4 DEF CompileSetsQueued, DeleteSetsDeleting, RemoveSetsDeleting,
                                   Typed, TypeOK, Numbered
<1>7. CASE CompilePublishes(r)
  BY <1>7, HandlerTypes DEF CompilePublishes, Typed, TypeOK, Numbered
<1>8. CASE RemovalPublishes(r, "publish_delete", "drop") \/ RemovalPublishes(r, "publish_remove", "late")
  BY <1>8, HandlerTypes DEF RemovalPublishes, Typed, TypeOK, Numbered
<1>9. CASE DeleteDrops(r)
  BY <1>9, HandlerTypes DEF DeleteDrops, Typed, TypeOK, Numbered
<1>10. CASE Abort(r)
  BY <1>10, HandlerTypes DEF Abort, Trouble, Typed, TypeOK, Numbered
<1> QED  BY <1>1, <1>2, <1>3, <1>4, <1>5, <1>6, <1>7, <1>8, <1>9, <1>10 DEF Handler

LEMMA AskTypes ==
    ASSUME Typed, NEW r \in Request, Ask(r)
    PROVE  Typed'
<1> USE DEF rows, history, queue, work
<1>1. ASSUME NEW pc \in HandlerPc \ {"idle"}, NEW a \in Apk \cup {None}, Begin(r, pc, a)
      PROVE  /\ hpc' \in [Request -> HandlerPc]
             /\ hapk' \in [Request -> Apk \cup {None}]
             /\ hpc[r] = "idle" /\ issued < r
             /\ \A q \in Request : hpc'[q] = "idle" => hpc[q] = "idle" /\ r < q
  <2>1. hpc' = [hpc EXCEPT ![r] = pc] /\ hapk' = [hapk EXCEPT ![r] = a]
    BY <1>1 DEF Begin
  <2>2. ASSUME NEW q \in Request, hpc'[q] = "idle" PROVE hpc[q] = "idle" /\ r < q
    BY <1>1, <2>1, <2>2 DEF Begin, Typed, TypeOK, Request
  <2> QED  BY <1>1, <2>1, <2>2 DEF Begin, Typed, TypeOK, Numbered
<1>2. CASE CompileReads(r)
  <2>1. issued + 1 \in Apk
    BY <1>2 DEF CompileReads, Begin, Typed, TypeOK, Numbered, Request, Apk
  <2>2. (IF linked # None THEN linked ELSE issued + 1) \in Apk \cup {None}
    BY <2>1 DEF Typed, TypeOK
  <2>3. /\ hpc' \in [Request -> HandlerPc]
        /\ hapk' \in [Request -> Apk \cup {None}]
        /\ \A q \in Request : hpc'[q] = "idle" => hpc[q] = "idle" /\ r < q
        /\ issued < r
    BY <1>1, <1>2, <2>2 DEF CompileReads, HandlerPc
  <2>4. issued' \in 0..MaxRequests /\ issued' <= r
    BY <1>2, <2>1, <2>3 DEF CompileReads, Typed, TypeOK, Apk, Request
  <2> QED  BY <1>2, <2>3, <2>4 DEF CompileReads, Typed, TypeOK, Numbered, Request
<1>3. CASE DeleteReads(r)
  <2>1. linked \in Apk \cup {None}
    BY DEF Typed, TypeOK
  <2>2. /\ hpc' \in [Request -> HandlerPc]
        /\ hapk' \in [Request -> Apk \cup {None}]
        /\ \A q \in Request : hpc'[q] = "idle" => hpc[q] = "idle"
    BY <1>1, <1>3, <2>1 DEF DeleteReads, HandlerPc
  <2> QED  BY <1>3, <2>2 DEF DeleteReads, Typed, TypeOK, Numbered
<1>4. ASSUME NEW a \in Apk, RemoveLooksUp(r, a) PROVE Typed'
  <2>1. /\ hpc' \in [Request -> HandlerPc]
        /\ hapk' \in [Request -> Apk \cup {None}]
        /\ \A q \in Request : hpc'[q] = "idle" => hpc[q] = "idle"
    BY <1>1, <1>4 DEF RemoveLooksUp, HandlerPc
  <2> QED  BY <1>4, <2>1 DEF RemoveLooksUp, Typed, TypeOK, Numbered
<1> QED  BY <1>2, <1>3, <1>4 DEF Ask

LEMMA WorkerTypes ==
    ASSUME Typed, NEW w \in Worker, Take(w) \/ WorkerStep(w) \/ Redeliver(w) \/ Fail(w)
    PROVE  Typed'
<1> USE DEF rows, history, queue, http, WorkerPc, Calls, CompileCalls, DeleteCalls
<1>0. Cardinality(boxes[w]) \in Nat
  BY BoxesAreFew DEF Typed, TypeOK
<1>1. CASE TakeCompile(w)
  BY <1>1 DEF TakeCompile, Typed, TypeOK, Numbered
<1>2. ASSUME NEW a \in Apk, TakeRemoval(w, a) PROVE Typed'
  BY <1>2 DEF TakeRemoval, Typed, TypeOK, Numbered
<1>3. ASSUME Rest(w)
      PROVE  /\ wmsg' \in [Worker -> {"none", "compile", "delete"}]
             /\ wapk' \in [Worker -> Apk \cup {None}] /\ wpc' \in [Worker -> WorkerPc]
             /\ wcontent' \in [Worker -> Nat] /\ boxes' \in [Worker -> SUBSET {"dslcc", "testcc"}]
             /\ left' \in Nat
             /\ \A v \in Worker : wmsg'[v] = "delete" => wapk'[v] \in Apk
  BY <1>0, <1>3 DEF Rest, Abandon, Typed, TypeOK, Numbered
<1>4. CASE Ack(w)
  BY <1>3, <1>4 DEF Ack, Typed, TypeOK, Numbered
<1>5. CASE Redeliver(w)
  BY <1>3, <1>5 DEF Redeliver, Trouble, Typed, TypeOK, Numbered
<1>6. CASE Fail(w)
  BY <1>0, <1>6 DEF Fail, Abandon, Trouble, Typed, TypeOK, Numbered
<1>7. CASE Check(w)
  BY <1>7 DEF Check, Goto, Typed, TypeOK, Numbered
<1>8. CASE SetError(w)
  BY <1>8 DEF SetError, Goto, Typed, TypeOK, Numbered
<1>9. CASE ReadsApkId(w)
  BY <1>9 DEF ReadsApkId, At, Typed, TypeOK, Numbered
<1>10. CASE ReadsContent(w)
  BY <1>10 DEF ReadsContent, Typed, TypeOK, Numbered
<1>11. CASE GetsApk(w) \/ Copies(w) \/ DeleteGets(w)
  BY <1>11 DEF GetsApk, Copies, DeleteGets, Goto, Typed, TypeOK, Numbered
<1>12. ASSUME NEW task, NEW here, NEW status \in Status, NEW next \in WorkerPc,
              Sets(w, task, here, status, next)
       PROVE  Typed'
  <2>1. apk' \in [Apk -> Status]
    BY <1>12, SetApkTypes DEF Sets
  <2> QED  BY <1>12, <2>1 DEF Sets, Goto, Typed, TypeOK, Numbered
<1>13. CASE Runs(w, "dslcc", "copy", "refuse_dsl") \/ Runs(w, "testcc", "rm_dslcc", "refuse_java")
  BY <1>13 DEF Runs, Typed, TypeOK, Numbered
<1>14. ASSUME NEW here, NEW gone, NEW next \in WorkerPc, Removes(w, here, gone, next)
       PROVE  Typed'
  <2>1. boxes' \in [Worker -> SUBSET {"dslcc", "testcc"}]
    BY <1>14 DEF Removes, Typed, TypeOK
  <2> QED  BY <1>14, <2>1 DEF Removes, Typed, TypeOK, Numbered
<1>15. CASE Stores(w)
  BY <1>15 DEF Stores, Goto, Typed, TypeOK, Numbered
<1>16. CASE DeleteRemoves(w, "d_rm", "d_unlink") \/ DeleteRemoves(w, "m_rm", "m_unlink")
  BY <1>16 DEF DeleteRemoves, Goto, Typed, TypeOK, Numbered
<1>17. CASE DeleteUnlinks(w, "d_unlink", "d_deleted") \/ DeleteUnlinks(w, "m_unlink", "error")
  BY <1>17 DEF DeleteUnlinks, Goto, Typed, TypeOK, Numbered
<1>18. CASE Compile(w)
  BY <1>9, <1>10, <1>11, <1>12, <1>13, <1>14, <1>15, <1>18 DEF Compile, Status
<1>19. CASE Delete(w)
  BY <1>11, <1>12, <1>16, <1>17, <1>19 DEF Delete, Status
<1> QED  BY <1>1, <1>2, <1>4, <1>5, <1>6, <1>7, <1>8, <1>18, <1>19 DEF Take, WorkerStep

LEMMA TypeStep == Typed /\ [Next]_vars => Typed'
<1> SUFFICES ASSUME Typed, [Next]_vars PROVE Typed'
  OBVIOUS
<1>1. CASE Uploads
  BY <1>1 DEF Uploads, Typed, TypeOK, Numbered, history, queue, http, work
<1>2. ASSUME NEW a \in Apk, CampaignUses(a) PROVE Typed'
  BY <1>2 DEF CampaignUses, Typed, TypeOK, Numbered, history, queue, http, work
<1>3. CASE UNCHANGED vars
  BY <1>3 DEF vars, rows, history, queue, http, work, Typed, TypeOK, Numbered
<1> QED  BY <1>1, <1>2, <1>3, AskTypes, HandlerStepTypes, WorkerTypes DEF Next

LEMMA TypedAlways == Spec => []Typed
BY TypeInit, TypeStep, PTL DEF Spec

\* Every variable stays within its type.
THEOREM TypeCorrect == Spec => []TypeOK
<1>1. Typed => TypeOK
  BY DEF Typed
<1> QED  BY <1>1, TypedAlways, PTL

--------------------------------------------------------------------------------
(* The containers of a compilation.                                             *)

\* The calls at which a compilation has containers.
Boxed == {"copy", "java", "testcc", "refuse_dsl", "refuse_java", "rm_failed", "rm_last",
          "rm_dslcc", "store", "rm_testcc"}

Counted ==
    /\ left <= 2 * troubles
    /\ \A w \in Worker : wpc[w] \notin Boxed => boxes[w] = {}
    /\ \A w \in Worker : wpc[w] \in {"store", "rm_testcc"} => boxes[w] \subseteq {"testcc"}

LEMMA CountedStep == Typed /\ Counted /\ [Next]_vars => Counted'
<1> SUFFICES ASSUME Typed, Counted, [Next]_vars PROVE Counted'
  OBVIOUS
<1> USE DEF Boxed
<1>1. CASE UNCHANGED <<boxes, wpc, left, troubles>>
  BY <1>1 DEF Counted
<1>2. ASSUME NEW r \in Request, Abort(r) PROVE Counted'
  BY <1>2 DEF Abort, Trouble, Counted, Typed, TypeOK, work
<1>3. ASSUME NEW w \in Worker, Take(w) \/ Check(w) \/ SetError(w) PROVE Counted'
  <2>1. /\ wpc[w] \in {"idle", "check", "error"} /\ UNCHANGED <<boxes, left, troubles>>
        /\ \E pc \in {"check", "apk_id", "ack", "d_get"} : wpc' = [wpc EXCEPT ![w] = pc]
    BY <1>3 DEF Take, TakeCompile, TakeRemoval, Check, SetError, Goto
  <2> QED  BY <2>1 DEF Counted, Typed, TypeOK
<1>4. ASSUME NEW w \in Worker, Ack(w) \/ Redeliver(w) \/ Fail(w) PROVE Counted'
  <2>1. /\ boxes' = [boxes EXCEPT ![w] = {}]
        /\ left' = left + Cardinality(boxes[w])
        /\ \E pc \in {"idle", "error"} : wpc' = [wpc EXCEPT ![w] = pc]
    BY <1>4 DEF Ack, Redeliver, Fail, Rest, Abandon
  <2>2. left' <= 2 * troubles'
    <3> DEFINE n == Cardinality(boxes[w])
    <3>3. n \in 0..2 /\ (boxes[w] = {} => n = 0) /\ left' = left + n
      BY <2>1, BoxesAreFew DEF Typed, TypeOK
    <3> HIDE DEF n
    <3>0. left \in Nat /\ troubles \in Nat /\ left <= 2 * troubles
      BY DEF Counted, Typed, TypeOK
    <3>1. CASE wpc[w] = "ack" /\ troubles' = troubles
      <4>1. n = 0
        BY <3>1, <3>3 DEF Counted
      <4> QED  BY <3>0, <3>1, <3>3, <4>1
    <3>2. CASE troubles' = troubles + 1
      BY <3>0, <3>2, <3>3
    <3> QED  BY <1>4, <3>1, <3>2 DEF Ack, Redeliver, Fail, Trouble
  <2> QED  BY <2>1, <2>2 DEF Counted, Typed, TypeOK
<1>5. ASSUME NEW w \in Worker, Compile(w) PROVE Counted'
  <2> USE DEF Goto, At, Counted, Typed, TypeOK
  <2>1. CASE ReadsApkId(w)    BY <2>1 DEF ReadsApkId
  <2>2. CASE ReadsContent(w)  BY <2>2 DEF ReadsContent
  <2>3. CASE GetsApk(w) \/ Copies(w) \/ Stores(w)
    BY <2>3 DEF GetsApk, Copies, Stores
  <2>4. CASE \/ Sets(w, "compile", "dsl", "COMPILING DSL", "dslcc")
             \/ Sets(w, "compile", "java", "COMPILING JAVA", "testcc")
             \/ Sets(w, "compile", "ready", "READY", "ack")
             \/ Sets(w, "compile", "refuse_dsl", "ERROR", "rm_last")
             \/ Sets(w, "compile", "refuse_java", "ERROR", "rm_failed")
    BY <2>4 DEF Sets
  <2>5. CASE Runs(w, "dslcc", "copy", "refuse_dsl") \/ Runs(w, "testcc", "rm_dslcc", "refuse_java")
    BY <2>5 DEF Runs
  <2>6. CASE \/ Removes(w, "rm_failed", {"dslcc"}, "rm_last")
             \/ Removes(w, "rm_last", {"dslcc", "testcc"}, "ack")
    BY <2>6 DEF Removes
  <2>7. CASE Removes(w, "rm_dslcc", {"dslcc"}, "store")
    BY <2>7 DEF Removes
  <2>8. CASE Removes(w, "rm_testcc", {"testcc"}, "ready")
    BY <2>8 DEF Removes
  <2> QED  BY <1>5, <2>1, <2>2, <2>3, <2>4, <2>5, <2>6, <2>7, <2>8 DEF Compile
<1>6. ASSUME NEW w \in Worker, Delete(w) PROVE Counted'
  BY <1>6 DEF Delete, DeleteGets, DeleteRemoves, DeleteUnlinks, Sets, Goto, At, Counted, Typed, TypeOK
<1>7. ASSUME NEW r \in Request, Ask(r) \/ Handler(r) PROVE UNCHANGED <<boxes, wpc, left, troubles>>
  BY <1>7 DEF Ask, Handler, CompileReads, DeleteReads, RemoveLooksUp, CompileUnlinks, CompileDeletesRow,
     CompileInsertsRow, CompileLinks, CompileGets, CompileSetsQueued, CompilePublishes,
     DeleteSetsDeleting, RemovalPublishes, DeleteDrops, RemoveSetsDeleting, work
<1>8. ASSUME NEW a \in Apk, Uploads \/ CampaignUses(a) PROVE UNCHANGED <<boxes, wpc, left, troubles>>
  BY <1>8 DEF Uploads, CampaignUses, work
<1>9. Uploads => UNCHANGED <<boxes, wpc, left, troubles>>
  BY DEF Uploads, work
<1>10. UNCHANGED vars => UNCHANGED <<boxes, wpc, left, troubles>>
  BY DEF vars, work
<1> QED  BY <1>1, <1>2, <1>3, <1>4, <1>5, <1>6, <1>7, <1>8, <1>9, <1>10 DEF Next, WorkerStep

\* Every two containers that stay behind have cost a failure or a crash.
THEOREM ContainersCounted == Spec => []NoContainersLeft
<1>1. Init => Counted
  BY DEF Init, Counted
<1>2. Counted => NoContainersLeft
  BY DEF Counted, NoContainersLeft
<1> QED  BY TypedAlways, CountedStep, <1>1, <1>2, PTL DEF Spec

--------------------------------------------------------------------------------
(* An unfinished APK has a task that will read or has read it as the APK of the *)
(* source, or a handler that will publish one.                                  *)

\* Worker w is before the reading of apk_id, or compiles a and is not done, or failed.
Compiles(w, a) ==
    /\ wmsg[w] = "compile"
    /\ \/ wpc[w] \in {"check", "apk_id", "error"}
       \/ wapk[w] = a /\ wpc[w] \in CompileCalls \ {"rm_failed", "rm_last"}

Fresh(a) == compiles > 0 \/ \E w \in Worker : Compiles(w, a)

Handled(a) == \E r \in Request :
    hapk[r] = a /\ hpc[r] \in {"link", "get", "queued", "relink", "publish", "aborted"}

Supported(a) == Fresh(a) \/ Handled(a) \/ project = "ERROR"

Supplied == linked # None /\ apk[linked] \in Unfinished => Supported(linked)

\* The support of an APK outlasts a step of worker w, unless w was the support and is not
\* any more.
LEMMA WorkerSupports ==
    ASSUME Typed, NEW a, NEW w \in Worker, Supported(a), UNCHANGED http,
           project' \in {project, "ERROR"},
           \A v \in Worker : v # w => wmsg'[v] = wmsg[v] /\ wpc'[v] = wpc[v] /\ wapk'[v] = wapk[v],
           compiles' = compiles \/ compiles' > 0,
           Compiles(w, a) => Supported(a)'
    PROVE  Supported(a)'
<1> USE DEF Supported, Fresh
<1>1. CASE Handled(a)
  BY <1>1 DEF Handled, http
<1>2. CASE compiles > 0
  BY <1>2
<1>3. CASE \E v \in Worker : v # w /\ Compiles(v, a)
  BY <1>3 DEF Compiles
<1> QED  BY <1>1, <1>2, <1>3

LEMMA CompileSupplied ==
    ASSUME Typed, Supplied, NEW w \in Worker, Compile(w)
    PROVE  Supplied'
<1> USE DEF Typed, TypeOK, At, Goto, rows, history, queue, CompileCalls
<1>0. wmsg[w] = "compile" /\ UNCHANGED <<http, project, compiles, wmsg, linked>>
  BY DEF Compile, ReadsApkId, ReadsContent, GetsApk, Sets, Runs, Copies, Removes, Stores
<1>1. ASSUME NEW here \in {"dsl", "java"}, NEW status \in {"COMPILING DSL", "COMPILING JAVA"},
             NEW next \in {"dslcc", "testcc"}, Sets(w, "compile", here, status, next)
      PROVE  Supplied'
  <2>1. Compiles(w, wapk[w])' /\ UNCHANGED wapk
    BY <1>0, <1>1 DEF Sets, Compiles
  <2>2. CASE linked = wapk[w]
    BY <1>0, <2>1, <2>2 DEF Supplied, Supported, Fresh
  <2>3. CASE linked # wapk[w]
    <3>1. linked # None => apk'[linked] = apk[linked]
      BY <1>1, <2>3 DEF Sets, SetApk
    <3>2. Compiles(w, linked) => Supported(linked)'
      BY <1>0, <1>1, <2>3 DEF Sets, Compiles, Supported, Fresh
    <3> QED  BY <1>0, <1>1, <3>1, <3>2, WorkerSupports DEF Sets, Supplied
  <2> QED  BY <2>2, <2>3
<1>2. ASSUME NEW here \in {"refuse_dsl", "refuse_java", "ready"}, NEW status \in {"READY", "ERROR"}, NEW next,
             Sets(w, "compile", here, status, next)
      PROVE  Supplied'
  <2>1. CASE linked = wapk[w]
    BY <1>0, <1>2, <2>1 DEF Sets, SetApk, Supplied, Unfinished
  <2>2. CASE linked # wapk[w]
    <3>1. linked # None => apk'[linked] = apk[linked]
      BY <1>2, <2>2 DEF Sets, SetApk
    <3>2. ~Compiles(w, linked)
      BY <1>2, <2>2 DEF Sets, Compiles
    <3> QED  BY <1>0, <1>2, <3>1, <3>2, WorkerSupports DEF Sets, Supplied
  <2> QED  BY <2>1, <2>2
<1>3. ASSUME UNCHANGED apk,
             \A v \in Worker : v # w => wpc'[v] = wpc[v] /\ wapk'[v] = wapk[v],
             Compiles(w, linked) => Compiles(w, linked)'
      PROVE  Supplied'
  BY <1>0, <1>3, WorkerSupports DEF Supplied, Supported, Fresh
<1>4. CASE ReadsApkId(w)
  BY <1>0, <1>3, <1>4 DEF ReadsApkId, Compiles
<1>5. CASE ReadsContent(w)
  BY <1>0, <1>3, <1>5 DEF ReadsContent, Compiles
<1>6. CASE GetsApk(w) \/ Copies(w) \/ Stores(w)
  BY <1>0, <1>3, <1>6 DEF GetsApk, Copies, Stores, Compiles
<1>7. CASE Runs(w, "dslcc", "copy", "refuse_dsl") \/ Runs(w, "testcc", "rm_dslcc", "refuse_java")
  BY <1>0, <1>3, <1>7 DEF Runs, Compiles
<1>8. CASE \/ Removes(w, "rm_failed", {"dslcc"}, "rm_last")
           \/ Removes(w, "rm_last", {"dslcc", "testcc"}, "ack")
           \/ Removes(w, "rm_dslcc", {"dslcc"}, "store")
           \/ Removes(w, "rm_testcc", {"testcc"}, "ready")
  BY <1>0, <1>3, <1>8 DEF Removes, Compiles
<1> QED  BY <1>1, <1>2, <1>4, <1>5, <1>6, <1>7, <1>8 DEF Compile

LEMMA OtherWorkSupplied ==
    ASSUME Typed, Supplied, NEW w \in Worker,
           Take(w) \/ Check(w) \/ SetError(w) \/ Ack(w) \/ Redeliver(w) \/ Fail(w) \/ Delete(w)
    PROVE  Supplied'
<1> USE DEF Typed, TypeOK, At, Goto, rows, history, queue, Compiles, Supplied, Supported, Fresh
<1>1. CASE TakeCompile(w)
  BY <1>1 DEF TakeCompile
<1>2. ASSUME NEW a \in Apk, TakeRemoval(w, a) PROVE Supplied'
  BY <1>2, WorkerSupports DEF TakeRemoval, CompileCalls
<1>3. CASE Check(w)
  <2>1. \E pc \in {"apk_id", "ack", "d_get"} : /\ wpc' = [wpc EXCEPT ![w] = pc]
                                               /\ wmsg[w] = "compile" => pc = "apk_id"
    BY <1>3 DEF Check
  <2>2. UNCHANGED <<linked, apk, compiles, http, project, wmsg, wapk>>
    BY <1>3 DEF Check
  <2>3. wpc[w] = "check"
    BY <1>3 DEF Check
  <2>4. Compiles(w, linked) => Supported(linked)'
    BY <2>1, <2>2, <2>3
  <2> QED  BY <2>1, <2>2, <2>4, WorkerSupports
<1>4. CASE SetError(w)
  BY <1>4, WorkerSupports DEF SetError, CompileCalls
<1>5. CASE Ack(w)
  BY <1>5, WorkerSupports DEF Ack, Rest, CompileCalls
<1>6. CASE Redeliver(w)
  BY <1>6, WorkerSupports DEF Redeliver, Rest
<1>7. CASE Fail(w)
  BY <1>7, WorkerSupports DEF Fail, CompileCalls
<1>8. CASE Delete(w)
  <2>1. /\ wmsg[w] = "delete" /\ UNCHANGED <<compiles, http, project, wmsg, wapk>>
        /\ \A v \in Worker : v # w => wpc'[v] = wpc[v]
        /\ linked' \in {linked, None}
    BY <1>8 DEF Delete, DeleteGets, DeleteRemoves, DeleteUnlinks, Sets
  <2>2. apk' = apk \/ SetApk(wapk[w], "DELETED")
    BY <1>8 DEF Delete, DeleteGets, DeleteRemoves, DeleteUnlinks, Sets
  <2>3. linked # None /\ apk'[linked] \in Unfinished => apk[linked] \in Unfinished
    BY <2>2 DEF SetApk, Unfinished
  <2>4. ~Compiles(w, linked)
    BY <2>1
  <2> QED  BY <2>1, <2>3, <2>4, WorkerSupports
<1> QED  BY <1>1, <1>2, <1>3, <1>4, <1>5, <1>6, <1>7, <1>8 DEF Take

\* What the workers support, they support after a step of the server.
LEMMA ServerKeepsFresh ==
    ASSUME Typed, NEW a, UNCHANGED <<work, project>>, compiles' = compiles \/ compiles' > 0,
           Fresh(a) \/ project = "ERROR"
    PROVE  Supported(a)'
BY DEF Supported, Fresh, Compiles, work

\* So do the handlers of other requests.
LEMMA ServerSupports ==
    ASSUME Typed, NEW a, NEW r \in Request, UNCHANGED <<work, project>>,
           compiles' = compiles \/ compiles' > 0,
           \A q \in Request : q # r => hpc'[q] = hpc[q] /\ hapk'[q] = hapk[q],
           Supported(a),
           hapk[r] = a /\ hpc[r] \in {"link", "get", "queued", "relink", "publish", "aborted"}
               => Supported(a)'
    PROVE  Supported(a)'
<1>1. CASE Handled(a)
  BY <1>1 DEF Handled, Supported
<1>2. CASE Fresh(a) \/ project = "ERROR"
  BY <1>2, ServerKeepsFresh
<1> QED  BY <1>1, <1>2 DEF Supported

LEMMA HandlerSupplied ==
    ASSUME Typed, Supplied, NEW r \in Request, Ask(r) \/ Handler(r) \/ Abort(r)
    PROVE  Supplied'
<1> USE DEF Typed, TypeOK, rows, history, queue, Proceed, Finish, SetApk
<1>1. CASE Ask(r)
  <2>1. /\ UNCHANGED <<linked, apk, work, project, compiles>> /\ hpc[r] = "idle"
        /\ \A q \in Request : q # r => hpc'[q] = hpc[q] /\ hapk'[q] = hapk[q]
    BY <1>1 DEF Ask, CompileReads, DeleteReads, RemoveLooksUp, Begin
  <2> QED  BY <2>1, ServerSupports DEF Supplied
<1>2. CASE Abort(r)
  <2>1. /\ UNCHANGED <<linked, apk, work, project, compiles, hapk>> /\ hpc'[r] = "aborted"
        /\ \A q \in Request : q # r => hpc'[q] = hpc[q]
    BY <1>2 DEF Abort
  <2>2. ASSUME NEW a, hapk[r] = a PROVE Supported(a)'
    BY <2>1, <2>2 DEF Supported, Handled
  <2> QED  BY <2>1, <2>2, ServerSupports DEF Supplied
<1>3. CASE CompileUnlinks(r) \/ DeleteDrops(r)
  BY <1>3 DEF CompileUnlinks, DeleteDrops, Supplied
<1>4. CASE CompileDeletesRow(r)
  <2>1. /\ UNCHANGED <<linked, work, project, compiles>> /\ hpc[r] = "delete_row"
        /\ \A q \in Request : q # r => hpc'[q] = hpc[q] /\ hapk'[q] = hapk[q]
        /\ apk' = apk \/ apk' = [apk EXCEPT ![hapk[r]] = "NONE"]
    BY <1>4 DEF CompileDeletesRow
  <2>2. linked # None /\ apk'[linked] \in Unfinished => apk[linked] \in Unfinished
    BY <2>1 DEF Unfinished
  <2> QED  BY <2>1, <2>2, ServerSupports DEF Supplied
<1>5. CASE CompileInsertsRow(r)
  <2>1. /\ UNCHANGED <<linked, work, project, compiles>> /\ hpc[r] = "insert_row"
        /\ \A q \in Request : q # r => hpc'[q] = hpc[q] /\ hapk'[q] = hapk[q]
    BY <1>5 DEF CompileInsertsRow
  <2>2. CASE UNCHANGED apk
    BY <2>1, <2>2, ServerSupports DEF Supplied
  <2>3. CASE apk' = [apk EXCEPT ![hapk[r]] = "QUEUED"] /\ hpc' = [hpc EXCEPT ![r] = "link"] /\ UNCHANGED hapk
    <3>1. CASE linked = hapk[r]
      BY <2>1, <2>3, <3>1 DEF Supplied, Supported, Handled
    <3>2. CASE linked # hapk[r]
      BY <2>1, <2>3, <3>2, ServerSupports DEF Supplied
    <3> QED  BY <3>1, <3>2
  <2> QED  BY <1>5, <2>2, <2>3 DEF CompileInsertsRow
<1>6. ASSUME NEW here, NEW next \in {"get", "publish"}, CompileLinks(r, here, next), here \in {"link", "relink"}
      PROVE  Supplied'
  <2>1. /\ UNCHANGED <<apk, work, project, compiles>> /\ hpc[r] = here
        /\ \A q \in Request : q # r => hpc'[q] = hpc[q] /\ hapk'[q] = hapk[q]
    BY <1>6 DEF CompileLinks
  <2>2. CASE hpc' = [hpc EXCEPT ![r] = next] /\ UNCHANGED hapk
    <3>1. ASSUME NEW a, hapk[r] = a PROVE Supported(a)'
      BY <2>1, <2>2, <3>1 DEF Supported, Handled
    <3>2. linked' = linked \/ linked' = hapk[r]
      BY <1>6 DEF CompileLinks
    <3>3. CASE linked' = hapk[r]
      BY <3>1, <3>3, <2>2 DEF Supplied
    <3>4. CASE linked' = linked
      BY <2>1, <3>1, <3>4, ServerSupports DEF Supplied
    <3> QED  BY <3>2, <3>3, <3>4
  <2>3. CASE apk[hapk[r]] = "NONE" /\ UNCHANGED linked
    <3>1. linked # None /\ apk[linked] \in Unfinished => linked # hapk[r]
      BY <2>3 DEF Unfinished
    <3> QED  BY <2>1, <2>3, <3>1, ServerSupports DEF Supplied
  <2> QED  BY <1>6, <2>2, <2>3 DEF CompileLinks
<1>7. CASE CompileGets(r)
  <2>1. /\ UNCHANGED <<linked, apk, work, project, compiles>> /\ hpc[r] = "get"
        /\ \A q \in Request : q # r => hpc'[q] = hpc[q] /\ hapk'[q] = hapk[q]
    BY <1>7 DEF CompileGets
  <2>2. CASE hpc' = [hpc EXCEPT ![r] = "queued"] /\ UNCHANGED hapk
    <3>1. ASSUME NEW a, hapk[r] = a PROVE Supported(a)'
      BY <2>1, <2>2, <3>1 DEF Supported, Handled
    <3> QED  BY <2>1, <3>1, ServerSupports DEF Supplied
  <2>3. CASE ~Visible(hapk[r])
    <3>1. linked # None /\ apk[linked] \in Unfinished => linked # hapk[r]
      BY <2>3 DEF Unfinished, Visible
    <3> QED  BY <2>1, <3>1, ServerSupports DEF Supplied
  <2> QED  BY <1>7, <2>2, <2>3 DEF CompileGets
<1>8. CASE CompileSetsQueued(r)
  <2>1. /\ UNCHANGED <<linked, work, project, compiles, hapk>> /\ hpc' = [hpc EXCEPT ![r] = "relink"]
    BY <1>8 DEF CompileSetsQueued
  <2>2. Supported(hapk[r])'
    BY <2>1 DEF Supported, Handled
  <2>3. CASE linked = hapk[r]
    BY <2>1, <2>2, <2>3 DEF Supplied
  <2>4. CASE linked # hapk[r]
    <3>1. linked # None => apk'[linked] = apk[linked]
      BY <1>8, <2>4 DEF CompileSetsQueued
    <3> QED  BY <2>1, <2>2, <3>1, ServerSupports DEF Supplied
  <2> QED  BY <2>3, <2>4
<1>9. CASE CompilePublishes(r)
  BY <1>9 DEF CompilePublishes, Supplied, Supported, Fresh
<1>10. CASE DeleteSetsDeleting(r) \/ RemoveSetsDeleting(r)
  <2>1. /\ UNCHANGED <<linked, work, project, compiles>> /\ hpc[r] \in {"deleting", "late"}
        /\ \A q \in Request : q # r => hpc'[q] = hpc[q] /\ hapk'[q] = hapk[q]
        /\ SetApk(hapk[r], "DELETING")
    BY <1>10 DEF DeleteSetsDeleting, RemoveSetsDeleting
  <2>2. linked # None /\ apk'[linked] \in Unfinished => apk[linked] \in Unfinished
    BY <2>1 DEF Unfinished
  <2> QED  BY <2>1, <2>2, ServerSupports DEF Supplied
<1>11. CASE RemovalPublishes(r, "publish_delete", "drop") \/ RemovalPublishes(r, "publish_remove", "late")
  <2>1. /\ UNCHANGED <<linked, apk, work, project, compiles>> /\ hpc[r] \in {"publish_delete", "publish_remove"}
        /\ \A q \in Request : q # r => hpc'[q] = hpc[q] /\ hapk'[q] = hapk[q]
    BY <1>11 DEF RemovalPublishes
  <2> QED  BY <2>1, ServerSupports DEF Supplied
<1> QED  BY <1>1, <1>2, <1>3, <1>4, <1>5, <1>6, <1>7, <1>8, <1>9, <1>10, <1>11 DEF Handler

LEMMA SuppliedStep == Typed /\ Supplied /\ [Next]_vars => Supplied'
<1> SUFFICES ASSUME Typed, Supplied, [Next]_vars PROVE Supplied'
  OBVIOUS
<1>1. ASSUME UNCHANGED <<linked, apk, compiles, project, http, work>> PROVE Supplied'
  BY <1>1 DEF Supplied, Supported, Fresh, Handled, Compiles, http, work
<1>2. (Uploads \/ (\E a \in Apk : CampaignUses(a)) \/ UNCHANGED vars)
         => UNCHANGED <<linked, apk, compiles, project, http, work>>
  BY DEF Uploads, CampaignUses, vars, rows, queue
<1> QED  BY <1>1, <1>2, HandlerSupplied, CompileSupplied, OtherWorkSupplied DEF Next, WorkerStep

\* Whatever the workers, the requests and the failures: an APK that its source shows as
\* queued or compiling is not forgotten.
THEOREM NeverForgotten == Spec => []UnfinishedIsPending
<1>1. Init => Supplied
  BY DEF Init, Supplied
<1>2. Supplied => UnfinishedIsPending
  BY DEF Supplied, Supported, Fresh, Handled, Compiles, UnfinishedIsPending, CompilePending, HandlerHas
<1> QED  BY TypedAlways, SuppliedStep, <1>1, <1>2, PTL DEF Spec

--------------------------------------------------------------------------------
(* With one worker, a READY APK is as new as the last request to compile.        *)

OneWorker == \A v, w \in Worker : v = w

\* A deletion of APK a is pending, or its ERROR was lost.
Leaves(a) == removals[a] > 0 \/ a \in unrecorded
             \/ \E w \in Worker : wmsg[w] = "delete" /\ wapk[w] = a /\ wpc[w] \notin {"idle", "ack"}

Covered(a) == Supported(a) \/ stored[a] >= asked \/ Leaves(a)

Current == linked # None /\ apk[linked] = "READY" => Covered(linked)

\* The calls after the content was read.
ReadPc == CompileCalls \ {"apk_id", "content"}

\* What the worker read is new enough, unless another compilation waits.
Reading ==
    /\ asked <= content
    /\ \A w \in Worker : wmsg[w] = "compile" =>
          /\ wpc[w] \in ReadPc => wcontent[w] >= asked \/ compiles > 0
          /\ wpc[w] \in ReadPc \ {"get"} => wapk[w] # None
          /\ wpc[w] \in {"rm_testcc", "ready"} => stored[wapk[w]] = wcontent[w]

\* The handlers and Abort leave the files and the workers alone, do not set READY, and
\* a handler that has an APK keeps it or hands it over.
LEMMA ServerLeaves ==
    ASSUME Typed, NEW r \in Request, Ask(r) \/ Handler(r) \/ Abort(r)
    PROVE  /\ UNCHANGED <<work, project, stored, unrecorded, content>>
           /\ compiles' = compiles \/ compiles' > 0
           /\ asked' = asked \/ (asked' = content /\ compiles' > 0)
           /\ \A a \in Apk : removals[a] > 0 => removals'[a] > 0
           /\ \A a \in Apk : apk'[a] = "READY" => apk[a] = "READY"
           /\ \A q \in Request : q # r => hpc'[q] = hpc[q] /\ hapk'[q] = hapk[q]
<1>a. compiles \in Nat
  BY DEF Typed, TypeOK
<1>b. removals \in [Apk -> Nat]
  BY DEF Typed, TypeOK
<1>0. /\ apk \in [Apk -> Status]
      /\ hpc \in [Request -> HandlerPc] /\ hapk \in [Request -> Apk \cup {None}]
  BY DEF Typed, TypeOK
<1>1. \A q \in Request : q # r => hpc'[q] = hpc[q] /\ hapk'[q] = hapk[q]
  BY <1>0 DEF Ask, Handler, Abort, CompileReads, DeleteReads, RemoveLooksUp, CompileUnlinks,
       CompileDeletesRow, CompileInsertsRow, CompileLinks, CompileGets, CompileSetsQueued,
       CompilePublishes, DeleteSetsDeleting, RemovalPublishes, DeleteDrops, RemoveSetsDeleting,
       Proceed, Finish, Begin
<1>2. ASSUME NEW a, NEW status \in Status \ {"READY"}, apk' = [apk EXCEPT ![a] = status] \/ SetApk(a, status)
      PROVE  \A b \in Apk : apk'[b] = "READY" => apk[b] = "READY"
  BY <1>0, <1>2 DEF SetApk
<1> USE DEF rows, history, queue, Status
<1>3. CASE Ask(r)
  BY <1>1, <1>3 DEF Ask, CompileReads, DeleteReads, RemoveLooksUp
<1>4. CASE Abort(r) \/ CompileGets(r)
  BY <1>1, <1>4 DEF Abort, CompileGets
<1>10. CASE CompileUnlinks(r) \/ DeleteDrops(r)
  BY <1>1, <1>10 DEF CompileUnlinks, DeleteDrops
<1>5. CASE CompileDeletesRow(r) \/ CompileInsertsRow(r)
  <2>1. apk' = apk \/ apk' = [apk EXCEPT ![hapk[r]] = "NONE"] \/ apk' = [apk EXCEPT ![hapk[r]] = "QUEUED"]
    BY <1>5 DEF CompileDeletesRow, CompileInsertsRow
  <2>2. \A a \in Apk : apk'[a] = "READY" => apk[a] = "READY"
    BY <1>2, <2>1
  <2> QED  BY <1>1, <1>5, <2>2 DEF CompileDeletesRow, CompileInsertsRow
<1>6. CASE CompileLinks(r, "link", "get") \/ CompileLinks(r, "relink", "publish")
  BY <1>1, <1>6 DEF CompileLinks
<1>7. CASE CompileSetsQueued(r) \/ DeleteSetsDeleting(r) \/ RemoveSetsDeleting(r)
  BY <1>1, <1>2, <1>7 DEF CompileSetsQueued, DeleteSetsDeleting, RemoveSetsDeleting
<1>8. CASE CompilePublishes(r)
  <2>1. compiles' > 0
    BY <1>a, <1>8 DEF CompilePublishes
  <2>2. UNCHANGED <<rows, stored, project, unrecorded, removals, work>> /\ asked' = content
    BY <1>8 DEF CompilePublishes
  <2> QED  BY <1>1, <2>1, <2>2
<1>9. CASE RemovalPublishes(r, "publish_delete", "drop") \/ RemovalPublishes(r, "publish_remove", "late")
  <2>1. UNCHANGED <<rows, stored, project, history, compiles, work>>
    BY <1>9 DEF RemovalPublishes
  <2>2. \A a \in Apk : removals[a] > 0 => removals'[a] > 0
    BY <1>b, <1>9 DEF RemovalPublishes
  <2> QED  BY <1>1, <2>1, <2>2
<1> QED  BY <1>3, <1>4, <1>5, <1>6, <1>7, <1>8, <1>9, <1>10 DEF Handler

LEMMA ServerHandsOver ==
    ASSUME Typed, NEW r \in Request, Ask(r) \/ Handler(r) \/ Abort(r)
    PROVE  /\ \A a \in Apk :
                 hapk[r] = a /\ hpc[r] \in {"link", "get", "queued", "relink", "publish", "aborted"}
                     => Supported(a)' \/ apk[a] \in {"NONE", "DELETED"}
           /\ \A a \in Apk : linked' = a => linked = a \/ Supported(a)'
<1> USE DEF Typed, TypeOK, Proceed, Finish
<1>1. ASSUME NEW pc \in {"link", "get", "queued", "relink", "publish", "aborted"}, hapk' = hapk,
             hpc' = [hpc EXCEPT ![r] = pc]
      PROVE  \A a : hapk[r] = a => Supported(a)'
  BY <1>1 DEF Supported, Handled
<1>2. CASE Ask(r)
  BY <1>2 DEF Ask, CompileReads, DeleteReads, RemoveLooksUp, Begin, rows
<1>3. CASE Abort(r)
  <2>1. hapk' = hapk /\ hpc' = [hpc EXCEPT ![r] = "aborted"] /\ linked' = linked
    BY <1>3 DEF Abort, rows
  <2> QED  BY <1>1, <2>1
<1>4. CASE CompileUnlinks(r) \/ DeleteDrops(r)
  BY <1>4 DEF CompileUnlinks, DeleteDrops, None, Apk
<1>5. CASE CompileDeletesRow(r) \/ CompileInsertsRow(r)
  BY <1>5 DEF CompileDeletesRow, CompileInsertsRow
<1>6. ASSUME NEW here, NEW next \in {"get", "publish"}, CompileLinks(r, here, next)
      PROVE  /\ \A a \in Apk : hapk[r] = a => Supported(a)' \/ apk[a] \in {"NONE", "DELETED"}
             /\ \A a \in Apk : linked' = a => linked = a \/ Supported(a)'
  <2>1. CASE hpc' = [hpc EXCEPT ![r] = next] /\ UNCHANGED hapk
    <3>1. \A a : hapk[r] = a => Supported(a)'
      BY <1>1, <2>1
    <3>2. linked' \in {linked, hapk[r]}
      BY <1>6 DEF CompileLinks
    <3> QED  BY <3>1, <3>2
  <2>2. CASE apk[hapk[r]] = "NONE" /\ UNCHANGED linked
    BY <2>2
  <2> QED  BY <1>6, <2>1, <2>2 DEF CompileLinks
<1>7. CASE CompileGets(r)
  BY <1>1, <1>7 DEF CompileGets, rows, Visible, None, Apk
<1>8. CASE CompileSetsQueued(r)
  BY <1>1, <1>8 DEF CompileSetsQueued
<1>9. CASE CompilePublishes(r)
  BY <1>9 DEF CompilePublishes, Supported, Fresh, rows
<1>10. CASE DeleteSetsDeleting(r) \/ RemoveSetsDeleting(r)
  BY <1>10 DEF DeleteSetsDeleting, RemoveSetsDeleting
<1>11. CASE RemovalPublishes(r, "publish_delete", "drop") \/ RemovalPublishes(r, "publish_remove", "late")
  BY <1>11 DEF RemovalPublishes, rows
<1> QED  BY <1>2, <1>3, <1>4, <1>5, <1>6, <1>7, <1>8, <1>9, <1>10, <1>11 DEF Handler

LEMMA HandlerCurrent ==
    ASSUME Typed, Current, NEW r \in Request, Ask(r) \/ Handler(r) \/ Abort(r)
    PROVE  Current'
<1>1. ASSUME NEW a \in Apk, linked' = a, linked # a PROVE Covered(linked)'
  <2>1. Supported(a)'
    BY <1>1, ServerHandsOver
  <2> QED  BY <1>1, <2>1 DEF Covered
<1>2. ASSUME linked' = linked, linked # None, apk'[linked] = "READY"
      PROVE  Covered(linked)'
  <2>1. linked \in Apk /\ apk[linked] = "READY" /\ Covered(linked)
    BY <1>2, ServerLeaves DEF Typed, TypeOK, Current
  <2>2. CASE Supported(linked)
    <3>1. hapk[r] = linked /\ hpc[r] \in {"link", "get", "queued", "relink", "publish", "aborted"}
             => Supported(linked)'
      BY <2>1, <1>2, ServerHandsOver
    <3>2. ASSUME NEW a, a = linked, Supported(a), hapk[r] = a /\ hpc[r] \in
                     {"link", "get", "queued", "relink", "publish", "aborted"} => Supported(a)'
          PROVE  Supported(a)'
      BY <3>2, ServerLeaves, ServerSupports
    <3>3. Supported(linked)'
      BY <1>2, <2>2, <3>1, <3>2
    <3> QED  BY <1>2, <3>3 DEF Covered
  <2>3. CASE compiles' > 0
    BY <2>3 DEF Covered, Supported, Fresh
  <2>4. CASE asked' = asked /\ (stored[linked] >= asked \/ Leaves(linked))
    BY <1>2, <2>1, <2>4, ServerLeaves DEF Covered, Leaves, work
  <2> QED  BY <2>1, <2>2, <2>3, <2>4, ServerLeaves DEF Covered
<1>3. linked' \in Apk \cup {None}
  BY HandlerStepTypes, AskTypes DEF Typed, TypeOK
<1> QED  BY <1>1, <1>2, <1>3 DEF Current

\* What covers an APK outlasts a step of worker w, unless w was the cover and is not any
\* more.
LEMMA WorkerCovers ==
    ASSUME Typed, NEW a, NEW w \in Worker, Covered(a), UNCHANGED http,
           project' \in {project, "ERROR"}, asked' = asked,
           \A v \in Worker : v # w => wmsg'[v] = wmsg[v] /\ wpc'[v] = wpc[v] /\ wapk'[v] = wapk[v],
           compiles' = compiles \/ compiles' > 0,
           Compiles(w, a) => Supported(a)',
           stored[a] >= asked => Covered(a)',
           removals[a] > 0 => Leaves(a)',
           unrecorded \subseteq unrecorded',
           wmsg[w] = "delete" /\ wapk[w] = a /\ wpc[w] \notin {"idle", "ack"} => Leaves(a)'
    PROVE  Covered(a)'
<1>1. CASE Supported(a)
  BY <1>1, WorkerSupports DEF Covered
<1>2. CASE Leaves(a)
  BY <1>2 DEF Covered, Leaves
<1> QED  BY <1>1, <1>2 DEF Covered

LEMMA CompileCurrent ==
    ASSUME Typed, Current, Reading, NEW w \in Worker, Compile(w)
    PROVE  Current'
<1> USE DEF Typed, TypeOK, At, Goto, rows, history, queue, CompileCalls
<1>1. /\ wmsg[w] = "compile"
      /\ UNCHANGED <<http, project, asked, compiles, removals, unrecorded, wmsg, linked>>
      /\ \A v \in Worker : v # w => wpc'[v] = wpc[v] /\ wapk'[v] = wapk[v]
  BY DEF Compile, ReadsApkId, ReadsContent, GetsApk, Sets, Runs, Copies, Removes, Stores
<1>2. ASSUME UNCHANGED <<apk, stored>>, Compiles(w, linked) => Compiles(w, linked)'
      PROVE  Current'
  <2>1. Compiles(w, linked) => Supported(linked)'
    BY <1>1, <1>2 DEF Supported, Fresh
  <2>2. removals[linked] > 0 => Leaves(linked)'
    BY <1>1 DEF Leaves
  <2>3. stored[linked] >= asked => Covered(linked)'
    BY <1>1, <1>2 DEF Covered
  <2> QED  BY <1>1, <1>2, <2>1, <2>2, <2>3, WorkerCovers DEF Current
<1>3. ASSUME NEW here, NEW status, NEW next, Sets(w, "compile", here, status, next),
             here \in {"dsl", "java", "refuse_dsl", "refuse_java", "ready"},
             status # "READY" \/ here = "ready"
      PROVE  Current'
  <2>1. /\ wpc[w] = here /\ UNCHANGED <<stored, wapk, wcontent>>
        /\ SetApk(wapk[w], status)
    BY <1>3 DEF Sets
  <2>2. CASE linked = wapk[w] /\ status # "READY"
    BY <1>1, <2>1, <2>2 DEF Current, SetApk
  <2>3. CASE linked = wapk[w] /\ here = "ready"
    <3>1. compiles' > 0 \/ stored'[linked'] >= asked'
      BY <1>1, <2>1, <2>3 DEF Reading, ReadPc
    <3> QED  BY <3>1 DEF Current, Covered, Supported, Fresh
  <2>4. CASE linked # wapk[w]
    <3>1. linked # None => apk'[linked] = apk[linked]
      BY <2>1, <2>4 DEF SetApk
    <3>2. ~Compiles(w, linked)
      BY <1>3, <2>1, <2>4 DEF Compiles
    <3>3. (stored[linked] >= asked => Covered(linked)') /\ (removals[linked] > 0 => Leaves(linked)')
      BY <1>1, <2>1 DEF Covered, Leaves
    <3> QED  BY <1>1, <3>1, <3>2, <3>3, WorkerCovers DEF Current
  <2> QED  BY <1>3, <2>2, <2>3, <2>4
<1>4. CASE Stores(w)
  <2>1. Compiles(w, wapk[w])' /\ UNCHANGED <<apk, wapk>>
    BY <1>1, <1>4 DEF Stores, Compiles
  <2>2. CASE linked = wapk[w]
    BY <1>1, <2>1, <2>2 DEF Current, Covered, Supported, Fresh
  <2>3. CASE linked # wapk[w]
    <3>1. stored'[linked] = stored[linked]
      BY <1>4, <2>3 DEF Stores
    <3>2. ~Compiles(w, linked)
      BY <1>4, <2>3 DEF Stores, Compiles
    <3>3. (stored[linked] >= asked => Covered(linked)') /\ (removals[linked] > 0 => Leaves(linked)')
      BY <1>1, <3>1 DEF Covered, Leaves
    <3> QED  BY <1>1, <2>1, <3>2, <3>3, WorkerCovers DEF Current
  <2> QED  BY <2>2, <2>3
<1>5. CASE ReadsApkId(w)
  BY <1>1, <1>2, <1>5 DEF ReadsApkId, Compiles
<1>6. CASE ReadsContent(w)
  BY <1>1, <1>2, <1>6 DEF ReadsContent, Compiles
<1>7. CASE GetsApk(w) \/ Copies(w)
  BY <1>1, <1>2, <1>7 DEF GetsApk, Copies, Compiles
<1>8. CASE Runs(w, "dslcc", "copy", "refuse_dsl") \/ Runs(w, "testcc", "rm_dslcc", "refuse_java")
  BY <1>1, <1>2, <1>8 DEF Runs, Compiles
<1>9. CASE \/ Removes(w, "rm_failed", {"dslcc"}, "rm_last")
           \/ Removes(w, "rm_last", {"dslcc", "testcc"}, "ack")
           \/ Removes(w, "rm_dslcc", {"dslcc"}, "store")
           \/ Removes(w, "rm_testcc", {"testcc"}, "ready")
  BY <1>1, <1>2, <1>9 DEF Removes, Compiles
<1> QED  BY <1>3, <1>4, <1>5, <1>6, <1>7, <1>8, <1>9 DEF Compile

LEMMA OtherWorkCurrent ==
    ASSUME Typed, Current, NEW w \in Worker,
           Take(w) \/ Check(w) \/ SetError(w) \/ Ack(w) \/ Redeliver(w) \/ Fail(w) \/ Delete(w)
    PROVE  Current'
<1> USE DEF Typed, TypeOK, At, Goto, rows, history, queue, Compiles
<1>1. ASSUME UNCHANGED <<linked, apk, stored, asked, http, wmsg, wapk>>,
             project' \in {project, "ERROR"}, unrecorded \subseteq unrecorded',
             \A v \in Worker : v # w => wpc'[v] = wpc[v],
             UNCHANGED <<compiles, removals>>,
             Compiles(w, linked) => Supported(linked)',
             wmsg[w] = "delete" /\ wapk[w] = linked /\ wpc[w] \notin {"idle", "ack"} /\ apk[linked] = "READY"
                 => Leaves(linked)'
      PROVE  Current'
  <2>1. removals[linked] > 0 => Leaves(linked)'
    BY <1>1 DEF Leaves
  <2>2. stored[linked] >= asked => Covered(linked)'
    BY <1>1 DEF Covered
  <2> QED  BY <1>1, <2>1, <2>2, WorkerCovers DEF Current
<1>2. CASE TakeCompile(w)
  BY <1>2 DEF TakeCompile, Current, Covered, Supported, Fresh
<1>3. ASSUME NEW a \in Apk, TakeRemoval(w, a) PROVE Current'
  <2>1. /\ wmsg'[w] = "delete" /\ wapk'[w] = a /\ wpc'[w] = "check" /\ wpc[w] = "idle"
        /\ UNCHANGED <<linked, apk, stored, asked, unrecorded, project, compiles, http>>
        /\ \A v \in Worker : v # w => wmsg'[v] = wmsg[v] /\ wpc'[v] = wpc[v] /\ wapk'[v] = wapk[v]
        /\ \A b \in Apk : b # a => removals'[b] = removals[b]
    BY <1>3 DEF TakeRemoval
  <2>2. CASE linked = a
    BY <2>1, <2>2 DEF Current, Covered, Leaves
  <2>3. ASSUME linked # None, linked # a, apk[linked] = "READY" PROVE Covered(linked)'
    <3>1. ~Compiles(w, linked) /\ removals'[linked] = removals[linked]
      BY <2>1, <2>3 DEF CompileCalls
    <3>2. (removals[linked] > 0 => Leaves(linked)') /\ (stored[linked] >= asked => Covered(linked)')
      BY <2>1, <3>1 DEF Leaves, Covered
    <3>3. CASE Supported(linked)
      <4>1. Supported(linked)'
        BY <2>1, <3>1, <3>3 DEF Supported, Fresh, Handled, http
      <4> QED  BY <4>1 DEF Covered
    <3>4. CASE stored[linked] >= asked \/ removals[linked] > 0
      BY <3>2, <3>4 DEF Covered
    <3>5. CASE Leaves(linked) /\ ~(removals[linked] > 0)
      <4>1. linked \in unrecorded
              \/ \E v \in Worker : v # w /\ wmsg[v] = "delete" /\ wapk[v] = linked /\ wpc[v] \notin {"idle", "ack"}
        BY <2>1, <3>5 DEF Leaves, Numbered
      <4>2. Leaves(linked)'
        BY <2>1, <4>1 DEF Leaves
      <4> QED  BY <4>2 DEF Covered
    <3> QED  BY <2>3, <3>3, <3>4, <3>5 DEF Current, Covered
  <2> QED  BY <2>1, <2>2, <2>3 DEF Current
<1>4. CASE Check(w)
  <2>1. CASE wmsg[w] = "compile"
    BY <1>1, <1>4, <2>1 DEF Check, Supported, Fresh
  <2>2. CASE wmsg[w] # "compile"
    <3>1. wmsg[w] = "delete" /\ wapk[w] = linked /\ apk[linked] = "READY" => Leaves(linked)'
      BY <1>4, <2>2 DEF Check, Leaves
    <3> QED  BY <1>1, <1>4, <2>2, <3>1 DEF Check
  <2> QED  BY <2>1, <2>2
<1>5. CASE SetError(w)
  <2>1. CASE wmsg[w] = "compile"
    BY <1>1, <1>5, <2>1 DEF SetError, Supported
  <2>2. CASE wmsg[w] = "delete"
    BY <1>1, <1>5, <2>2 DEF SetError, Leaves
  <2> QED  BY <1>5, <2>1, <2>2 DEF SetError
<1>6. CASE Ack(w)
  <2>1. /\ wpc[w] = "ack" /\ ~Compiles(w, linked) /\ Cardinality(boxes[w]) = Cardinality(boxes[w])
        /\ UNCHANGED <<linked, apk, stored, asked, unrecorded, project, compiles, removals, http>>
        /\ \A v \in Worker : v # w => wmsg'[v] = wmsg[v] /\ wpc'[v] = wpc[v] /\ wapk'[v] = wapk[v]
    BY <1>6 DEF Ack, Rest, CompileCalls
  <2>2. (removals[linked] > 0 => Leaves(linked)') /\ (stored[linked] >= asked => Covered(linked)')
    BY <2>1 DEF Leaves, Covered
  <2> QED  BY <2>1, <2>2, WorkerCovers DEF Current
<1>7. CASE Redeliver(w)
  <2>1. /\ UNCHANGED <<linked, apk, stored, asked, unrecorded, project, http>>
        /\ \A v \in Worker : v # w => wmsg'[v] = wmsg[v] /\ wpc'[v] = wpc[v] /\ wapk'[v] = wapk[v]
        /\ compiles' = compiles \/ compiles' > 0
    BY <1>7 DEF Redeliver, Rest
  <2>2. wmsg[w] = "compile" => compiles' > 0
    BY <1>7 DEF Redeliver
  <2>3. \A a \in Apk : removals[a] > 0 \/ (wmsg[w] = "delete" /\ wapk[w] = a) => removals'[a] > 0
    BY <1>7 DEF Redeliver
  <2>4. ASSUME linked # None
        PROVE  /\ Compiles(w, linked) => Supported(linked)'
               /\ removals[linked] > 0 => Leaves(linked)'
               /\ stored[linked] >= asked => Covered(linked)'
               /\ wmsg[w] = "delete" /\ wapk[w] = linked => Leaves(linked)'
    BY <2>1, <2>2, <2>3, <2>4 DEF Leaves, Covered, Supported, Fresh
  <2> QED  BY <2>1, <2>4, WorkerCovers DEF Current
<1>8. CASE Fail(w)
  <2>1. /\ UNCHANGED <<linked, apk, stored, asked, unrecorded, project, http, wmsg, wapk, compiles, removals>>
        /\ wpc' = [wpc EXCEPT ![w] = "error"]
    BY <1>8 DEF Fail
  <2>2. Compiles(w, linked) => Supported(linked)'
    BY <2>1 DEF Supported, Fresh
  <2>3. wmsg[w] = "delete" /\ wapk[w] = linked => Leaves(linked)'
    BY <2>1 DEF Leaves
  <2> QED  BY <1>1, <2>1, <2>2, <2>3
<1>9. CASE Delete(w)
  <2>1. /\ wmsg[w] = "delete" /\ UNCHANGED <<compiles, removals, asked, unrecorded, http, project, wmsg, wapk>>
        /\ \A v \in Worker : v # w => wpc'[v] = wpc[v]
        /\ linked' \in {linked, None}
    BY <1>9 DEF Delete, DeleteGets, DeleteRemoves, DeleteUnlinks, Sets
  <2>2. CASE linked = wapk[w]
    <3>1. CASE wpc'[w] \notin {"idle", "ack"}
      BY <2>1, <2>2, <3>1 DEF Current, Covered, Leaves
    <3>2. CASE Sets(w, "delete", "d_deleted", "DELETED", "ack")
      BY <2>1, <2>2, <3>2 DEF Sets, SetApk, Current
    <3> QED  BY <1>9, <3>1, <3>2 DEF Delete, DeleteGets, DeleteRemoves, DeleteUnlinks
  <2>3. CASE linked # wapk[w] /\ linked # None
    <3>1. stored'[linked] = stored[linked] /\ apk'[linked] = apk[linked] /\ linked' = linked
      BY <1>9, <2>3 DEF Delete, DeleteGets, DeleteRemoves, DeleteUnlinks, Sets, SetApk
    <3>2. (removals[linked] > 0 => Leaves(linked)') /\ (stored[linked] >= asked => Covered(linked)')
      BY <2>1, <3>1 DEF Leaves, Covered
    <3> QED  BY <2>1, <2>3, <3>1, <3>2, WorkerCovers DEF Current
  <2> QED  BY <2>1, <2>2, <2>3 DEF Current
<1> QED  BY <1>2, <1>3, <1>4, <1>5, <1>6, <1>7, <1>8, <1>9 DEF Take

LEMMA ReadingStep ==
    ASSUME OneWorker
    PROVE  Typed /\ Reading /\ [Next]_vars => Reading'
<1> SUFFICES ASSUME Typed, Reading, [Next]_vars PROVE Reading'
  OBVIOUS
<1> USE OneWorker DEF OneWorker, Typed, TypeOK, Reading, ReadPc, CompileCalls, At, Goto, history, queue
<1>1. ASSUME UNCHANGED <<work, stored>>, asked' = asked \/ (asked' = content' /\ compiles' > 0),
             compiles' = compiles \/ compiles' > 0, content' \in {content, content + 1}
      PROVE  Reading'
  BY <1>1 DEF work
<1>2. ASSUME NEW r \in Request, Ask(r) \/ Handler(r) \/ Abort(r) PROVE Reading'
  BY <1>1, <1>2, ServerLeaves
<1>3. CASE Uploads \/ (\E a \in Apk : CampaignUses(a)) \/ UNCHANGED vars
  BY <1>1, <1>3 DEF Uploads, CampaignUses, vars, rows
<1>4. ASSUME NEW w \in Worker, wpc'[w] \notin ReadPc, UNCHANGED <<content, asked>> PROVE Reading'
  BY <1>4
<1>5. ASSUME NEW w \in Worker,
             Take(w) \/ Check(w) \/ SetError(w) \/ Ack(w) \/ Redeliver(w) \/ Fail(w)
      PROVE  Reading'
  <2>1. CASE Take(w)        BY <1>4, <2>1 DEF Take, TakeCompile, TakeRemoval, rows
  <2>2. CASE Check(w)       BY <1>4, <2>2 DEF Check, rows
  <2>3. CASE SetError(w)    BY <1>4, <2>3 DEF SetError, rows
  <2>4. CASE Ack(w)         BY <1>4, <2>4 DEF Ack, Rest, rows
  <2>5. CASE Redeliver(w)   BY <1>4, <2>5 DEF Redeliver, Rest, rows
  <2>6. CASE Fail(w)        BY <1>4, <2>6 DEF Fail, rows
  <2> QED  BY <1>5, <2>1, <2>2, <2>3, <2>4, <2>5, <2>6
<1>6. ASSUME NEW w \in Worker, wmsg[w] # "compile", UNCHANGED <<content, asked, wmsg>> PROVE Reading'
  BY <1>6
<1>7. ASSUME NEW w \in Worker, Delete(w) PROVE Reading'
  BY <1>6, <1>7 DEF Delete, DeleteGets, DeleteRemoves, DeleteUnlinks, Sets, rows
<1>8. ASSUME NEW w \in Worker, Compile(w) PROVE Reading'
  <2>1. ASSUME UNCHANGED <<content, asked, compiles, stored, wapk, wcontent>>, wpc[w] \in ReadPc,
               wpc'[w] \in {"rm_testcc", "ready"} => wpc[w] = "rm_testcc",
               wpc[w] = "get" => wapk[w] # None \/ wpc'[w] = "error",
               wmsg[w] = "compile"
        PROVE  Reading'
    BY <2>1
  <2>2. CASE ReadsApkId(w)
    BY <1>4, <2>2 DEF ReadsApkId, rows
  <2>3. CASE ReadsContent(w)
    BY <2>3 DEF ReadsContent, rows
  <2>4. CASE GetsApk(w)
    BY <2>1, <2>4 DEF GetsApk, Visible, rows
  <2>5. CASE \/ Sets(w, "compile", "dsl", "COMPILING DSL", "dslcc")
             \/ Sets(w, "compile", "java", "COMPILING JAVA", "testcc")
             \/ Sets(w, "compile", "refuse_dsl", "ERROR", "rm_last")
             \/ Sets(w, "compile", "refuse_java", "ERROR", "rm_failed")
             \/ Sets(w, "compile", "ready", "READY", "ack")
    BY <2>1, <2>5 DEF Sets
  <2>6. CASE Runs(w, "dslcc", "copy", "refuse_dsl") \/ Runs(w, "testcc", "rm_dslcc", "refuse_java")
    BY <2>1, <2>6 DEF Runs, rows
  <2>7. CASE Copies(w)
    BY <2>1, <2>7 DEF Copies, rows
  <2>8. CASE \/ Removes(w, "rm_failed", {"dslcc"}, "rm_last")
             \/ Removes(w, "rm_last", {"dslcc", "testcc"}, "ack")
             \/ Removes(w, "rm_dslcc", {"dslcc"}, "store")
             \/ Removes(w, "rm_testcc", {"testcc"}, "ready")
    BY <2>1, <2>8 DEF Removes, rows
  <2>9. CASE Stores(w)
    <3>1. wapk[w] \in Apk
      BY <2>9 DEF Stores
    <3> QED  BY <2>9, <3>1 DEF Stores, rows
  <2> QED  BY <1>8, <2>2, <2>3, <2>4, <2>5, <2>6, <2>7, <2>8, <2>9 DEF Compile
<1> QED  BY <1>2, <1>3, <1>5, <1>7, <1>8 DEF Next, WorkerStep

LEMMA CurrentStep == Typed /\ Current /\ Reading /\ [Next]_vars => Current'
<1> SUFFICES ASSUME Typed, Current, Reading, [Next]_vars PROVE Current'
  OBVIOUS
<1>1. CASE Uploads \/ (\E a \in Apk : CampaignUses(a)) \/ UNCHANGED vars
  <2>1. UNCHANGED <<linked, apk, stored, asked, unrecorded, compiles, removals, project, http, work>>
    BY <1>1 DEF Uploads, CampaignUses, vars, rows, history, queue
  <2> QED  BY <2>1 DEF Current, Covered, Leaves, Supported, Fresh, Handled, Compiles, http, work
<1> QED  BY <1>1, HandlerCurrent, CompileCurrent, OtherWorkCurrent DEF Next, WorkerStep

\* With one worker, a READY APK was made from the source as it was when its compilation
\* was last asked for, or later, unless something about it is on the way or was lost.
THEOREM ReadyWasCurrent ==
    ASSUME OneWorker
    PROVE  Spec => []ReadyIsCurrent
<1>1. Init => Current /\ Reading
  BY DEF Init, Current, Reading, ReadPc
<1>2. Current => ReadyIsCurrent
  BY DEF Current, Covered, Leaves, Supported, Fresh, Handled, Compiles, ReadyIsCurrent, CompilePending,
         RemovalPending, HandlerHas
<1>3. Typed /\ Reading /\ [Next]_vars => Reading'
  BY ReadingStep
<1> QED  BY TypedAlways, CurrentStep, <1>1, <1>2, <1>3, PTL DEF Spec
================================================================================
