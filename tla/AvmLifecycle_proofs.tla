-------------------------- MODULE AvmLifecycle_proofs --------------------------
(* Theorems about AvmLifecycle, for any number of machines, workers, requests   *)
(* and faults. The last three need one worker: with more, TLC refutes them.     *)
EXTENDS AvmLifecycle, FiniteSetTheorems, TLAPS

--------------------------------------------------------------------------------
(* Types.                                                                       *)

LEMMA FirstCall ==
    /\ First["avm_create"] = "c_get"
    /\ First["avm_containers_create"] = "p_get"
    /\ First["avm_delete"] = "d_get"
BY DEF First, Kind

\* A worker makes the calls of the task it has in hand. (Without this the types
\* are not inductive: what comes after is_task_obsolete depends on the task.)
InItsTask ==
    \A w \in Worker :
        /\ wpc[w] # "idle" => wtask[w] \in Kind
        /\ wpc[w] \in CreatePc => wtask[w] = "avm_create"
        /\ wpc[w] \in PlayerPc => wtask[w] = "avm_containers_create"
        /\ wpc[w] \in DeletePc => wtask[w] = "avm_delete"

Typed == TypeOK /\ InItsTask

LEMMA TypeInit == Init => Typed
BY LifecycleAssumption DEF Init, TypeOK, Typed, InItsTask, Status, Kind, CreatePc, PlayerPc,
                           DeletePc

LEMMA TypeStep == Typed /\ [Next]_vars => TypeOK'
<1> SUFFICES ASSUME Typed, [Next]_vars PROVE TypeOK'
  OBVIOUS
<1> USE LifecycleAssumption DEF Typed, TypeOK, Status, Kind, Running, CreatePc, PlayerPc, DeletePc,
        rows, resources, work, asked, http, Put
<1>1. ASSUME NEW r \in Request, NEW a \in Avm,
             CreateChecksQuota(r, a) \/ DeleteLooksUp(r, a) \/ Handler(r, a)
      PROVE  TypeOK'
  <2> USE DEF HandlerAt, HandlerGoto, HandlerEnds
  <2>1. CASE CreateChecksQuota(r, a)  BY <2>1 DEF CreateChecksQuota
  <2>2. CASE DeleteLooksUp(r, a)      BY <2>2 DEF DeleteLooksUp
  <2>3. CASE CreateInserts(r, a)      BY <2>3 DEF CreateInserts
  <2>4. CASE CreatePublishes(r, a)    BY <2>4 DEF CreatePublishes
  <2>5. CASE DeletePublishes(r, a)    BY <2>5 DEF DeletePublishes
  <2>6. CASE DeleteSetsStatus(r, a)   BY <2>6 DEF DeleteSetsStatus
  <2> QED  BY <1>1, <2>1, <2>2, <2>3, <2>4, <2>5, <2>6 DEF Handler
<1>2. ASSUME NEW r \in Request, Abort(r) PROVE TypeOK'
  BY <1>2 DEF Abort, HandlerEnds
<1>3. ASSUME NEW w \in Worker, NEW a \in Avm, NEW k \in Kind, Take(w, a, k) PROVE TypeOK'
  BY <1>3 DEF Take
<1>4. ASSUME NEW w \in Worker, NEW a \in Avm, Redeliver(w, a) PROVE TypeOK'
  <2>1. wtask[w] \in Kind
    BY <1>4 DEF Redeliver, InItsTask
  <2> QED  BY <1>4, <2>1 DEF Redeliver, Rest
<1>5. ASSUME NEW w \in Worker, NEW a \in Avm, Fail(w, a) PROVE TypeOK'
  <2>1. /\ amqp' \in [Avm -> BOOLEAN]
        /\ stack' \in [Avm -> BOOLEAN]
        /\ containers' \in [Avm -> BOOLEAN]
    BY <1>5 DEF Fail
  <2>2. wpc' \in [Worker -> Running \cup {"idle", "check", "error", "ack"}]
    BY <1>5 DEF Fail, Goto
  <2>3. faults' \in 0..MaxFaults
    BY <1>5 DEF Fail
  <2>4. UNCHANGED <<rows, queue, http, wtask, wavm>>
    BY <1>5 DEF Fail, Goto
  <2> QED  BY <2>1, <2>2, <2>3, <2>4
<1>6. ASSUME NEW w \in Worker, Ack(w) PROVE TypeOK'
  BY <1>6 DEF Ack, Rest
<1>7. ASSUME NEW w \in Worker, NEW a \in Avm, WorkerStep(w, a) PROVE TypeOK'
  <2> USE DEF At, Goto
  <2>1. CASE Check(w, a) \/ SetError(w, a)
    <3>1. CASE SetError(w, a)  BY <3>1 DEF SetError
    <3>2. CASE Check(w, a)     BY <3>2, FirstCall DEF Check, InItsTask
    <3> QED  BY <2>1, <3>1, <3>2
  <2>2. CASE AvmCreate(w, a)
    <3>1. CASE Get(w, a, "c_get", "c_status")  BY <3>1 DEF Get
    <3>2. CASE SetCreating(w, a)               BY <3>2 DEF SetCreating
    <3>3. CASE ConfigureAmqp(w, a)
      <4>1. CASE Visible(a)   BY <3>3, <4>1 DEF ConfigureAmqp
      <4>2. CASE ~Visible(a)  BY <3>3, <4>2 DEF ConfigureAmqp
      <4> QED  BY <4>1, <4>2
    <3>4. CASE UpdateStackName(w, a)           BY <3>4 DEF UpdateStackName
    <3>5. CASE CreateStack(w, a)               BY <3>5 DEF CreateStack
    <3>6. CASE PublishContainers(w, a)         BY <3>6 DEF PublishContainers
    <3> QED  BY <2>2, <3>1, <3>2, <3>3, <3>4, <3>5, <3>6 DEF AvmCreate
  <2>3. CASE AvmContainersCreate(w, a)
    <3>1. CASE Get(w, a, "p_get", "p_output")  BY <3>1 DEF Get
    <3>2. CASE StackOutput(w, a)
      <4>1. \E pc \in Running \cup {"error"} : wpc' = [wpc EXCEPT ![w] = pc]
        BY <3>2 DEF StackOutput
      <4> QED  BY <3>2, <4>1 DEF StackOutput
    <3>3. CASE Republish(w, a)                 BY <3>3 DEF Republish
    <3>4. CASE PlayerUp(w, a)                  BY <3>4 DEF PlayerUp
    <3>5. CASE StartBilling(w, a)              BY <3>5 DEF StartBilling
    <3>6. CASE SetReady(w, a)                  BY <3>6 DEF SetReady
    <3> QED  BY <2>3, <3>1, <3>2, <3>3, <3>4, <3>5, <3>6 DEF AvmContainersCreate
  <2>4. CASE AvmDelete(w, a)
    <3>1. CASE Get(w, a, "d_get", "d_down")    BY <3>1 DEF Get
    <3>2. CASE PlayerDown(w, a)                BY <3>2 DEF PlayerDown
    <3>3. CASE StopBilling(w, a)               BY <3>3 DEF StopBilling
    <3>4. CASE RemoveAmqp(w, a)
      <4>1. CASE Visible(a)   BY <3>4, <4>1 DEF RemoveAmqp
      <4>2. CASE ~Visible(a)  BY <3>4, <4>2 DEF RemoveAmqp
      <4> QED  BY <4>1, <4>2
    <3>5. CASE DeleteStack(w, a)               BY <3>5 DEF DeleteStack
    <3>6. CASE SetDeleted(w, a)                BY <3>6 DEF SetDeleted
    <3> QED  BY <2>4, <3>1, <3>2, <3>3, <3>4, <3>5, <3>6 DEF AvmDelete
  <2> QED  BY <1>7, <2>1, <2>2, <2>3, <2>4 DEF WorkerStep
<1>8. CASE UNCHANGED vars
  BY <1>8 DEF vars
<1> QED  BY <1>1, <1>2, <1>3, <1>4, <1>5, <1>6, <1>7, <1>8 DEF Next

LEMMA TaskStep == Typed /\ [Next]_vars => InItsTask'
<1> SUFFICES ASSUME Typed, [Next]_vars, NEW v \in Worker
             PROVE  /\ wpc'[v] # "idle" => wtask'[v] \in Kind
                    /\ wpc'[v] \in CreatePc => wtask'[v] = "avm_create"
                    /\ wpc'[v] \in PlayerPc => wtask'[v] = "avm_containers_create"
                    /\ wpc'[v] \in DeletePc => wtask'[v] = "avm_delete"
  BY DEF InItsTask
<1> USE DEF Typed, TypeOK, InItsTask, CreatePc, PlayerPc, DeletePc
<1>1. CASE UNCHANGED work
  BY <1>1 DEF work
<1>2. ASSUME NEW w \in Worker, NEW a \in Avm, NEW k \in Kind, Take(w, a, k)
      PROVE  wpc' = [wpc EXCEPT ![w] = "check"] /\ wtask' = [wtask EXCEPT ![w] = k]
  BY <1>2 DEF Take
<1>3. ASSUME NEW w \in Worker, NEW a \in Avm, WorkerStep(w, a) \/ Fail(w, a)
      PROVE  \E pc : /\ wpc' = [wpc EXCEPT ![w] = pc] /\ wtask' = wtask
                     /\ wpc[w] # "idle" /\ pc # "idle"
                     /\ \/ pc \in {"error", "ack"}
                        \/ pc = First[wtask[w]]
                        \/ pc \in CreatePc /\ wpc[w] \in CreatePc
                        \/ pc \in PlayerPc /\ wpc[w] \in PlayerPc
                        \/ pc \in DeletePc /\ wpc[w] \in DeletePc
  <2> USE DEF At, Goto
  <2>1. CASE Check(w, a)
    <3>1. First[wtask[w]] # "idle"
      BY <2>1, FirstCall DEF Check, Kind
    <3> QED  BY <2>1, <3>1 DEF Check
  <2>5. CASE SetError(w, a)
    BY <2>5 DEF SetError
  <2>6. CASE Fail(w, a)
    BY <2>6 DEF Fail, Running
  <2>2. CASE AvmCreate(w, a)
    BY <2>2 DEF AvmCreate, Get, SetCreating, ConfigureAmqp, UpdateStackName, CreateStack,
                PublishContainers
  <2>3. CASE AvmContainersCreate(w, a)
    BY <2>3 DEF AvmContainersCreate, Get, StackOutput, Republish, PlayerUp, StartBilling,
                SetReady
  <2>4. CASE AvmDelete(w, a)
    BY <2>4 DEF AvmDelete, Get, PlayerDown, StopBilling, RemoveAmqp, DeleteStack, SetDeleted
  <2> QED  BY <1>3, <2>1, <2>2, <2>3, <2>4, <2>5, <2>6 DEF WorkerStep
<1>4. ASSUME NEW w \in Worker, NEW a \in Avm, Redeliver(w, a) \/ Ack(w)
      PROVE  wpc' = [wpc EXCEPT ![w] = "idle"] /\ wtask' = [wtask EXCEPT ![w] = "none"]
  BY <1>4 DEF Redeliver, Ack, Rest
<1>5. CASE \E r \in Request, a \in Avm :
             CreateChecksQuota(r, a) \/ DeleteLooksUp(r, a) \/ Handler(r, a)
  BY <1>1, <1>5 DEF CreateChecksQuota, DeleteLooksUp, Handler, CreateInserts,
                    CreatePublishes, DeletePublishes, DeleteSetsStatus
<1>6. CASE \E r \in Request : Abort(r)
  BY <1>1, <1>6 DEF Abort
<1>7. CASE \E w \in Worker, a \in Avm, k \in Kind : Take(w, a, k)
  BY <1>2, <1>7
<1>8. CASE \E w \in Worker, a \in Avm : WorkerStep(w, a) \/ Fail(w, a)
  <2>1. PICK w \in Worker : \E pc : /\ wpc' = [wpc EXCEPT ![w] = pc] /\ wtask' = wtask
                                  /\ wpc[w] # "idle" /\ pc # "idle"
                                  /\ \/ pc \in {"error", "ack"}
                                     \/ pc = First[wtask[w]]
                                     \/ pc \in CreatePc /\ wpc[w] \in CreatePc
                                     \/ pc \in PlayerPc /\ wpc[w] \in PlayerPc
                                     \/ pc \in DeletePc /\ wpc[w] \in DeletePc
    BY <1>3, <1>8
  <2>2. CASE v # w
    BY <2>1, <2>2
  <2>3. CASE v = w
    <3>1. wtask'[v] = wtask[v] /\ wtask[v] \in Kind /\ wpc'[v] # "idle"
      BY <2>1, <2>3
    <3>2. \/ wpc'[v] \in {"error", "ack", First[wtask[v]]}
          \/ wpc'[v] \in CreatePc /\ wpc[v] \in CreatePc
          \/ wpc'[v] \in PlayerPc /\ wpc[v] \in PlayerPc
          \/ wpc'[v] \in DeletePc /\ wpc[v] \in DeletePc
      BY <2>1, <2>3
    <3> QED  BY <3>1, <3>2, FirstCall DEF Kind
  <2> QED  BY <2>2, <2>3
<1>9. CASE \E w \in Worker, a \in Avm : Redeliver(w, a) \/ Ack(w)
  BY <1>4, <1>9
<1>10. CASE UNCHANGED vars
  BY <1>1, <1>10 DEF vars
<1>11. CASE \E w \in Worker : Ack(w)
  BY <1>11 DEF Ack, Rest
<1> QED  BY <1>5, <1>6, <1>7, <1>8, <1>9, <1>10, <1>11 DEF Next

LEMMA TypedAlways == Spec => []Typed
<1>1. Typed /\ [Next]_vars => Typed'
  BY TypeStep, TaskStep DEF Typed
<1> QED  BY TypeInit, <1>1, PTL DEF Spec

\* Every variable stays within its type.
THEOREM TypeCorrect == Spec => []TypeOK
<1>1. Typed => TypeOK
  BY DEF Typed
<1> QED  BY TypedAlways, <1>1, PTL

--------------------------------------------------------------------------------
(* Whatever is paid for can be found again.                                     *)

\* What makes Traceable inductive: the name is there from the moment a stack is
\* asked for, hence for every message and every worker that works on its players.
Named ==
    /\ Traceable
    /\ \A a \in Avm : queue[a]["avm_containers_create"] > 0 => stackName[a]
    /\ \A w \in Worker, a \in Avm :
          /\ wavm[w] = a
          /\ wtask[w] = "avm_containers_create" \/ wpc[w] \in {"c_stack", "c_publish"}
          => stackName[a]

LEMMA NamedStep == Typed /\ Named /\ [Next]_vars => Named'
<1> SUFFICES ASSUME Typed, Named, [Next]_vars PROVE Named'
  OBVIOUS
<1> USE DEF Typed, TypeOK, InItsTask, Named, Traceable, Kind, CreatePc, PlayerPc, DeletePc,
        rows, resources, work, asked, http, Put, At, Goto
<1>1. ASSUME NEW r \in Request, NEW a \in Avm,
             CreateChecksQuota(r, a) \/ DeleteLooksUp(r, a) \/ Handler(r, a)
      PROVE  Named'
  <2> USE DEF HandlerAt, HandlerGoto, HandlerEnds
  <2>1. CASE CreateChecksQuota(r, a)  BY <2>1 DEF CreateChecksQuota
  <2>2. CASE DeleteLooksUp(r, a)      BY <2>2 DEF DeleteLooksUp
  <2>3. CASE CreateInserts(r, a)      BY <2>3 DEF CreateInserts
  <2>4. CASE CreatePublishes(r, a)    BY <2>4 DEF CreatePublishes
  <2>5. CASE DeletePublishes(r, a)    BY <2>5 DEF DeletePublishes
  <2>6. CASE DeleteSetsStatus(r, a)   BY <2>6 DEF DeleteSetsStatus
  <2> QED  BY <1>1, <2>1, <2>2, <2>3, <2>4, <2>5, <2>6 DEF Handler
<1>2. ASSUME NEW r \in Request, Abort(r) PROVE Named'
  BY <1>2 DEF Abort
<1>3. ASSUME NEW w \in Worker, NEW a \in Avm, NEW k \in Kind, Take(w, a, k) PROVE Named'
  BY <1>3 DEF Take
<1>4. ASSUME NEW w \in Worker, NEW a \in Avm, Redeliver(w, a) PROVE Named'
  BY <1>4 DEF Redeliver, Rest
<1>5. ASSUME NEW w \in Worker, NEW a \in Avm, Fail(w, a) PROVE Named'
  BY <1>5 DEF Fail
<1>6. ASSUME NEW w \in Worker, Ack(w) PROVE Named'
  BY <1>6 DEF Ack, Rest
<1>7. ASSUME NEW w \in Worker, NEW a \in Avm, Check(w, a) \/ SetError(w, a) PROVE Named'
  BY <1>7, FirstCall DEF Check, SetError, Kind
<1>8. ASSUME NEW w \in Worker, NEW a \in Avm, AvmCreate(w, a) PROVE Named'
  <2>1. CASE Get(w, a, "c_get", "c_status")  BY <2>1 DEF Get
  <2>2. CASE SetCreating(w, a)               BY <2>2 DEF SetCreating
  <2>3. CASE ConfigureAmqp(w, a)             BY <2>3 DEF ConfigureAmqp
  <2>4. CASE UpdateStackName(w, a)           BY <2>4 DEF UpdateStackName
  <2>5. CASE CreateStack(w, a)               BY <2>5 DEF CreateStack
  <2>6. CASE PublishContainers(w, a)         BY <2>6 DEF PublishContainers
  <2> QED  BY <1>8, <2>1, <2>2, <2>3, <2>4, <2>5, <2>6 DEF AvmCreate
<1>9. ASSUME NEW w \in Worker, NEW a \in Avm, AvmContainersCreate(w, a) PROVE Named'
  <2>1. CASE Get(w, a, "p_get", "p_output")  BY <2>1 DEF Get
  <2>2. CASE StackOutput(w, a)               BY <2>2 DEF StackOutput
  <2>3. CASE Republish(w, a)                 BY <2>3 DEF Republish
  <2>4. CASE PlayerUp(w, a)                  BY <2>4 DEF PlayerUp
  <2>5. CASE StartBilling(w, a)              BY <2>5 DEF StartBilling
  <2>6. CASE SetReady(w, a)                  BY <2>6 DEF SetReady
  <2> QED  BY <1>9, <2>1, <2>2, <2>3, <2>4, <2>5, <2>6 DEF AvmContainersCreate
<1>10. ASSUME NEW w \in Worker, NEW a \in Avm, AvmDelete(w, a) PROVE Named'
  <2>1. CASE Get(w, a, "d_get", "d_down")    BY <2>1 DEF Get
  <2>2. CASE PlayerDown(w, a)                BY <2>2 DEF PlayerDown
  <2>3. CASE StopBilling(w, a)               BY <2>3 DEF StopBilling
  <2>4. CASE RemoveAmqp(w, a)                BY <2>4 DEF RemoveAmqp
  <2>5. CASE DeleteStack(w, a)               BY <2>5 DEF DeleteStack
  <2>6. CASE SetDeleted(w, a)                BY <2>6 DEF SetDeleted
  <2> QED  BY <1>10, <2>1, <2>2, <2>3, <2>4, <2>5, <2>6 DEF AvmDelete
<1>11. CASE UNCHANGED vars
  BY <1>11 DEF vars
<1> QED  BY <1>1, <1>2, <1>3, <1>4, <1>5, <1>6, <1>7, <1>8, <1>9, <1>10, <1>11
         DEF Next, WorkerStep

\* A stack, a player or a bill always has its stack name in the database.
THEOREM AlwaysTraceable == Spec => []Traceable
<1>1. Init => Named
  BY DEF Init, Named, Traceable, Kind
<1>2. Named => Traceable
  BY DEF Named
<1> QED  BY TypedAlways, NamedStep, <1>1, <1>2, PTL DEF Spec

--------------------------------------------------------------------------------
(* Creations: what is pending stays pending until its outcome is recorded.        *)

LEMMA AbortsOnly == [Next]_vars /\ (\A r \in Request : ~Abort(r)) => aborts' = aborts
BY DEF Next, vars, http, asked, CreateChecksQuota, DeleteLooksUp, Handler, CreateInserts,
       CreatePublishes, DeletePublishes, DeleteSetsStatus, Take, WorkerStep, Check, SetError,
       AvmCreate, AvmContainersCreate, AvmDelete, Get, SetCreating, ConfigureAmqp,
       UpdateStackName, CreateStack, PublishContainers, StackOutput, Republish, PlayerUp,
       StartBilling, SetReady, PlayerDown, StopBilling, RemoveAmqp, DeleteStack, SetDeleted,
       Redeliver, Fail, Ack

\* Only the end of a POST between its row and its task leaves a machine waiting for nothing.
LEMMA StrandedStep ==
    ASSUME Typed, [Next]_vars, NEW b \in Avm, b \in Stranded', b \notin Stranded
    PROVE  \E r \in Request : Abort(r) /\ havm[r] = b
<1> USE LifecycleAssumption
    DEF Typed, TypeOK, InItsTask, Stranded, CreationPending, Creating, Kind, CreatePc, PlayerPc,
        DeletePc, rows, resources, work, asked, http, Put, At, Goto
<1>1. ASSUME NEW r \in Request, NEW a \in Avm,
             CreateChecksQuota(r, a) \/ DeleteLooksUp(r, a) \/ Handler(r, a)
      PROVE  FALSE
  <2> USE DEF HandlerAt, HandlerGoto, HandlerEnds
  <2>1. CASE CreateChecksQuota(r, a)  BY <2>1 DEF CreateChecksQuota
  <2>2. CASE DeleteLooksUp(r, a)      BY <2>2 DEF DeleteLooksUp
  <2>3. CASE CreateInserts(r, a)      BY <2>3 DEF CreateInserts
  <2>4. CASE CreatePublishes(r, a)    BY <2>4 DEF CreatePublishes
  <2>5. CASE DeletePublishes(r, a)    BY <2>5 DEF DeletePublishes
  <2>6. CASE DeleteSetsStatus(r, a)   BY <2>6 DEF DeleteSetsStatus
  <2> QED  BY <1>1, <2>1, <2>2, <2>3, <2>4, <2>5, <2>6 DEF Handler
<1>2. ASSUME NEW r \in Request, Abort(r), havm[r] # b PROVE FALSE
  BY <1>2 DEF Abort, HandlerAt, HandlerEnds
<1>3. ASSUME NEW w \in Worker, NEW a \in Avm, NEW k \in Kind, Take(w, a, k) PROVE FALSE
  BY <1>3 DEF Take, HandlerAt
<1>4. ASSUME NEW w \in Worker, NEW a \in Avm, Redeliver(w, a) PROVE FALSE
  BY <1>4 DEF Redeliver, Rest, HandlerAt
<1>5. ASSUME NEW w \in Worker, NEW a \in Avm, Fail(w, a) PROVE FALSE
  BY <1>5 DEF Fail, HandlerAt
<1>6. ASSUME NEW w \in Worker, Ack(w) PROVE FALSE
  BY <1>6 DEF Ack, Rest, HandlerAt
<1> USE DEF HandlerAt
<1>7. ASSUME NEW w \in Worker, NEW a \in Avm, Check(w, a) \/ SetError(w, a) PROVE FALSE
  BY <1>7, FirstCall DEF Check, SetError
<1>8. ASSUME NEW w \in Worker, NEW a \in Avm, AvmCreate(w, a) PROVE FALSE
  <2>1. CASE Get(w, a, "c_get", "c_status")  BY <2>1 DEF Get
  <2>2. CASE SetCreating(w, a)               BY <2>2 DEF SetCreating
  <2>3. CASE ConfigureAmqp(w, a)             BY <2>3 DEF ConfigureAmqp
  <2>4. CASE UpdateStackName(w, a)           BY <2>4 DEF UpdateStackName
  <2>5. CASE CreateStack(w, a)               BY <2>5 DEF CreateStack
  <2>6. CASE PublishContainers(w, a)         BY <2>6 DEF PublishContainers
  <2> QED  BY <1>8, <2>1, <2>2, <2>3, <2>4, <2>5, <2>6 DEF AvmCreate
<1>9. ASSUME NEW w \in Worker, NEW a \in Avm, AvmContainersCreate(w, a) PROVE FALSE
  <2>1. CASE Get(w, a, "p_get", "p_output")  BY <2>1 DEF Get
  <2>2. CASE StackOutput(w, a)               BY <2>2 DEF StackOutput
  <2>3. CASE Republish(w, a)                 BY <2>3 DEF Republish
  <2>4. CASE PlayerUp(w, a)                  BY <2>4 DEF PlayerUp
  <2>5. CASE StartBilling(w, a)              BY <2>5 DEF StartBilling
  <2>6. CASE SetReady(w, a)                  BY <2>6 DEF SetReady
  <2> QED  BY <1>9, <2>1, <2>2, <2>3, <2>4, <2>5, <2>6 DEF AvmContainersCreate
<1>10. ASSUME NEW w \in Worker, NEW a \in Avm, AvmDelete(w, a) PROVE FALSE
  <2>1. CASE Get(w, a, "d_get", "d_down")    BY <2>1 DEF Get
  <2>2. CASE PlayerDown(w, a)                BY <2>2 DEF PlayerDown
  <2>3. CASE StopBilling(w, a)               BY <2>3 DEF StopBilling
  <2>4. CASE RemoveAmqp(w, a)                BY <2>4 DEF RemoveAmqp
  <2>5. CASE DeleteStack(w, a)               BY <2>5 DEF DeleteStack
  <2>6. CASE SetDeleted(w, a)                BY <2>6 DEF SetDeleted
  <2> QED  BY <1>10, <2>1, <2>2, <2>3, <2>4, <2>5, <2>6 DEF AvmDelete
<1>11. CASE UNCHANGED vars
  BY <1>11 DEF vars
<1> HIDE DEF Typed, Stranded, Kind
<1> QED  BY <1>1, <1>2, <1>3, <1>4, <1>5, <1>6, <1>7, <1>8, <1>9, <1>10, <1>11
         DEF Next, WorkerStep

\* A machine that shows QUEUED or CREATING is being created: its task is in the broker
\* or with a worker, however often it failed or was delivered. The exceptions are no
\* more than the requests that were aborted.
THEOREM NoCreationLost == Spec => []CreationNotLost
<1> DEFINE Inv == IsFiniteSet(Stranded) /\ CreationNotLost
<1>1. Init => Inv
  <2> SUFFICES ASSUME Init PROVE Inv
    OBVIOUS
  <2>1. Stranded = {} /\ aborts = 0
    BY DEF Init, Stranded
  <2> QED  BY <2>1, FS_EmptySet DEF CreationNotLost
<1>2. Typed /\ Typed' /\ Inv /\ [Next]_vars => Inv'
  <2> SUFFICES ASSUME Typed, Typed', Inv, [Next]_vars PROVE Inv'
    OBVIOUS
  <2>0. Cardinality(Stranded) \in Nat /\ aborts \in Nat /\ aborts' \in Nat
    BY FS_CardinalityType DEF Typed, TypeOK
  <2>1. ASSUME NEW r \in Request, Abort(r) PROVE Inv'
    <3>1. Stranded' \subseteq Stranded \cup {havm[r]} /\ aborts' = aborts + 1
      <4>1. ASSUME NEW b \in Stranded', b \notin Stranded PROVE b = havm[r]
        <5>1. b \in Avm
          BY DEF Stranded
        <5>2. PICK q \in Request : Abort(q) /\ havm[q] = b
          BY <4>1, <5>1, StrandedStep
        <5>3. havm'[q] = None /\ \A s \in Request : s # r => havm'[s] = havm[s]
          BY <2>1, <5>2 DEF Abort, HandlerEnds, Typed, TypeOK
        <5> QED  BY <5>1, <5>2, <5>3, LifecycleAssumption
      <4> QED  BY <2>1, <4>1 DEF Abort
    <3>2. /\ IsFiniteSet(Stranded \cup {havm[r]})
          /\ Cardinality(Stranded \cup {havm[r]}) <= Cardinality(Stranded) + 1
      BY <2>0, FS_AddElement
    <3>3. IsFiniteSet(Stranded') /\ Cardinality(Stranded') <= Cardinality(Stranded \cup {havm[r]})
      BY <3>1, <3>2, FS_Subset
    <3>4. Cardinality(Stranded') \in Nat /\ Cardinality(Stranded \cup {havm[r]}) \in Nat
      BY <3>2, <3>3, FS_CardinalityType
    <3> QED  BY <2>0, <3>1, <3>2, <3>3, <3>4 DEF CreationNotLost
  <2>2. CASE \A r \in Request : ~Abort(r)
    <3>1. Stranded' \subseteq Stranded
      BY <2>2, StrandedStep DEF Stranded
    <3>2. IsFiniteSet(Stranded') /\ Cardinality(Stranded') <= Cardinality(Stranded)
      BY <3>1, FS_Subset
    <3>3. Cardinality(Stranded') \in Nat
      BY <3>2, FS_CardinalityType
    <3>4. aborts' = aborts
      BY <2>2, AbortsOnly
    <3> QED  BY <2>0, <3>2, <3>3, <3>4 DEF CreationNotLost
  <2> QED  BY <2>1, <2>2
<1> HIDE DEF Inv
<1>3. Inv => CreationNotLost
  BY DEF Inv
<1> QED  BY TypedAlways, <1>1, <1>2, <1>3, PTL DEF Spec

\* A task leaves its outcome behind before its message is acknowledged: ERROR; or DELETED,
\* for avm_delete; or, for the other two, READY, the next message, or a machine that was
\* DELETED meanwhile.
LeavesRecord ==
    \A w \in Worker, a \in Avm : wavm[w] = a /\ wpc[w] # "ack" /\ wpc'[w] = "ack" =>
        \/ status'[a] \in {"DELETED", "ERROR"}
        \/ /\ wtask[w] \in Creating
           /\ status'[a] = "READY" \/ queue'[a]["avm_containers_create"] > 0

\* No task about a machine ends without a trace, through every failure and redelivery.
THEOREM EndsAreRecorded == Spec => [][LeavesRecord]_vars
<1>1. Typed /\ [Next]_vars => LeavesRecord
  <2> SUFFICES ASSUME Typed, [Next]_vars, NEW v \in Worker, NEW b \in Avm,
                      wavm[v] = b, wpc[v] # "ack", wpc'[v] = "ack"
               PROVE  \/ status'[b] \in {"DELETED", "ERROR"}
                      \/ /\ wtask[v] \in Creating
                         /\ status'[b] = "READY" \/ queue'[b]["avm_containers_create"] > 0
    BY DEF LeavesRecord
  <2> USE DEF Typed, TypeOK, InItsTask, Creating, Kind, CreatePc, PlayerPc, DeletePc, At, Goto, Put, rows
  <2>1. PICK w \in Worker, a \in Avm : WorkerStep(w, a)
    <3>1. CASE UNCHANGED wpc
      BY <3>1
    <3>2. ASSUME NEW w \in Worker, NEW pc \in {"check", "idle", "error"},
                 wpc' = [wpc EXCEPT ![w] = pc]
          PROVE  FALSE
      BY <3>2
    <3>3. CASE \E r \in Request, a \in Avm :
                 CreateChecksQuota(r, a) \/ DeleteLooksUp(r, a) \/ Handler(r, a) \/ Abort(r)
      BY <3>1, <3>3 DEF work, CreateChecksQuota, DeleteLooksUp, Handler, CreateInserts,
         CreatePublishes, DeletePublishes, DeleteSetsStatus, Abort
    <3>4. CASE \E w \in Worker, a \in Avm, k \in Kind : Take(w, a, k) \/ Redeliver(w, a)
      BY <3>2, <3>4 DEF Take, Redeliver, Rest
    <3>5. ASSUME NEW w \in Worker, NEW a \in Avm, Ack(w) \/ Fail(w, a) PROVE FALSE
      BY <3>2, <3>5 DEF Ack, Rest, Fail
    <3> QED  BY <3>1, <3>3, <3>4, <3>5 DEF Next, vars, work, Abort, Take, Redeliver
  <2>2. CASE Check(w, a)
    BY <2>2, FirstCall DEF Check
  <2>3. CASE SetError(w, a)
    BY <2>3 DEF SetError
  <2>4. CASE AvmCreate(w, a)
    BY <2>4 DEF AvmCreate, Get, SetCreating, ConfigureAmqp, UpdateStackName, CreateStack,
                PublishContainers
  <2>5. CASE AvmContainersCreate(w, a)
    BY <2>5 DEF AvmContainersCreate, Get, StackOutput, Republish, PlayerUp, StartBilling, SetReady
  <2>6. CASE AvmDelete(w, a)
    BY <2>6 DEF AvmDelete, Get, PlayerDown, StopBilling, RemoveAmqp, DeleteStack, SetDeleted
  <2> QED  BY <2>1, <2>2, <2>3, <2>4, <2>5, <2>6 DEF WorkerStep
<1> QED  BY TypedAlways, <1>1, PTL DEF Spec

--------------------------------------------------------------------------------
(* Bills.                                                                       *)

\* The worker that is about to set READY has put the machine on the bill.
Billed ==
    /\ ReadyIsBilled
    /\ \A w \in Worker, a \in Avm : wavm[w] = a /\ wpc[w] = "p_ready" => billing[a] # "none"

LEMMA BilledStep == Typed /\ Billed /\ [Next]_vars => Billed'
<1> SUFFICES ASSUME Typed, Billed, [Next]_vars PROVE Billed'
  OBVIOUS
<1> USE DEF Typed, TypeOK, InItsTask, Billed, ReadyIsBilled, Kind, CreatePc, PlayerPc, DeletePc,
        rows, resources, work, asked, http, Put, At, Goto
<1>1. ASSUME NEW r \in Request, NEW a \in Avm,
             CreateChecksQuota(r, a) \/ DeleteLooksUp(r, a) \/ Handler(r, a)
      PROVE  Billed'
  <2> USE DEF HandlerAt, HandlerGoto, HandlerEnds
  <2>1. CASE CreateChecksQuota(r, a)  BY <2>1 DEF CreateChecksQuota
  <2>2. CASE DeleteLooksUp(r, a)      BY <2>2 DEF DeleteLooksUp
  <2>3. CASE CreateInserts(r, a)      BY <2>3 DEF CreateInserts
  <2>4. CASE CreatePublishes(r, a)    BY <2>4 DEF CreatePublishes
  <2>5. CASE DeletePublishes(r, a)    BY <2>5 DEF DeletePublishes
  <2>6. CASE DeleteSetsStatus(r, a)   BY <2>6 DEF DeleteSetsStatus
  <2> QED  BY <1>1, <2>1, <2>2, <2>3, <2>4, <2>5, <2>6 DEF Handler
<1>2. ASSUME NEW r \in Request, Abort(r) PROVE Billed'
  BY <1>2 DEF Abort
<1>3. ASSUME NEW w \in Worker, NEW a \in Avm, NEW k \in Kind, Take(w, a, k) PROVE Billed'
  BY <1>3 DEF Take
<1>4. ASSUME NEW w \in Worker, NEW a \in Avm, Redeliver(w, a) PROVE Billed'
  BY <1>4 DEF Redeliver, Rest
<1>5. ASSUME NEW w \in Worker, NEW a \in Avm, Fail(w, a) PROVE Billed'
  BY <1>5 DEF Fail
<1>6. ASSUME NEW w \in Worker, Ack(w) PROVE Billed'
  BY <1>6 DEF Ack, Rest
<1>7. ASSUME NEW w \in Worker, NEW a \in Avm, Check(w, a) \/ SetError(w, a) PROVE Billed'
  BY <1>7, FirstCall DEF Check, SetError, Kind
<1>8. ASSUME NEW w \in Worker, NEW a \in Avm, AvmCreate(w, a) PROVE Billed'
  <2>1. CASE Get(w, a, "c_get", "c_status")  BY <2>1 DEF Get
  <2>2. CASE SetCreating(w, a)               BY <2>2 DEF SetCreating
  <2>3. CASE ConfigureAmqp(w, a)             BY <2>3 DEF ConfigureAmqp
  <2>4. CASE UpdateStackName(w, a)           BY <2>4 DEF UpdateStackName
  <2>5. CASE CreateStack(w, a)               BY <2>5 DEF CreateStack
  <2>6. CASE PublishContainers(w, a)         BY <2>6 DEF PublishContainers
  <2> QED  BY <1>8, <2>1, <2>2, <2>3, <2>4, <2>5, <2>6 DEF AvmCreate
<1>9. ASSUME NEW w \in Worker, NEW a \in Avm, AvmContainersCreate(w, a) PROVE Billed'
  <2>1. CASE Get(w, a, "p_get", "p_output")  BY <2>1 DEF Get
  <2>2. CASE StackOutput(w, a)               BY <2>2 DEF StackOutput
  <2>3. CASE Republish(w, a)                 BY <2>3 DEF Republish
  <2>4. CASE PlayerUp(w, a)                  BY <2>4 DEF PlayerUp
  <2>5. CASE StartBilling(w, a)              BY <2>5 DEF StartBilling
  <2>6. CASE SetReady(w, a)                  BY <2>6 DEF SetReady
  <2> QED  BY <1>9, <2>1, <2>2, <2>3, <2>4, <2>5, <2>6 DEF AvmContainersCreate
<1>10. ASSUME NEW w \in Worker, NEW a \in Avm, AvmDelete(w, a) PROVE Billed'
  <2>1. CASE Get(w, a, "d_get", "d_down")    BY <2>1 DEF Get
  <2>2. CASE PlayerDown(w, a)                BY <2>2 DEF PlayerDown
  <2>3. CASE StopBilling(w, a)               BY <2>3 DEF StopBilling
  <2>4. CASE RemoveAmqp(w, a)                BY <2>4 DEF RemoveAmqp
  <2>5. CASE DeleteStack(w, a)               BY <2>5 DEF DeleteStack
  <2>6. CASE SetDeleted(w, a)                BY <2>6 DEF SetDeleted
  <2> QED  BY <1>10, <2>1, <2>2, <2>3, <2>4, <2>5, <2>6 DEF AvmDelete
<1>11. CASE UNCHANGED vars
  BY <1>11 DEF vars
<1> QED  BY <1>1, <1>2, <1>3, <1>4, <1>5, <1>6, <1>7, <1>8, <1>9, <1>10, <1>11
         DEF Next, WorkerStep

\* A READY machine is on the bill.
THEOREM AlwaysBilled == Spec => []ReadyIsBilled
<1>1. Init => Billed
  BY DEF Init, Billed, ReadyIsBilled
<1>2. Billed => ReadyIsBilled
  BY DEF Billed
<1> QED  BY TypedAlways, BilledStep, <1>1, <1>2, PTL DEF Spec

--------------------------------------------------------------------------------
(* One worker.                                                                  *)

OneWorker == \A v, w \in Worker : v = w

\* With nobody to interfere, each call of avm_delete finds the work of those
\* before it still done, and nobody is at work on a DELETED machine.
Cleaning ==
    /\ DeletedIsClean
    /\ \A w \in Worker, a \in Avm : wavm[w] = a =>
          /\ wpc[w] \in {"d_bill", "d_amqp", "d_stack", "d_deleted"} => ~containers[a]
          /\ wpc[w] \in {"d_amqp", "d_stack", "d_deleted"} => billing[a] # "open"
          /\ wpc[w] \in {"d_stack", "d_deleted"} => ~amqp[a]
          /\ wpc[w] = "d_deleted" => ~stack[a]
          /\ status[a] = "DELETED" => wpc[w] \in {"check", "ack"}

LEMMA CleaningStep ==
    ASSUME OneWorker
    PROVE  Typed /\ Cleaning /\ [Next]_vars => Cleaning'
<1> SUFFICES ASSUME Typed, Cleaning, [Next]_vars PROVE Cleaning'
  OBVIOUS
<1> USE LifecycleAssumption, OneWorker
    DEF OneWorker, Typed, TypeOK, InItsTask, Cleaning, DeletedIsClean, Kind, Running, CreatePc,
        PlayerPc, DeletePc, rows, resources, work, asked, http, Put, At, Goto
<1>1. ASSUME NEW r \in Request, NEW a \in Avm,
             CreateChecksQuota(r, a) \/ DeleteLooksUp(r, a) \/ Handler(r, a)
      PROVE  Cleaning'
  <2> USE DEF HandlerAt, HandlerGoto, HandlerEnds
  <2>1. CASE CreateChecksQuota(r, a)  BY <2>1 DEF CreateChecksQuota
  <2>2. CASE DeleteLooksUp(r, a)      BY <2>2 DEF DeleteLooksUp
  <2>3. CASE CreateInserts(r, a)      BY <2>3 DEF CreateInserts
  <2>4. CASE CreatePublishes(r, a)    BY <2>4 DEF CreatePublishes
  <2>5. CASE DeletePublishes(r, a)    BY <2>5 DEF DeletePublishes
  <2>6. CASE DeleteSetsStatus(r, a)   BY <2>6 DEF DeleteSetsStatus
  <2> QED  BY <1>1, <2>1, <2>2, <2>3, <2>4, <2>5, <2>6 DEF Handler
<1>2. ASSUME NEW r \in Request, Abort(r) PROVE Cleaning'
  BY <1>2 DEF Abort
<1>3. ASSUME NEW w \in Worker, NEW a \in Avm, NEW k \in Kind, Take(w, a, k) PROVE Cleaning'
  BY <1>3 DEF Take
<1>4. ASSUME NEW w \in Worker, NEW a \in Avm, Redeliver(w, a) PROVE Cleaning'
  BY <1>4 DEF Redeliver, Rest
<1>5. ASSUME NEW w \in Worker, NEW a \in Avm, Fail(w, a) PROVE Cleaning'
  <2>1. CASE UNCHANGED resources
    <3>1. wavm[w] = a /\ wpc' = [wpc EXCEPT ![w] = "error"] /\ UNCHANGED <<rows, resources, wavm, wtask>>
      BY <1>5, <2>1 DEF Fail
    <3>2. status[a] # "DELETED"
      BY <1>5, <3>1 DEF Fail
    <3> QED  BY <3>1, <3>2
  <2>2. CASE ~ UNCHANGED resources
    <3>1. \/ wpc[w] \in {"c_amqp", "d_amqp"} /\ UNCHANGED <<stack, containers>>
          \/ wpc[w] \in {"c_stack", "d_stack"} /\ UNCHANGED <<amqp, containers>>
          \/ wpc[w] \in {"p_up", "d_down"} /\ UNCHANGED <<amqp, stack>>
      BY <1>5, <2>2 DEF Fail
    <3>2. /\ wavm[w] = a /\ wpc' = [wpc EXCEPT ![w] = "error"]
          /\ UNCHANGED <<rows, wavm, wtask>>
          /\ \A b \in Avm : b # a => /\ amqp'[b] = amqp[b] /\ stack'[b] = stack[b]
                                     /\ containers'[b] = containers[b]
      BY <1>5 DEF Fail
    <3>3. status[a] # "DELETED"
      BY <3>1, <3>2
    <3>4. DeletedIsClean'
      BY <3>2, <3>3
    <3> QED  BY <3>2, <3>3, <3>4
  <2> QED  BY <2>1, <2>2
<1>6. ASSUME NEW w \in Worker, Ack(w) PROVE Cleaning'
  BY <1>6 DEF Ack, Rest
<1>7. ASSUME NEW w \in Worker, NEW a \in Avm, Check(w, a) \/ SetError(w, a) PROVE Cleaning'
  BY <1>7, FirstCall DEF Check, SetError, Kind
<1>8. ASSUME NEW w \in Worker, NEW a \in Avm, AvmCreate(w, a) PROVE Cleaning'
  <2>1. CASE Get(w, a, "c_get", "c_status")  BY <2>1 DEF Get
  <2>2. CASE SetCreating(w, a)               BY <2>2 DEF SetCreating
  <2>3. CASE ConfigureAmqp(w, a)
    <3>1. /\ wavm[w] = a /\ wpc[w] = "c_amqp" /\ status[a] # "DELETED"
          /\ UNCHANGED <<status, billing, stack, containers, wavm>>
      BY <2>3 DEF ConfigureAmqp
    <3>2. CASE amqp' = [amqp EXCEPT ![a] = TRUE] /\ wpc' = [wpc EXCEPT ![w] = "c_name"]
      BY <3>1, <3>2
    <3>3. CASE UNCHANGED amqp /\ wpc' = [wpc EXCEPT ![w] = "error"]
      BY <3>1, <3>3
    <3> QED  BY <2>3, <3>2, <3>3 DEF ConfigureAmqp
  <2>4. CASE UpdateStackName(w, a)           BY <2>4 DEF UpdateStackName
  <2>5. CASE CreateStack(w, a)               BY <2>5 DEF CreateStack
  <2>6. CASE PublishContainers(w, a)         BY <2>6 DEF PublishContainers
  <2> QED  BY <1>8, <2>1, <2>2, <2>3, <2>4, <2>5, <2>6 DEF AvmCreate
<1>9. ASSUME NEW w \in Worker, NEW a \in Avm, AvmContainersCreate(w, a) PROVE Cleaning'
  <2>1. CASE Get(w, a, "p_get", "p_output")  BY <2>1 DEF Get
  <2>2. CASE StackOutput(w, a)               BY <2>2 DEF StackOutput
  <2>3. CASE Republish(w, a)                 BY <2>3 DEF Republish
  <2>4. CASE PlayerUp(w, a)                  BY <2>4 DEF PlayerUp
  <2>5. CASE StartBilling(w, a)              BY <2>5 DEF StartBilling
  <2>6. CASE SetReady(w, a)                  BY <2>6 DEF SetReady
  <2> QED  BY <1>9, <2>1, <2>2, <2>3, <2>4, <2>5, <2>6 DEF AvmContainersCreate
<1>10. ASSUME NEW w \in Worker, NEW a \in Avm, AvmDelete(w, a) PROVE Cleaning'
  <2>1. CASE Get(w, a, "d_get", "d_down")    BY <2>1 DEF Get
  <2>2. CASE PlayerDown(w, a)                BY <2>2 DEF PlayerDown
  <2>3. CASE StopBilling(w, a)               BY <2>3 DEF StopBilling
  <2>4. CASE RemoveAmqp(w, a)
    <3>1. /\ wavm[w] = a /\ wpc[w] = "d_amqp" /\ status[a] # "DELETED"
          /\ UNCHANGED <<status, billing, stack, containers, wavm>>
      BY <2>4 DEF RemoveAmqp
    <3>2. CASE amqp' = [amqp EXCEPT ![a] = FALSE] /\ wpc' = [wpc EXCEPT ![w] = "d_stack"]
      BY <3>1, <3>2
    <3>3. CASE UNCHANGED amqp /\ wpc' = [wpc EXCEPT ![w] = "error"]
      BY <3>1, <3>3
    <3> QED  BY <2>4, <3>2, <3>3 DEF RemoveAmqp
  <2>5. CASE DeleteStack(w, a)               BY <2>5 DEF DeleteStack
  <2>6. CASE SetDeleted(w, a)                BY <2>6 DEF SetDeleted
  <2> QED  BY <1>10, <2>1, <2>2, <2>3, <2>4, <2>5, <2>6 DEF AvmDelete
<1>11. CASE UNCHANGED vars
  BY <1>11 DEF vars
<1> HIDE DEF Typed, TypeOK, InItsTask, Cleaning, DeletedIsClean, OneWorker, Kind, Running
<1> QED  BY <1>1, <1>2, <1>3, <1>4, <1>5, <1>6, <1>7, <1>8, <1>9, <1>10, <1>11
         DEF Next, WorkerStep

\* Where one worker runs, a DELETED machine has left nothing behind.
THEOREM DeletedClean == ASSUME OneWorker PROVE Spec => []DeletedIsClean
<1>1. Init => Cleaning
  BY DEF Init, Cleaning, DeletedIsClean
<1>2. Cleaning => DeletedIsClean
  BY DEF Cleaning
<1> QED  BY TypedAlways, CleaningStep, <1>1, <1>2, PTL DEF Spec

\* The calls that make the players find the stack there, and no task of avm_delete
\* ends with its machine READY.
Deploying ==
    /\ ReadyIsDeployed
    /\ \A w \in Worker : wpc[w] = "idle" => wtask[w] = "none"
    /\ \A w \in Worker, a \in Avm : wavm[w] = a =>
          /\ wpc[w] \in {"p_up", "p_bill", "p_ready"} => stack[a]
          /\ wpc[w] \in {"p_bill", "p_ready"} => containers[a]
          /\ wpc[w] = "ack" /\ wtask[w] = "avm_delete" => status[a] # "READY"

LEMMA DeployingStep ==
    ASSUME OneWorker
    PROVE  Typed /\ Deploying /\ [Next]_vars => Deploying'
<1> SUFFICES ASSUME Typed, Deploying, [Next]_vars PROVE Deploying'
  OBVIOUS
<1> USE LifecycleAssumption, OneWorker
    DEF OneWorker, Typed, TypeOK, InItsTask, Deploying, ReadyIsDeployed, Kind, Running, CreatePc,
        PlayerPc, DeletePc, rows, resources, work, asked, http, Put, At, Goto
<1>1. ASSUME NEW r \in Request, NEW a \in Avm,
             CreateChecksQuota(r, a) \/ DeleteLooksUp(r, a) \/ Handler(r, a)
      PROVE  Deploying'
  <2> USE DEF HandlerAt, HandlerGoto, HandlerEnds
  <2>1. CASE CreateChecksQuota(r, a)  BY <2>1 DEF CreateChecksQuota
  <2>2. CASE DeleteLooksUp(r, a)      BY <2>2 DEF DeleteLooksUp
  <2>3. CASE CreateInserts(r, a)      BY <2>3 DEF CreateInserts
  <2>4. CASE CreatePublishes(r, a)    BY <2>4 DEF CreatePublishes
  <2>5. CASE DeletePublishes(r, a)    BY <2>5 DEF DeletePublishes
  <2>6. CASE DeleteSetsStatus(r, a)   BY <2>6 DEF DeleteSetsStatus
  <2> QED  BY <1>1, <2>1, <2>2, <2>3, <2>4, <2>5, <2>6 DEF Handler
<1>2. ASSUME NEW r \in Request, Abort(r) PROVE Deploying'
  BY <1>2 DEF Abort
<1>3. ASSUME NEW w \in Worker, NEW a \in Avm, NEW k \in Kind, Take(w, a, k) PROVE Deploying'
  <2>1. /\ UNCHANGED <<status, stack, containers>>
        /\ wpc' = [wpc EXCEPT ![w] = "check"]
        /\ wtask' = [wtask EXCEPT ![w] = k]
        /\ wavm' = [wavm EXCEPT ![w] = a]
        /\ wpc[w] = "idle"
    BY <1>3 DEF Take
  <2>2. \A b \in Avm : queue[b]["avm_delete"] > 0 =>
            queue'[b]["avm_delete"] > 0 \/ (b = a /\ k = "avm_delete")
    BY <1>3 DEF Take
  <2>3. \A b \in Avm : \A v \in Worker : ~(wavm[v] = b /\ wtask[v] = "avm_delete")
    BY <2>1
  <2> QED  BY <2>1, <2>2, <2>3
<1>4. ASSUME NEW w \in Worker, NEW a \in Avm, Redeliver(w, a) PROVE Deploying'
  BY <1>4 DEF Redeliver, Rest
<1>5. ASSUME NEW w \in Worker, NEW a \in Avm, Fail(w, a) PROVE Deploying'
  BY <1>5 DEF Fail
<1>6. ASSUME NEW w \in Worker, Ack(w) PROVE Deploying'
  BY <1>6 DEF Ack, Rest
<1>7. ASSUME NEW w \in Worker, NEW a \in Avm, Check(w, a) \/ SetError(w, a) PROVE Deploying'
  BY <1>7, FirstCall DEF Check, SetError, Kind
<1>8. ASSUME NEW w \in Worker, NEW a \in Avm, AvmCreate(w, a) PROVE Deploying'
  <2>1. CASE Get(w, a, "c_get", "c_status")  BY <2>1 DEF Get
  <2>2. CASE SetCreating(w, a)               BY <2>2 DEF SetCreating
  <2>3. CASE ConfigureAmqp(w, a)             BY <2>3 DEF ConfigureAmqp
  <2>4. CASE UpdateStackName(w, a)           BY <2>4 DEF UpdateStackName
  <2>5. CASE CreateStack(w, a)               BY <2>5 DEF CreateStack
  <2>6. CASE PublishContainers(w, a)         BY <2>6 DEF PublishContainers
  <2> QED  BY <1>8, <2>1, <2>2, <2>3, <2>4, <2>5, <2>6 DEF AvmCreate
<1>9. ASSUME NEW w \in Worker, NEW a \in Avm, AvmContainersCreate(w, a) PROVE Deploying'
  <2>1. CASE Get(w, a, "p_get", "p_output")  BY <2>1 DEF Get
  <2>2. CASE StackOutput(w, a)               BY <2>2 DEF StackOutput
  <2>3. CASE Republish(w, a)                 BY <2>3 DEF Republish
  <2>4. CASE PlayerUp(w, a)                  BY <2>4 DEF PlayerUp
  <2>5. CASE StartBilling(w, a)              BY <2>5 DEF StartBilling
  <2>6. CASE SetReady(w, a)                  BY <2>6 DEF SetReady
  <2> QED  BY <1>9, <2>1, <2>2, <2>3, <2>4, <2>5, <2>6 DEF AvmContainersCreate
<1>10. ASSUME NEW w \in Worker, NEW a \in Avm, AvmDelete(w, a) PROVE Deploying'
  <2>1. CASE Get(w, a, "d_get", "d_down")    BY <2>1 DEF Get
  <2>2. CASE PlayerDown(w, a)                BY <2>2 DEF PlayerDown
  <2>3. CASE StopBilling(w, a)               BY <2>3 DEF StopBilling
  <2>4. CASE RemoveAmqp(w, a)                BY <2>4 DEF RemoveAmqp
  <2>5. CASE DeleteStack(w, a)               BY <2>5 DEF DeleteStack
  <2>6. CASE SetDeleted(w, a)                BY <2>6 DEF SetDeleted
  <2> QED  BY <1>10, <2>1, <2>2, <2>3, <2>4, <2>5, <2>6 DEF AvmDelete
<1>11. CASE UNCHANGED vars
  BY <1>11 DEF vars
<1> HIDE DEF Deploying
<1> QED  BY <1>1, <1>2, <1>3, <1>4, <1>5, <1>6, <1>7, <1>8, <1>9, <1>10, <1>11
         DEF Next, WorkerStep

\* Where one worker runs, a READY machine has its stack and its players until its
\* deletion is on the way.
THEOREM ReadyDeployed == ASSUME OneWorker PROVE Spec => []ReadyIsDeployed
<1>1. Init => Deploying
  BY DEF Init, Deploying, ReadyIsDeployed
<1>2. Deploying => ReadyIsDeployed
  BY DEF Deploying
<1> QED  BY TypedAlways, DeployingStep, <1>1, <1>2, PTL DEF Spec
--------------------------------------------------------------------------------
(* The quota, with one worker. A machine in the hands of a handler is counted   *)
(* with those the view quota_usage shows: it is about to be inserted, or its    *)
(* DELETED is about to be overwritten.                                          *)

Held == {a \in Avm : \E r \in Request : havm[r] = a}
Occupied == Live \cup Held

\* Nobody works on a machine that was never inserted.
Existing == \A a \in Avm : status[a] = "NONE" =>
    /\ \A k \in Kind : ~(queue[a][k] > 0)
    /\ \A w \in Worker : wavm[w] # a
    /\ \A r \in Request : havm[r] = a => hpc[r] \in {"idle", "insert"}

LEMMA ExistingStep == Typed /\ Existing /\ [Next]_vars => Existing'
<1> SUFFICES ASSUME Typed, Existing, [Next]_vars PROVE Existing'
  OBVIOUS
<1> USE LifecycleAssumption
    DEF Typed, TypeOK, Existing, rows, resources, work, asked, http, At, Goto
<1>1. ASSUME NEW r \in Request, NEW a \in Avm,
             CreateChecksQuota(r, a) \/ DeleteLooksUp(r, a) \/ Handler(r, a)
      PROVE  Existing'
  <2> USE DEF HandlerAt, HandlerGoto, HandlerEnds
  <2>1. CASE CreateChecksQuota(r, a)  BY <2>1 DEF CreateChecksQuota
  <2>2. CASE DeleteLooksUp(r, a)      BY <2>2 DEF DeleteLooksUp, Visible
  <2>3. CASE CreateInserts(r, a)      BY <2>3 DEF CreateInserts
  <2>4. CASE CreatePublishes(r, a)    BY <2>4 DEF CreatePublishes, Put, Kind
  <2>5. CASE DeletePublishes(r, a)    BY <2>5 DEF DeletePublishes, Put, Kind
  <2>6. CASE DeleteSetsStatus(r, a)   BY <2>6 DEF DeleteSetsStatus
  <2> QED  BY <1>1, <2>1, <2>2, <2>3, <2>4, <2>5, <2>6 DEF Handler
<1>2. ASSUME NEW r \in Request, Abort(r) PROVE Existing'
  BY <1>2 DEF Abort, HandlerEnds
<1>3. ASSUME NEW w \in Worker, NEW a \in Avm, NEW k \in Kind, Take(w, a, k) PROVE Existing'
  BY <1>3 DEF Take
<1>4. ASSUME NEW w \in Worker, NEW a \in Avm, Redeliver(w, a) PROVE Existing'
  <2>1. /\ wavm[w] = a /\ UNCHANGED <<status, havm, hpc>>
        /\ \A b \in Avm : b # a => queue'[b] = queue[b]
        /\ \A v \in Worker : wavm'[v] \in {wavm[v], None}
    BY <1>4 DEF Redeliver, Rest, Put
  <2> QED  BY <2>1
<1>5. ASSUME NEW w \in Worker, NEW a \in Avm, Fail(w, a) PROVE Existing'
  BY <1>5 DEF Fail
<1>6. ASSUME NEW w \in Worker, Ack(w) PROVE Existing'
  BY <1>6 DEF Ack, Rest
<1>7. ASSUME NEW w \in Worker, NEW a \in Avm, WorkerStep(w, a) PROVE Existing'
  <2>1. wavm[w] = a /\ UNCHANGED <<wavm, havm, hpc>>
    BY <1>7 DEF WorkerStep, Check, SetError, AvmCreate, AvmContainersCreate, AvmDelete, Get,
          SetCreating, ConfigureAmqp, UpdateStackName, CreateStack, PublishContainers,
          StackOutput, Republish, PlayerUp, StartBilling, SetReady, PlayerDown, StopBilling,
          RemoveAmqp, DeleteStack, SetDeleted
  <2>2. \A b \in Avm : b # a => status'[b] = status[b] /\ queue'[b] = queue[b]
    <3>1. CASE Check(w, a) \/ SetError(w, a)
      BY <3>1 DEF Check, SetError
    <3>2. CASE AvmCreate(w, a)
      BY <3>2 DEF AvmCreate, Get, SetCreating, ConfigureAmqp, UpdateStackName, CreateStack,
                  PublishContainers, Put
    <3>3. CASE AvmContainersCreate(w, a)
      BY <3>3 DEF AvmContainersCreate, Get, StackOutput, Republish, PlayerUp, StartBilling,
                  SetReady, Put
    <3>4. CASE AvmDelete(w, a)
      BY <3>4 DEF AvmDelete, Get, PlayerDown, StopBilling, RemoveAmqp, DeleteStack, SetDeleted
    <3> QED  BY <1>7, <3>1, <3>2, <3>3, <3>4 DEF WorkerStep
  <2>3. status'[a] # "NONE"
    <3>1. status[a] # "NONE"
      BY <2>1
    <3>2. CASE UNCHANGED status
      BY <3>1, <3>2
    <3>3. CASE SetError(w, a) \/ SetCreating(w, a) \/ SetReady(w, a) \/ SetDeleted(w, a)
      BY <3>3 DEF SetError, SetCreating, SetReady, SetDeleted
    <3>4. CASE AvmCreate(w, a)
      BY <3>2, <3>3, <3>4 DEF AvmCreate, Get, ConfigureAmqp, UpdateStackName, CreateStack,
                              PublishContainers
    <3>5. CASE AvmContainersCreate(w, a)
      BY <3>2, <3>3, <3>5 DEF AvmContainersCreate, Get, StackOutput, Republish, PlayerUp,
                              StartBilling
    <3>6. CASE AvmDelete(w, a)
      BY <3>2, <3>3, <3>6 DEF AvmDelete, Get, PlayerDown, StopBilling, RemoveAmqp, DeleteStack
    <3>7. CASE Check(w, a)
      BY <3>2, <3>7 DEF Check
    <3>8. Check(w, a) \/ SetError(w, a) \/ AvmCreate(w, a) \/ AvmContainersCreate(w, a)
            \/ AvmDelete(w, a)
      BY <1>7 DEF WorkerStep
    <3>9. CASE SetError(w, a)
      BY <3>3, <3>9
    <3> QED  BY <3>4, <3>5, <3>6, <3>7, <3>8, <3>9
  <2>4. ASSUME NEW b \in Avm, status'[b] = "NONE"
        PROVE  status[b] = "NONE" /\ queue'[b] = queue[b]
    BY <2>2, <2>3, <2>4
  <2> QED  BY <2>1, <2>4
<1>8. CASE UNCHANGED vars
  BY <1>8 DEF vars
<1> QED  BY <1>1, <1>2, <1>3, <1>4, <1>5, <1>6, <1>7, <1>8 DEF Next

\* Only POST makes a machine count that did not.
LEMMA OccupiedShrinks ==
    ASSUME Typed, Cleaning, Existing, [Next]_vars,
           \A r \in Request, a \in Avm : ~CreateChecksQuota(r, a)
    PROVE  Occupied' \subseteq Occupied
<1> USE DEF Typed, TypeOK, Occupied, Live, Held, Visible, rows, work, asked, http
<1>1. ASSUME UNCHANGED <<status, havm>> PROVE Occupied' \subseteq Occupied
  BY <1>1
<1>2. ASSUME NEW r \in Request, NEW a \in Avm, DeleteLooksUp(r, a) \/ Handler(r, a)
      PROVE  Occupied' \subseteq Occupied
  <2> USE DEF HandlerAt, HandlerGoto, HandlerEnds
  <2>1. CASE DeleteLooksUp(r, a)      BY <2>1 DEF DeleteLooksUp
  <2>2. CASE CreateInserts(r, a)      BY <2>2 DEF CreateInserts
  <2>3. CASE CreatePublishes(r, a)    BY <2>3, LifecycleAssumption DEF CreatePublishes
  <2>4. CASE DeletePublishes(r, a)    BY <2>4 DEF DeletePublishes
  <2>5. CASE DeleteSetsStatus(r, a)   BY <2>5, LifecycleAssumption DEF DeleteSetsStatus
  <2> QED  BY <1>2, <2>1, <2>2, <2>3, <2>4, <2>5 DEF Handler
<1>3. ASSUME NEW r \in Request, Abort(r) PROVE Occupied' \subseteq Occupied
  BY <1>3, LifecycleAssumption DEF Abort, HandlerEnds
<1>4. ASSUME NEW w \in Worker, NEW a \in Avm, UNCHANGED havm, wavm[w] = a,
             wpc[w] \notin {"check", "ack"}, \A b \in Avm : b # a => status'[b] = status[b]
      PROVE  Occupied' \subseteq Occupied
  <2>1. a \in Live
    BY <1>4 DEF Cleaning, Existing
  <2> QED  BY <1>4, <2>1
<1>5. ASSUME NEW w \in Worker, NEW a \in Avm, WorkerStep(w, a) PROVE Occupied' \subseteq Occupied
  <2>1. CASE UNCHANGED <<status, havm>>
    BY <1>1, <2>1
  <2>2. CASE SetError(w, a) \/ SetCreating(w, a) \/ SetReady(w, a) \/ SetDeleted(w, a)
    <3>1. wavm[w] = a /\ wpc[w] \notin {"check", "ack"} /\ UNCHANGED havm
      BY <2>2 DEF SetError, SetCreating, SetReady, SetDeleted, At
    <3>2. \A b \in Avm : b # a => status'[b] = status[b]
      BY <2>2 DEF SetError, SetCreating, SetReady, SetDeleted
    <3> QED  BY <1>4, <3>1, <3>2
  <2> QED  BY <1>5, <2>1, <2>2 DEF WorkerStep, Check, AvmCreate, AvmContainersCreate, AvmDelete,
        Get, ConfigureAmqp, UpdateStackName, CreateStack, PublishContainers,
        StackOutput, Republish, PlayerUp, StartBilling, PlayerDown, StopBilling,
        RemoveAmqp, DeleteStack
<1>6. ASSUME NEW w \in Worker, NEW a \in Avm, Redeliver(w, a) \/ Fail(w, a)
      PROVE  Occupied' \subseteq Occupied
  BY <1>1, <1>6 DEF Redeliver, Fail
<1>7. ASSUME NEW w \in Worker, NEW a \in Avm, NEW k \in Kind, Take(w, a, k)
      PROVE  Occupied' \subseteq Occupied
  BY <1>1, <1>7 DEF Take
<1>8. ASSUME NEW w \in Worker, Ack(w) PROVE Occupied' \subseteq Occupied
  BY <1>1, <1>8 DEF Ack
<1>9. CASE UNCHANGED vars
  BY <1>1, <1>9 DEF vars
<1> QED  BY <1>2, <1>3, <1>5, <1>6, <1>7, <1>8, <1>9 DEF Next

\* A handler has one machine in hand.
LEMMA HeldBounded ==
    ASSUME IsFiniteSet(Request), NEW f \in [Request -> Avm \cup {None}],
           NEW H, H \subseteq {f[r] : r \in Request}
    PROVE  IsFiniteSet(H) /\ Cardinality(H) <= Cardinality(Request)
<1> DEFINE T == {f[r] : r \in Request}
<1>1. f \in Surjection(Request, T)
  BY DEF Surjection
<1>2. IsFiniteSet(T) /\ Cardinality(T) <= Cardinality(Request)
  BY <1>1, FS_Surjection
<1>3. H \subseteq T
  OBVIOUS
<1> HIDE DEF T
<1>4. IsFiniteSet(H) /\ Cardinality(H) <= Cardinality(T)
  BY <1>2, <1>3, FS_Subset
<1>5. Cardinality(H) \in Nat /\ Cardinality(T) \in Nat /\ Cardinality(Request) \in Nat
  BY <1>2, <1>4, FS_CardinalityType
<1> QED  BY <1>2, <1>4, <1>5

Overshoot == VmLiveMax > 0 =>
    /\ IsFiniteSet(Occupied)
    /\ Cardinality(Occupied) <= VmLiveMax + Cardinality(Request) - 1

LEMMA OvershootStep ==
    ASSUME IsFiniteSet(Request), Typed, TypeOK', Cleaning, Existing, Overshoot, [Next]_vars
    PROVE  Overshoot'
<1> SUFFICES ASSUME VmLiveMax > 0
             PROVE  /\ IsFiniteSet(Occupied)'
                    /\ Cardinality(Occupied') <= VmLiveMax + Cardinality(Request) - 1
  BY DEF Overshoot
<1>0. /\ IsFiniteSet(Occupied) /\ VmLiveMax \in Nat
      /\ Cardinality(Occupied) <= VmLiveMax + Cardinality(Request) - 1
      /\ Cardinality(Occupied) \in Nat /\ Cardinality(Request) \in Nat
  BY LifecycleAssumption, FS_CardinalityType DEF Overshoot
<1>1. ASSUME NEW r \in Request, NEW a \in Avm, CreateChecksQuota(r, a)
      PROVE  /\ IsFiniteSet(Occupied)'
             /\ Cardinality(Occupied') <= VmLiveMax + Cardinality(Request) - 1
  <2>1. Cardinality(Live) < VmLiveMax /\ Live' = Live
    BY <1>1 DEF CreateChecksQuota, Live, Visible, rows
  <2>2. IsFiniteSet(Live) /\ Cardinality(Live) \in Nat
    BY <1>0, FS_Subset, FS_CardinalityType DEF Occupied
  <2>3. IsFiniteSet(Held)' /\ Cardinality(Held') <= Cardinality(Request)
    <3>1. havm' \in [Request -> Avm \cup {None}]
      BY DEF TypeOK
    <3>2. Held' \subseteq {havm'[q] : q \in Request}
      BY DEF Held
    <3> QED  BY <3>1, <3>2, HeldBounded
  <2>4. Cardinality(Held') \in Nat
    BY <2>3, FS_CardinalityType
  <2>5. /\ IsFiniteSet(Live \cup Held') /\ IsFiniteSet(Live \cap Held')
        /\ Cardinality(Live \cup Held')
             = Cardinality(Live) + Cardinality(Held') - Cardinality(Live \cap Held')
    BY <2>2, <2>3, FS_Union, FS_Intersection
  <2>6. Cardinality(Live \cap Held') \in Nat /\ Cardinality(Live \cup Held') \in Nat
    BY <2>5, FS_CardinalityType
  <2>7. Occupied' = Live \cup Held'
    BY <2>1 DEF Occupied
  <2> QED  BY <1>0, <2>1, <2>2, <2>3, <2>4, <2>5, <2>6, <2>7
<1>2. CASE \A r \in Request, a \in Avm : ~CreateChecksQuota(r, a)
  <2>1. Occupied' \subseteq Occupied
    BY <1>2, OccupiedShrinks
  <2>2. /\ IsFiniteSet(Occupied') /\ Cardinality(Occupied') <= Cardinality(Occupied)
        /\ Cardinality(Occupied') \in Nat
    BY <1>0, <2>1, FS_Subset, FS_CardinalityType
  <2> QED  BY <1>0, <2>2
<1> QED  BY <1>1, <1>2

\* The user exceeds the quota (quota.vm_live_max) by at most the requests that were
\* under way together, less one, where one worker runs.
THEOREM OvershootStaysBounded ==
    ASSUME OneWorker, IsFiniteSet(Request)
    PROVE  Spec => []OvershootBounded
<1> DEFINE Inv == Cleaning /\ Existing /\ Overshoot
<1>1. Init => Inv
  <2> SUFFICES ASSUME Init PROVE Inv
    OBVIOUS
  <2>1. Cleaning /\ Existing
    BY LifecycleAssumption DEF Init, Cleaning, DeletedIsClean, Existing
  <2>2. Occupied = {}
    BY LifecycleAssumption DEF Init, Occupied, Live, Held, Visible
  <2>3. Cardinality(Request) \in Nat /\ VmLiveMax \in Nat
    BY LifecycleAssumption, FS_CardinalityType
  <2>4. IsFiniteSet(Occupied) /\ Cardinality(Occupied) = 0
    BY <2>2, FS_EmptySet
  <2> QED  BY <2>1, <2>3, <2>4 DEF Overshoot
<1>2. Typed /\ Typed' /\ Inv /\ [Next]_vars => Inv'
  BY CleaningStep, ExistingStep, OvershootStep DEF Typed
<1>3. Inv => OvershootBounded
  <2> SUFFICES ASSUME Inv, VmLiveMax > 0
               PROVE  Cardinality(Live) <= VmLiveMax + Cardinality(Request) - 1
    BY DEF OvershootBounded
  <2>1. /\ IsFiniteSet(Occupied) /\ Live \subseteq Occupied
        /\ Cardinality(Occupied) <= VmLiveMax + Cardinality(Request) - 1
    BY DEF Overshoot, Occupied
  <2>2. IsFiniteSet(Live) /\ Cardinality(Live) <= Cardinality(Occupied)
    BY <2>1, FS_Subset
  <2>3. /\ Cardinality(Live) \in Nat /\ Cardinality(Occupied) \in Nat
        /\ Cardinality(Request) \in Nat /\ VmLiveMax \in Nat
    BY <2>1, <2>2, FS_CardinalityType, LifecycleAssumption
  <2> QED  BY <2>1, <2>2, <2>3
<1> HIDE DEF Inv
<1> QED  BY TypedAlways, <1>1, <1>2, <1>3, PTL DEF Spec
--------------------------------------------------------------------------------
(* Where one worker runs, these machines are machines as a project knows them.    *)

\* What a step about machine a may do to it.
LEMMA ServiceStep ==
    ASSUME NEW a \in Avm,
           \A b \in Avm : b # a => RowOf(b)' = RowOf(b) /\ Stands(b)' = Stands(b),
           \/ RowOf(a)' = RowOf(a) /\ Stands(a)' = Stands(a)
           \/ RowOf(a) = "NONE" /\ RowOf(a)' = "ACTIVE" /\ Stands(a)' = Stands(a)
           \/ RowOf(a) = "ACTIVE" /\ RowOf(a)' = "ACTIVE"
           \/ RowOf(a) = "ACTIVE" /\ RowOf(a)' = "OVER" /\ ~Stands(a)'
           \/ RowOf(a) = "OVER" /\ RowOf(a)' = "ACTIVE" /\ Stands(a)' = Stands(a)
    PROVE  [Service!Next]_(Service!vars)
<1> DEFINE row == [b \in Avm |-> RowOf(b)]
           built == [b \in Avm |-> Stands(b)]
<1>1. Stands(a)' \in BOOLEAN
  BY DEF Stands
<1>2. row' = [row EXCEPT ![a] = RowOf(a)'] /\ built' = [built EXCEPT ![a] = Stands(a)']
  OBVIOUS
<1>3. row[a] = RowOf(a) /\ built[a] = Stands(a)
  OBVIOUS
<1>4. RowOf(a)' = RowOf(a) => row' = row
  BY <1>2
<1>5. Stands(a)' = Stands(a) => built' = built
  BY <1>2
<1> HIDE DEF row, built
<1>6. \/ row' = row /\ built' = built
      \/ row[a] = "NONE" /\ row' = [row EXCEPT ![a] = "ACTIVE"] /\ built' = built
      \/ row[a] = "ACTIVE" /\ row' = row /\ \E b \in BOOLEAN : built' = [built EXCEPT ![a] = b]
      \/ row[a] = "ACTIVE" /\ row' = [row EXCEPT ![a] = "OVER"] /\ built' = [built EXCEPT ![a] = FALSE]
      \/ row[a] = "OVER" /\ row' = [row EXCEPT ![a] = "ACTIVE"] /\ built' = built
  BY <1>1, <1>2, <1>3, <1>4, <1>5
<1> QED
  BY <1>6 DEF Service!Next, Service!vars, Service!Inserts, Service!Builds, Service!Goes,
              Service!Revives, row, built

LEMMA MachinesStep ==
    ASSUME Typed, Cleaning, Existing, [Next]_vars
    PROVE  [Service!Next]_(Service!vars)
<1> USE DEF RowOf, Stands, rows, resources, At, Goto
<1> /\ status \in [Avm -> Status]
    /\ amqp \in [Avm -> BOOLEAN] /\ stack \in [Avm -> BOOLEAN] /\ containers \in [Avm -> BOOLEAN]
    /\ wavm \in [Worker -> Avm \cup {None}]
  BY DEF Typed, TypeOK
\* Most steps only read, or set a status that counts.
<1>1. ASSUME UNCHANGED resources,
             \/ UNCHANGED status
             \/ \E a \in Avm, s \in {"QUEUED", "CREATING", "READY", "DELETING", "ERROR"} :
                   status' = [status EXCEPT ![a] = s]
      PROVE  [Service!Next]_(Service!vars)
  <2>1. CASE UNCHANGED status
    BY <1>1, <2>1 DEF Service!vars
  <2>2. ASSUME NEW a \in Avm, NEW s \in {"QUEUED", "CREATING", "READY", "DELETING", "ERROR"},
               status' = [status EXCEPT ![a] = s]
        PROVE  [Service!Next]_(Service!vars)
    <3>1. \A b \in Avm : b # a => RowOf(b)' = RowOf(b) /\ Stands(b)' = Stands(b)
      BY <1>1, <2>2
    <3>2. RowOf(a)' = "ACTIVE" /\ Stands(a)' = Stands(a)
      BY <1>1, <2>2
    <3>3. RowOf(a) \in {"NONE", "ACTIVE", "OVER"}
      OBVIOUS
    <3> HIDE DEF RowOf, Stands
    <3> QED  BY <3>1, <3>2, <3>3, ServiceStep
  <2> QED  BY <1>1, <2>1, <2>2
\* A worker changes what there is of the machine it has in hand, which counts.
<1>2. ASSUME NEW w \in Worker, NEW a \in Avm, wavm[w] = a, wpc[w] \notin {"check", "ack"},
             UNCHANGED status,
             \A b \in Avm : b # a => Stands(b)' = Stands(b)
      PROVE  [Service!Next]_(Service!vars)
  <2>1. RowOf(a) = "ACTIVE" /\ \A b \in Avm : RowOf(b)' = RowOf(b)
    BY <1>2 DEF Cleaning, Existing
  <2> HIDE DEF RowOf, Stands
  <2> QED  BY <1>2, <2>1, ServiceStep
<1>3. ASSUME NEW r \in Request, NEW a \in Avm,
             CreateChecksQuota(r, a) \/ DeleteLooksUp(r, a) \/ Handler(r, a)
      PROVE  [Service!Next]_(Service!vars)
  BY <1>1, <1>3 DEF CreateChecksQuota, DeleteLooksUp, Handler, CreateInserts, CreatePublishes,
                    DeletePublishes, DeleteSetsStatus
<1>4. ASSUME NEW w \in Worker, NEW a \in Avm,
             \/ \E k \in Kind : Take(w, a, k)
             \/ Check(w, a) \/ SetError(w, a) \/ Redeliver(w, a)
      PROVE  [Service!Next]_(Service!vars)
  BY <1>1, <1>4 DEF Take, Check, SetError, Redeliver
<1>5. ASSUME NEW w \in Worker, NEW a \in Avm, Fail(w, a) PROVE [Service!Next]_(Service!vars)
  BY <1>2, <1>5 DEF Fail, Running, CreatePc, PlayerPc, DeletePc
<1>6. ASSUME NEW w \in Worker, NEW a \in Avm, AvmCreate(w, a) PROVE [Service!Next]_(Service!vars)
  <2>1. CASE \/ Get(w, a, "c_get", "c_status") \/ SetCreating(w, a) \/ UpdateStackName(w, a)
             \/ PublishContainers(w, a)
    BY <1>1, <2>1 DEF Get, SetCreating, UpdateStackName, PublishContainers
  <2>2. CASE ConfigureAmqp(w, a) \/ CreateStack(w, a)
    BY <1>2, <2>2 DEF ConfigureAmqp, CreateStack
  <2> QED  BY <1>6, <2>1, <2>2 DEF AvmCreate
<1>7. ASSUME NEW w \in Worker, NEW a \in Avm, AvmContainersCreate(w, a)
      PROVE  [Service!Next]_(Service!vars)
  <2>1. CASE \/ Get(w, a, "p_get", "p_output") \/ StackOutput(w, a) \/ Republish(w, a)
             \/ StartBilling(w, a) \/ SetReady(w, a)
    BY <1>1, <2>1 DEF Get, StackOutput, Republish, StartBilling, SetReady
  <2>2. CASE PlayerUp(w, a)
    BY <1>2, <2>2 DEF PlayerUp
  <2> QED  BY <1>7, <2>1, <2>2 DEF AvmContainersCreate
<1>8. ASSUME NEW w \in Worker, NEW a \in Avm, AvmDelete(w, a) PROVE [Service!Next]_(Service!vars)
  <2>1. CASE Get(w, a, "d_get", "d_down") \/ StopBilling(w, a)
    BY <1>1, <2>1 DEF Get, StopBilling
  <2>2. CASE PlayerDown(w, a) \/ RemoveAmqp(w, a) \/ DeleteStack(w, a)
    BY <1>2, <2>2 DEF PlayerDown, RemoveAmqp, DeleteStack
  <2>3. CASE SetDeleted(w, a)
    <3>1. RowOf(a) = "ACTIVE" /\ ~Stands(a)
      BY <2>3 DEF SetDeleted, Cleaning, Existing
    <3>2. /\ RowOf(a)' = "OVER" /\ ~Stands(a)'
          /\ \A b \in Avm : b # a => RowOf(b)' = RowOf(b) /\ Stands(b)' = Stands(b)
      BY <2>3, <3>1 DEF SetDeleted
    <3> HIDE DEF RowOf, Stands
    <3> QED  BY <3>1, <3>2, ServiceStep
  <2> QED  BY <1>8, <2>1, <2>2, <2>3 DEF AvmDelete
<1>9. CASE UNCHANGED vars
  BY <1>1, <1>9 DEF vars
<1>10. ASSUME NEW r \in Request, Abort(r) PROVE [Service!Next]_(Service!vars)
  BY <1>1, <1>10 DEF Abort
<1>11. ASSUME NEW w \in Worker, Ack(w) PROVE [Service!Next]_(Service!vars)
  BY <1>1, <1>11 DEF Ack
<1> QED  BY <1>3, <1>4, <1>5, <1>6, <1>7, <1>8, <1>9, <1>10, <1>11 DEF Next, WorkerStep

\* A machine counts for its project from before anything of it is built until after all
\* of it is gone; what revives a DELETED one does not build it again.
THEOREM MachineRefinement == ASSUME OneWorker PROVE Spec => ImplementsMachines
<1>1. Init => Service!Init
  BY DEF Init, Service!Init, RowOf, Stands
<1>2. Init => Cleaning /\ Existing
  BY LifecycleAssumption DEF Init, Cleaning, DeletedIsClean, Existing
<1>3. Typed /\ Cleaning /\ Existing /\ [Next]_vars => (Cleaning /\ Existing)'
  BY CleaningStep, ExistingStep
<1>4. Typed /\ Cleaning /\ Existing /\ [Next]_vars => [Service!Next]_(Service!vars)
  BY MachinesStep
<1> QED  BY TypedAlways, <1>1, <1>2, <1>3, <1>4, PTL DEF Spec, ImplementsMachines, Service!Spec
================================================================================
