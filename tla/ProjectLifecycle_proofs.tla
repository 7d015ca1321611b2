----------------------- MODULE ProjectLifecycle_proofs -------------------------
(* Theorems about ProjectLifecycle, for any number of tenants, requests and     *)
(* troubles.                                                                    *)
(*                                                                              *)
(* The argument: where one worker runs, a project becomes DELETED only by the   *)
(* last call of a deletion, so a task that has begun finds the project as it    *)
(* was when is_task_obsolete and Project.get looked at it (InTime).             *)
EXTENDS ProjectLifecycle, TLAPS

USE ProjectAssumption

LEMMA TypeInit == Init => TypeOK
<1> SUFFICES ASSUME Init PROVE TypeOK
  OBVIOUS
<1> USE DEF Init
<1>0. volume \in BOOLEAN
  OBVIOUS
<1>1. /\ project \in {"NONE", "QUEUED", "CREATING", "READY", "DELETING", "DELETED", "ERROR"}
      /\ post \in {"idle", "publish", "done"} /\ troubles \in 0..MaxTroubles
  OBVIOUS
<1>2. /\ tenant \in [Tenant -> {"NONE", "ACTIVE", "OVER"}]
      /\ named \in [Machine -> BOOLEAN] /\ built \in [Tenant -> BOOLEAN]
  OBVIOUS
<1>3. queue \in [Message -> Nat]
  OBVIOUS
<1>4. /\ hpc \in [Request -> HandlerPc]
      /\ tpc \in [Tenant -> {"idle", "insert", "publish", "done"}]
  BY DEF HandlerPc
<1>5. /\ wmsg \in [Worker -> Message \cup {NoMessage}]
      /\ wpc \in [Worker -> Calls \cup {"idle", "check", "error", "ack"}]
  OBVIOUS
<1> QED  BY <1>0, <1>1, <1>2, <1>3, <1>4, <1>5 DEF TypeOK

LEMMA TypeStep == TypeOK /\ [Next]_vars => TypeOK'
<1> SUFFICES ASSUME TypeOK, [Next]_vars PROVE TypeOK'
  OBVIOUS
<1> USE DEF TypeOK, rows, http, work, Calls, HandlerPc
<1>1. CASE PostInserts \/ PostPublishes
  BY <1>1 DEF PostInserts, PostPublishes, Publish
<1>2. ASSUME NEW r \in Request,
             Asks(r, "active") \/ Asks(r, "publish_compile") \/ Handler(r) \/ Abort(r)
      PROVE  TypeOK'
  BY <1>2 DEF Asks, Handler, Abort, DeleteChecks, DeletePublishes, DeleteSetsDeleting,
              CompilePublishes, Proceed, Publish, Trouble
<1>3. ASSUME NEW x \in Tenant, TenantAsks(x) \/ TenantHandler(x) \/ TenantGoes(x)
      PROVE  TypeOK'
  <2>1. CASE TenantAsks(x)       BY <2>1 DEF TenantAsks, Advance
  <2>2. CASE TenantInserts(x)    BY <2>2 DEF TenantInserts, Advance
  <2>3. CASE TenantPublishes(x)
    <3>1. queue' \in [Message -> Nat]
      BY <2>3 DEF TenantPublishes, Publish, Message
    <3> QED  BY <2>3, <3>1 DEF TenantPublishes, Advance
  <2>4. CASE TenantGoes(x)
    <3>1. /\ tenant' \in [Tenant -> {"NONE", "ACTIVE", "OVER"}]
          /\ UNCHANGED <<project, named, volume, queue, http, work, troubles>>
      BY <2>4 DEF TenantGoes
    <3>2. built' \in [Tenant -> BOOLEAN]
      BY <2>4 DEF TenantGoes
    <3> QED  BY <3>1, <3>2
  <2> QED  BY <1>3, <2>1, <2>2, <2>3, <2>4 DEF TenantHandler
<1>9. ASSUME NEW x \in Machine, MachineRevives(x) PROVE TypeOK'
  BY <1>9 DEF MachineRevives
<1>4. ASSUME NEW w \in Worker, NEW m \in Message, Take(w, m) PROVE TypeOK'
  BY <1>4 DEF Take
<1>5. ASSUME NEW w \in Worker, Redeliver(w) \/ Fail(w) PROVE TypeOK'
  BY <1>5 DEF Redeliver, Fail, Rest, Goto, Trouble
<1>6. ASSUME NEW w \in Worker, WorkerStep(w) PROVE TypeOK'
  <2> USE DEF Goto
  <2>1. CASE Check(w)       BY <2>1 DEF Check, First
  <2>2. CASE SetError(w)    BY <2>2 DEF SetError
  <2>3. CASE Ack(w)         BY <2>3 DEF Ack, Rest
  <2>4. CASE DeleteAsks(w) \/ CompileStores(w) \/ RunPublishes(w)
    BY <2>4 DEF DeleteAsks, CompileStores, RunPublishes
  <2>5. ASSUME NEW x \in Machine, Names(w, x) \/ Builds(w, x) PROVE TypeOK'
    <3>1. x \in Tenant
      BY DEF Tenant
    <3>2. CASE Names(w, x)   BY <3>2 DEF Names
    <3>3. CASE Builds(w, x)  BY <3>1, <3>3 DEF Builds
    <3> QED  BY <2>5, <3>2, <3>3
  <2>9. ASSUME NEW x \in Campaign, Runs(w, x) PROVE TypeOK'
    <3>1. x \in Tenant
      BY DEF Tenant
    <3>2. built' \in [Tenant -> BOOLEAN] /\ tenant' \in [Tenant -> {"NONE", "ACTIVE", "OVER"}]
      BY <2>9, <3>1 DEF Runs
    <3> QED  BY <2>9, <3>2 DEF Runs
  <2>6. CASE \/ Get(w, "c_get", "creating") \/ Get(w, "d_get", "active")
             \/ Get(w, "t_get", IF wmsg[w][2] \in Machine THEN "name" ELSE "build")
             \/ Get(w, "k_get", "store")
    BY <2>6 DEF Get
  <2>7. CASE \/ Sets(w, "create", "creating", "CREATING", "up")
             \/ Sets(w, "create", "ready", "READY", "ack")
             \/ Sets(w, "delete", "deleted", "DELETED", "ack")
    BY <2>7 DEF Sets
  <2>8. CASE Composes(w, "create", "up", TRUE, "ready") \/ Composes(w, "delete", "down", FALSE, "deleted")
    BY <2>8 DEF Composes
  <2> QED  BY <1>6, <2>1, <2>2, <2>3, <2>4, <2>5, <2>6, <2>7, <2>8, <2>9 DEF WorkerStep
<1>7. CASE UNCHANGED vars
  BY <1>7 DEF vars
<1> QED  BY <1>1, <1>2, <1>3, <1>4, <1>5, <1>6, <1>7, <1>9 DEF Next

\* Every variable stays within its type.
THEOREM TypeCorrect == Spec => []TypeOK
BY TypeInit, TypeStep, PTL DEF Spec

--------------------------------------------------------------------------------
(* One worker.                                                                  *)

OneWorker == \A v, w \in Worker : v = w

\* What the only worker may rely on at each call.
InTime ==
    /\ \A x \in Tenant : built[x] => tenant[x] = "ACTIVE"
    /\ \A w \in Worker :
        /\ wpc[w] = "idle" => wmsg[w] = NoMessage
        /\ wpc[w] \in Calls \cup {"error"} => project # "DELETED"
        /\ wpc[w] \in {"down", "deleted"} => \A x \in Tenant : ~built[x]
        /\ wpc[w] = "deleted" => ~volume
        /\ wpc[w] = "ready" => volume
        /\ wpc[w] \in {"d_get", "active", "down", "deleted"} => wmsg[w] = <<"delete", None>>
        /\ wpc[w] \in {"t_get", "name", "build", "publish"} => wmsg[w] # <<"delete", None>>
        /\ wpc[w] \in {"name", "build"} /\ wmsg[w][2] \in Machine => tenant[wmsg[w][2]] = "ACTIVE"
        /\ wpc[w] = "ack" /\ wmsg[w] = <<"delete", None>> => project # "READY"

IInv == InTime /\ DeletedIsEmpty /\ ReadyHasVolume

\* The messages of a project name no tenant.
LEMMA OfTheProject ==
    ASSUME TypeOK, NEW w \in Worker, wmsg[w][1] \in {"create", "delete", "compile"}
    PROVE  /\ wmsg[w][2] = None
           /\ wmsg[w] = <<wmsg[w][1], None>>
<1>1. wmsg[w] \in Message \cup {NoMessage}
  BY DEF TypeOK
<1> QED  BY <1>1 DEF Message, NoMessage

LEMMA InTimeStep ==
    ASSUME OneWorker, TypeOK, IInv, [Next]_vars
    PROVE  IInv'
<1> USE DEF TypeOK, IInv, InTime, DeletedIsEmpty, ReadyHasVolume, Pending, rows, http, work, Calls
<1>1. CASE PostInserts \/ PostPublishes
  BY <1>1 DEF PostInserts, PostPublishes, Publish, Message
<1>2. ASSUME NEW r \in Request,
             Asks(r, "active") \/ Asks(r, "publish_compile") \/ Handler(r) \/ Abort(r)
      PROVE  IInv'
  BY <1>2 DEF Asks, Handler, Abort, DeleteChecks, DeletePublishes, DeleteSetsDeleting,
              CompilePublishes, Publish, Message
<1>3. ASSUME NEW x \in Tenant, TenantAsks(x) \/ TenantHandler(x) \/ TenantGoes(x)
      PROVE  IInv'
  <2>1. CASE TenantAsks(x)       BY <2>1 DEF TenantAsks
  <2>2. CASE TenantInserts(x)    BY <2>2 DEF TenantInserts
  <2>3. CASE TenantPublishes(x)  BY <2>3 DEF TenantPublishes, Publish, Message
  <2>4. CASE TenantGoes(x)
    <3>1. CASE x \in Machine
      <4>1. \A v \in Worker : wpc[v] = "idle"
        BY <2>4, <3>1, OneWorker DEF TenantGoes, OneWorker
      <4> QED  BY <2>4, <4>1 DEF TenantGoes
    <3>2. CASE x \notin Machine
      BY <2>4, <3>2 DEF TenantGoes
    <3> QED  BY <3>1, <3>2
  <2> QED  BY <1>3, <2>1, <2>2, <2>3, <2>4 DEF TenantHandler
<1>9. ASSUME NEW x \in Machine, MachineRevives(x) PROVE IInv'
  BY <1>9 DEF MachineRevives, Tenant
<1>4. ASSUME NEW w \in Worker, NEW m \in Message, Take(w, m) PROVE IInv'
  <2>1. wpc' = [wpc EXCEPT ![w] = "check"] /\ wmsg' = [wmsg EXCEPT ![w] = m] /\ wpc[w] = "idle"
    BY <1>4 DEF Take
  <2>2. InTime' /\ DeletedIsEmpty'
    BY <1>4, <2>1, OneWorker DEF Take, OneWorker
  <2>3. ASSUME NEW d \in Message, Pending(d) PROVE Pending(d)'
    <3>1. ASSUME NEW v \in Worker PROVE v = w /\ wmsg[v] # d
      BY <1>4, <2>1, OneWorker DEF OneWorker, Message, NoMessage
    <3>2. queue[d] > 0
      BY <2>3, <3>1
    <3>3. CASE m = d   BY <2>1, <3>3
    <3>4. CASE m # d   BY <1>4, <3>2, <3>4 DEF Take
    <3> QED  BY <3>3, <3>4
  <2> QED  BY <1>4, <2>2, <2>3 DEF Take, Message
<1>5. ASSUME NEW w \in Worker, Redeliver(w) PROVE IInv'
  <2> USE OneWorker DEF OneWorker
  <2>1. \A v \in Worker : wpc'[v] = "idle" /\ wmsg'[v] = NoMessage
    BY <1>5 DEF Redeliver, Rest
  <2>2. ASSUME Pending(<<"delete", None>>) PROVE Pending(<<"delete", None>>)'
    BY <1>5, <2>2 DEF Redeliver, Message
  <2> QED  BY <1>5, <2>1, <2>2 DEF Redeliver
<1>6. ASSUME NEW w \in Worker, Fail(w) PROVE IInv'
  BY <1>6 DEF Fail, Goto
<1>7. ASSUME NEW w \in Worker, WorkerStep(w) PROVE IInv'
  <2> USE OneWorker DEF OneWorker, Goto, At
  <2>0. \A v \in Worker : v = w
    OBVIOUS
  <2>1. CASE Check(w)
    <3>1. wpc' = [wpc EXCEPT ![w] = IF project = "DELETED" \/ (wmsg[w][2] \in Machine /\ tenant[wmsg[w][2]] = "OVER")
                                    THEN "ack" ELSE First(wmsg[w])]
      BY <2>1 DEF Check
    <3>2. /\ First(wmsg[w]) \in {"c_get", "d_get", "k_get", "t_get"}
          /\ First(wmsg[w]) = "d_get" => wmsg[w] = <<"delete", None>>
          /\ First(wmsg[w]) = "t_get" => wmsg[w] # <<"delete", None>>
      BY OfTheProject DEF First
    <3>3. wmsg[w] = <<"delete", None>> => wmsg[w][2] \notin Machine
      BY DEF Tenant
    <3> QED  BY <2>0, <2>1, <3>1, <3>2, <3>3 DEF Check
  <2>2. CASE SetError(w)
    <3>1. wmsg[w] = <<"delete", None>> => wmsg[w][2] \notin Machine
      BY DEF Tenant
    <3> QED  BY <2>0, <2>2, <3>1 DEF SetError
  <2>3. CASE Ack(w)
    <3>1. \A v \in Worker : wpc'[v] = "idle" /\ wmsg'[v] = NoMessage
      BY <2>3 DEF Ack, Rest
    <3> QED  BY <2>3, <3>1 DEF Ack
  <2>4. CASE DeleteAsks(w)
    <3>1. wmsg[w] = <<"delete", None>>
      BY <2>4 DEF DeleteAsks
    <3>2. CASE IsActive
      BY <2>0, <2>4, <3>1, <3>2 DEF DeleteAsks
    <3>3. CASE ~IsActive
      BY <2>0, <2>4, <3>1, <3>3 DEF DeleteAsks, IsActive
    <3> QED  BY <3>2, <3>3
  <2>5. CASE CompileStores(w)
    BY <2>0, <2>5 DEF CompileStores
  <2>6. ASSUME NEW x \in Machine, Names(w, x) \/ Builds(w, x) PROVE IInv'
    BY <2>0, <2>6 DEF Names, Builds, Tenant
  <2>16. ASSUME NEW x \in Campaign, Runs(w, x) PROVE IInv'
    BY <2>0, <2>16 DEF Runs, Tenant
  <2>17. CASE RunPublishes(w)
    BY <2>0, <2>17 DEF RunPublishes
  <2>7. CASE Get(w, "c_get", "creating")
    BY <2>0, <2>7 DEF Get, Visible
  <2>8. CASE Get(w, "d_get", "active")
    BY <2>0, <2>8 DEF Get, Visible
  <2>9. CASE Get(w, "t_get", IF wmsg[w][2] \in Machine THEN "name" ELSE "build")
    BY <2>0, <2>9 DEF Get, Visible
  <2>10. CASE Get(w, "k_get", "store")
    BY <2>0, <2>10 DEF Get, Visible
  <2>11. CASE Sets(w, "create", "creating", "CREATING", "up")
    BY <2>0, <2>11 DEF Sets
  <2>12. CASE Sets(w, "create", "ready", "READY", "ack")
    BY <2>0, <2>12 DEF Sets
  <2>13. CASE Sets(w, "delete", "deleted", "DELETED", "ack")
    BY <2>0, <2>13 DEF Sets
  <2>14. CASE Composes(w, "create", "up", TRUE, "ready")
    BY <2>0, <2>14 DEF Composes
  <2>15. CASE Composes(w, "delete", "down", FALSE, "deleted")
    BY <2>0, <2>15, OfTheProject DEF Composes
  <2> QED  BY <1>7, <2>1, <2>2, <2>3, <2>4, <2>5, <2>6, <2>7, <2>8, <2>9, <2>10, <2>11, <2>12, <2>13,
               <2>14, <2>15, <2>16, <2>17 DEF WorkerStep
<1>8. CASE UNCHANGED vars
  BY <1>8 DEF vars
<1> QED  BY <1>1, <1>2, <1>3, <1>4, <1>5, <1>6, <1>7, <1>8, <1>9 DEF Next

LEMMA AllInTime == ASSUME OneWorker PROVE Spec => [](TypeOK /\ IInv)
<1>1. Init => IInv
  BY DEF Init, IInv, InTime, DeletedIsEmpty, ReadyHasVolume, Calls
<1>2. TypeOK /\ IInv /\ [Next]_vars => (TypeOK /\ IInv)'
  BY TypeStep, InTimeStep, OneWorker
<1> QED  BY TypeInit, <1>1, <1>2, PTL DEF Spec

\* Where one worker runs, a DELETED project has neither a volume nor a machine or
\* campaign that was built.
THEOREM DeletedEmpty == ASSUME OneWorker PROVE Spec => []DeletedIsEmpty
BY AllInTime, OneWorker, PTL DEF IInv

\* Where one worker runs, a READY project has its volume until its deletion is on the way.
THEOREM ReadyWithVolume == ASSUME OneWorker PROVE Spec => []ReadyHasVolume
BY AllInTime, OneWorker, PTL DEF IInv

--------------------------------------------------------------------------------
(* A DELETED project stays away.                                                *)

\* Nothing happens before the project is created.
Untouched == post = "idle" =>
    /\ project = "NONE"
    /\ \A r \in Request : hpc[r] = "idle"
    /\ \A x \in Tenant : tpc[x] = "idle" /\ tenant[x] = "NONE"
    /\ \A m \in Message : queue[m] = 0
    /\ \A w \in Worker : wpc[w] = "idle"

LEMMA UntouchedStep == TypeOK /\ Untouched /\ [Next]_vars => Untouched'
<1> SUFFICES ASSUME TypeOK, Untouched, [Next]_vars PROVE Untouched'
  OBVIOUS
<1>1. CASE post # "idle"
  <2>1. post' # "idle"
    BY <1>1 DEF Next, vars, http, PostInserts, PostPublishes, Asks, Handler, DeleteChecks,
       DeletePublishes, DeleteSetsDeleting, CompilePublishes, Abort, TenantAsks, TenantHandler,
       TenantInserts, TenantPublishes, TenantGoes, Proceed, Advance, Take, WorkerStep, Check,
       SetError, Ack, Redeliver, Fail, Get, Sets, Composes, DeleteAsks, Names, Builds,
       Runs, RunPublishes, MachineRevives, CompileStores
  <2> QED  BY <2>1 DEF Untouched
<1>2. CASE post = "idle"
  <2> USE <1>2 DEF Untouched, Visible
  <2>1. ~PostPublishes /\ \A r \in Request : ~Handler(r) /\ ~Abort(r)
    BY DEF PostPublishes, Handler, DeleteChecks, DeletePublishes, DeleteSetsDeleting,
           CompilePublishes, Abort
  <2>2. /\ \A r \in Request : ~Asks(r, "active") /\ ~Asks(r, "publish_compile")
        /\ \A x \in Tenant : ~TenantAsks(x) /\ ~TenantHandler(x)
    BY DEF Asks, TenantAsks, TenantHandler, TenantInserts, TenantPublishes
  <2>3. (\A x \in Tenant : ~TenantGoes(x)) /\ \A x \in Machine : ~MachineRevives(x)
    BY DEF TenantGoes, MachineRevives, Tenant
  <2>4. \A w \in Worker : ~Redeliver(w) /\ ~Fail(w) /\ \A m \in Message : ~Take(w, m)
    BY DEF Redeliver, Fail, Take, Calls
  <2>5. \A w \in Worker : ~WorkerStep(w)
    BY DEF WorkerStep, Check, SetError, Ack, Get, Sets, Composes, DeleteAsks, Names, Builds, Runs,
           RunPublishes, CompileStores, At
  <2>6. PostInserts \/ UNCHANGED vars
    BY <2>1, <2>2, <2>3, <2>4, <2>5 DEF Next
  <2> QED  BY <2>6 DEF PostInserts, Untouched, vars, http, work, rows
<1> QED  BY <1>1, <1>2

\* Where one worker runs, nothing brings a DELETED project back but a handler of DELETE
\* that was overtaken, which makes it DELETING.
THEOREM DeletedStays == ASSUME OneWorker PROVE Spec => StaysDeleted
<1>1. ASSUME TypeOK, IInv, Untouched, [Next]_vars
      PROVE  [project = "DELETED" => project' \in {"DELETED", "DELETING"}]_project
  <2>1. SUFFICES ASSUME project = "DELETED", project' # project PROVE project' = "DELETING"
    OBVIOUS
  <2>2. \/ PostInserts \/ \E r \in Request : DeleteSetsDeleting(r)
        \/ \E w \in Worker : SetError(w)
        \/ \E w \in Worker : wpc[w] \in Calls
    BY <1>1, <2>1 DEF Next, vars, rows, PostPublishes, Asks, Handler, DeleteChecks, DeletePublishes,
       CompilePublishes, Abort, TenantAsks, TenantHandler, TenantInserts, TenantPublishes, TenantGoes,
       Take, WorkerStep, Check, Ack, Redeliver, Fail, Get, Sets, Composes, DeleteAsks, Names, Builds,
       Runs, RunPublishes, MachineRevives, CompileStores, At, Calls
  <2> QED  BY <1>1, <2>1, <2>2 DEF PostInserts, Untouched, DeleteSetsDeleting, SetError, IInv, InTime
<1>2. Init => Untouched
  BY DEF Init, Untouched
<1> QED  BY AllInTime, OneWorker, UntouchedStep, <1>1, <1>2, PTL DEF Spec, StaysDeleted

--------------------------------------------------------------------------------
(* The machines are those that AvmLifecycle and Campaign implement.             *)

LEMMA ServiceStep ==
    ASSUME TypeOK, NEW x \in Machine, NEW t \in {"NONE", "ACTIVE", "OVER"}, NEW b \in BOOLEAN,
           \A y \in Machine : tenant'[y] = IF y = x THEN t ELSE tenant[y],
           \A y \in Machine : built'[y] = IF y = x THEN b ELSE built[y],
           \/ tenant[x] = "ACTIVE" /\ (t = "ACTIVE" \/ (t = "OVER" /\ ~b))
           \/ tenant[x] # "ACTIVE" /\ t = "ACTIVE" /\ b = built[x]
    PROVE  Service!Next
<1> DEFINE row == [y \in Machine |-> tenant[y]]
           up == [y \in Machine |-> built[y]]
<1>1. row' = [row EXCEPT ![x] = t] /\ up' = [up EXCEPT ![x] = b]
  OBVIOUS
<1>2. /\ row[x] = tenant[x] /\ tenant[x] \in {"NONE", "ACTIVE", "OVER"}
      /\ up[x] = built[x] /\ built[x] \in BOOLEAN
  BY DEF TypeOK, Tenant
<1>3. t = row[x] => row' = row
  BY <1>1
<1>4. b = up[x] => up' = up
  BY <1>1
<1> HIDE DEF row, up
<1>5. \/ row[x] = "NONE" /\ row' = [row EXCEPT ![x] = "ACTIVE"] /\ up' = up
      \/ row[x] = "ACTIVE" /\ row' = row /\ \E c \in BOOLEAN : up' = [up EXCEPT ![x] = c]
      \/ row[x] = "ACTIVE" /\ row' = [row EXCEPT ![x] = "OVER"] /\ up' = [up EXCEPT ![x] = FALSE]
      \/ row[x] = "OVER" /\ row' = [row EXCEPT ![x] = "ACTIVE"] /\ up' = up
  BY <1>1, <1>2, <1>3, <1>4
<1> QED
  BY <1>5 DEF Service!Next, Service!Inserts, Service!Builds, Service!Goes, Service!Revives, row, up

LEMMA MachinesStep ==
    ASSUME TypeOK, InTime, [Next]_vars
    PROVE  [Service!Next]_(Service!vars)
<1> USE DEF rows, http, work
<1>1. ASSUME UNCHANGED <<tenant, built>> PROVE [Service!Next]_(Service!vars)
  BY <1>1 DEF Service!vars
<1>2. CASE \/ PostInserts \/ PostPublishes
           \/ \E r \in Request : \/ Asks(r, "active") \/ Asks(r, "publish_compile")
                                \/ Handler(r) \/ Abort(r)
           \/ \E w \in Worker : \/ Redeliver(w) \/ Fail(w)
                               \/ \E m \in Message : Take(w, m)
           \/ UNCHANGED vars
  BY <1>1, <1>2 DEF PostInserts, PostPublishes, Asks, Handler, DeleteChecks, DeletePublishes,
     DeleteSetsDeleting, CompilePublishes, Abort, Redeliver, Fail, Take, vars
<1>3. ASSUME NEW x \in Tenant, TenantAsks(x) \/ TenantHandler(x) \/ TenantGoes(x)
      PROVE  [Service!Next]_(Service!vars)
  <2>1. CASE TenantAsks(x) \/ TenantPublishes(x)
    BY <1>1, <2>1 DEF TenantAsks, TenantPublishes
  <2>2. CASE x \notin Machine /\ (TenantInserts(x) \/ TenantGoes(x))
    <3>1. \A y \in Machine : tenant'[y] = tenant[y] /\ built'[y] = built[y]
      BY <2>2 DEF TenantInserts, TenantGoes, TypeOK, Tenant
    <3> QED  BY <3>1 DEF Service!vars
  <2>3. CASE x \in Machine /\ TenantInserts(x)
    <3>1. \A y \in Machine : tenant'[y] = IF y = x THEN "ACTIVE" ELSE tenant[y]
      BY <2>3 DEF TenantInserts, TypeOK, Tenant
    <3>2. built' = built /\ built[x] \in BOOLEAN
      BY <2>3 DEF TenantInserts, TypeOK
    <3> QED  BY <2>3, <3>1, <3>2, ServiceStep
  <2>4. CASE x \in Machine /\ TenantGoes(x)
    <3>1. tenant[x] = "ACTIVE"
      BY <2>4 DEF TenantGoes
    <3>2. \A y \in Machine : /\ tenant'[y] = IF y = x THEN "OVER" ELSE tenant[y]
                            /\ built'[y] = IF y = x THEN FALSE ELSE built[y]
      BY <2>4 DEF TenantGoes, TypeOK, Tenant
    <3> QED  BY <2>4, <3>1, <3>2, ServiceStep
  <2> QED  BY <1>3, <2>1, <2>2, <2>3, <2>4 DEF TenantHandler
<1>4. ASSUME NEW x \in Machine, MachineRevives(x) PROVE [Service!Next]_(Service!vars)
  <2>1. \A y \in Machine : tenant'[y] = IF y = x THEN "ACTIVE" ELSE tenant[y]
    BY <1>4 DEF MachineRevives, TypeOK, Tenant
  <2>2. tenant[x] = "OVER" /\ built' = built /\ built[x] \in BOOLEAN
    BY <1>4 DEF MachineRevives, TypeOK, Tenant
  <2> QED  BY <2>1, <2>2, ServiceStep
<1>5. ASSUME NEW w \in Worker, WorkerStep(w) PROVE [Service!Next]_(Service!vars)
  <2>1. ASSUME NEW x \in Machine, Builds(w, x) PROVE [Service!Next]_(Service!vars)
    <3>1. tenant[x] = "ACTIVE"
      BY <2>1 DEF Builds, InTime
    <3>2. \A y \in Machine : /\ built'[y] = IF y = x THEN TRUE ELSE built[y]
                            /\ tenant'[y] = IF y = x THEN "ACTIVE" ELSE tenant[y]
      BY <2>1, <3>1 DEF Builds, TypeOK, Tenant
    <3> QED  BY <3>1, <3>2, ServiceStep
  <2>2. ASSUME NEW x \in Campaign, Runs(w, x) PROVE [Service!Next]_(Service!vars)
    <3>1. \A y \in Machine : tenant'[y] = tenant[y] /\ built'[y] = built[y]
      BY <2>2 DEF Runs, TypeOK, Tenant
    <3> QED  BY <3>1 DEF Service!vars
  <2>3. ASSUME NEW x \in Machine, Names(w, x) PROVE [Service!Next]_(Service!vars)
    BY <1>1, <2>3 DEF Names
  <2>4. CASE UNCHANGED <<tenant, built>>
    BY <1>1, <2>4
  <2> QED  BY <1>5, <2>1, <2>2, <2>3, <2>4 DEF WorkerStep, Check, SetError, Ack, Get, DeleteAsks, Sets,
              Composes, RunPublishes, CompileStores
<1> QED  BY <1>2, <1>3, <1>4, <1>5 DEF Next

\* Where one worker runs, a machine of the project is inserted before it is built and over
\* only when nothing of it stands, whatever happens to the project around it.
THEOREM MachineRefinement == ASSUME OneWorker PROVE Spec => ImplementsMachines
<1>1. Init => Service!Init
  BY DEF Init, Service!Init, Tenant
<1>2. TypeOK /\ IInv /\ [Next]_vars => [Service!Next]_(Service!vars)
  BY MachinesStep DEF IInv
<1> QED  BY AllInTime, OneWorker, <1>1, <1>2, PTL DEF Spec, ImplementsMachines, Service!Spec

--------------------------------------------------------------------------------
(* A project that shows QUEUED or CREATING is being created.                    *)

Creation == <<"create", None>>

\* The one message that creates the project is in one place.
OneCreation ==
    /\ queue[Creation] <= 1
    /\ post # "done" => queue[Creation] = 0 /\ \A w \in Worker : wmsg[w] # Creation
    /\ \A w \in Worker : wmsg[w] = Creation => queue[Creation] = 0 /\ wpc[w] # "idle"
    /\ \A v, w \in Worker : wmsg[v] = Creation /\ wmsg[w] = Creation => v = w

\* POST has yet to publish it, or it is in the broker, or with a worker that has yet to
\* record how it ended.
Creating == \/ post = "publish" \/ queue[Creation] > 0
            \/ \E w \in Worker : wmsg[w] = Creation /\ wpc[w] # "ack"

CreationGoesOn == project \in {"QUEUED", "CREATING"} => Creating

LEMMA CreationInit == Init => OneCreation /\ CreationGoesOn
BY DEF Init, OneCreation, CreationGoesOn, Creation, Message, NoMessage

\* A step that has nothing to do with the creation.
LEMMA CreationFrame ==
    ASSUME TypeOK, OneCreation, CreationGoesOn, [Next]_vars,
           queue'[Creation] = queue[Creation], post' = post,
           \A w \in Worker : \/ wmsg'[w] = wmsg[w] /\ (wpc'[w] = wpc[w] \/ wpc'[w] \notin {"idle", "ack"})
                             \/ wmsg[w] # Creation /\ wmsg'[w] # Creation,
           project' \in {"QUEUED", "CREATING"} => project \in {"QUEUED", "CREATING"}
    PROVE  OneCreation' /\ CreationGoesOn'
<1>1. \A w \in Worker : (wmsg'[w] = Creation) = (wmsg[w] = Creation)
  OBVIOUS
<1>2. \A w \in Worker : wmsg[w] = Creation => \/ wpc'[w] = wpc[w]
                                             \/ wpc'[w] \notin {"idle", "ack"}
  OBVIOUS
<1>3. OneCreation'
  BY <1>1, <1>2 DEF OneCreation, Creation
<1>4. Creating => Creating'
  BY <1>1, <1>2 DEF Creating, Creation
<1> QED  BY <1>3, <1>4 DEF CreationGoesOn

LEMMA OtherPublications ==
    ASSUME TypeOK, NEW task, NEW x, <<task, x>> # Creation, Publish(task, x)
    PROVE  queue'[Creation] = queue[Creation]
<1>1. Creation \in Message
  BY DEF Creation, Message
<1> QED  BY <1>1 DEF TypeOK, Publish

LEMMA CreationStep ==
    TypeOK /\ Untouched /\ OneCreation /\ CreationGoesOn /\ [Next]_vars
        => (OneCreation /\ CreationGoesOn)'
<1> SUFFICES ASSUME TypeOK, Untouched, OneCreation, CreationGoesOn, [Next]_vars
             PROVE  OneCreation' /\ CreationGoesOn'
  OBVIOUS
<1>0. /\ Creation \in Message /\ Creation # NoMessage /\ queue[Creation] \in Nat
      /\ \A m \in Message : m[1] = "create" => m = Creation
  BY DEF TypeOK, Creation, Message, NoMessage
<1> USE DEF rows, http, work
<1>1. CASE PostInserts
  BY <1>1 DEF PostInserts, OneCreation, CreationGoesOn, Creating
<1>2. CASE PostPublishes
  <2>1. queue'[Creation] = queue[Creation] + 1
    BY <1>0, <1>2 DEF PostPublishes, Publish, Creation, TypeOK
  <2>2. post = "publish" /\ post' = "done" /\ wmsg' = wmsg /\ wpc' = wpc
    BY <1>2 DEF PostPublishes
  <2> QED  BY <1>0, <2>1, <2>2 DEF OneCreation, CreationGoesOn, Creating
<1>3. ASSUME NEW r \in Request,
             Asks(r, "active") \/ Asks(r, "publish_compile") \/ Handler(r) \/ Abort(r)
      PROVE  OneCreation' /\ CreationGoesOn'
  <2>1. queue'[Creation] = queue[Creation]
    <3>1. <<"delete", None>> # Creation /\ <<"compile", None>> # Creation
      BY DEF Creation
    <3>2. UNCHANGED queue \/ Publish("delete", None) \/ Publish("compile", None)
      BY <1>3 DEF Asks, Handler, Abort, DeleteChecks, DeletePublishes, DeleteSetsDeleting,
                  CompilePublishes
    <3> QED  BY <3>1, <3>2, OtherPublications
  <2> QED  BY <1>3, <2>1, CreationFrame DEF Asks, Handler, Abort, DeleteChecks, DeletePublishes,
                  DeleteSetsDeleting, CompilePublishes, Proceed
<1>4. ASSUME NEW x \in Tenant, TenantAsks(x) \/ TenantHandler(x) \/ TenantGoes(x)
      PROVE  OneCreation' /\ CreationGoesOn'
  <2>1. queue'[Creation] = queue[Creation]
    <3>1. <<"run", x>> # Creation
      BY DEF Creation
    <3>2. UNCHANGED queue \/ Publish("run", x)
      BY <1>4 DEF TenantAsks, TenantHandler, TenantInserts, TenantPublishes, TenantGoes
    <3> QED  BY <3>1, <3>2, OtherPublications
  <2> QED  BY <1>4, <2>1, CreationFrame DEF TenantAsks, TenantHandler, TenantInserts,
                  TenantPublishes, TenantGoes, Advance
<1>5. ASSUME NEW x \in Machine, MachineRevives(x) PROVE OneCreation' /\ CreationGoesOn'
  BY <1>5, CreationFrame DEF MachineRevives
<1>6. ASSUME NEW w \in Worker, NEW m \in Message, Take(w, m)
      PROVE  OneCreation' /\ CreationGoesOn'
  <2>1. /\ wpc[w] = "idle" /\ wmsg'[w] = m /\ wpc'[w] = "check"
        /\ \A v \in Worker : v # w => wmsg'[v] = wmsg[v] /\ wpc'[v] = wpc[v]
        /\ queue'[Creation] = IF m = Creation THEN queue[Creation] - 1 ELSE queue[Creation]
        /\ queue[m] > 0 /\ UNCHANGED <<project, post>>
    BY <1>0, <1>6 DEF Take, TypeOK
  <2>2. wmsg[w] # Creation
    BY <2>1 DEF OneCreation
  <2>3. CASE m = Creation
    <3>1. /\ queue'[Creation] = 0 /\ queue'[Creation] <= 1
          /\ \A v \in Worker : wmsg[v] # Creation
      BY <1>0, <2>1, <2>3 DEF OneCreation
    <3>2. post' = "done"
      BY <1>0, <2>1, <2>3 DEF OneCreation
    <3>3. wmsg'[w] = Creation /\ \A v \in Worker : v # w => wmsg'[v] # Creation
      BY <2>1, <2>3, <3>1
    <3>4. OneCreation'
      <4>1. \A v \in Worker : wmsg'[v] = Creation => v = w
        BY <3>3
      <4>2. wpc'[w] # "idle"
        BY <2>1
      <4>3. \A v \in Worker : wmsg'[v] = Creation => queue'[Creation] = 0 /\ wpc'[v] # "idle"
        BY <3>1, <4>1, <4>2
      <4>4. \A u, v \in Worker : wmsg'[u] = Creation /\ wmsg'[v] = Creation => u = v
        BY <4>1
      <4> QED  BY <3>1, <3>2, <4>3, <4>4 DEF OneCreation
    <3>5. Creating'
      BY <2>1, <3>3 DEF Creating, Creation
    <3> QED  BY <3>4, <3>5 DEF CreationGoesOn
  <2>4. CASE m # Creation
    BY <2>1, <2>2, <2>4, CreationFrame
  <2> QED  BY <2>3, <2>4
<1>7. ASSUME NEW w \in Worker, Redeliver(w) PROVE OneCreation' /\ CreationGoesOn'
  <2>1. /\ wmsg'[w] = NoMessage /\ wpc'[w] = "idle"
        /\ \A v \in Worker : v # w => wmsg'[v] = wmsg[v] /\ wpc'[v] = wpc[v]
        /\ queue'[Creation] = IF wmsg[w] = Creation THEN queue[Creation] + 1 ELSE queue[Creation]
        /\ UNCHANGED <<project, post>>
    BY <1>0, <1>7 DEF Redeliver, Rest, TypeOK
  <2>2. CASE wmsg[w] = Creation
    <3>1. post = "done" /\ queue'[Creation] = 1 /\ \A v \in Worker : v # w => wmsg[v] # Creation
      BY <1>0, <2>1, <2>2 DEF OneCreation, TypeOK
    <3> QED  BY <1>0, <2>1, <3>1 DEF OneCreation, CreationGoesOn, Creating, Creation
  <2>3. CASE wmsg[w] # Creation
    BY <1>0, <2>1, <2>3, CreationFrame
  <2> QED  BY <2>2, <2>3
<1>8. ASSUME NEW w \in Worker, Fail(w) PROVE OneCreation' /\ CreationGoesOn'
  BY <1>8, CreationFrame DEF Fail, Goto, TypeOK
<1>9. ASSUME NEW w \in Worker, WorkerStep(w) PROVE OneCreation' /\ CreationGoesOn'
  <2>1. CASE Ack(w)
    <3>1. /\ wmsg'[w] = NoMessage /\ wpc'[w] = "idle" /\ wpc[w] = "ack"
          /\ \A v \in Worker : v # w => wmsg'[v] = wmsg[v] /\ wpc'[v] = wpc[v]
          /\ UNCHANGED <<project, post, queue>>
      BY <1>0, <2>1 DEF Ack, Rest, TypeOK
    <3>2. OneCreation'
      BY <1>0, <3>1 DEF OneCreation, Creation
    <3>3. Creating => Creating'
      BY <3>1 DEF Creating, Creation
    <3> QED  BY <3>1, <3>2, <3>3 DEF CreationGoesOn
  <2>2. ASSUME NEW pc, wpc' = [wpc EXCEPT ![w] = pc], UNCHANGED <<wmsg, queue, post>>,
               pc # "idle", pc # "ack",
               project' \in {"QUEUED", "CREATING"} =>
                   project \in {"QUEUED", "CREATING"} \/ wmsg[w] = Creation
        PROVE  OneCreation' /\ CreationGoesOn'
    <3>1. OneCreation'
      BY <2>2 DEF OneCreation, Creation, TypeOK
    <3>2. Creating \/ wmsg[w] = Creation => Creating'
      BY <2>2 DEF Creating, Creation, TypeOK
    <3> QED  BY <2>2, <3>1, <3>2 DEF CreationGoesOn
  <2>3. ASSUME wpc' = [wpc EXCEPT ![w] = "ack"], UNCHANGED <<wmsg, queue, post>>,
               wmsg[w] = Creation => project' \notin {"QUEUED", "CREATING"},
               project' \in {"QUEUED", "CREATING"} => project \in {"QUEUED", "CREATING"}
        PROVE  OneCreation' /\ CreationGoesOn'
    <3>1. OneCreation'
      BY <2>3 DEF OneCreation, Creation, TypeOK
    <3>2. Creating /\ wmsg[w] # Creation => Creating'
      BY <2>3 DEF Creating, Creation, TypeOK
    <3> QED  BY <2>3, <3>1, <3>2 DEF CreationGoesOn
  <2> USE DEF Goto, At
  <2>10. CASE Check(w)
    <3>1. wmsg[w] = Creation => wmsg[w][2] \notin Machine
      BY DEF Creation, Tenant
    <3>2. First(wmsg[w]) \notin {"idle", "ack"}
      BY DEF First
    <3>3. UNCHANGED <<wmsg, queue, post, project>>
      BY <2>10 DEF Check
    <3>4. CASE project = "DELETED" \/ (wmsg[w][2] \in Machine /\ tenant[wmsg[w][2]] = "OVER")
      BY <2>3, <2>10, <3>1, <3>3, <3>4 DEF Check
    <3>5. CASE ~(project = "DELETED" \/ (wmsg[w][2] \in Machine /\ tenant[wmsg[w][2]] = "OVER"))
      BY <2>2, <2>10, <3>2, <3>3, <3>5 DEF Check
    <3> QED  BY <3>4, <3>5
  <2>11. CASE SetError(w)
    <3>1. wmsg[w] = Creation => wmsg[w][2] \notin Machine
      BY DEF Creation, Tenant
    <3> QED  BY <2>3, <2>11, <3>1 DEF SetError
  <2>12. CASE DeleteAsks(w)
    BY <2>2, <2>12 DEF DeleteAsks
  <2>13. CASE CompileStores(w)
    <3>1. wmsg[w] # Creation
      BY <2>13 DEF CompileStores, Creation
    <3> QED  BY <2>2, <2>3, <2>13, <3>1 DEF CompileStores
  <2>14. CASE RunPublishes(w)
    <3>1. wmsg[w] # Creation
      BY <2>14 DEF RunPublishes, Creation
    <3> QED  BY <2>3, <2>14, <3>1 DEF RunPublishes
  <2>15. ASSUME NEW x \in Tenant, Names(w, x) \/ Builds(w, x) \/ Runs(w, x)
         PROVE  OneCreation' /\ CreationGoesOn'
    BY <2>2, <2>15 DEF Names, Builds, Runs
  <2>16. ASSUME NEW here, NEW next, Get(w, here, next), next # "idle", next # "ack"
         PROVE  OneCreation' /\ CreationGoesOn'
    BY <2>2, <2>16 DEF Get
  <2>17. CASE Composes(w, "create", "up", TRUE, "ready") \/ Composes(w, "delete", "down", FALSE, "deleted")
    BY <2>2, <2>17 DEF Composes
  <2>18. CASE Sets(w, "create", "creating", "CREATING", "up")
    <3>1. wmsg[w] = Creation
      BY <1>0, <2>18 DEF Sets, NoMessage, TypeOK
    <3> QED  BY <2>2, <2>18, <3>1 DEF Sets
  <2>19. CASE \/ Sets(w, "create", "ready", "READY", "ack")
              \/ Sets(w, "delete", "deleted", "DELETED", "ack")
    BY <2>3, <2>19 DEF Sets
  <2> QED  BY <1>9, <2>1, <2>10, <2>11, <2>12, <2>13, <2>14, <2>15, <2>16, <2>17, <2>18, <2>19
           DEF WorkerStep, Tenant
<1>10. CASE UNCHANGED vars
  BY <1>10, CreationFrame DEF vars
<1> QED  BY <1>1, <1>2, <1>3, <1>4, <1>5, <1>6, <1>7, <1>8, <1>9, <1>10 DEF Next

\* A project that shows QUEUED or CREATING has not been forgotten: its task is in the
\* broker, or with a worker that will record READY or ERROR, with any number of workers,
\* failures and deletions on the way (project_container_create).
THEOREM CreationAlwaysGoesOn == Spec => []CreationGoesOn
<1> DEFINE Inv == TypeOK /\ Untouched /\ OneCreation /\ CreationGoesOn
<1>1. Init => Inv
  BY TypeInit, CreationInit DEF Init, Untouched
<1>2. Inv /\ [Next]_vars => Inv'
  BY TypeStep, UntouchedStep, CreationStep
<1>3. Inv => CreationGoesOn
  OBVIOUS
<1> HIDE DEF Inv
<1> QED  BY <1>1, <1>2, <1>3, PTL DEF Spec
================================================================================
