---------------------------- MODULE Campaign_proofs ----------------------------
(* Theorems about Campaign, for any number of test runs, machines and commands.  *)
(* TypeCorrect and OneMachineEach hold with any number of workers; the others    *)
(* need one (with more, TLC refutes them, all but RestsWhenOver), and           *)
(* ReadyWasTested, RestsWhenOver and NothingLeft also that nothing fails.        *)
EXTENDS Campaign, FiniteSetTheorems, TLAPS

--------------------------------------------------------------------------------
(* Types.                                                                       *)

LEMMA MessageFacts ==
    /\ NoMessage \notin Message
    /\ \A m \in Message : m[2] \in Testrun \cup Avm \cup {None}
BY DEF Message, NoMessage

LEMMA PublishTyped ==
    ASSUME queue \in [Message -> Nat], NEW task, NEW x, Publish(task, x)
    PROVE  queue' \in [Message -> Nat]
<1>1. queue' = [m \in Message |-> IF m = <<task, x>> THEN queue[m] + 1 ELSE queue[m]]
  BY DEF Publish
<1> QED  BY <1>1

LEMMA TypeInit == Init => TypeOK
BY CampaignAssumption DEF Init, TypeOK, Call

LEMMA TypeStep == TypeOK /\ [Next]_vars => TypeOK'
<1> SUFFICES ASSUME TypeOK, [Next]_vars PROVE TypeOK'
  OBVIOUS
<1> USE CampaignAssumption, MessageFacts, PublishTyped DEF TypeOK, Call, rows, http, work
<1>1. CASE Server
  <2>1. CASE PostInserts       BY <2>1 DEF PostInserts
  <2>2. CASE PostPublishes     BY <2>2 DEF PostPublishes
  <2>3. CASE DeleteLooksUp     BY <2>3 DEF DeleteLooksUp
  <2>4. CASE DeletePublishes   BY <2>4 DEF DeletePublishes
  <2>5. CASE DeleteSetsStatus  BY <2>5 DEF DeleteSetsStatus
  <2> QED  BY <1>1, <2>1, <2>2, <2>3, <2>4, <2>5 DEF Server
<1>2. ASSUME NEW a \in Avm, StackBuilt(a) \/ DeviceBoots(a) PROVE TypeOK'
  BY <1>2 DEF StackBuilt, DeviceBoots
<1>3. ASSUME NEW w \in Worker, NEW m \in Message, Take(w, m) PROVE TypeOK'
  <2>1. queue' \in [Message -> Nat]
    BY <1>3 DEF Take
  <2>2. /\ wmsg' = [wmsg EXCEPT ![w] = m] /\ wpc' = [wpc EXCEPT ![w] = "check"]
        /\ UNCHANGED <<rows, machine, http, wavm, wtodo, wjob, faults>>
    BY <1>3 DEF Take
  <2> QED  BY <2>1, <2>2
<1>4. ASSUME NEW w \in Worker, Redeliver(w) \/ Ack(w) PROVE TypeOK'
  <2>1. CASE Ack(w)
    BY <2>1 DEF Ack, Rest
  <2>2. CASE Redeliver(w)
    <3>1. queue' \in [Message -> Nat]
      BY <2>2 DEF Redeliver
    <3>2. faults' \in 0..MaxFaults /\ Rest(w) /\ UNCHANGED <<rows, machine, http>>
      BY <2>2 DEF Redeliver
    <3> QED  BY <3>1, <3>2 DEF Rest
  <2> QED  BY <1>4, <2>1, <2>2
<1>5. ASSUME NEW w \in Worker, Fail(w) \/ Check(w) \/ Delay(w) \/ SetError(w) PROVE TypeOK'
  <2> USE DEF Goto
  <2>1. CASE Fail(w)      BY <2>1 DEF Fail
  <2>2. CASE Check(w)     BY <2>2 DEF Check
  <2>3. CASE Delay(w)     BY <2>3 DEF Delay
  <2>4. CASE SetError(w)  BY <2>4 DEF SetError
  <2> QED  BY <1>5, <2>1, <2>2, <2>3, <2>4
<1>6. ASSUME NEW w \in Worker, CampaignRun(w) PROVE TypeOK'
  <2> USE DEF At, Goto
  <2>1. CASE RunGets(w)        BY <2>1 DEF RunGets
  <2>2. CASE RunSetsStatus(w)  BY <2>2 DEF RunSetsStatus
  <2>3. CASE RunEnds(w)        BY <2>3 DEF RunEnds
  <2>4. ASSUME NEW t \in Testrun, RunPublishes(w, t) PROVE TypeOK'
    BY <2>4 DEF RunPublishes
  <2> QED  BY <1>6, <2>1, <2>2, <2>3, <2>4 DEF CampaignRun
<1>7. ASSUME NEW w \in Worker, CampaignAvmCreate(w) PROVE TypeOK'
  <2> USE DEF At, Goto
  <2> SUFFICES ASSUME NEW t \in Testrun,
                      \/ CreateGets(w, t) \/ CreateChecksQuota(w, t)
                      \/ \E a \in Avm : CreateInserts(w, t, a)
                      \/ CreateSetsCreating(w, t) \/ CreateBuilds(w, t)
                      \/ CreatePublishes(w, t)
               PROVE  TypeOK'
    BY <1>7 DEF CampaignAvmCreate
  <2>1. CASE CreateGets(w, t)          BY <2>1 DEF CreateGets
  <2>2. CASE CreateChecksQuota(w, t)   BY <2>2 DEF CreateChecksQuota
  <2>3. ASSUME NEW a \in Avm, CreateInserts(w, t, a) PROVE TypeOK'
    BY <2>3 DEF CreateInserts
  <2>4. CASE CreateSetsCreating(w, t)  BY <2>4 DEF CreateSetsCreating
  <2>5. CASE CreateBuilds(w, t)        BY <2>5 DEF CreateBuilds
  <2>6. CASE CreatePublishes(w, t)     BY <2>6 DEF CreatePublishes
  <2> QED  BY <2>1, <2>2, <2>3, <2>4, <2>5, <2>6
<1>8. ASSUME NEW w \in Worker, CampaignContainersCreate(w) PROVE TypeOK'
  <2> USE DEF At, Goto
  <2> SUFFICES ASSUME NEW a \in Avm, \/ PlayersGet(w, a) \/ PlayersStart(w, a)
                                     \/ PlayersReady(w, a) \/ PlayersPublish(w, a)
               PROVE  TypeOK'
    BY <1>8 DEF CampaignContainersCreate
  <2>1. CASE PlayersGet(w, a)      BY <2>1 DEF PlayersGet
  <2>2. CASE PlayersStart(w, a)    BY <2>2 DEF PlayersStart
  <2>3. CASE PlayersReady(w, a)    BY <2>3 DEF PlayersReady
  <2>4. CASE PlayersPublish(w, a)  BY <2>4 DEF PlayersPublish
  <2> QED  BY <2>1, <2>2, <2>3, <2>4
<1>9. ASSUME NEW w \in Worker, CampaignRuntest(w) PROVE TypeOK'
  <2> USE DEF At, Goto
  <2> SUFFICES ASSUME NEW a \in Avm,
                      \/ TestGets(w, a) \/ TestWaitsForBoot(w, a) \/ TestLinks(w, a)
                      \/ TestRuns(w, a) \/ TestTearsDown(w, a) \/ TestSetsDeleted(w, a)
                      \/ TestReadsStatuses(w, a) \/ TestFinishesCampaign(w, a)
               PROVE  TypeOK'
    BY <1>9 DEF CampaignRuntest
  <2>1. CASE TestGets(w, a)              BY <2>1 DEF TestGets
  <2>2. CASE TestWaitsForBoot(w, a)
    <3>1. 1 \in Command
      BY DEF Command
    <3>2. CASE machine[a] # "booted"  BY <2>2, <3>2 DEF TestWaitsForBoot
    <3>3. CASE machine[a] = "booted"  BY <2>2, <3>1, <3>3 DEF TestWaitsForBoot
    <3> QED  BY <3>2, <3>3
  <2>3. CASE TestLinks(w, a)             BY <2>3 DEF TestLinks
  <2>4. CASE TestRuns(w, a)
    <3>1. CASE wpc' = [wpc EXCEPT ![w] = "error"]
      BY <2>4, <3>1 DEF TestRuns
    <3>2. CASE wpc' # [wpc EXCEPT ![w] = "error"]
      <4>1. wjob[w] < Installs + Tests => wjob[w] + 1 \in Command
        BY DEF Command
      <4>2. wjob' \in [Worker -> Command \cup {0}]
        BY <2>4, <3>2, <4>1 DEF TestRuns
      <4>3. /\ command' = [command EXCEPT ![owner[a]][wjob[w]] = "READY"]
            /\ wpc' = [wpc EXCEPT ![w] = IF wjob[w] < Installs + Tests THEN "link" ELSE "down"]
            /\ wmsg[w] # NoMessage
            /\ UNCHANGED <<wmsg, wavm, wtodo>>
            /\ UNCHANGED <<campaign, project, owner, status, machine, queue, http, faults>>
        BY <2>4, <3>2 DEF TestRuns
      <4> QED  BY <4>2, <4>3
    <3> QED  BY <3>1, <3>2
  <2>5. CASE TestTearsDown(w, a)         BY <2>5 DEF TestTearsDown
  <2>6. CASE TestSetsDeleted(w, a)       BY <2>6 DEF TestSetsDeleted
  <2>7. CASE TestReadsStatuses(w, a)     BY <2>7 DEF TestReadsStatuses
  <2>8. CASE TestFinishesCampaign(w, a)  BY <2>8 DEF TestFinishesCampaign
  <2> QED  BY <2>1, <2>2, <2>3, <2>4, <2>5, <2>6, <2>7, <2>8
<1>10. ASSUME NEW w \in Worker, CampaignDelete(w) PROVE TypeOK'
  <2> USE DEF At, Goto
  <2>1. CASE DeleteReads(w)  BY <2>1 DEF DeleteReads
  <2>2. CASE DeleteEnds(w)   BY <2>2 DEF DeleteEnds
  <2>3. ASSUME NEW a \in Avm, DeletePublishesAvm(w, a) PROVE TypeOK'
    <3>1. CASE AvmVisible(a)   BY <2>3, <3>1 DEF DeletePublishesAvm
    <3>2. CASE ~AvmVisible(a)  BY <2>3, <3>2 DEF DeletePublishesAvm
    <3> QED  BY <3>1, <3>2
  <2>4. ASSUME NEW a \in Avm, DeleteSetsAvm(w, a) PROVE TypeOK'
    BY <2>4 DEF DeleteSetsAvm
  <2> QED  BY <1>10, <2>1, <2>2, <2>3, <2>4 DEF CampaignDelete
<1>11. ASSUME NEW w \in Worker, AvmDelete(w) PROVE TypeOK'
  <2> USE DEF At, Goto
  <2> SUFFICES ASSUME NEW a \in Avm, AvmDeletes(w, a) \/ AvmSetsDeleted(w, a) PROVE TypeOK'
    BY <1>11 DEF AvmDelete
  <2>1. CASE AvmDeletes(w, a)
    <3>1. CASE AvmVisible(a)   BY <2>1, <3>1 DEF AvmDeletes
    <3>2. CASE ~AvmVisible(a)  BY <2>1, <3>2 DEF AvmDeletes
    <3> QED  BY <3>1, <3>2
  <2>2. CASE AvmSetsDeleted(w, a)  BY <2>2 DEF AvmSetsDeleted
  <2> QED  BY <2>1, <2>2
<1>12. CASE UNCHANGED vars
  BY <1>12 DEF vars
<1> QED
  BY <1>1, <1>2, <1>3, <1>4, <1>5, <1>6, <1>7, <1>8, <1>9, <1>10, <1>11, <1>12
     DEF Next, WorkerStep

\* Every state has the types the schema and the messages give it.
THEOREM TypeCorrect == Spec => []TypeOK
BY TypeInit, TypeStep, PTL DEF Spec

--------------------------------------------------------------------------------
(* With one worker, what a task found out about the campaign stays true while it *)
(* works.                                                                       *)

OneWorker == \A v, w \in Worker : v = w

\* The calls of a task that has seen the campaign.
SawCampaign(w) ==
    \/ wpc[w] \in {"running", "boot", "link", "exec", "down", "statuses", "finished"}
    \/ wpc[w] = "deleted" /\ wmsg[w][1] = "campaign_runtest"

Seen ==
    /\ post = "idle" => campaign = "NONE"
    /\ del # "idle" => campaign # "NONE"
    /\ \A w \in Worker : wpc[w] = "loop" => campaign # "NONE"
    /\ \A w \in Worker : SawCampaign(w) => CampaignVisible

NotRevived == campaign = "DELETED" => campaign' \in {"DELETED", "DELETING"}

LEMMA SeenInit == Init => Seen
BY DEF Init, Seen, SawCampaign

LEMMA SeenStep == ASSUME OneWorker, TypeOK, Seen, [Next]_vars PROVE Seen' /\ NotRevived
<1> USE DEF Seen, NotRevived, SawCampaign, CampaignVisible, rows, http, work
<1> wpc \in [Worker -> Call] /\ wmsg \in [Worker -> Message \cup {NoMessage}]
  BY DEF TypeOK
<1>1. CASE Server
  BY <1>1 DEF Server, PostInserts, PostPublishes, DeleteLooksUp, DeletePublishes,
              DeleteSetsStatus
<1>2. CASE \E a \in Avm : StackBuilt(a) \/ DeviceBoots(a)
  BY <1>2 DEF StackBuilt, DeviceBoots
<1>3. ASSUME NEW w \in Worker,
             \/ \E m \in Message : Take(w, m)
             \/ WorkerStep(w) \/ Redeliver(w) \/ Fail(w)
      PROVE  Seen' /\ NotRevived
  <2>0. \A v \in Worker : v = w
    BY DEF OneWorker
  <2> USE <2>0 DEF At, Goto, Rest
  <2>1. CASE \/ \E m \in Message : Take(w, m)
             \/ Redeliver(w) \/ Fail(w)
             \/ Check(w) \/ Delay(w) \/ SetError(w) \/ Ack(w)
    BY <2>1 DEF Take, Redeliver, Fail, Check, Delay, SetError, Ack
  <2>2. CASE CampaignRun(w)
    BY <2>2 DEF CampaignRun, RunGets, RunSetsStatus, RunEnds, RunPublishes
  <2>3. CASE CampaignAvmCreate(w)
    BY <2>3 DEF CampaignAvmCreate, CreateGets, CreateChecksQuota, CreateInserts,
                CreateSetsCreating, CreateBuilds, CreatePublishes
  <2>4. CASE CampaignContainersCreate(w)
    BY <2>4 DEF CampaignContainersCreate, PlayersGet, PlayersStart, PlayersReady,
                PlayersPublish
  <2>5. CASE CampaignRuntest(w)
    BY <2>5 DEF CampaignRuntest, TestGets, TestWaitsForBoot, TestLinks, TestRuns,
                TestTearsDown, TestSetsDeleted, TestReadsStatuses, TestFinishesCampaign
  <2>6. CASE CampaignDelete(w)
    BY <2>6 DEF CampaignDelete, DeleteReads, DeleteEnds, DeletePublishesAvm, DeleteSetsAvm
  <2>7. CASE AvmDelete(w)
    BY <2>7 DEF AvmDelete, AvmDeletes, AvmSetsDeleted
  <2> QED  BY <1>3, <2>1, <2>2, <2>3, <2>4, <2>5, <2>6, <2>7 DEF WorkerStep
<1>4. CASE UNCHANGED vars
  BY <1>4 DEF vars
<1> QED  BY <1>1, <1>2, <1>3, <1>4 DEF Next

\* With one worker, a campaign that was DELETED is not taken up again.
THEOREM DeletedStays == ASSUME OneWorker PROVE Spec => StaysDeleted
<1>1. TypeOK /\ Seen /\ [Next]_vars => Seen' /\ [campaign = "DELETED" =>
                                        campaign' \in {"DELETED", "DELETING"}]_campaign
  BY SeenStep DEF NotRevived
<1> QED  BY <1>1, SeenInit, TypeCorrect, PTL DEF Spec, StaysDeleted

--------------------------------------------------------------------------------
(* With one worker, the quota holds. What counts is not only the machines in the *)
(* view quota_usage but also the one in hand: an error recorded after DELETED    *)
(* brings it back.                                                              *)

Holding(w, a) == wmsg[w][2] = a /\ wpc[w] \notin {"idle", "check", "ack"}

Live == {a \in Avm : AvmVisible(a) \/ \E w \in Worker : Holding(w, a)}

\* Tasks are about machines that have a row.
Known ==
    /\ \A m \in Message : queue[m] > 0 /\ m[2] \in Avm => status[m[2]] # "NONE"
    /\ \A w \in Worker : wmsg[w][2] \in Avm => status[wmsg[w][2]] # "NONE"
    /\ \A w \in Worker : wavm[w] \in Avm => status[wavm[w]] # "NONE"

\* The machine campaign_delete is at has not been deleted since it looked.
Marked ==
    \A w \in Worker :
        /\ wpc[w] \in {"idle", "check", "get", "running"} => wavm[w] = None
        /\ wpc[w] \in {"loop", "loop_missing"} /\ wavm[w] \in Avm => AvmVisible(wavm[w])

LiveBounded ==
    VmAsyncMax > 0 => /\ Cardinality(Live) <= VmAsyncMax
                      /\ \A w \in Worker : wpc[w] = "insert" => Cardinality(Live) < VmAsyncMax

QuotaInv == Known /\ Marked /\ LiveBounded

LEMMA QuotaInit == Init => QuotaInv
<1> SUFFICES ASSUME Init PROVE QuotaInv
  OBVIOUS
<1> USE CampaignAssumption DEF Init
<1>1. Known
  BY DEF Known, NoMessage
<1>2. Marked
  BY DEF Marked
<1>3. Live = {}
  BY DEF Live, Holding, AvmVisible
<1>4. LiveBounded
  BY <1>3, FS_EmptySet DEF LiveBounded
<1> QED  BY <1>1, <1>2, <1>4 DEF QuotaInv

LEMMA RowsStay ==
    ASSUME TypeOK, [Next]_vars, NEW a \in Avm, status[a] # "NONE"
    PROVE  status'[a] # "NONE"
<1> USE DEF rows, http, work
<1> status \in [Avm -> {"NONE", "QUEUED", "CREATING", "READY", "DELETING", "DELETED", "ERROR"}]
  BY DEF TypeOK
<1>1. CASE UNCHANGED status
  BY <1>1
<1>2. CASE \E b, s : status' = [status EXCEPT ![b] = s] /\ s # "NONE"
  BY <1>2
<1>3. CASE \E w \in Worker : WorkerStep(w)
  <2>1. PICK w \in Worker : WorkerStep(w)
    BY <1>3
  <2>2. CASE Check(w) \/ Delay(w) \/ SetError(w) \/ Ack(w)
    BY <1>1, <1>2, <2>2 DEF Check, Delay, SetError, Ack
  <2>3. CASE CampaignRun(w)
    BY <1>1, <2>3 DEF CampaignRun, RunGets, RunSetsStatus, RunEnds, RunPublishes
  <2>4. CASE CampaignAvmCreate(w)
    BY <1>1, <1>2, <2>4 DEF CampaignAvmCreate, CreateGets, CreateChecksQuota, CreateInserts,
                            CreateSetsCreating, CreateBuilds, CreatePublishes
  <2>5. CASE CampaignContainersCreate(w)
    BY <1>1, <1>2, <2>5 DEF CampaignContainersCreate, PlayersGet, PlayersStart, PlayersReady,
                            PlayersPublish
  <2>6. CASE CampaignRuntest(w)
    BY <1>1, <1>2, <2>6 DEF CampaignRuntest, TestGets, TestWaitsForBoot, TestLinks, TestRuns,
                            TestTearsDown, TestSetsDeleted, TestReadsStatuses,
                            TestFinishesCampaign
  <2>7. CASE CampaignDelete(w)
    BY <1>1, <1>2, <2>7 DEF CampaignDelete, DeleteReads, DeleteEnds, DeletePublishesAvm,
                            DeleteSetsAvm
  <2>8. CASE AvmDelete(w)
    BY <1>1, <1>2, <2>8 DEF AvmDelete, AvmDeletes, AvmSetsDeleted
  <2> QED  BY <2>1, <2>2, <2>3, <2>4, <2>5, <2>6, <2>7, <2>8 DEF WorkerStep
<1>4. CASE \/ Server
           \/ \E b \in Avm : StackBuilt(b) \/ DeviceBoots(b)
           \/ \E w \in Worker : (\E m \in Message : Take(w, m)) \/ Redeliver(w) \/ Fail(w)
  BY <1>1, <1>4 DEF Server, PostInserts, PostPublishes, DeleteLooksUp, DeletePublishes,
                    DeleteSetsStatus, StackBuilt, DeviceBoots, Take, Redeliver, Fail
<1>5. CASE UNCHANGED vars
  BY <1>1, <1>5 DEF vars
<1> QED  BY <1>3, <1>4, <1>5 DEF Next

\* What a message names is known: when it is published, taken, or put back.
LEMMA KnownStep == ASSUME TypeOK, Known, [Next]_vars PROVE Known'
<1> USE DEF rows, http, work
<1>0. \A a \in Avm : status[a] # "NONE" => status'[a] # "NONE"
  BY RowsStay
<1> /\ queue \in [Message -> Nat]
    /\ wmsg \in [Worker -> Message \cup {NoMessage}]
    /\ wavm \in [Worker -> Avm \cup {None}]
    /\ status \in [Avm -> {"NONE", "QUEUED", "CREATING", "READY", "DELETING", "DELETED", "ERROR"}]
  BY DEF TypeOK
<1> None \notin Avm
  BY CampaignAssumption
<1>1. ASSUME UNCHANGED wmsg \/ \E w \in Worker, m \in Message \cup {NoMessage} :
                                  /\ wmsg' = [wmsg EXCEPT ![w] = m]
                                  /\ m = NoMessage \/ queue[m] > 0,
             UNCHANGED wavm \/ \E w \in Worker, b \in Avm \cup {None} :
                                  /\ wavm' = [wavm EXCEPT ![w] = b]
                                  /\ b = None \/ status'[b] # "NONE",
             UNCHANGED queue \/ \E m : /\ \/ queue' = [queue EXCEPT ![m] = @ + 1]
                                          \/ queue' = [queue EXCEPT ![m] = @ - 1]
                                       /\ m \in Message /\ m[2] \in Avm =>
                                             queue[m] > 0 \/ status[m[2]] # "NONE"
      PROVE  Known'
  <2>1. \A m \in Message : queue'[m] > 0 /\ m[2] \in Avm => status'[m[2]] # "NONE"
    BY <1>0, <1>1 DEF Known
  <2>2. \A w \in Worker : wmsg'[w][2] \in Avm => status'[wmsg'[w][2]] # "NONE"
    BY <1>0, <1>1 DEF Known, NoMessage
  <2>3. \A w \in Worker : wavm'[w] \in Avm => status'[wavm'[w]] # "NONE"
    BY <1>0, <1>1 DEF Known
  <2> QED  BY <2>1, <2>2, <2>3 DEF Known
<1>2. CASE \/ UNCHANGED vars
           \/ \E a \in Avm : StackBuilt(a) \/ DeviceBoots(a)
  BY <1>1, <1>2 DEF vars, StackBuilt, DeviceBoots
<1>3. CASE Server
  <2>1. CASE PostInserts \/ DeleteLooksUp \/ DeleteSetsStatus
    BY <1>1, <2>1 DEF PostInserts, DeleteLooksUp, DeleteSetsStatus
  <2>2. CASE PostPublishes \/ DeletePublishes
    BY <1>1, <2>2 DEF PostPublishes, DeletePublishes, Publish
  <2> QED  BY <1>3, <2>1, <2>2 DEF Server
<1>4. ASSUME NEW w \in Worker,
             \/ \E m \in Message : Take(w, m)
             \/ WorkerStep(w) \/ Redeliver(w) \/ Fail(w)
      PROVE  Known'
  <2>1. wmsg[w] \in Message /\ wmsg[w][2] \in Avm => status[wmsg[w][2]] # "NONE"
    BY DEF Known
  <2>2. wavm[w] \in Avm => status[wavm[w]] # "NONE"
    BY DEF Known
  <2> USE DEF At, Goto, Rest, Publish
  <2>3. CASE \E m \in Message : Take(w, m)
    BY <1>1, <2>3 DEF Take
  <2>4. CASE Redeliver(w) \/ Ack(w)
    BY <1>1, <2>1, <2>4 DEF Redeliver, Ack
  <2>5. CASE Fail(w) \/ Check(w) \/ Delay(w) \/ SetError(w)
    BY <1>1, <2>1, <2>5 DEF Fail, Check, Delay, SetError
  <2>6. CASE CampaignRun(w)
    <3>1. \A t \in Testrun : <<"campaign_avm_create", t>>[2] \notin Avm
      BY CampaignAssumption
    <3> QED  BY <1>1, <2>6, <3>1 DEF CampaignRun, RunGets, RunSetsStatus, RunEnds, RunPublishes
  <2>7. CASE CampaignAvmCreate(w)
    <3> SUFFICES ASSUME NEW t \in Testrun,
                        \/ CreateGets(w, t) \/ CreateChecksQuota(w, t)
                        \/ \E a \in Avm : CreateInserts(w, t, a)
                        \/ CreateSetsCreating(w, t) \/ CreateBuilds(w, t)
                        \/ CreatePublishes(w, t)
                 PROVE  Known'
      BY <2>7 DEF CampaignAvmCreate
    <3>1. CASE CreateGets(w, t) \/ CreateChecksQuota(w, t)
      BY <1>1, <3>1 DEF CreateGets, CreateChecksQuota
    <3>2. ASSUME NEW a \in Avm, CreateInserts(w, t, a) PROVE Known'
      BY <1>1, <3>2 DEF CreateInserts
    <3>3. CASE CreateSetsCreating(w, t) \/ CreateBuilds(w, t)
      BY <1>1, <3>3 DEF CreateSetsCreating, CreateBuilds
    <3>4. CASE CreatePublishes(w, t)
      <4> DEFINE m == <<"campaign_containers_create", wavm[w]>>
      <4>1. m[2] \in Avm => status[m[2]] # "NONE"
        BY <2>2
      <4>2. queue' = [queue EXCEPT ![m] = @ + 1] /\ UNCHANGED <<wmsg, wavm>>
        BY <3>4 DEF CreatePublishes
      <4> HIDE DEF m
      <4> QED  BY <1>1, <4>1, <4>2
    <3> QED  BY <3>1, <3>2, <3>3, <3>4
  <2>8. CASE CampaignContainersCreate(w)
    <3> PICK a \in Avm : \/ PlayersGet(w, a) \/ PlayersStart(w, a)
                         \/ PlayersReady(w, a) \/ PlayersPublish(w, a)
      BY <2>8 DEF CampaignContainersCreate
    <3>1. CASE PlayersGet(w, a) \/ PlayersStart(w, a) \/ PlayersReady(w, a)
      BY <1>1, <3>1 DEF PlayersGet, PlayersStart, PlayersReady
    <3>2. CASE PlayersPublish(w, a)
      <4> DEFINE m == <<"campaign_runtest", a>>
      <4>1. m[2] = a /\ status[a] # "NONE"
        BY <3>2 DEF PlayersPublish, Known
      <4>2. queue' = [queue EXCEPT ![m] = @ + 1] /\ UNCHANGED <<wmsg, wavm>>
        BY <3>2 DEF PlayersPublish
      <4> HIDE DEF m
      <4> QED  BY <1>1, <4>1, <4>2
    <3> QED  BY <3>1, <3>2
  <2>9. CASE CampaignRuntest(w)
    <3> PICK a \in Avm : \/ TestGets(w, a) \/ TestWaitsForBoot(w, a)
                         \/ TestLinks(w, a) \/ TestRuns(w, a)
                         \/ TestTearsDown(w, a) \/ TestSetsDeleted(w, a)
                         \/ TestReadsStatuses(w, a) \/ TestFinishesCampaign(w, a)
      BY <2>9 DEF CampaignRuntest
    <3>1. CASE TestGets(w, a) \/ TestWaitsForBoot(w, a)
      BY <1>1, <3>1 DEF TestGets, TestWaitsForBoot
    <3>2. CASE TestLinks(w, a) \/ TestRuns(w, a)
      BY <1>1, <3>2 DEF TestLinks, TestRuns
    <3>3. CASE TestTearsDown(w, a) \/ TestSetsDeleted(w, a)
      BY <1>1, <3>3 DEF TestTearsDown, TestSetsDeleted
    <3>4. CASE TestReadsStatuses(w, a) \/ TestFinishesCampaign(w, a)
      BY <1>1, <3>4 DEF TestReadsStatuses, TestFinishesCampaign
    <3> QED  BY <3>1, <3>2, <3>3, <3>4
  <2>10. CASE CampaignDelete(w)
    <3>1. CASE DeleteReads(w) \/ DeleteEnds(w)
      BY <1>1, <2>10, <3>1 DEF DeleteReads, DeleteEnds
    <3>2. ASSUME NEW a \in Avm, DeletePublishesAvm(w, a) PROVE Known'
      <4>1. CASE AvmVisible(a)
        BY <1>0, <1>1, <3>2, <4>1 DEF DeletePublishesAvm, AvmVisible
      <4>2. CASE ~AvmVisible(a)
        BY <1>1, <3>2, <4>2 DEF DeletePublishesAvm
      <4> QED  BY <4>1, <4>2
    <3>3. ASSUME NEW a \in Avm, DeleteSetsAvm(w, a) PROVE Known'
      BY <1>1, <3>3 DEF DeleteSetsAvm
    <3> QED  BY <2>10, <3>1, <3>2, <3>3 DEF CampaignDelete
  <2>11. CASE AvmDelete(w)
    BY <1>1, <2>11 DEF AvmDelete, AvmDeletes, AvmSetsDeleted
  <2> QED
    BY <1>4, <2>3, <2>4, <2>5, <2>6, <2>7, <2>8, <2>9, <2>10, <2>11 DEF WorkerStep
<1> QED  BY <1>2, <1>3, <1>4 DEF Next

LEMMA MarkedStep == ASSUME OneWorker, TypeOK, Marked, [Next]_vars PROVE Marked'
<1> USE DEF Marked, AvmVisible, rows, http, work
<1> /\ wpc \in [Worker -> Call]
    /\ wmsg \in [Worker -> Message \cup {NoMessage}]
    /\ wavm \in [Worker -> Avm \cup {None}]
    /\ status \in [Avm -> {"NONE", "QUEUED", "CREATING", "READY", "DELETING", "DELETED", "ERROR"}]
  BY DEF TypeOK
<1> None \notin Avm
  BY CampaignAssumption
<1>1. CASE \/ Server \/ UNCHANGED vars
           \/ \E a \in Avm : StackBuilt(a) \/ DeviceBoots(a)
  BY <1>1 DEF Server, PostInserts, PostPublishes, DeleteLooksUp, DeletePublishes,
              DeleteSetsStatus, StackBuilt, DeviceBoots, vars
<1>2. ASSUME NEW w \in Worker,
             \/ \E m \in Message : Take(w, m)
             \/ WorkerStep(w) \/ Redeliver(w) \/ Fail(w)
      PROVE  Marked'
  <2>0. \A v \in Worker : v = w
    BY DEF OneWorker
  <2> USE <2>0 DEF At, Goto, Rest
  <2>1. CASE \/ \E m \in Message : Take(w, m)
             \/ Redeliver(w) \/ Fail(w)
             \/ Check(w) \/ Delay(w) \/ SetError(w) \/ Ack(w)
    BY <2>1 DEF Take, Redeliver, Fail, Check, Delay, SetError, Ack
  <2>2. CASE CampaignRun(w)
    BY <2>2 DEF CampaignRun, RunGets, RunSetsStatus, RunEnds, RunPublishes
  <2>3. CASE CampaignAvmCreate(w)
    BY <2>3 DEF CampaignAvmCreate, CreateGets, CreateChecksQuota, CreateInserts,
                CreateSetsCreating, CreateBuilds, CreatePublishes
  <2>4. CASE CampaignContainersCreate(w)
    BY <2>4 DEF CampaignContainersCreate, PlayersGet, PlayersStart, PlayersReady,
                PlayersPublish
  <2>5. CASE CampaignRuntest(w)
    BY <2>5 DEF CampaignRuntest, TestGets, TestWaitsForBoot, TestLinks, TestRuns,
                TestTearsDown, TestSetsDeleted, TestReadsStatuses, TestFinishesCampaign
  <2>6. CASE CampaignDelete(w)
    BY <2>6 DEF CampaignDelete, DeleteReads, DeleteEnds, DeletePublishesAvm, DeleteSetsAvm
  <2>7. CASE AvmDelete(w)
    BY <2>7 DEF AvmDelete, AvmDeletes, AvmSetsDeleted
  <2> QED  BY <1>2, <2>1, <2>2, <2>3, <2>4, <2>5, <2>6, <2>7 DEF WorkerStep
<1> QED  BY <1>1, <1>2 DEF Next

LEMMA LiveFinite == IsFiniteSet(Live)
BY CampaignAssumption, FS_Subset DEF Live

\* campaign_avm_create is the only one to add a machine.
LEMMA LiveShrinks ==
    ASSUME OneWorker, TypeOK, Known, Marked, [Next]_vars,
           ~\E w \in Worker, t \in Testrun, a \in Avm : CreateInserts(w, t, a)
    PROVE  Live' \subseteq Live
<1> SUFFICES ASSUME NEW a \in Avm,
                    (AvmVisible(a) \/ \E v \in Worker : Holding(v, a))'
             PROVE  AvmVisible(a) \/ \E v \in Worker : Holding(v, a)
  BY DEF Live
<1> USE DEF AvmVisible, Holding, rows, http, work
<1> /\ wpc \in [Worker -> Call]
    /\ wmsg \in [Worker -> Message \cup {NoMessage}]
    /\ wavm \in [Worker -> Avm \cup {None}]
    /\ status \in [Avm -> {"NONE", "QUEUED", "CREATING", "READY", "DELETING", "DELETED", "ERROR"}]
  BY DEF TypeOK
<1>1. CASE \/ Server \/ UNCHANGED vars
           \/ \E b \in Avm : StackBuilt(b) \/ DeviceBoots(b)
  BY <1>1 DEF Server, PostInserts, PostPublishes, DeleteLooksUp, DeletePublishes,
              DeleteSetsStatus, StackBuilt, DeviceBoots, vars
<1>2. ASSUME NEW w \in Worker,
             \/ \E m \in Message : Take(w, m)
             \/ WorkerStep(w) \/ Redeliver(w) \/ Fail(w)
      PROVE  AvmVisible(a) \/ \E v \in Worker : Holding(v, a)
  <2>0. \A v \in Worker : v = w
    BY DEF OneWorker
  <2> USE <2>0 DEF At, Goto, Rest
  <2>1. CASE \/ \E m \in Message : Take(w, m)
             \/ Redeliver(w) \/ Fail(w) \/ Delay(w) \/ SetError(w) \/ Ack(w)
    BY <2>1 DEF Take, Redeliver, Fail, Delay, SetError, Ack
  <2>8. CASE Check(w)
    BY <2>8 DEF Check, Known
  <2>2. CASE CampaignRun(w)
    BY <2>2 DEF CampaignRun, RunGets, RunSetsStatus, RunEnds, RunPublishes
  <2>3. CASE CampaignAvmCreate(w)
    BY <2>3 DEF CampaignAvmCreate, CreateGets, CreateChecksQuota,
                CreateSetsCreating, CreateBuilds, CreatePublishes
  <2>4. CASE CampaignContainersCreate(w)
    BY <2>4 DEF CampaignContainersCreate, PlayersGet, PlayersStart, PlayersReady,
                PlayersPublish
  <2>5. CASE CampaignRuntest(w)
    BY <2>5 DEF CampaignRuntest, TestGets, TestWaitsForBoot, TestLinks, TestRuns,
                TestTearsDown, TestSetsDeleted, TestReadsStatuses, TestFinishesCampaign
  <2>6. CASE CampaignDelete(w)
    BY <2>6 DEF CampaignDelete, DeleteReads, DeleteEnds, DeletePublishesAvm, DeleteSetsAvm,
                Marked
  <2>7. CASE AvmDelete(w)
    BY <2>7 DEF AvmDelete, AvmDeletes, AvmSetsDeleted
  <2> QED  BY <1>2, <2>1, <2>2, <2>3, <2>4, <2>5, <2>6, <2>7, <2>8 DEF WorkerStep
<1> QED  BY <1>1, <1>2 DEF Next

\* Only the check of the quota leads to the insertion.
LEMMA InsertAfterCheck ==
    ASSUME TypeOK, [Next]_vars, NEW v \in Worker, wpc'[v] = "insert"
    PROVE  \/ wpc[v] = "insert"
           \/ /\ VmAsyncMax > 0 => ~(AsyncCurrent >= VmAsyncMax)
              /\ wmsg[v][2] \in Testrun
<1> USE DEF rows, http, work, At, Goto, Rest
<1> wpc \in [Worker -> Call]
  BY DEF TypeOK
<1>1. CASE \/ Server \/ UNCHANGED vars
           \/ \E b \in Avm : StackBuilt(b) \/ DeviceBoots(b)
  BY <1>1 DEF Server, PostInserts, PostPublishes, DeleteLooksUp, DeletePublishes,
              DeleteSetsStatus, StackBuilt, DeviceBoots, vars
<1>2. ASSUME NEW w \in Worker, NEW t \in Testrun, CreateChecksQuota(w, t)
      PROVE  \/ wpc[v] = "insert"
             \/ /\ VmAsyncMax > 0 => ~(AsyncCurrent >= VmAsyncMax)
                /\ wmsg[v][2] \in Testrun
  BY <1>2 DEF CreateChecksQuota
<1>3. ASSUME NEW w \in Worker,
             \/ \E m \in Message : Take(w, m)
             \/ WorkerStep(w) \/ Redeliver(w) \/ Fail(w),
             ~\E t \in Testrun : CreateChecksQuota(w, t)
      PROVE  wpc[v] = "insert"
  <2>1. CASE \/ \E m \in Message : Take(w, m)
             \/ Redeliver(w) \/ Fail(w)
             \/ Check(w) \/ Delay(w) \/ SetError(w) \/ Ack(w)
    BY <2>1 DEF Take, Redeliver, Fail, Check, Delay, SetError, Ack
  <2>2. CASE CampaignRun(w)
    BY <2>2 DEF CampaignRun, RunGets, RunSetsStatus, RunEnds, RunPublishes
  <2>3. CASE CampaignAvmCreate(w)
    BY <1>3, <2>3 DEF CampaignAvmCreate, CreateGets, CreateInserts, CreateSetsCreating,
                      CreateBuilds, CreatePublishes
  <2>4. CASE CampaignContainersCreate(w)
    BY <2>4 DEF CampaignContainersCreate, PlayersGet, PlayersStart, PlayersReady,
                PlayersPublish
  <2>5. CASE CampaignRuntest(w)
    BY <2>5 DEF CampaignRuntest, TestGets, TestWaitsForBoot, TestLinks, TestRuns,
                TestTearsDown, TestSetsDeleted, TestReadsStatuses, TestFinishesCampaign
  <2>6. CASE CampaignDelete(w)
    BY <2>6 DEF CampaignDelete, DeleteReads, DeleteEnds, DeletePublishesAvm, DeleteSetsAvm
  <2>7. CASE AvmDelete(w)
    BY <2>7 DEF AvmDelete, AvmDeletes, AvmSetsDeleted
  <2> QED  BY <1>3, <2>1, <2>2, <2>3, <2>4, <2>5, <2>6, <2>7 DEF WorkerStep
<1> QED  BY <1>1, <1>2, <1>3 DEF Next

LEMMA QuotaStep == ASSUME OneWorker, TypeOK, QuotaInv, [Next]_vars PROVE QuotaInv'
<1> USE DEF QuotaInv
<1>1. Known' /\ Marked'
  BY KnownStep, MarkedStep
<1>2. LiveBounded'
  <2> SUFFICES ASSUME VmAsyncMax > 0
               PROVE  /\ Cardinality(Live') <= VmAsyncMax
                      /\ \A v \in Worker : wpc'[v] = "insert" => Cardinality(Live') < VmAsyncMax
    BY DEF LiveBounded
  <2>0. /\ VmAsyncMax \in Nat
        /\ Cardinality(Live) \in Nat
        /\ Cardinality(Live) <= VmAsyncMax
        /\ \A v \in Worker : wpc[v] = "insert" => Cardinality(Live) < VmAsyncMax
    BY CampaignAssumption, LiveFinite, FS_CardinalityType DEF LiveBounded
  <2>1. CASE \E w \in Worker, t \in Testrun, a \in Avm : CreateInserts(w, t, a)
    <3>1. PICK w \in Worker : \E t \in Testrun, a \in Avm : CreateInserts(w, t, a)
      BY <2>1
    <3>2. PICK t \in Testrun : \E a \in Avm : CreateInserts(w, t, a)
      BY <3>1
    <3>3. PICK a \in Avm : CreateInserts(w, t, a)
      BY <3>2
    <3>4. wpc[w] = "insert" /\ \A v \in Worker : wpc'[v] = "creating"
      BY <3>3 DEF CreateInserts, At, OneWorker, TypeOK
    <3>5. Live' \subseteq Live \cup {a}
      <4>1. wmsg[w][2] = t /\ wmsg' = wmsg
        BY <3>3, CampaignAssumption DEF CreateInserts, At
      <4>2. \A b \in Avm, v \in Worker : ~Holding(v, b)'
        BY <4>1, CampaignAssumption DEF Holding, OneWorker
      <4>3. \A b \in Avm : b # a => AvmVisible(b)' = AvmVisible(b)
        BY <3>3 DEF CreateInserts, AvmVisible, TypeOK
      <4> QED  BY <4>2, <4>3 DEF Live
    <3>6. /\ IsFiniteSet(Live \cup {a})
          /\ Cardinality(Live \cup {a}) <= Cardinality(Live) + 1
          /\ Cardinality(Live \cup {a}) \in Nat
      <4>1. /\ IsFiniteSet(Live \cup {a})
            /\ \/ Cardinality(Live \cup {a}) = Cardinality(Live)
               \/ Cardinality(Live \cup {a}) = Cardinality(Live) + 1
        <5> HIDE DEF Live
        <5> QED  BY LiveFinite, FS_AddElement
      <4> QED  BY <2>0, <4>1
    <3>7. Cardinality(Live') <= Cardinality(Live \cup {a}) /\ Cardinality(Live') \in Nat
      BY <3>5, <3>6, FS_Subset, FS_CardinalityType
    <3> QED  BY <2>0, <3>4, <3>6, <3>7
  <2>2. CASE ~\E w \in Worker, t \in Testrun, a \in Avm : CreateInserts(w, t, a)
    <3>1. Cardinality(Live') <= Cardinality(Live) /\ Cardinality(Live') \in Nat
      BY <2>2, LiveShrinks, LiveFinite, FS_Subset, FS_CardinalityType
    <3>2. ASSUME NEW v \in Worker, wpc'[v] = "insert" PROVE Cardinality(Live) < VmAsyncMax
      <4>1. CASE wpc[v] = "insert"
        BY <2>0, <4>1
      <4>2. CASE ~(AsyncCurrent >= VmAsyncMax) /\ wmsg[v][2] \in Testrun
        <5>1. Live = {a \in Avm : AvmVisible(a)}
          BY <4>2, CampaignAssumption DEF Live, Holding, OneWorker
        <5> QED  BY <2>0, <4>2, <5>1 DEF AsyncCurrent
      <4> QED  BY <3>2, <4>1, <4>2, InsertAfterCheck
    <3> QED  BY <2>0, <3>1, <3>2
  <2> QED  BY <2>1, <2>2
<1> QED  BY <1>1, <1>2

\* With one worker, the machines of campaigns keep within the quota, whatever fails.
THEOREM QuotaAlwaysKept == ASSUME OneWorker PROVE Spec => []AsyncQuotaKept
<1>1. QuotaInv => AsyncQuotaKept
  <2>1. /\ Cardinality({a \in Avm : AvmVisible(a)}) <= Cardinality(Live)
        /\ Cardinality({a \in Avm : AvmVisible(a)}) \in Nat
        /\ Cardinality(Live) \in Nat
    <3>1. {a \in Avm : AvmVisible(a)} \subseteq Live
      BY DEF Live
    <3> QED  BY <3>1, LiveFinite, FS_Subset, FS_CardinalityType
  <2> QED  BY <2>1, CampaignAssumption DEF QuotaInv, LiveBounded, AsyncQuotaKept, AsyncCurrent
<1>2. TypeOK /\ QuotaInv /\ [Next]_vars => QuotaInv'
  BY QuotaStep
<1> QED  BY <1>1, <1>2, QuotaInit, TypeCorrect, PTL DEF Spec
--------------------------------------------------------------------------------
(* With any number of workers, a test run gets one machine, and one more for     *)
(* each fault. What is counted with its machines is everything that may still    *)
(* become one of them: the POST, the messages, and the workers that have one in  *)
(* hand and have not used it yet.                                               *)

Machines(t) == {a \in Avm : owner[a] = t}

AsksFor(w, t) ==
    \/ /\ wmsg[w] = <<"campaign_run", None>>
       /\ \/ wpc[w] \in {"check", "get", "running", "delay"}
          \/ wpc[w] = "loop" /\ t \in wtodo[w]
    \/ /\ wmsg[w] = <<"campaign_avm_create", t>>
       /\ wpc[w] \in {"check", "get", "quota", "delay", "insert"}

Askers(t) == {w \in Worker : AsksFor(w, t)}

Requests(t) == queue[<<"campaign_run", None>>] + queue[<<"campaign_avm_create", t>>]
               + (IF post = "done" THEN 0 ELSE 1)

Counted(t) == Cardinality(Machines(t)) + Cardinality(Askers(t)) + Requests(t) <= 1 + faults

CountInv == \A t \in Testrun : Counted(t)

LEMMA CountFacts ==
    ASSUME IsFiniteSet(Worker), TypeOK, NEW t \in Testrun
    PROVE  /\ IsFiniteSet(Machines(t)) /\ Cardinality(Machines(t)) \in Nat
           /\ IsFiniteSet(Askers(t)) /\ Cardinality(Askers(t)) \in Nat
           /\ Requests(t) \in Nat /\ faults \in Nat
<1>1. Machines(t) \subseteq Avm /\ Askers(t) \subseteq Worker
  BY DEF Machines, Askers
<1>2. Requests(t) \in Nat
  BY DEF Requests, TypeOK, Message
<1>3. faults \in Nat
  BY CampaignAssumption DEF TypeOK
<1> QED  BY <1>1, <1>2, <1>3, CampaignAssumption, FS_Subset, FS_CardinalityType

LEMMA CountInit == Init => CountInv
<1> SUFFICES ASSUME Init, NEW t \in Testrun PROVE Counted(t)
  BY DEF CountInv
<1>1. Machines(t) = {} /\ Askers(t) = {}
  BY CampaignAssumption DEF Init, Machines, Askers, AsksFor, NoMessage
<1>2. Requests(t) = 1
  BY DEF Init, Requests, Message
<1> QED  BY <1>1, <1>2, FS_EmptySet DEF Init, Counted

\* What a step may do: let go of something, take a message, use it up for another
\* message or for a machine, or put it back by a fault.
LEMMA CountKept ==
    ASSUME IsFiniteSet(Worker), TypeOK, TypeOK', NEW t \in Testrun, Counted(t),
           NEW w, NEW a, faults' >= faults,
           \/ /\ Machines(t)' \subseteq Machines(t) /\ Askers(t)' \subseteq Askers(t)
              /\ Requests(t)' <= Requests(t)
           \/ /\ Machines(t)' \subseteq Machines(t) /\ Askers(t)' \subseteq Askers(t) \cup {w}
              /\ Requests(t)' = Requests(t) - 1
           \/ /\ Machines(t)' \subseteq Machines(t)
              /\ w \in Askers(t) /\ Askers(t)' \subseteq Askers(t) \ {w}
              /\ Requests(t)' <= Requests(t) + 1
           \/ /\ Machines(t)' \subseteq Machines(t) \cup {a}
              /\ w \in Askers(t) /\ Askers(t)' \subseteq Askers(t) \ {w}
              /\ Requests(t)' <= Requests(t)
           \/ /\ Machines(t)' \subseteq Machines(t) /\ Askers(t)' \subseteq Askers(t)
              /\ Requests(t)' <= Requests(t) + 1 /\ faults' = faults + 1
    PROVE  Counted(t)'
<1> DEFINE M == Machines(t)
           A == Askers(t)
           R == Requests(t)
<1>1. /\ IsFiniteSet(M) /\ Cardinality(M) \in Nat /\ IsFiniteSet(A) /\ Cardinality(A) \in Nat
      /\ R \in Nat /\ faults \in Nat
  BY CountFacts
<1>2. /\ IsFiniteSet(M') /\ Cardinality(M') \in Nat /\ IsFiniteSet(A') /\ Cardinality(A') \in Nat
      /\ R' \in Nat /\ faults' \in Nat
  <2>1. Machines(t)' \subseteq Avm /\ Askers(t)' \subseteq Worker
    BY DEF Machines, Askers
  <2>2. R' \in Nat
    BY DEF Requests, TypeOK, Message
  <2>3. faults' \in Nat
    BY CampaignAssumption DEF TypeOK
  <2> QED  BY <2>1, <2>2, <2>3, CampaignAssumption, FS_Subset, FS_CardinalityType
<1>3. Cardinality(M) + Cardinality(A) + R <= 1 + faults
  BY DEF Counted
<1> SUFFICES Cardinality(M') + Cardinality(A') + R' <= 1 + faults'
  BY DEF Counted
<1>4. \/ M' \subseteq M /\ A' \subseteq A /\ R' <= R
      \/ M' \subseteq M /\ A' \subseteq A \cup {w} /\ R' = R - 1
      \/ M' \subseteq M /\ w \in A /\ A' \subseteq A \ {w} /\ R' <= R + 1
      \/ M' \subseteq M \cup {a} /\ w \in A /\ A' \subseteq A \ {w} /\ R' <= R
      \/ M' \subseteq M /\ A' \subseteq A /\ R' <= R + 1 /\ faults' = faults + 1
  OBVIOUS
<1> HIDE DEF M, A, R
<1>5. M' \subseteq M => Cardinality(M') <= Cardinality(M)
  BY <1>1, FS_Subset
<1>6. M' \subseteq M \cup {a} => Cardinality(M') <= Cardinality(M) + 1
  <2>1. /\ IsFiniteSet(M \cup {a})
        /\ \/ Cardinality(M \cup {a}) = Cardinality(M)
           \/ Cardinality(M \cup {a}) = Cardinality(M) + 1
    BY <1>1, FS_AddElement
  <2>2. M' \subseteq M \cup {a} => Cardinality(M') <= Cardinality(M \cup {a})
    BY <2>1, FS_Subset
  <2> QED  BY <1>1, <1>2, <2>1, <2>2
<1>7. A' \subseteq A => Cardinality(A') <= Cardinality(A)
  BY <1>1, FS_Subset
<1>8. A' \subseteq A \cup {w} => Cardinality(A') <= Cardinality(A) + 1
  <2>1. /\ IsFiniteSet(A \cup {w})
        /\ \/ Cardinality(A \cup {w}) = Cardinality(A)
           \/ Cardinality(A \cup {w}) = Cardinality(A) + 1
    BY <1>1, FS_AddElement
  <2>2. A' \subseteq A \cup {w} => Cardinality(A') <= Cardinality(A \cup {w})
    BY <2>1, FS_Subset
  <2> QED  BY <1>1, <1>2, <2>1, <2>2
<1>9. w \in A /\ A' \subseteq A \ {w} => Cardinality(A') <= Cardinality(A) - 1
  <2>1. IsFiniteSet(A \ {w}) /\ (w \in A => Cardinality(A \ {w}) = Cardinality(A) - 1)
    BY <1>1, FS_RemoveElement
  <2>2. A' \subseteq A \ {w} => Cardinality(A') <= Cardinality(A \ {w})
    BY <2>1, FS_Subset
  <2> QED  BY <2>1, <2>2
<1> QED  BY <1>1, <1>2, <1>3, <1>4, <1>5, <1>6, <1>7, <1>8, <1>9

LEMMA CountStep == ASSUME IsFiniteSet(Worker), TypeOK, CountInv, [Next]_vars PROVE CountInv'
<1> SUFFICES ASSUME NEW t \in Testrun PROVE Counted(t)'
  BY DEF CountInv
<1>0. TypeOK' /\ Counted(t)
  BY TypeStep DEF CountInv
<1> /\ queue \in [Message -> Nat] /\ faults \in Nat
    /\ wpc \in [Worker -> Call]
    /\ wmsg \in [Worker -> Message \cup {NoMessage}]
    /\ wtodo \in [Worker -> SUBSET (Testrun \cup Avm)]
    /\ owner \in [Avm -> Testrun \cup {None}]
  BY CampaignAssumption DEF TypeOK
<1> <<"campaign_run", None>> \in Message /\ <<"campaign_avm_create", t>> \in Message
  BY DEF Message
<1> USE DEF rows, http, work
<1>1. CASE Server
  <2>1. Machines(t)' = Machines(t) /\ Askers(t)' = Askers(t) /\ faults' = faults
    BY <1>1 DEF Server, PostInserts, PostPublishes, DeleteLooksUp, DeletePublishes,
                DeleteSetsStatus, Machines, Askers, AsksFor
  <2>2. Requests(t)' <= Requests(t)
    <3>1. CASE PostPublishes
      BY <3>1 DEF PostPublishes, Publish, Requests
    <3>2. CASE DeletePublishes
      BY <3>2 DEF DeletePublishes, Publish, Requests
    <3>3. CASE PostInserts \/ DeleteLooksUp \/ DeleteSetsStatus
      BY <3>3 DEF PostInserts, DeleteLooksUp, DeleteSetsStatus, Requests
    <3> QED  BY <1>1, <3>1, <3>2, <3>3 DEF Server
  <2> QED  BY <1>0, <2>1, <2>2, CountKept
<1>2. CASE UNCHANGED vars \/ \E a \in Avm : StackBuilt(a) \/ DeviceBoots(a)
  <2>1. /\ Machines(t)' = Machines(t) /\ Askers(t)' = Askers(t) /\ faults' = faults
        /\ Requests(t)' = Requests(t)
    BY <1>2 DEF vars, StackBuilt, DeviceBoots, Machines, Askers, AsksFor, Requests
  <2>2. Requests(t)' <= Requests(t) /\ faults' >= faults
    BY <2>1, CountFacts
  <2> QED  BY <1>0, <2>1, <2>2, CountKept
<1>3. ASSUME NEW w \in Worker, NEW m \in Message, Take(w, m) PROVE Counted(t)'
  <2>1. Machines(t)' = Machines(t) /\ faults' = faults
    BY <1>3 DEF Take, Machines
  <2>2. CASE m \in {<<"campaign_run", None>>, <<"campaign_avm_create", t>>}
    <3>1. Askers(t)' \subseteq Askers(t) \cup {w}
      BY <1>3 DEF Take, Askers, AsksFor
    <3>2. Requests(t)' = Requests(t) - 1
      <4>1. queue'[m] = queue[m] - 1 /\ post' = post
        BY <1>3 DEF Take
      <4>2. \A n \in Message : n # m => queue'[n] = queue[n]
        BY <1>3 DEF Take
      <4>3. <<"campaign_run", None>> # <<"campaign_avm_create", t>>
        OBVIOUS
      <4>4. CASE m = <<"campaign_run", None>>
        BY <4>1, <4>2, <4>3, <4>4 DEF Requests
      <4>5. CASE m = <<"campaign_avm_create", t>>
        BY <4>1, <4>2, <4>3, <4>5 DEF Requests
      <4> QED  BY <2>2, <4>4, <4>5
    <3>3. Machines(t)' \subseteq Machines(t) /\ faults' >= faults
      BY <2>1
    <3> QED  BY <1>0, <3>1, <3>2, <3>3, CountKept
  <2>3. CASE m \notin {<<"campaign_run", None>>, <<"campaign_avm_create", t>>}
    <3>1. Askers(t)' \subseteq Askers(t)
      BY <1>3, <2>3 DEF Take, Askers, AsksFor
    <3>2. Requests(t)' <= Requests(t)
      BY <1>3, <2>3 DEF Take, Requests
    <3> QED  BY <1>0, <2>1, <3>1, <3>2, CountKept
  <2> QED  BY <2>2, <2>3
<1>4. ASSUME NEW w \in Worker, Redeliver(w) PROVE Counted(t)'
  <2>1. Machines(t)' = Machines(t) /\ faults' = faults + 1
    BY <1>4 DEF Redeliver, Machines
  <2>2. Askers(t)' \subseteq Askers(t)
    BY <1>4 DEF Redeliver, Rest, Askers, AsksFor
  <2>3. Requests(t)' <= Requests(t) + 1
    BY <1>4 DEF Redeliver, Requests
  <2> QED  BY <1>0, <2>1, <2>2, <2>3, CountKept
<1>5. ASSUME NEW w \in Worker, Fail(w) \/ WorkerStep(w) PROVE Counted(t)'
  <2> USE DEF At, Goto, Rest
  <2> DEFINE run == <<"campaign_run", None>>
             create == <<"campaign_avm_create", t>>
  <2>1. ASSUME faults' >= faults, Machines(t)' \subseteq Machines(t), post' = post,
               queue'[run] = queue[run], queue'[create] = queue[create],
               AsksFor(w, t)' => AsksFor(w, t),
               \A v \in Worker : v # w =>
                   wmsg'[v] = wmsg[v] /\ wpc'[v] = wpc[v] /\ wtodo'[v] = wtodo[v]
        PROVE  Counted(t)'
    <3>1. Requests(t)' = Requests(t)
      BY <2>1 DEF Requests
    <3>2. Askers(t)' \subseteq Askers(t)
      BY <2>1 DEF Askers, AsksFor
    <3>3. Requests(t)' <= Requests(t)
      BY <3>1, CountFacts
    <3> QED  BY <1>0, <2>1, <3>2, <3>3, CountKept
  <2>2. UNCHANGED owner => Machines(t)' \subseteq Machines(t)
    BY DEF Machines
  <2>3. CASE Fail(w) \/ Check(w) \/ SetError(w) \/ Ack(w)
    BY <2>1, <2>2, <2>3 DEF Fail, Check, SetError, Ack, AsksFor, NoMessage
  <2>4. CASE Delay(w)
    <3>1. /\ queue' = [queue EXCEPT ![wmsg[w]] = @ + 1] /\ wpc[w] = "delay"
          /\ UNCHANGED <<wmsg, wtodo, owner, post, faults>> /\ wpc' = [wpc EXCEPT ![w] = "ack"]
      BY <2>4 DEF Delay
    <3>2. CASE wmsg[w] \in {run, create}
      <4>1. w \in Askers(t) /\ Askers(t)' \subseteq Askers(t) \ {w}
        BY <3>1, <3>2 DEF Askers, AsksFor
      <4>2. Requests(t)' = Requests(t) + 1
        <5>1. /\ queue'[wmsg[w]] = queue[wmsg[w]] + 1
              /\ \A n \in Message : n # wmsg[w] => queue'[n] = queue[n]
          BY <3>1, <3>2
        <5>2. run # create
          OBVIOUS
        <5>3. CASE wmsg[w] = run
          BY <3>1, <5>1, <5>2, <5>3 DEF Requests
        <5>4. CASE wmsg[w] = create
          BY <3>1, <5>1, <5>2, <5>4 DEF Requests
        <5> QED  BY <3>2, <5>3, <5>4
      <4>3. Requests(t)' <= Requests(t) + 1
        BY <4>2, CountFacts
      <4>4. Machines(t)' \subseteq Machines(t) /\ faults' >= faults
        BY <2>2, <3>1
      <4> QED  BY <1>0, <4>1, <4>3, <4>4, CountKept
    <3>3. CASE wmsg[w] \notin {run, create}
      BY <2>1, <2>2, <3>1, <3>3 DEF AsksFor
    <3> QED  BY <3>2, <3>3
  <2>5. CASE CampaignRun(w)
    <3>1. CASE RunGets(w) \/ RunSetsStatus(w) \/ RunEnds(w)
      BY <2>1, <2>2, <3>1 DEF RunGets, RunSetsStatus, RunEnds, AsksFor
    <3>2. ASSUME NEW k \in Testrun, RunPublishes(w, k) PROVE Counted(t)'
      <4>1. CASE k = t
        <5>1. w \in Askers(t) /\ Askers(t)' \subseteq Askers(t) \ {w}
          BY <3>2, <4>1 DEF RunPublishes, Askers, AsksFor
        <5>2. Requests(t)' <= Requests(t) + 1
          <6>1. queue'[create] = queue[create] + 1 /\ queue'[run] = queue[run] /\ post' = post
            BY <3>2, <4>1 DEF RunPublishes, Publish
          <6> QED  BY <6>1 DEF Requests
        <5>3. Machines(t)' \subseteq Machines(t) /\ faults' = faults
          BY <2>2, <3>2 DEF RunPublishes
        <5> QED  BY <1>0, <5>1, <5>2, <5>3, CountKept
      <4>2. CASE k # t
        <5>1. queue'[run] = queue[run] /\ queue'[create] = queue[create]
          BY <3>2, <4>2 DEF RunPublishes, Publish
        <5> QED  BY <2>1, <2>2, <3>2, <5>1 DEF RunPublishes, AsksFor
      <4> QED  BY <4>1, <4>2
    <3> QED  BY <2>5, <3>1, <3>2 DEF CampaignRun
  <2>6. CASE CampaignAvmCreate(w)
    <3> SUFFICES ASSUME NEW k \in Testrun,
                        \/ CreateGets(w, k) \/ CreateChecksQuota(w, k)
                        \/ \E a \in Avm : CreateInserts(w, k, a)
                        \/ CreateSetsCreating(w, k) \/ CreateBuilds(w, k)
                        \/ CreatePublishes(w, k)
                 PROVE  Counted(t)'
      BY <2>6 DEF CampaignAvmCreate
    <3>1. CASE CreateGets(w, k) \/ CreateChecksQuota(w, k)
      BY <2>1, <2>2, <3>1 DEF CreateGets, CreateChecksQuota, AsksFor
    <3>2. ASSUME NEW a \in Avm, CreateInserts(w, k, a) PROVE Counted(t)'
      <4>0. /\ owner' = [owner EXCEPT ![a] = k] /\ owner[a] = None
            /\ wmsg[w] = <<"campaign_avm_create", k>> /\ wpc[w] = "insert"
            /\ wpc' = [wpc EXCEPT ![w] = "creating"]
            /\ UNCHANGED <<wmsg, wtodo, queue, post, faults>>
        BY <3>2 DEF CreateInserts
      <4>1. CASE k = t
        <5>1. w \in Askers(t) /\ Askers(t)' \subseteq Askers(t) \ {w}
          BY <4>0, <4>1 DEF Askers, AsksFor
        <5>2. Machines(t)' \subseteq Machines(t) \cup {a}
          BY <4>0 DEF Machines
        <5>3. Requests(t)' = Requests(t)
          BY <4>0 DEF Requests
        <5>4. Requests(t)' <= Requests(t) /\ faults' >= faults
          BY <4>0, <5>3, CountFacts
        <5> QED  BY <1>0, <5>1, <5>2, <5>4, CountKept
      <4>2. CASE k # t
        <5>1. Machines(t)' \subseteq Machines(t)
          BY <4>0, <4>2 DEF Machines
        <5> QED  BY <2>1, <4>0, <5>1 DEF AsksFor
      <4> QED  BY <4>1, <4>2
    <3>3. CASE CreateSetsCreating(w, k) \/ CreateBuilds(w, k)
      BY <2>1, <2>2, <3>3 DEF CreateSetsCreating, CreateBuilds, AsksFor
    <3>4. CASE CreatePublishes(w, k)
      <4>1. queue'[run] = queue[run] /\ queue'[create] = queue[create]
        BY <3>4 DEF CreatePublishes, Publish
      <4> QED  BY <2>1, <2>2, <3>4, <4>1 DEF CreatePublishes, AsksFor
    <3> QED  BY <3>1, <3>2, <3>3, <3>4
  <2>7. CASE CampaignContainersCreate(w)
    <3> PICK a \in Avm : \/ PlayersGet(w, a) \/ PlayersStart(w, a)
                         \/ PlayersReady(w, a) \/ PlayersPublish(w, a)
      BY <2>7 DEF CampaignContainersCreate
    <3>1. CASE PlayersGet(w, a) \/ PlayersStart(w, a) \/ PlayersReady(w, a)
      BY <2>1, <2>2, <3>1 DEF PlayersGet, PlayersStart, PlayersReady, AsksFor
    <3>2. CASE PlayersPublish(w, a)
      <4>1. queue'[run] = queue[run] /\ queue'[create] = queue[create]
        BY <3>2 DEF PlayersPublish, Publish
      <4> QED  BY <2>1, <2>2, <3>2, <4>1 DEF PlayersPublish, AsksFor
    <3> QED  BY <3>1, <3>2
  <2>8. CASE CampaignRuntest(w)
    <3> PICK a \in Avm : \/ TestGets(w, a) \/ TestWaitsForBoot(w, a)
                         \/ TestLinks(w, a) \/ TestRuns(w, a)
                         \/ TestTearsDown(w, a) \/ TestSetsDeleted(w, a)
                         \/ TestReadsStatuses(w, a) \/ TestFinishesCampaign(w, a)
      BY <2>8 DEF CampaignRuntest
    <3>1. wmsg[w] = <<"campaign_runtest", a>> /\ UNCHANGED <<owner, queue, post, faults, wmsg>>
      BY DEF TestGets, TestWaitsForBoot, TestLinks, TestRuns, TestTearsDown, TestSetsDeleted,
             TestReadsStatuses, TestFinishesCampaign
    <3>2. \A v \in Worker : v # w => wpc'[v] = wpc[v] /\ wtodo'[v] = wtodo[v]
      BY DEF TestGets, TestWaitsForBoot, TestLinks, TestRuns, TestTearsDown, TestSetsDeleted,
             TestReadsStatuses, TestFinishesCampaign
    <3> QED  BY <2>1, <2>2, <3>1, <3>2 DEF AsksFor
  <2>9. CASE CampaignDelete(w)
    <3>1. CASE DeleteReads(w) \/ DeleteEnds(w)
      BY <2>1, <2>2, <3>1 DEF DeleteReads, DeleteEnds, AsksFor
    <3>2. ASSUME NEW a \in Avm, DeletePublishesAvm(w, a) PROVE Counted(t)'
      <4>1. queue'[run] = queue[run] /\ queue'[create] = queue[create]
        BY <3>2 DEF DeletePublishesAvm, Publish
      <4> QED  BY <2>1, <2>2, <3>2, <4>1 DEF DeletePublishesAvm, AsksFor
    <3>3. ASSUME NEW a \in Avm, DeleteSetsAvm(w, a) PROVE Counted(t)'
      BY <2>1, <2>2, <3>3 DEF DeleteSetsAvm, AsksFor
    <3> QED  BY <2>9, <3>1, <3>2, <3>3 DEF CampaignDelete
  <2>10. CASE AvmDelete(w)
    BY <2>1, <2>2, <2>10 DEF AvmDelete, AvmDeletes, AvmSetsDeleted, AsksFor
  <2> QED  BY <1>5, <2>3, <2>4, <2>5, <2>6, <2>7, <2>8, <2>9, <2>10 DEF WorkerStep
<1> QED  BY <1>1, <1>2, <1>3, <1>4, <1>5 DEF Next

\* campaign_run asks for one machine for each test run, and however many workers
\* there are, and however often a test waits for a slot of the quota, only a fault
\* gives it another one.
THEOREM OneMachineEach == ASSUME IsFiniteSet(Worker) PROVE Spec => []MachinesPerTestrun
<1>1. TypeOK /\ CountInv => MachinesPerTestrun
  <2> SUFFICES ASSUME TypeOK, CountInv, NEW t \in Testrun
               PROVE  Cardinality({a \in Avm : owner[a] = t}) <= 1 + faults
    BY DEF MachinesPerTestrun
  <2>1. Cardinality(Machines(t)) <= 1 + faults
    BY CountFacts DEF CountInv, Counted
  <2> QED  BY <2>1 DEF Machines
<1>2. TypeOK /\ CountInv /\ [Next]_vars => CountInv'
  BY CountStep
<1> QED  BY <1>1, <1>2, CountInit, TypeCorrect, PTL DEF Spec
--------------------------------------------------------------------------------
(* With one worker, no machine of a DELETED campaign is forgotten.               *)

Mail(a) == \E m \in Message : m[2] = a /\ queue[m] > 0

\* A machine that needs nobody's attention, or has a message waiting.
Safe(a) == machine[a] = "none" \/ status[a] = "ERROR" \/ Mail(a)

\* A machine is built for a row, and outlives neither the row nor its deletion.
Registered ==
    \A a \in Avm : /\ machine[a] # "none" => AvmVisible(a)
                   /\ status[a] # "NONE" => owner[a] # None

\* When a task about a machine ends, the machine is safe.
EndsSafe ==
    \A w \in Worker, a \in Avm : wmsg[w][2] = a =>
        /\ wpc[w] \in {"deleted", "statuses", "finished"} => machine[a] = "none"
        /\ wpc[w] = "ack" => Safe(a)

\* campaign_delete has made the machines safe that it has been through.
Deleting(w) == wmsg[w] = <<"campaign_delete", None>> /\ wpc[w] \in {"loop", "loop_missing"}
LeavesSafe ==
    \A w \in Worker : Deleting(w) =>
        /\ \A a \in Avm : a \in wtodo[w] \/ Safe(a)
        /\ wavm[w] \in Avm => Mail(wavm[w])

\* No machine is built for a DELETED campaign.
BuildsFor ==
    \A w \in Worker :
        /\ wmsg[w][1] = "campaign_avm_create"
        /\ wpc[w] \in {"quota", "insert", "creating", "build", "publish"}
        => campaign # "DELETED"

Attended ==
    campaign = "DELETED" => \A a \in Avm : Safe(a) \/ \E w \in Worker : wmsg[w][2] = a

OrphanInv == Registered /\ EndsSafe /\ LeavesSafe /\ BuildsFor /\ Attended

LEMMA OrphanInit == Init => OrphanInv
BY CampaignAssumption DEF Init, OrphanInv, Registered, EndsSafe, LeavesSafe, Deleting, BuildsFor,
                          Attended, Safe, NoMessage

LEMMA MailKept ==
    ASSUME TypeOK, NEW a \in Avm,
           \/ UNCHANGED queue
           \/ \E m \in Message : queue' = [queue EXCEPT ![m] = @ + 1]
    PROVE  Mail(a) => Mail(a)'
BY DEF TypeOK, Mail

LEMMA MailPosted ==
    ASSUME TypeOK, NEW m \in Message, queue' = [queue EXCEPT ![m] = @ + 1]
    PROVE  Mail(m[2])'
BY DEF TypeOK, Mail

LEMMA OrphanStep ==
    ASSUME OneWorker, TypeOK, Known, Marked, OrphanInv, [Next]_vars
    PROVE  OrphanInv'
<1> USE DEF OrphanInv, Registered, EndsSafe, LeavesSafe, Deleting, BuildsFor, Attended, Safe,
            AvmVisible, rows, http, work
<1> /\ wpc \in [Worker -> Call]
    /\ wmsg \in [Worker -> Message \cup {NoMessage}]
    /\ wavm \in [Worker -> Avm \cup {None}]
    /\ wtodo \in [Worker -> SUBSET (Testrun \cup Avm)]
    /\ owner \in [Avm -> Testrun \cup {None}]
    /\ machine \in [Avm -> {"none", "building", "up", "booted"}]
    /\ status \in [Avm -> {"NONE", "QUEUED", "CREATING", "READY", "DELETING", "DELETED", "ERROR"}]
  BY DEF TypeOK
<1> None \notin Avm /\ None \notin Testrun /\ \A t \in Testrun : t \notin Avm
  BY CampaignAssumption
<1>0. \A m \in Message : queue' = [queue EXCEPT ![m] = @ + 1] =>
         /\ \A a \in Avm : Mail(a) => Mail(a)'
         /\ m[2] \in Avm => Mail(m[2])'
  BY MailKept, MailPosted
<1>1. UNCHANGED queue => \A a \in Avm : Mail(a) => Mail(a)'
  BY MailKept
<1>2. CASE Server
  <2>1. CASE PostInserts \/ DeleteLooksUp \/ DeleteSetsStatus
    BY <1>1, <2>1 DEF PostInserts, DeleteLooksUp, DeleteSetsStatus
  <2>2. CASE PostPublishes \/ DeletePublishes
    <3>1. \A a \in Avm : Mail(a) => Mail(a)'
      BY <1>0, <2>2 DEF PostPublishes, DeletePublishes, Publish, Message
    <3> QED  BY <2>2, <3>1 DEF PostPublishes, DeletePublishes
  <2> QED  BY <1>2, <2>1, <2>2 DEF Server
<1>3. CASE \E a \in Avm : StackBuilt(a) \/ DeviceBoots(a)
  BY <1>1, <1>3 DEF StackBuilt, DeviceBoots
<1>4. CASE UNCHANGED vars
  BY <1>1, <1>4 DEF vars
<1>5. ASSUME NEW w \in Worker,
             \/ \E m \in Message : Take(w, m)
             \/ WorkerStep(w) \/ Redeliver(w) \/ Fail(w)
      PROVE  OrphanInv'
  <2>0. \A v \in Worker : v = w
    BY DEF OneWorker
  <2> USE <2>0 DEF At, Goto, Rest
  <2>1. ASSUME NEW m \in Message, Take(w, m) PROVE OrphanInv'
    <3>1. \A a \in Avm : Mail(a) => Mail(a)' \/ m[2] = a
      BY <2>1 DEF Take, Mail, TypeOK
    <3>2. wmsg'[w] = m /\ wpc'[w] = "check" /\ UNCHANGED <<rows, machine>> /\ wmsg[w] = NoMessage
      BY <2>1 DEF Take, TypeOK
    <3> QED  BY <3>1, <3>2 DEF NoMessage
  <2>2. CASE Redeliver(w)
    <3>1. /\ wmsg[w] \in Message /\ queue' = [queue EXCEPT ![wmsg[w]] = @ + 1]
          /\ wmsg'[w] = NoMessage /\ wpc'[w] = "idle" /\ UNCHANGED <<rows, machine>>
      BY <2>2 DEF Redeliver, TypeOK
    <3>2. \A a \in Avm : /\ Mail(a) => Mail(a)'
                         /\ wmsg[w][2] = a => Mail(a)'
      BY <3>1 DEF Mail, TypeOK
    <3>3. Registered' /\ EndsSafe' /\ LeavesSafe' /\ BuildsFor'
      BY <3>1
    <3>4. Attended'
      BY <3>1, <3>2
    <3> QED  BY <3>3, <3>4
  <2>3. CASE Ack(w)
    BY <1>1, <2>3 DEF Ack, NoMessage
  <2>4. CASE Fail(w) \/ Check(w) \/ SetError(w)
    BY <1>1, <2>4 DEF Fail, Check, SetError, Known
  <2>5. CASE Delay(w)
    <3>1. wmsg[w] \in Message
      BY <2>5 DEF Delay, TypeOK
    <3>2. \A a \in Avm : /\ Mail(a) => Mail(a)'
                         /\ wmsg[w][2] = a => Mail(a)'
      BY <2>5, <3>1 DEF Delay, Mail, TypeOK
    <3>3. wpc'[w] = "ack" /\ UNCHANGED <<wmsg, rows, machine>>
      BY <2>5 DEF Delay
    <3>4. Registered' /\ LeavesSafe' /\ BuildsFor'
      BY <3>3
    <3>5. EndsSafe' /\ Attended'
      BY <3>2, <3>3
    <3> QED  BY <3>4, <3>5
  <2>6. CASE CampaignRun(w)
    <3>1. CASE RunGets(w) \/ RunSetsStatus(w) \/ RunEnds(w)
      BY <1>1, <2>6, <3>1 DEF RunGets, RunSetsStatus, RunEnds
    <3>2. ASSUME NEW t \in Testrun, RunPublishes(w, t) PROVE OrphanInv'
      <4>1. \A a \in Avm : Mail(a) => Mail(a)'
        BY <1>0, <3>2 DEF RunPublishes, Publish, Message
      <4> QED  BY <3>2, <4>1 DEF RunPublishes
    <3> QED  BY <2>6, <3>1, <3>2 DEF CampaignRun
  <2>7. CASE CampaignAvmCreate(w)
    <3> SUFFICES ASSUME NEW t \in Testrun,
                        \/ CreateGets(w, t) \/ CreateChecksQuota(w, t)
                        \/ \E a \in Avm : CreateInserts(w, t, a)
                        \/ CreateSetsCreating(w, t) \/ CreateBuilds(w, t)
                        \/ CreatePublishes(w, t)
                 PROVE  OrphanInv'
      BY <2>7 DEF CampaignAvmCreate
    <3>1. CASE CreateGets(w, t) \/ CreateChecksQuota(w, t)
      BY <1>1, <3>1 DEF CreateGets, CreateChecksQuota, CampaignVisible
    <3>2. ASSUME NEW a \in Avm, CreateInserts(w, t, a) PROVE OrphanInv'
      BY <1>1, <3>2 DEF CreateInserts
    <3>3. CASE CreateSetsCreating(w, t)
      BY <1>1, <3>3 DEF CreateSetsCreating
    <3>4. CASE CreateBuilds(w, t)
      BY <1>1, <3>4 DEF CreateBuilds
    <3>5. CASE CreatePublishes(w, t)
      BY <1>0, <3>5 DEF CreatePublishes, Publish
    <3> QED  BY <3>1, <3>2, <3>3, <3>4, <3>5
  <2>8. CASE CampaignContainersCreate(w)
    <3> PICK a \in Avm : \/ PlayersGet(w, a) \/ PlayersStart(w, a)
                         \/ PlayersReady(w, a) \/ PlayersPublish(w, a)
      BY <2>8 DEF CampaignContainersCreate
    <3>1. CASE PlayersGet(w, a) \/ PlayersStart(w, a)
      BY <1>1, <3>1 DEF PlayersGet, PlayersStart
    <3>2. CASE PlayersReady(w, a)
      BY <1>1, <3>2 DEF PlayersReady, Known
    <3>3. CASE PlayersPublish(w, a)
      <4> DEFINE m == <<"campaign_runtest", a>>
      <4>1. m \in Message /\ m[2] = a /\ queue' = [queue EXCEPT ![m] = @ + 1]
        BY <3>3 DEF PlayersPublish, Publish, Message
      <4> HIDE DEF m
      <4>2. Mail(a)' /\ \A b \in Avm : Mail(b) => Mail(b)'
        BY <1>0, <4>1
      <4> QED  BY <3>3, <4>2 DEF PlayersPublish
    <3> QED  BY <3>1, <3>2, <3>3
  <2>9. CASE CampaignRuntest(w)
    <3> PICK a \in Avm : \/ TestGets(w, a) \/ TestWaitsForBoot(w, a)
                         \/ TestLinks(w, a) \/ TestRuns(w, a)
                         \/ TestTearsDown(w, a) \/ TestSetsDeleted(w, a)
                         \/ TestReadsStatuses(w, a) \/ TestFinishesCampaign(w, a)
      BY <2>9 DEF CampaignRuntest
    <3>1. CASE TestGets(w, a) \/ TestWaitsForBoot(w, a)
      BY <1>1, <3>1 DEF TestGets, TestWaitsForBoot
    <3>2. CASE TestLinks(w, a) \/ TestRuns(w, a)
      BY <1>1, <3>2 DEF TestLinks, TestRuns
    <3>3. CASE TestTearsDown(w, a) \/ TestSetsDeleted(w, a)
      BY <1>1, <3>3 DEF TestTearsDown, TestSetsDeleted, Known
    <3>4. CASE TestReadsStatuses(w, a) \/ TestFinishesCampaign(w, a)
      BY <1>1, <3>4 DEF TestReadsStatuses, TestFinishesCampaign
    <3> QED  BY <3>1, <3>2, <3>3, <3>4
  <2>10. CASE CampaignDelete(w)
    <3>1. CASE DeleteReads(w)
      BY <1>1, <3>1 DEF DeleteReads, Marked
    <3>2. CASE DeleteEnds(w)
      BY <1>1, <3>2 DEF DeleteEnds
    <3>3. ASSUME NEW a \in Avm, DeletePublishesAvm(w, a) PROVE OrphanInv'
      BY <1>0, <1>1, <3>3 DEF DeletePublishesAvm, Publish, Message
    <3>4. ASSUME NEW a \in Avm, DeleteSetsAvm(w, a) PROVE OrphanInv'
      BY <1>1, <3>4 DEF DeleteSetsAvm, Known
    <3> QED  BY <2>10, <3>1, <3>2, <3>3, <3>4 DEF CampaignDelete
  <2>11. CASE AvmDelete(w)
    <3> PICK a \in Avm : AvmDeletes(w, a) \/ AvmSetsDeleted(w, a)
      BY <2>11 DEF AvmDelete
    <3>1. CASE AvmDeletes(w, a)      BY <1>1, <3>1 DEF AvmDeletes
    <3>2. CASE AvmSetsDeleted(w, a)  BY <1>1, <3>2 DEF AvmSetsDeleted, Known
    <3> QED  BY <3>1, <3>2
  <2> QED
    BY <1>5, <2>1, <2>2, <2>3, <2>4, <2>5, <2>6, <2>7, <2>8, <2>9, <2>10, <2>11 DEF WorkerStep
<1> QED  BY <1>2, <1>3, <1>4, <1>5 DEF Next

\* With one worker, a machine that is still there when its campaign is DELETED is on
\* record as failed, or a task about it is on the way, whatever fails.
THEOREM NobodyForgotten == ASSUME OneWorker PROVE Spec => []NoOrphans
<1> DEFINE Inv == Known /\ Marked /\ OrphanInv
<1>1. Init => Inv
  BY OrphanInit, QuotaInit DEF QuotaInv
<1>2. TypeOK /\ Inv /\ [Next]_vars => Inv'
  BY OrphanStep, KnownStep, MarkedStep
<1>3. TypeOK /\ Inv => NoOrphans
  <2> SUFFICES ASSUME TypeOK, Inv, campaign = "DELETED", NEW a \in Avm, machine[a] # "none",
                      status[a] # "ERROR"
               PROVE  \E m \in Message : m[2] = a /\ (queue[m] > 0 \/ InHand(m))
    BY DEF NoOrphans
  <2>1. CASE Mail(a)
    BY <2>1 DEF Mail
  <2>2. ASSUME NEW w \in Worker, wmsg[w][2] = a
        PROVE  \E m \in Message : m[2] = a /\ (queue[m] > 0 \/ InHand(m))
    <3>1. wmsg[w] \in Message
      BY <2>2, CampaignAssumption DEF TypeOK, NoMessage
    <3> QED  BY <2>2, <3>1 DEF InHand
  <2> QED  BY <2>1, <2>2 DEF OrphanInv, Attended, Safe
<1> HIDE DEF Inv
<1> QED  BY <1>1, <1>2, <1>3, TypeCorrect, PTL DEF Spec
--------------------------------------------------------------------------------
(* With one worker, every fault costs at most one machine. A failure of           *)
(* campaign_avm_create is recorded in the project, not in the machine it had      *)
(* built, and its redelivery inserts another one: nothing is left that would ever *)
(* delete the first, until the campaign is deleted.                               *)

\* The machine campaign_avm_create has just inserted is not built yet.
Fresh ==
    \A w \in Worker :
        /\ wmsg[w][1] = "campaign_avm_create" /\ wpc[w] \in {"creating", "build"}
        /\ wavm[w] \in Avm
        => machine[wavm[w]] = "none"

\* Machine a is in the hands of the task it is the subject of, or of the one that made it.
Held(a) ==
    \E w \in Worker :
        \/ wmsg[w][2] = a /\ wpc[w] # "ack"
        \/ wavm[w] = a /\ wmsg[w][1] = "campaign_avm_create" /\ wpc[w] = "publish"

\* Machines that run while no task is going to remove them and no error is recorded.
Leaked == {a \in Avm : ~Safe(a) /\ ~Held(a)}

\* Each crash, outage or failure leaks one machine at most; without them none.
FewLeaks == Cardinality(Leaked) <= faults

LEMMA FreshStep ==
    ASSUME OneWorker, TypeOK, OrphanInv, Fresh, [Next]_vars
    PROVE  Fresh'
<1> USE DEF Fresh, Registered, AvmVisible, rows, http, work
<1> /\ wpc \in [Worker -> Call]
    /\ wmsg \in [Worker -> Message \cup {NoMessage}]
    /\ wavm \in [Worker -> Avm \cup {None}]
    /\ machine \in [Avm -> {"none", "building", "up", "booted"}]
    /\ Registered
  BY DEF TypeOK, OrphanInv
<1> None \notin Avm
  BY CampaignAssumption
<1>1. CASE UNCHANGED <<work, machine>>
  BY <1>1
<1>2. CASE Server \/ UNCHANGED vars
  BY <1>1, <1>2 DEF vars, Server, PostInserts, PostPublishes, DeleteLooksUp, DeletePublishes,
                    DeleteSetsStatus
<1>3. CASE \E a \in Avm : StackBuilt(a) \/ DeviceBoots(a)
  BY <1>3 DEF StackBuilt, DeviceBoots
<1>4. ASSUME NEW w \in Worker,
             \/ \E m \in Message : Take(w, m)
             \/ WorkerStep(w) \/ Redeliver(w) \/ Fail(w)
      PROVE  Fresh'
  <2>0. \A v \in Worker : v = w
    BY DEF OneWorker
  <2> USE <2>0
  <2>1. CASE wpc'[w] \notin {"creating", "build"}
    BY <2>1
  <2>2. CASE CampaignAvmCreate(w)
    BY <2>2 DEF CampaignAvmCreate, CreateGets, CreateChecksQuota, CreateInserts,
                CreateSetsCreating, CreateBuilds, CreatePublishes, At, Goto
  <2>3. CASE \/ \E m \in Message : Take(w, m)
             \/ Redeliver(w) \/ Fail(w) \/ Check(w) \/ Delay(w) \/ SetError(w) \/ Ack(w)
    BY <2>1, <2>3 DEF Take, Redeliver, Fail, Check, Delay, SetError, Ack, Rest, Goto
  <2>4. CASE CampaignRun(w) \/ CampaignContainersCreate(w)
    BY <2>1, <2>4 DEF CampaignRun, RunGets, RunSetsStatus, RunEnds, RunPublishes,
       CampaignContainersCreate, PlayersGet, PlayersStart, PlayersReady, PlayersPublish, At, Goto
  <2>5. CASE CampaignRuntest(w)
    BY <2>1, <2>5 DEF CampaignRuntest, TestGets, TestWaitsForBoot, TestLinks, TestRuns,
       TestTearsDown, TestSetsDeleted, TestReadsStatuses, TestFinishesCampaign, At, Goto
  <2>6. CASE CampaignDelete(w) \/ AvmDelete(w)
    BY <2>1, <2>6 DEF CampaignDelete, DeleteReads, DeleteEnds, DeletePublishesAvm, DeleteSetsAvm,
       AvmDelete, AvmDeletes, AvmSetsDeleted, At, Goto
  <2> QED  BY <1>4, <2>2, <2>3, <2>4, <2>5, <2>6 DEF WorkerStep
<1> QED  BY <1>2, <1>3, <1>4 DEF Next

\* A machine leaks in one way only.
LEMMA LeakStep ==
    ASSUME OneWorker, TypeOK, Known, Marked, OrphanInv, OrphanInv', Fresh, [Next]_vars,
           NEW b \in Avm, Safe(b) \/ Held(b), ~(Safe(b) \/ Held(b))'
    PROVE  faults' = faults + 1 /\ \E w \in Worker : wavm[w] = b
<1> USE DEF Held, Safe, Fresh, AvmVisible, rows, http, work
<1> /\ wpc \in [Worker -> Call]
    /\ wmsg \in [Worker -> Message \cup {NoMessage}]
    /\ wavm \in [Worker -> Avm \cup {None}]
    /\ wtodo \in [Worker -> SUBSET (Testrun \cup Avm)]
    /\ machine \in [Avm -> {"none", "building", "up", "booted"}]
    /\ status \in [Avm -> {"NONE", "QUEUED", "CREATING", "READY", "DELETING", "DELETED", "ERROR"}]
    /\ Registered /\ EndsSafe /\ LeavesSafe /\ EndsSafe' /\ LeavesSafe'
  BY DEF TypeOK, OrphanInv
<1> None \notin Avm /\ None \notin Testrun /\ \A t \in Testrun : t \notin Avm
  BY CampaignAssumption
<1>0. \A m \in Message : queue' = [queue EXCEPT ![m] = @ + 1] =>
         (\A a \in Avm : Mail(a) => Mail(a)') /\ Mail(m[2])'
  BY MailKept, MailPosted
<1>1. UNCHANGED queue => \A a \in Avm : Mail(a) => Mail(a)'
  BY MailKept
<1>2. CASE Server
  <2>1. CASE PostInserts \/ DeleteLooksUp \/ DeleteSetsStatus
    BY <1>1, <2>1 DEF PostInserts, DeleteLooksUp, DeleteSetsStatus
  <2>2. CASE PostPublishes \/ DeletePublishes
    <3>1. \A a \in Avm : Mail(a) => Mail(a)'
      BY <1>0, <2>2 DEF PostPublishes, DeletePublishes, Publish, Message
    <3> QED  BY <2>2, <3>1 DEF PostPublishes, DeletePublishes
  <2> QED  BY <1>2, <2>1, <2>2 DEF Server
<1>3. CASE \E a \in Avm : StackBuilt(a) \/ DeviceBoots(a)
  BY <1>1, <1>3 DEF StackBuilt, DeviceBoots
<1>4. CASE UNCHANGED vars
  BY <1>1, <1>4 DEF vars
<1>5. ASSUME NEW w \in Worker,
             \/ \E m \in Message : Take(w, m)
             \/ WorkerStep(w) \/ Redeliver(w) \/ Fail(w)
      PROVE  faults' = faults + 1 /\ wavm[w] = b
  <2>0. \A v \in Worker : v = w
    BY DEF OneWorker
  <2> USE <2>0 DEF At, Goto, Rest
  <2>1. ASSUME NEW m \in Message, Take(w, m) PROVE FALSE
    <3>1. Mail(b) => Mail(b)' \/ m[2] = b
      BY <2>1 DEF Take, Mail, TypeOK
    <3>2. wmsg'[w] = m /\ wpc'[w] = "check" /\ UNCHANGED <<rows, machine>> /\ wmsg[w] = NoMessage
      BY <2>1 DEF Take, TypeOK
    <3> QED  BY <3>1, <3>2 DEF NoMessage
  <2>2. CASE Redeliver(w)
    <3>1. /\ wmsg[w] \in Message /\ queue' = [queue EXCEPT ![wmsg[w]] = @ + 1]
          /\ faults' = faults + 1 /\ UNCHANGED <<rows, machine>>
      BY <2>2 DEF Redeliver, TypeOK
    <3>2. (Mail(b) => Mail(b)') /\ (wmsg[w][2] = b => Mail(b)')
      BY <3>1 DEF Mail, TypeOK
    <3> QED  BY <3>1, <3>2
  <2>3. CASE Fail(w)
    BY <1>1, <2>3 DEF Fail
  <2>4. CASE Ack(w)
    BY <1>1, <2>4 DEF Ack, EndsSafe
  <2>5. CASE Check(w) \/ SetError(w)
    BY <1>1, <2>5 DEF Check, SetError, EndsSafe
  <2>6. CASE Delay(w)
    <3>1. wmsg[w] \in Message
      BY <2>6 DEF Delay, TypeOK
    <3>2. (Mail(b) => Mail(b)') /\ (wmsg[w][2] = b => Mail(b)')
      BY <2>6, <3>1 DEF Delay, Mail, TypeOK
    <3> QED  BY <2>6, <3>2 DEF Delay
  <2>7. CASE CampaignRun(w)
    <3>1. CASE RunGets(w) \/ RunSetsStatus(w) \/ RunEnds(w)
      BY <1>1, <3>1 DEF RunGets, RunSetsStatus, RunEnds
    <3>2. ASSUME NEW t \in Testrun, RunPublishes(w, t) PROVE FALSE
      <4>1. \A a \in Avm : Mail(a) => Mail(a)'
        BY <1>0, <3>2 DEF RunPublishes, Publish, Message
      <4> QED  BY <3>2, <4>1 DEF RunPublishes
    <3> QED  BY <2>7, <3>1, <3>2 DEF CampaignRun
  <2>8. CASE CampaignAvmCreate(w)
    <3> SUFFICES ASSUME NEW t \in Testrun,
                        \/ CreateGets(w, t) \/ CreateChecksQuota(w, t)
                        \/ \E a \in Avm : CreateInserts(w, t, a)
                        \/ CreateSetsCreating(w, t) \/ CreateBuilds(w, t)
                        \/ CreatePublishes(w, t)
                 PROVE  FALSE
      BY <2>8 DEF CampaignAvmCreate
    <3>1. CASE CreateGets(w, t) \/ CreateChecksQuota(w, t)
      BY <1>1, <3>1 DEF CreateGets, CreateChecksQuota
    <3>2. ASSUME NEW a \in Avm, CreateInserts(w, t, a) PROVE FALSE
      BY <1>1, <3>2 DEF CreateInserts, Registered
    <3>3. CASE CreateSetsCreating(w, t)
      BY <1>1, <3>3 DEF CreateSetsCreating
    <3>4. CASE CreateBuilds(w, t)
      BY <1>1, <3>4 DEF CreateBuilds
    <3>5. CASE CreatePublishes(w, t)
      <4> DEFINE m == <<"campaign_containers_create", wavm[w]>>
      <4>1. wavm[w] = b \/ wavm[w] # b
        OBVIOUS
      <4>2. wavm[w] \in Avm => m \in Message /\ m[2] = wavm[w] /\ queue' = [queue EXCEPT ![m] = @ + 1]
        BY <3>5 DEF CreatePublishes, Publish, Message
      <4>3. wavm[w] \notin Avm => UNCHANGED queue
        BY <3>5 DEF CreatePublishes, Publish, Message, TypeOK
      <4> HIDE DEF m
      <4>4. (Mail(b) => Mail(b)') /\ (wavm[w] = b => Mail(b)')
        BY <1>0, <1>1, <4>2, <4>3
      <4> QED  BY <3>5, <4>4 DEF CreatePublishes
    <3> QED  BY <3>1, <3>2, <3>3, <3>4, <3>5
  <2>9. CASE CampaignContainersCreate(w)
    <3> PICK a \in Avm : \/ PlayersGet(w, a) \/ PlayersStart(w, a)
                         \/ PlayersReady(w, a) \/ PlayersPublish(w, a)
      BY <2>9 DEF CampaignContainersCreate
    <3>1. CASE PlayersGet(w, a) \/ PlayersStart(w, a) \/ PlayersReady(w, a)
      BY <1>1, <3>1 DEF PlayersGet, PlayersStart, PlayersReady
    <3>2. CASE PlayersPublish(w, a)
      <4> DEFINE m == <<"campaign_runtest", a>>
      <4>1. m \in Message /\ m[2] = a /\ queue' = [queue EXCEPT ![m] = @ + 1]
        BY <3>2 DEF PlayersPublish, Publish, Message
      <4> HIDE DEF m
      <4>2. Mail(a)' /\ (Mail(b) => Mail(b)')
        BY <1>0, <4>1
      <4> QED  BY <3>2, <4>2 DEF PlayersPublish
    <3> QED  BY <3>1, <3>2
  <2>10. CASE CampaignRuntest(w)
    <3> PICK a \in Avm : \/ TestGets(w, a) \/ TestWaitsForBoot(w, a)
                         \/ TestLinks(w, a) \/ TestRuns(w, a)
                         \/ TestTearsDown(w, a) \/ TestSetsDeleted(w, a)
                         \/ TestReadsStatuses(w, a) \/ TestFinishesCampaign(w, a)
      BY <2>10 DEF CampaignRuntest
    <3>1. CASE TestGets(w, a) \/ TestWaitsForBoot(w, a) \/ TestLinks(w, a) \/ TestRuns(w, a)
      BY <1>1, <3>1 DEF TestGets, TestWaitsForBoot, TestLinks, TestRuns
    <3>2. CASE TestTearsDown(w, a) \/ TestSetsDeleted(w, a)
      BY <1>1, <3>2 DEF TestTearsDown, TestSetsDeleted
    <3>3. CASE TestReadsStatuses(w, a) \/ TestFinishesCampaign(w, a)
      BY <1>1, <3>3 DEF TestReadsStatuses, TestFinishesCampaign, EndsSafe
    <3> QED  BY <3>1, <3>2, <3>3
  <2>11. CASE CampaignDelete(w)
    <3>1. CASE DeleteReads(w) \/ DeleteEnds(w)
      BY <1>1, <3>1 DEF DeleteReads, DeleteEnds
    <3>2. ASSUME NEW a \in Avm, DeletePublishesAvm(w, a) PROVE FALSE
      BY <1>0, <1>1, <3>2 DEF DeletePublishesAvm, Publish, Message
    <3>3. ASSUME NEW a \in Avm, DeleteSetsAvm(w, a) PROVE FALSE
      BY <1>1, <3>3 DEF DeleteSetsAvm, LeavesSafe, Deleting
    <3> QED  BY <2>11, <3>1, <3>2, <3>3 DEF CampaignDelete
  <2>12. CASE AvmDelete(w)
    BY <1>1, <2>12 DEF AvmDelete, AvmDeletes, AvmSetsDeleted, EndsSafe
  <2> QED
    BY <1>5, <2>1, <2>2, <2>3, <2>4, <2>5, <2>6, <2>7, <2>8, <2>9, <2>10, <2>11, <2>12
    DEF WorkerStep
<1> QED  BY <1>2, <1>3, <1>4, <1>5 DEF Next

LEMMA FaultsGrow == ASSUME TypeOK, [Next]_vars PROVE faults <= faults'
<1>1. UNCHANGED faults => faults <= faults'
  BY DEF TypeOK
<1>2. faults' = faults + 1 => faults <= faults'
  BY DEF TypeOK
<1>3. ASSUME NEW w \in Worker,
             \/ \E m \in Message : Take(w, m)
             \/ WorkerStep(w) \/ Redeliver(w) \/ Fail(w)
      PROVE  UNCHANGED faults \/ faults' = faults + 1
  <2>1. CASE (\E m \in Message : Take(w, m)) \/ Redeliver(w) \/ Fail(w)
    BY <2>1 DEF Take, Redeliver, Fail
  <2>2. CASE Check(w) \/ Delay(w) \/ SetError(w) \/ Ack(w)
    BY <2>2 DEF Check, Delay, SetError, Ack
  <2>3. CASE CampaignRun(w)
    BY <2>3 DEF CampaignRun, RunGets, RunSetsStatus, RunEnds, RunPublishes
  <2>4. CASE CampaignAvmCreate(w)
    BY <2>4 DEF CampaignAvmCreate, CreateGets, CreateChecksQuota, CreateInserts,
                CreateSetsCreating, CreateBuilds, CreatePublishes
  <2>5. CASE CampaignContainersCreate(w)
    BY <2>5 DEF CampaignContainersCreate, PlayersGet, PlayersStart, PlayersReady, PlayersPublish
  <2>6. CASE CampaignRuntest(w)
    BY <2>6 DEF CampaignRuntest, TestGets, TestWaitsForBoot, TestLinks, TestRuns, TestTearsDown,
                TestSetsDeleted, TestReadsStatuses, TestFinishesCampaign
  <2>7. CASE CampaignDelete(w) \/ AvmDelete(w)
    BY <2>7 DEF CampaignDelete, DeleteReads, DeleteEnds, DeletePublishesAvm, DeleteSetsAvm,
                AvmDelete, AvmDeletes, AvmSetsDeleted
  <2> QED  BY <1>3, <2>1, <2>2, <2>3, <2>4, <2>5, <2>6, <2>7 DEF WorkerStep
<1>4. CASE Server \/ UNCHANGED vars
  BY <1>1, <1>4 DEF vars, Server, PostInserts, PostPublishes, DeleteLooksUp, DeletePublishes,
              DeleteSetsStatus
<1>5. CASE \E a \in Avm : StackBuilt(a) \/ DeviceBoots(a)
  BY <1>1, <1>5 DEF StackBuilt, DeviceBoots
<1> QED  BY <1>1, <1>2, <1>3, <1>4, <1>5 DEF Next

\* With one worker, no more machines are lost from sight than crashes, outages and
\* failures have happened; every other machine is removed by a task that is on its
\* way or in hand, or has its failure on record.
THEOREM LeaksAreFaults == ASSUME OneWorker PROVE Spec => []FewLeaks
<1> DEFINE Inv == Known /\ Marked /\ OrphanInv /\ Fresh
           Count == IsFiniteSet(Leaked) /\ FewLeaks
<1>1. Init => Inv /\ Count
  <2> SUFFICES ASSUME Init PROVE Inv /\ Count
    OBVIOUS
  <2>1. Inv
    BY OrphanInit, QuotaInit DEF QuotaInv, Fresh, Init
  <2>2. Leaked = {} /\ faults = 0
    BY DEF Init, Leaked, Safe
  <2> QED  BY <2>1, <2>2, FS_EmptySet DEF FewLeaks
<1>2. TypeOK /\ Inv /\ [Next]_vars => Inv'
  BY OrphanStep, KnownStep, MarkedStep, FreshStep
<1>3. TypeOK /\ TypeOK' /\ Inv /\ Inv' /\ Count /\ [Next]_vars => Count'
  <2> SUFFICES ASSUME TypeOK, TypeOK', Inv, Inv', Count, [Next]_vars PROVE Count'
    OBVIOUS
  <2>0. Cardinality(Leaked) \in Nat /\ faults \in Nat /\ faults' \in Nat
    BY FS_CardinalityType DEF TypeOK
  <2>1. ASSUME NEW b \in Leaked', b \notin Leaked
        PROVE  faults' = faults + 1 /\ \E w \in Worker : wavm[w] = b
    <3>1. b \in Avm /\ (Safe(b) \/ Held(b)) /\ ~(Safe(b) \/ Held(b))'
      BY <2>1 DEF Leaked
    <3> QED  BY <3>1, LeakStep
  <2>2. CASE Leaked' \subseteq Leaked
    <3>1. IsFiniteSet(Leaked') /\ Cardinality(Leaked') <= Cardinality(Leaked)
      BY <2>2, FS_Subset
    <3>2. Cardinality(Leaked') \in Nat /\ faults <= faults'
      BY <3>1, FS_CardinalityType, FaultsGrow
    <3> QED  BY <2>0, <3>1, <3>2 DEF FewLeaks
  <2>3. ASSUME NEW b \in Leaked', b \notin Leaked PROVE Count'
    <3>1. Leaked' \subseteq Leaked \cup {b}
      BY <2>1, <2>3 DEF OneWorker
    <3>2. /\ IsFiniteSet(Leaked \cup {b})
          /\ Cardinality(Leaked \cup {b}) <= Cardinality(Leaked) + 1
      BY <2>0, FS_AddElement
    <3>3. IsFiniteSet(Leaked') /\ Cardinality(Leaked') <= Cardinality(Leaked \cup {b})
      BY <3>1, <3>2, FS_Subset
    <3>4. Cardinality(Leaked') \in Nat /\ Cardinality(Leaked \cup {b}) \in Nat
      BY <3>2, <3>3, FS_CardinalityType
    <3>5. faults' = faults + 1
      BY <2>1, <2>3
    <3> QED  BY <2>0, <3>2, <3>3, <3>4, <3>5 DEF FewLeaks
  <2> QED  BY <2>2, <2>3
<1> HIDE DEF Inv, Count
<1>4. Count => FewLeaks
  BY DEF Count
<1> QED  BY <1>1, <1>2, <1>3, <1>4, TypeCorrect, PTL DEF Spec
--------------------------------------------------------------------------------
(* Where one worker runs, these machines are machines as a project knows them.    *)

\* What a step about machine a may do to it.
LEMMA ServiceStep ==
    ASSUME NEW a \in Avm,
           \A b \in Avm : b # a => RowOf(b)' = RowOf(b) /\ Stands(b)' = Stands(b),
           \/ RowOf(a)' = RowOf(a) /\ Stands(a)' = Stands(a)
           \/ RowOf(a) = "NONE" /\ RowOf(a)' = "ACTIVE" /\ Stands(a)' = Stands(a)
           \/ RowOf(a) = "ACTIVE" /\ RowOf(a)' = "ACTIVE"
           \/ RowOf(a) = "ACTIVE" /\ RowOf(a)' = "OVER" /\ ~Stands(a)'
           \/ RowOf(a) = "OVER" /\ RowOf(a)' = "ACTIVE" /\ Stands(a)' = Stands(a)
    PROVE  [Service!Next]_(Service!vars)
<1> DEFINE row == [b \in Avm |-> RowOf(b)]
           built == [b \in Avm |-> Stands(b)]
<1>1. Stands(a)' \in BOOLEAN
  BY DEF Stands
<1>2. row' = [row EXCEPT ![a] = RowOf(a)'] /\ built' = [built EXCEPT ![a] = Stands(a)']
  OBVIOUS
<1>3. row[a] = RowOf(a) /\ built[a] = Stands(a)
  OBVIOUS
<1>4. RowOf(a)' = RowOf(a) => row' = row
  BY <1>2
<1>5. Stands(a)' = Stands(a) => built' = built
  BY <1>2
<1> HIDE DEF row, built
<1>6. \/ row' = row /\ built' = built
      \/ row[a] = "NONE" /\ row' = [row EXCEPT ![a] = "ACTIVE"] /\ built' = built
      \/ row[a] = "ACTIVE" /\ row' = row /\ \E b \in BOOLEAN : built' = [built EXCEPT ![a] = b]
      \/ row[a] = "ACTIVE" /\ row' = [row EXCEPT ![a] = "OVER"] /\ built' = [built EXCEPT ![a] = FALSE]
      \/ row[a] = "OVER" /\ row' = [row EXCEPT ![a] = "ACTIVE"] /\ built' = built
  BY <1>1, <1>2, <1>3, <1>4, <1>5
<1> QED
  BY <1>6 DEF Service!Next, Service!vars, Service!Inserts, Service!Builds, Service!Goes,
              Service!Revives, row, built

LEMMA MachinesStep ==
    ASSUME OneWorker, TypeOK, Known, Marked, OrphanInv, OrphanInv', [Next]_vars
    PROVE  [Service!Next]_(Service!vars)
<1> USE DEF RowOf, Stands, rows, http, work, At, Goto
<1> /\ wpc \in [Worker -> Call]
    /\ wmsg \in [Worker -> Message \cup {NoMessage}]
    /\ wavm \in [Worker -> Avm \cup {None}]
    /\ machine \in [Avm -> {"none", "building", "up", "booted"}]
    /\ status \in [Avm -> {"NONE", "QUEUED", "CREATING", "READY", "DELETING", "DELETED", "ERROR"}]
    /\ Registered
  BY DEF TypeOK, OrphanInv
<1> None \notin Avm
  BY CampaignAssumption
\* Most steps leave the machines alone, or write a status that counts.
<1>1. ASSUME UNCHANGED machine,
             \/ UNCHANGED status
             \/ \E a \in Avm, s \in {"QUEUED", "CREATING", "READY", "DELETING", "ERROR"} :
                   status' = [status EXCEPT ![a] = s]
      PROVE  [Service!Next]_(Service!vars)
  <2>1. CASE UNCHANGED status
    BY <1>1, <2>1 DEF Service!vars
  <2>2. ASSUME NEW a \in Avm, NEW s \in {"QUEUED", "CREATING", "READY", "DELETING", "ERROR"},
               status' = [status EXCEPT ![a] = s]
        PROVE  [Service!Next]_(Service!vars)
    <3>1. \A b \in Avm : b # a => RowOf(b)' = RowOf(b) /\ Stands(b)' = Stands(b)
      BY <1>1, <2>2
    <3>2. RowOf(a)' = "ACTIVE" /\ Stands(a)' = Stands(a)
      BY <1>1, <2>2
    <3>3. RowOf(a) \in {"NONE", "ACTIVE", "OVER"}
      OBVIOUS
    <3> HIDE DEF RowOf, Stands
    <3> QED  BY <3>1, <3>2, <3>3, ServiceStep
  <2> QED  BY <1>1, <2>1, <2>2
\* Only a machine that counts changes.
<1>2. ASSUME NEW a \in Avm, NEW s, UNCHANGED status, AvmVisible(a),
             machine' = [machine EXCEPT ![a] = s]
      PROVE  [Service!Next]_(Service!vars)
  <2>1. RowOf(a) = "ACTIVE" /\ \A b \in Avm : RowOf(b)' = RowOf(b)
    BY <1>2 DEF AvmVisible
  <2>2. \A b \in Avm : b # a => Stands(b)' = Stands(b)
    BY <1>2
  <2> HIDE DEF RowOf, Stands
  <2> QED  BY <2>1, <2>2, ServiceStep
<1>3. CASE Server \/ UNCHANGED vars
  BY <1>1, <1>3 DEF vars, Server, PostInserts, PostPublishes, DeleteLooksUp, DeletePublishes,
                    DeleteSetsStatus
<1>4. ASSUME NEW a \in Avm, StackBuilt(a) \/ DeviceBoots(a) PROVE [Service!Next]_(Service!vars)
  <2>1. AvmVisible(a) /\ UNCHANGED status
    BY <1>4 DEF StackBuilt, DeviceBoots, Registered
  <2> QED  BY <1>2, <1>4, <2>1 DEF StackBuilt, DeviceBoots
<1>5. ASSUME NEW w \in Worker,
             \/ \E m \in Message : Take(w, m)
             \/ WorkerStep(w) \/ Redeliver(w) \/ Fail(w)
      PROVE  [Service!Next]_(Service!vars)
  <2>1. CASE \/ \E m \in Message : Take(w, m)
             \/ Redeliver(w) \/ Fail(w) \/ Check(w) \/ Delay(w) \/ SetError(w) \/ Ack(w)
    BY <1>1, <2>1 DEF Take, Redeliver, Fail, Check, Delay, SetError, Ack
  <2>2. CASE CampaignRun(w)
    BY <1>1, <2>2 DEF CampaignRun, RunGets, RunSetsStatus, RunEnds, RunPublishes
  <2>3. CASE CampaignAvmCreate(w)
    <3> SUFFICES ASSUME NEW t \in Testrun,
                        \/ CreateGets(w, t) \/ CreateChecksQuota(w, t)
                        \/ \E a \in Avm : CreateInserts(w, t, a)
                        \/ CreateSetsCreating(w, t) \/ CreateBuilds(w, t)
                        \/ CreatePublishes(w, t)
                 PROVE  [Service!Next]_(Service!vars)
      BY <2>3 DEF CampaignAvmCreate
    <3>1. CASE CreateGets(w, t) \/ CreateChecksQuota(w, t) \/ CreatePublishes(w, t)
      BY <1>1, <3>1 DEF CreateGets, CreateChecksQuota, CreatePublishes
    <3>2. ASSUME NEW a \in Avm, CreateInserts(w, t, a) PROVE [Service!Next]_(Service!vars)
      <4>1. status' = [status EXCEPT ![a] = "QUEUED"]
        BY <3>2 DEF CreateInserts
      <4>2. UNCHANGED machine
        BY <3>2 DEF CreateInserts
      <4> HIDE DEF RowOf, Stands
      <4> QED  BY <1>1, <4>1, <4>2, Zenon
    <3>3. CASE CreateSetsCreating(w, t)
      <4>1. CASE AvmVisible(wavm[w])
        <5>1. wavm[w] \in Avm \/ wavm[w] = None
          OBVIOUS
        <5>2. \/ wavm[w] \in Avm /\ status' = [status EXCEPT ![wavm[w]] = "CREATING"]
              \/ UNCHANGED status
          BY <3>3, <4>1, <5>1 DEF CreateSetsCreating
        <5>3. UNCHANGED machine
          BY <3>3 DEF CreateSetsCreating
        <5> QED  BY <1>1, <5>2, <5>3
      <4>2. CASE ~AvmVisible(wavm[w])
        BY <1>1, <3>3, <4>2 DEF CreateSetsCreating
      <4> QED  BY <4>1, <4>2
    <3>4. CASE CreateBuilds(w, t)
      <4>1. CASE wavm[w] \in Avm /\ AvmVisible(wavm[w])
        BY <1>2, <3>4, <4>1 DEF CreateBuilds
      <4>2. CASE wavm[w] = None \/ ~AvmVisible(wavm[w])
        <5>1. UNCHANGED status
          BY <3>4 DEF CreateBuilds
        <5>2. UNCHANGED machine
          BY <3>4, <4>2 DEF CreateBuilds
        <5> QED  BY <1>1, <5>1, <5>2
      <4> QED  BY <4>1, <4>2
    <3> QED  BY <3>1, <3>2, <3>3, <3>4
  <2>4. CASE CampaignContainersCreate(w)
    BY <1>1, <2>4 DEF CampaignContainersCreate, PlayersGet, PlayersStart, PlayersReady,
                      PlayersPublish
  \* The row is over when the machine is gone already.
  <2>5. ASSUME NEW a \in Avm, TestSetsDeleted(w, a) \/ AvmSetsDeleted(w, a)
        PROVE  [Service!Next]_(Service!vars)
    <3>1. RowOf(a)' = "OVER" /\ RowOf(a) # "NONE" /\ Stands(a)' = Stands(a)
      BY <2>5 DEF TestSetsDeleted, AvmSetsDeleted, Known
    <3>2. ~Stands(a)
      BY <2>5 DEF TestSetsDeleted, AvmSetsDeleted, OrphanInv, EndsSafe
    <3>3. \A b \in Avm : b # a => RowOf(b)' = RowOf(b) /\ Stands(b)' = Stands(b)
      BY <2>5 DEF TestSetsDeleted, AvmSetsDeleted
    <3>4. RowOf(a) = "ACTIVE" \/ RowOf(a)' = RowOf(a)
      BY <3>1
    <3> HIDE DEF RowOf, Stands
    <3> QED  BY <3>1, <3>2, <3>3, <3>4, ServiceStep
  <2>6. CASE CampaignRuntest(w)
    <3> PICK a \in Avm : \/ TestGets(w, a) \/ TestWaitsForBoot(w, a)
                         \/ TestLinks(w, a) \/ TestRuns(w, a)
                         \/ TestTearsDown(w, a) \/ TestSetsDeleted(w, a)
                         \/ TestReadsStatuses(w, a) \/ TestFinishesCampaign(w, a)
      BY <2>6 DEF CampaignRuntest
    <3>1. CASE \/ TestGets(w, a) \/ TestWaitsForBoot(w, a) \/ TestLinks(w, a) \/ TestRuns(w, a)
               \/ TestReadsStatuses(w, a) \/ TestFinishesCampaign(w, a)
      BY <1>1, <3>1 DEF TestGets, TestWaitsForBoot, TestLinks, TestRuns, TestReadsStatuses,
                        TestFinishesCampaign
    <3>2. CASE TestTearsDown(w, a)
      BY <1>1, <1>2, <3>2 DEF TestTearsDown
    <3> QED  BY <2>5, <3>1, <3>2
  <2>7. CASE CampaignDelete(w)
    BY <1>1, <2>7 DEF CampaignDelete, DeleteReads, DeleteEnds, DeletePublishesAvm, DeleteSetsAvm
  <2>8. CASE AvmDelete(w)
    BY <1>1, <1>2, <2>5, <2>8 DEF AvmDelete, AvmDeletes
  <2> QED  BY <1>5, <2>1, <2>2, <2>3, <2>4, <2>6, <2>7, <2>8 DEF WorkerStep
<1> QED  BY <1>3, <1>4, <1>5 DEF Next

\* A machine of a campaign, too, counts for its project from before its stack exists until
\* after it is gone, through failures, repeated deliveries and the deletion of the campaign.
THEOREM MachineRefinement == ASSUME OneWorker PROVE Spec => ImplementsMachines
<1> DEFINE Inv == Known /\ Marked /\ OrphanInv
<1>1. ASSUME Init PROVE Service!Init
  <2>1. \A a \in Avm : RowOf(a) = "NONE" /\ Stands(a) = FALSE
    BY <1>1 DEF Init, RowOf, Stands
  <2> HIDE DEF RowOf, Stands
  <2> QED  BY <2>1 DEF Service!Init
<1>2. Init => Inv
  BY OrphanInit, QuotaInit DEF QuotaInv
<1>3. TypeOK /\ Inv /\ [Next]_vars => Inv'
  BY OrphanStep, KnownStep, MarkedStep
<1>4. TypeOK /\ Inv /\ Inv' /\ [Next]_vars => [Service!Next]_(Service!vars)
  BY MachinesStep
<1> HIDE DEF Inv
<1> QED  BY TypeCorrect, <1>1, <1>2, <1>3, <1>4, PTL DEF Spec, ImplementsMachines, Service!Spec
--------------------------------------------------------------------------------
(* With one worker and no faults, a READY campaign was tested: every test run    *)
(* has one machine, every machine one task, and that task goes through the       *)
(* commands in order.                                                           *)

AllAre(t, s) == \A j \in Command : command[t][j] = s

\* A task of machine a, up to its last command, is in the hands of worker w.
InTest(w, a) ==
    \/ /\ wmsg[w][1] = "campaign_avm_create" /\ wavm[w] = a
       /\ wpc[w] \in {"creating", "build", "publish"}
    \/ /\ wmsg[w] = <<"campaign_containers_create", a>>
       /\ wpc[w] \in {"check", "get", "output", "delay", "ready", "publish"}
    \/ /\ wmsg[w] = <<"campaign_runtest", a>>
       /\ wpc[w] \in {"check", "get", "boot", "delay", "link", "exec"}

Mails(a) == queue[<<"campaign_containers_create", a>>] + queue[<<"campaign_runtest", a>>]

OneTask == \A a \in Avm : /\ Mails(a) <= 1
                          /\ (\E w \in Worker : InTest(w, a)) => Mails(a) = 0

OneMachine == \A a, b \in Avm : owner[a] # None /\ owner[a] = owner[b] => a = b

\* Until the commands begin, there is no trace of them.
Untouched ==
    /\ \A a \in Avm :
          Mails(a) > 0 \/ (\E w \in Worker : InTest(w, a) /\ wpc[w] \notin {"link", "exec"})
          => owner[a] # None /\ AllAre(owner[a], "NULL")
    /\ \A t \in Testrun : (\A a \in Avm : owner[a] # t) => AllAre(t, "NULL")

InOrder ==
    \A w \in Worker, a \in Avm : wmsg[w] = <<"campaign_runtest", a>> /\ wpc[w] \in {"link", "exec"} =>
        /\ wjob[w] \in Command /\ owner[a] # None
        /\ \A j \in Command :
              /\ j < wjob[w] => command[owner[a]][j] = "READY"
              /\ j > wjob[w] => command[owner[a]][j] = "NULL"
        /\ command[owner[a]][wjob[w]] = IF wpc[w] = "link" THEN "NULL" ELSE "RUNNING"

\* A test run that was begun and given up shows as RUNNING.
Visibly ==
    \A t \in Testrun :
        \/ AllAre(t, "NULL") \/ AllAre(t, "READY")
        \/ \E j \in Command : command[t][j] = "RUNNING"
        \/ \E w \in Worker, a \in Avm : wmsg[w] = <<"campaign_runtest", a>> /\ wpc[w] = "link"
                                        /\ owner[a] = t

Finished ==
    campaign = "READY" \/ (\E w \in Worker : wpc[w] = "finished")
    => \A t \in Testrun : AllAre(t, "READY")

TestedInv == OneTask /\ Untouched /\ InOrder /\ Visibly /\ Finished

LEMMA TestedInit == Init => TestedInv
BY CampaignAssumption DEF Init, TestedInv, OneTask, Untouched, InOrder, Visibly, Finished, AllAre,
                          InTest, Mails, Message, NoMessage

LEMMA OneIsFinite == OneWorker => IsFiniteSet(Worker)
<1> SUFFICES ASSUME OneWorker PROVE IsFiniteSet(Worker)
  OBVIOUS
<1>1. CASE Worker = {}
  BY <1>1, FS_EmptySet
<1>2. CASE Worker # {}
  <2> PICK w \in Worker : TRUE
    BY <1>2
  <2> Worker = {w}
    BY DEF OneWorker
  <2> QED  BY FS_Singleton
<1> QED  BY <1>1, <1>2

LEMMA OnlyOneMachine ==
    ASSUME OneWorker, TypeOK, CountInv, faults = 0
    PROVE  OneMachine
<1> SUFFICES ASSUME NEW a \in Avm, NEW b \in Avm, owner[a] # None, owner[a] = owner[b], a # b
             PROVE  FALSE
  BY DEF OneMachine
<1>1. owner[a] \in Testrun
  BY DEF TypeOK
<1> DEFINE M == Machines(owner[a])
<1>2. /\ IsFiniteSet(M) /\ Cardinality(M) \in Nat
      /\ Cardinality(M) <= 1
  BY <1>1, OneIsFinite, CountFacts DEF CountInv, Counted
<1>3. {a} \cup {b} \subseteq M
  BY DEF Machines
<1> HIDE DEF M
<1>4. Cardinality({a} \cup {b}) = 2
  <2>1. IsFiniteSet({a}) /\ Cardinality({a}) = 1 /\ b \notin {a}
    BY FS_Singleton
  <2>2. Cardinality({a} \cup {b}) = Cardinality({a}) + 1
    BY <2>1, FS_AddElement
  <2> QED  BY <2>1, <2>2
<1>5. Cardinality({a} \cup {b}) <= Cardinality(M)
  BY <1>2, <1>3, FS_Subset
<1> QED  BY <1>2, <1>4, <1>5

\* What campaign_runtest reads when it is not at a command.
LEMMA AllTested ==
    ASSUME OneWorker, TypeOK, Visibly, NEW w \in Worker, wpc[w] # "link",
           CommandStatuses = {"READY"}, NEW t \in Testrun
    PROVE  AllAre(t, "READY")
<1>1. Found(t) \subseteq {"READY"}
  BY DEF CommandStatuses
<1>2. \A j \in Command : command[t][j] # "NULL" => command[t][j] = "READY"
  BY <1>1 DEF Found
<1>3. ~AllAre(t, "NULL")
  <2> SUFFICES ASSUME AllAre(t, "NULL") PROVE FALSE
    OBVIOUS
  <2>1. {j \in Command : command[t][j] # "NULL"} = {}
    BY DEF AllAre
  <2>2. 1 \in 1..Installs /\ Installs + 1 \in (Installs + 1)..(Installs + Tests)
    BY CampaignAssumption
  <2>3. "QUEUED" \in Found(t)
    BY <2>1, <2>2 DEF Found
  <2> QED  BY <1>1, <2>3
<1>4. ~\E v \in Worker, a \in Avm : wmsg[v] = <<"campaign_runtest", a>> /\ wpc[v] = "link"
                                    /\ owner[a] = t
  BY DEF OneWorker
<1>5. \A j \in Command : command[t][j] # "RUNNING"
  BY <1>2
<1> QED  BY <1>3, <1>4, <1>5 DEF Visibly

\* A step that has nothing to do with tests: of somebody else than a worker ...
LEMMA TestedIdle ==
    ASSUME TestedInv, UNCHANGED <<command, owner, work>>,
           campaign' = "READY" => campaign = "READY",
           \A a \in Avm : Mails(a)' = Mails(a)
    PROVE  TestedInv'
<1> USE DEF TestedInv, OneTask, Untouched, InOrder, Visibly, Finished, AllAre
<1>1. \A a \in Avm, v \in Worker : InTest(v, a)' = InTest(v, a)
  BY DEF InTest, work
<1>2. OneTask'
  BY <1>1
<1>3. Untouched'
  <2>1. \A a \in Avm : (\E v \in Worker : InTest(v, a)' /\ wpc'[v] \notin {"link", "exec"})
             => \E v \in Worker : InTest(v, a) /\ wpc[v] \notin {"link", "exec"}
    BY <1>1 DEF work
  <2> QED  BY <2>1
<1>4. InOrder'
  BY DEF work
<1>5. Visibly'
  BY DEF work
<1>6. Finished'
  BY DEF work
<1> QED  BY <1>2, <1>3, <1>4, <1>5, <1>6

\* ... or of the worker, on its way to, or from, something else than a command.
LEMMA TestedFrame ==
    ASSUME OneWorker, TestedInv, NEW w \in Worker,
           UNCHANGED <<command, owner>>, campaign' = "READY" => campaign = "READY",
           \A a \in Avm : Mails(a)' = Mails(a),
           wpc[w] # "link", wpc'[w] \notin {"link", "exec", "finished"},
           \A a \in Avm : InTest(w, a)' => InTest(w, a) /\ wpc[w] # "exec"
    PROVE  TestedInv'
BY DEF OneWorker, TestedInv, OneTask, Untouched, InOrder, Visibly, Finished, AllAre

\* Messages to others than the two that carry a test.
LEMMA OtherMails ==
    ASSUME TypeOK, NEW a \in Avm,
           \/ UNCHANGED queue
           \/ \E m : /\ m[1] \notin {"campaign_containers_create", "campaign_runtest"}
                     /\ queue' = [queue EXCEPT ![m] = @ + 1] \/ queue' = [queue EXCEPT ![m] = @ - 1]
    PROVE  Mails(a)' = Mails(a)
<1> DEFINE players == <<"campaign_containers_create", a>>
           runtest == <<"campaign_runtest", a>>
<1>1. players \in Message /\ runtest \in Message
  BY DEF Message
<1>2. \A m : m[1] \notin {"campaign_containers_create", "campaign_runtest"}
             => m # players /\ m # runtest
  OBVIOUS
<1>3. queue'[players] = queue[players] /\ queue'[runtest] = queue[runtest]
  <2> HIDE DEF players, runtest
  <2> QED  BY <1>1, <1>2 DEF TypeOK
<1> QED  BY <1>3 DEF Mails

LEMMA MailArrives ==
    ASSUME TypeOK, NEW a \in Avm,
           NEW task \in {"campaign_containers_create", "campaign_runtest"},
           queue' = [queue EXCEPT ![<<task, a>>] = @ + 1]
    PROVE  /\ Mails(a)' = Mails(a) + 1
           /\ \A b \in Avm : b # a => Mails(b)' = Mails(b)
<1>1. /\ <<task, a>> \in Message /\ queue'[<<task, a>>] = queue[<<task, a>>] + 1
      /\ \A m \in Message : m # <<task, a>> => queue'[m] = queue[m]
  BY DEF TypeOK, Message
<1>2. \A b \in Avm : /\ <<"campaign_containers_create", b>> \in Message
                     /\ <<"campaign_runtest", b>> \in Message
                     /\ queue[<<"campaign_containers_create", b>>] \in Nat
                     /\ queue[<<"campaign_runtest", b>>] \in Nat
  BY DEF TypeOK, Message
<1>3. Mails(a)' = Mails(a) + 1
  <2>1. CASE task = "campaign_containers_create"  BY <1>1, <1>2, <2>1 DEF Mails
  <2>2. CASE task = "campaign_runtest"            BY <1>1, <1>2, <2>2 DEF Mails
  <2> QED  BY <2>1, <2>2
<1>4. ASSUME NEW b \in Avm, b # a PROVE Mails(b)' = Mails(b)
  BY <1>1, <1>2, <1>4 DEF Mails
<1> QED  BY <1>3, <1>4

LEMMA MailLeaves ==
    ASSUME TypeOK, NEW a \in Avm,
           NEW task \in {"campaign_containers_create", "campaign_runtest"},
           queue' = [queue EXCEPT ![<<task, a>>] = @ - 1]
    PROVE  /\ Mails(a)' = Mails(a) - 1
           /\ \A b \in Avm : b # a => Mails(b)' = Mails(b)
<1>1. /\ <<task, a>> \in Message /\ queue'[<<task, a>>] = queue[<<task, a>>] - 1
      /\ \A m \in Message : m # <<task, a>> => queue'[m] = queue[m]
  BY DEF TypeOK, Message
<1>2. \A b \in Avm : /\ <<"campaign_containers_create", b>> \in Message
                     /\ <<"campaign_runtest", b>> \in Message
                     /\ queue[<<"campaign_containers_create", b>>] \in Nat
                     /\ queue[<<"campaign_runtest", b>>] \in Nat
  BY DEF TypeOK, Message
<1>3. Mails(a)' = Mails(a) - 1
  <2>1. CASE task = "campaign_containers_create"  BY <1>1, <1>2, <2>1 DEF Mails
  <2>2. CASE task = "campaign_runtest"            BY <1>1, <1>2, <2>2 DEF Mails
  <2> QED  BY <2>1, <2>2
<1>4. ASSUME NEW b \in Avm, b # a PROVE Mails(b)' = Mails(b)
  BY <1>1, <1>2, <1>4 DEF Mails
<1> QED  BY <1>3, <1>4

LEMMA MailsCount == ASSUME TypeOK, NEW a \in Avm PROVE Mails(a) \in Nat
BY DEF Mails, TypeOK, Message

LEMMA TestedStep ==
    ASSUME OneWorker, MaxFaults = 0, TypeOK, Known, Registered, OneMachine, OneMachine', TestedInv,
           [Next]_vars
    PROVE  TestedInv'
<1> USE DEF rows, http, At, Goto, Rest
<1> /\ wpc \in [Worker -> Call]
    /\ wmsg \in [Worker -> Message \cup {NoMessage}]
    /\ wavm \in [Worker -> Avm \cup {None}]
    /\ wjob \in [Worker -> Command \cup {0}]
    /\ owner \in [Avm -> Testrun \cup {None}]
    /\ command \in [Testrun -> [Command -> {"NULL", "RUNNING", "READY"}]]
  BY DEF TypeOK
<1> None \notin Avm /\ None \notin Testrun /\ \A t \in Testrun : t \notin Avm
  BY CampaignAssumption
<1>0. UNCHANGED queue => \A a \in Avm : Mails(a)' = Mails(a)
  BY OtherMails
<1>1. ASSUME NEW task, NEW x, Publish(task, x), NEW a \in Avm,
             task \notin {"campaign_containers_create", "campaign_runtest"}
      PROVE  Mails(a)' = Mails(a)
  <2> DEFINE m == <<task, x>>
  <2>1. queue' = [queue EXCEPT ![m] = @ + 1] /\ m[1] = task
    BY <1>1 DEF Publish
  <2> HIDE DEF m
  <2> QED  BY <1>1, <2>1, OtherMails
<1>2. CASE \/ Server \/ UNCHANGED vars
           \/ \E a \in Avm : StackBuilt(a) \/ DeviceBoots(a)
  <2>1. CASE PostPublishes \/ DeletePublishes
    <3>1. \A a \in Avm : Mails(a)' = Mails(a)
      BY <1>1, <2>1 DEF PostPublishes, DeletePublishes
    <3>2. UNCHANGED <<command, owner, campaign, work>>
      BY <2>1 DEF PostPublishes, DeletePublishes
    <3> QED  BY <3>1, <3>2, TestedIdle
  <2>2. CASE ~(PostPublishes \/ DeletePublishes)
    <3>1. UNCHANGED <<command, owner, queue, work>> /\ (campaign' = "READY" => campaign = "READY")
      BY <1>2, <2>2 DEF Server, PostInserts, DeleteLooksUp, DeleteSetsStatus, StackBuilt,
                        DeviceBoots, vars
    <3> QED  BY <1>0, <3>1, TestedIdle
  <2> QED  BY <2>1, <2>2
<1>3. ASSUME NEW w \in Worker,
             \/ \E m \in Message : Take(w, m)
             \/ WorkerStep(w) \/ Redeliver(w) \/ Fail(w)
      PROVE  TestedInv'
  <2>0. \A v \in Worker : v = w
    BY DEF OneWorker
  <2>1. ~Redeliver(w) /\ ~Fail(w)
    BY DEF Redeliver, Fail, TypeOK
  <2>2. ASSUME NEW m \in Message, Take(w, m) PROVE TestedInv'
    <3>0. /\ UNCHANGED <<command, owner, campaign>> /\ wpc[w] = "idle" /\ wpc'[w] = "check"
          /\ wmsg'[w] = m /\ queue[m] > 0 /\ queue' = [queue EXCEPT ![m] = @ - 1]
      BY <2>2 DEF Take
    <3>1. CASE m[1] \notin {"campaign_containers_create", "campaign_runtest"}
      <4>1. \A a \in Avm : ~InTest(w, a)'
        BY <3>0, <3>1 DEF InTest
      <4> QED  BY <3>0, <3>1, <4>1, OtherMails, TestedFrame
    <3>2. ASSUME NEW a \in Avm, NEW task \in {"campaign_containers_create", "campaign_runtest"},
                 m = <<task, a>>
          PROVE  TestedInv'
      <4>1. /\ Mails(a) = 1 /\ Mails(a)' = 0
            /\ \A b \in Avm : b # a => Mails(b)' = Mails(b)
        <5>1. queue' = [queue EXCEPT ![<<task, a>>] = @ - 1]
          BY <3>0, <3>2
        <5>2. Mails(a)' = Mails(a) - 1 /\ \A b \in Avm : b # a => Mails(b)' = Mails(b)
          BY <5>1, MailLeaves
        <5>3. Mails(a) > 0
          <6>1. CASE task = "campaign_containers_create"
            BY <3>0, <3>2, <6>1 DEF Mails, TypeOK, Message
          <6>2. CASE task = "campaign_runtest"
            BY <3>0, <3>2, <6>2 DEF Mails, TypeOK, Message
          <6> QED  BY <6>1, <6>2
        <5> QED  BY <5>2, <5>3, MailsCount DEF TestedInv, OneTask
      <4>2. \A b \in Avm : InTest(w, b)' => b = a
        BY <3>0, <3>2 DEF InTest
      <4> QED  BY <2>0, <3>0, <4>1, <4>2
               DEF TestedInv, OneTask, Untouched, InOrder, Visibly, Finished, AllAre
    <3> QED  BY <3>1, <3>2 DEF Message
  <2>3. CASE Delay(w)
    <3>0. /\ UNCHANGED <<command, owner, campaign>> /\ wpc[w] = "delay" /\ wpc'[w] = "ack"
          /\ wmsg[w] \in Message /\ queue' = [queue EXCEPT ![wmsg[w]] = @ + 1]
      BY <2>3 DEF Delay, TypeOK
    <3>1. \A a \in Avm : ~InTest(w, a)'
      BY <3>0 DEF InTest
    <3>2. CASE wmsg[w][1] \notin {"campaign_containers_create", "campaign_runtest"}
      BY <3>0, <3>1, <3>2, OtherMails, TestedFrame
    <3>3. ASSUME NEW a \in Avm, NEW task \in {"campaign_containers_create", "campaign_runtest"},
                 wmsg[w] = <<task, a>>
          PROVE  TestedInv'
      <4>1. InTest(w, a)
        BY <3>0, <3>3 DEF InTest
      <4>2. /\ Mails(a)' = 1
            /\ \A b \in Avm : b # a => Mails(b)' = Mails(b)
        <5>1. queue' = [queue EXCEPT ![<<task, a>>] = @ + 1]
          BY <3>0, <3>3
        <5>2. Mails(a)' = Mails(a) + 1 /\ \A b \in Avm : b # a => Mails(b)' = Mails(b)
          BY <5>1, MailArrives
        <5> QED  BY <4>1, <5>2 DEF TestedInv, OneTask
      <4>3. owner[a] # None /\ AllAre(owner[a], "NULL")
        BY <3>0, <4>1 DEF TestedInv, Untouched
      <4>4. OneTask' /\ Untouched'
        BY <2>0, <3>0, <3>1, <4>2, <4>3 DEF TestedInv, OneTask, Untouched, AllAre
      <4>5. InOrder' /\ Visibly' /\ Finished'
        BY <2>0, <3>0 DEF TestedInv, InOrder, Visibly, Finished, AllAre
      <4> QED  BY <4>4, <4>5 DEF TestedInv
    <3> QED  BY <3>0, <3>2, <3>3 DEF Message
  <2>4. CASE Check(w) \/ SetError(w) \/ Ack(w)
    <3>1. /\ UNCHANGED <<command, owner, campaign, queue>>
          /\ wpc[w] # "link" /\ wpc'[w] \notin {"link", "exec", "finished"}
      BY <2>4 DEF Check, SetError, Ack
    <3>2. \A a \in Avm : InTest(w, a)' => InTest(w, a) /\ wpc[w] # "exec"
      BY <2>4 DEF Check, SetError, Ack, InTest
    <3> QED  BY <1>0, <3>1, <3>2, TestedFrame
  <2>5. CASE CampaignRun(w)
    <3>1. /\ UNCHANGED <<command, owner>> /\ (campaign' = "READY" => campaign = "READY")
          /\ wpc[w] # "link" /\ wpc'[w] \notin {"link", "exec", "finished"}
      BY <2>5 DEF CampaignRun, RunGets, RunSetsStatus, RunEnds, RunPublishes
    <3>2. \A a \in Avm : ~InTest(w, a)'
      BY <2>5 DEF CampaignRun, RunGets, RunSetsStatus, RunEnds, RunPublishes, InTest
    <3>3. \A a \in Avm : Mails(a)' = Mails(a)
      BY <1>0, <1>1, <2>5 DEF CampaignRun, RunGets, RunSetsStatus, RunEnds, RunPublishes
    <3> QED  BY <3>1, <3>2, <3>3, TestedFrame
  <2>6. CASE CampaignAvmCreate(w)
    <3> SUFFICES ASSUME NEW t \in Testrun,
                        \/ CreateGets(w, t) \/ CreateChecksQuota(w, t)
                        \/ \E a \in Avm : CreateInserts(w, t, a)
                        \/ CreateSetsCreating(w, t) \/ CreateBuilds(w, t)
                        \/ CreatePublishes(w, t)
                 PROVE  TestedInv'
      BY <2>6 DEF CampaignAvmCreate
    <3>1. CASE CreateGets(w, t) \/ CreateChecksQuota(w, t) \/ CreateSetsCreating(w, t)
                                \/ CreateBuilds(w, t)
      <4>1. /\ UNCHANGED <<command, owner, campaign, queue>>
            /\ wpc[w] \notin {"link", "exec"} /\ wpc'[w] \notin {"link", "exec", "finished"}
        BY <3>1 DEF CreateGets, CreateChecksQuota, CreateSetsCreating, CreateBuilds
      <4>2. \A a \in Avm : InTest(w, a)' => InTest(w, a)
        BY <3>1 DEF CreateGets, CreateChecksQuota, CreateSetsCreating, CreateBuilds, InTest
      <4> QED  BY <1>0, <4>1, <4>2, TestedFrame
    <3>2. ASSUME NEW a \in Avm, CreateInserts(w, t, a) PROVE TestedInv'
      <4>0. /\ UNCHANGED <<command, campaign, queue>> /\ owner' = [owner EXCEPT ![a] = t]
            /\ owner[a] = None /\ wpc[w] = "insert" /\ wpc'[w] = "creating"
        BY <3>2 DEF CreateInserts
      <4>1. \A b \in Avm : InTest(w, b)' => b = a
        BY <3>2 DEF CreateInserts, InTest
      <4>2. Mails(a) = 0 /\ \A b \in Avm : Mails(b)' = Mails(b)
        <5>1. ~(Mails(a) > 0)
          BY <4>0 DEF TestedInv, Untouched
        <5> QED  BY <1>0, <4>0, <5>1, MailsCount
      <4>3. AllAre(t, "NULL")
        BY <4>0 DEF OneMachine, TestedInv, Untouched
      <4> QED  BY <2>0, <4>0, <4>1, <4>2, <4>3
               DEF TestedInv, OneTask, Untouched, InOrder, Visibly, Finished, AllAre
    <3>3. CASE CreatePublishes(w, t)
      <4>0. /\ UNCHANGED <<command, owner, campaign>> /\ wpc[w] = "publish" /\ wpc'[w] = "ack"
            /\ wmsg[w] = <<"campaign_avm_create", t>>
            /\ queue' = [queue EXCEPT ![<<"campaign_containers_create", wavm[w]>>] = @ + 1]
        BY <3>3 DEF CreatePublishes, Publish
      <4>1. \A b \in Avm : ~InTest(w, b)'
        BY <4>0 DEF InTest
      <4>2. CASE wavm[w] \in Avm
        <5> PICK a \in Avm : a = wavm[w]
          BY <4>2
        <5>1. InTest(w, a)
          BY <4>0 DEF InTest
        <5>2. Mails(a)' = 1 /\ \A b \in Avm : b # a => Mails(b)' = Mails(b)
          <6>1. Mails(a)' = Mails(a) + 1 /\ \A b \in Avm : b # a => Mails(b)' = Mails(b)
            BY <4>0, MailArrives
          <6> QED  BY <5>1, <6>1 DEF TestedInv, OneTask
        <5>3. owner[a] # None /\ AllAre(owner[a], "NULL")
          BY <4>0, <5>1 DEF TestedInv, Untouched
        <5>4. OneTask'
          BY <2>0, <4>0, <4>1, <5>2 DEF TestedInv, OneTask
        <5>6. Untouched'
          BY <2>0, <4>0, <4>1, <5>2, <5>3 DEF TestedInv, Untouched, AllAre
        <5>5. InOrder' /\ Visibly' /\ Finished'
          BY <2>0, <4>0 DEF TestedInv, InOrder, Visibly, Finished, AllAre
        <5> QED  BY <5>4, <5>5, <5>6 DEF TestedInv
      <4>3. CASE wavm[w] = None
        <5>1. UNCHANGED queue
          BY <4>0, <4>3 DEF TypeOK, Message
        <5> QED  BY <1>0, <4>0, <4>1, <5>1, TestedFrame
      <4> QED  BY <4>2, <4>3
    <3> QED  BY <3>1, <3>2, <3>3
  <2>7. CASE CampaignContainersCreate(w)
    <3> PICK a \in Avm : \/ PlayersGet(w, a) \/ PlayersStart(w, a)
                         \/ PlayersReady(w, a) \/ PlayersPublish(w, a)
      BY <2>7 DEF CampaignContainersCreate
    <3>1. CASE PlayersGet(w, a) \/ PlayersStart(w, a) \/ PlayersReady(w, a)
      <4>1. /\ UNCHANGED <<command, owner, campaign, queue>>
            /\ wpc[w] \notin {"link", "exec"} /\ wpc'[w] \notin {"link", "exec", "finished"}
        BY <3>1 DEF PlayersGet, PlayersStart, PlayersReady
      <4>2. \A b \in Avm : InTest(w, b)' => InTest(w, b)
        BY <3>1 DEF PlayersGet, PlayersStart, PlayersReady, InTest
      <4> QED  BY <1>0, <4>1, <4>2, TestedFrame
    <3>2. CASE PlayersPublish(w, a)
      <4>0. /\ UNCHANGED <<command, owner, campaign>> /\ wpc[w] = "publish" /\ wpc'[w] = "ack"
            /\ wmsg[w] = <<"campaign_containers_create", a>>
            /\ queue' = [queue EXCEPT ![<<"campaign_runtest", a>>] = @ + 1]
        BY <3>2 DEF PlayersPublish, Publish
      <4>1. InTest(w, a) /\ \A b \in Avm : ~InTest(w, b)'
        BY <4>0 DEF InTest
      <4>2. /\ Mails(a)' = 1
            /\ \A b \in Avm : b # a => Mails(b)' = Mails(b)
        <5>1. Mails(a)' = Mails(a) + 1 /\ \A b \in Avm : b # a => Mails(b)' = Mails(b)
          BY <4>0, MailArrives
        <5> QED  BY <4>1, <5>1 DEF TestedInv, OneTask
      <4>3. OneTask'
        BY <2>0, <4>0, <4>1, <4>2 DEF TestedInv, OneTask
      <4>4. Untouched'
        <5>1. owner[a] # None /\ AllAre(owner[a], "NULL")
          BY <4>0, <4>1 DEF TestedInv, Untouched
        <5>2. \A b \in Avm : Mails(b)' > 0 => owner[b] # None /\ AllAre(owner[b], "NULL")
          BY <4>2, <5>1 DEF TestedInv, Untouched
        <5>3. \A t \in Testrun : AllAre(t, "NULL")' <=> AllAre(t, "NULL")
          BY <4>0 DEF AllAre
        <5>4. \A b \in Avm : owner[b] # None => owner[b] \in Testrun
          BY DEF TypeOK
        <5> QED  BY <2>0, <4>0, <4>1, <5>2, <5>3, <5>4 DEF TestedInv, Untouched
      <4>5. InOrder' /\ Visibly' /\ Finished'
        BY <2>0, <4>0 DEF TestedInv, InOrder, Visibly, Finished, AllAre
      <4> QED  BY <4>3, <4>4, <4>5 DEF TestedInv
    <3> QED  BY <3>1, <3>2
  <2>8. CASE CampaignRuntest(w)
    <3> PICK a \in Avm : \/ TestGets(w, a) \/ TestWaitsForBoot(w, a)
                         \/ TestLinks(w, a) \/ TestRuns(w, a)
                         \/ TestTearsDown(w, a) \/ TestSetsDeleted(w, a)
                         \/ TestReadsStatuses(w, a) \/ TestFinishesCampaign(w, a)
      BY <2>8 DEF CampaignRuntest
    <3>0. /\ wmsg[w] = <<"campaign_runtest", a>> /\ UNCHANGED <<wmsg, owner, queue>>
          /\ \A b \in Avm : Mails(b)' = Mails(b)
      BY <1>0 DEF TestGets, TestWaitsForBoot, TestLinks, TestRuns, TestTearsDown, TestSetsDeleted,
                  TestReadsStatuses, TestFinishesCampaign
    <3>1. CASE TestGets(w, a) \/ TestTearsDown(w, a) \/ TestSetsDeleted(w, a)
      <4>1. /\ UNCHANGED <<command, campaign>>
            /\ wpc[w] \notin {"link", "exec"} /\ wpc'[w] \notin {"link", "exec", "finished"}
        BY <3>1 DEF TestGets, TestTearsDown, TestSetsDeleted
      <4>2. \A b \in Avm : InTest(w, b)' => InTest(w, b)
        BY <3>1 DEF TestGets, TestTearsDown, TestSetsDeleted, InTest
      <4> QED  BY <3>0, <4>1, <4>2, TestedFrame
    <3>2. CASE TestWaitsForBoot(w, a)
      <4>1. /\ UNCHANGED <<command, campaign>> /\ wpc[w] = "boot"
            /\ wpc'[w] = "delay" \/ (wpc'[w] = "link" /\ wjob'[w] = 1)
        BY <3>2 DEF TestWaitsForBoot, TypeOK
      <4>2. \A b \in Avm : InTest(w, b) <=> b = a
        BY <3>0, <4>1 DEF InTest
      <4>3. \A b \in Avm : InTest(w, b)' <=> b = a
        BY <3>0, <4>1 DEF InTest
      <4>4. 1 \in Command /\ \A j \in Command : ~(j < 1)
        BY CampaignAssumption DEF Command
      <4>5. owner[a] \in Testrun /\ AllAre(owner[a], "NULL")
        BY <4>1, <4>2 DEF TestedInv, Untouched
      <4> QED  BY <2>0, <3>0, <4>1, <4>2, <4>3, <4>4, <4>5
               DEF TestedInv, OneTask, Untouched, InOrder, Visibly, Finished, AllAre
    <3>3. CASE TestLinks(w, a)
      <4>0. /\ UNCHANGED <<campaign, wjob>> /\ wpc[w] = "link" /\ wpc'[w] = "exec"
            /\ command' = [command EXCEPT ![owner[a]][wjob[w]] = "RUNNING"]
        BY <3>3 DEF TestLinks
      <4>1. \A b \in Avm : /\ InTest(w, b) <=> b = a
                           /\ InTest(w, b)' <=> b = a
        BY <3>0, <4>0 DEF InTest
      <4>2. /\ owner[a] \in Testrun /\ wjob[w] \in Command
            /\ command[owner[a]][wjob[w]] = "NULL"
        BY <3>0, <4>0 DEF TestedInv, InOrder
      <4>3. \A t \in Testrun : t # owner[a] => command'[t] = command[t]
        BY <4>0
      <4>4. \A j \in Command : command'[owner[a]][j] = IF j = wjob[w] THEN "RUNNING"
                                                       ELSE command[owner[a]][j]
        BY <4>0, <4>2
      <4>5. OneTask' /\ Untouched'
        <5>1. OneTask'
          BY <2>0, <3>0, <4>1 DEF TestedInv, OneTask
        <5>2. ASSUME NEW b \in Avm,
                     \/ Mails(b)' > 0
                     \/ \E v \in Worker : InTest(v, b)' /\ wpc'[v] \notin {"link", "exec"}
              PROVE  owner[b] # None /\ AllAre(owner[b], "NULL")'
          <6>1. Mails(b) > 0 /\ b # a
            BY <2>0, <3>0, <4>0, <4>1, <5>2 DEF TestedInv, OneTask
          <6>2. owner[b] \in Testrun /\ AllAre(owner[b], "NULL")
            BY <6>1 DEF TestedInv, Untouched
          <6>3. owner[b] # owner[a]
            BY <6>1, <6>2 DEF OneMachine
          <6> QED  BY <3>0, <4>3, <6>2, <6>3 DEF AllAre
        <5>3. ASSUME NEW t \in Testrun, \A b \in Avm : owner[b] # t PROVE AllAre(t, "NULL")'
          BY <4>3, <5>3 DEF TestedInv, Untouched, AllAre
        <5> QED  BY <3>0, <5>1, <5>2, <5>3 DEF Untouched, AllAre
      <4>6. InOrder'
        BY <2>0, <3>0, <4>0, <4>2, <4>4 DEF TestedInv, InOrder
      <4>7. Visibly'
        BY <2>0, <3>0, <4>0, <4>2, <4>3, <4>4 DEF TestedInv, Visibly, AllAre
      <4>8. Finished'
        BY <2>0, <4>0, <4>2 DEF TestedInv, Finished, AllAre
      <4> QED  BY <4>5, <4>6, <4>7, <4>8 DEF TestedInv
    <3>4. CASE TestRuns(w, a)
      <4>0. UNCHANGED campaign /\ wpc[w] = "exec"
        BY <3>4 DEF TestRuns
      <4>1. /\ owner[a] \in Testrun /\ wjob[w] \in Command
            /\ command[owner[a]][wjob[w]] = "RUNNING"
        BY <3>0, <4>0 DEF TestedInv, InOrder
      <4>2. \A b \in Avm : InTest(w, b) <=> b = a
        BY <3>0, <4>0 DEF InTest
      <4>3. CASE UNCHANGED command /\ wpc'[w] = "error"
        <5>1. \A b \in Avm : ~InTest(w, b)'
          BY <3>0, <4>3 DEF InTest
        <5>2. OneTask' /\ Untouched'
          BY <2>0, <3>0, <4>3, <5>1 DEF TestedInv, OneTask, Untouched, AllAre
        <5>3. InOrder' /\ Visibly'
          BY <2>0, <3>0, <4>0, <4>3 DEF TestedInv, InOrder, Visibly, AllAre
        <5>4. Finished'
          BY <2>0, <4>0, <4>3 DEF TestedInv, Finished, AllAre
        <5> QED  BY <5>2, <5>3, <5>4 DEF TestedInv
      <4>4. CASE /\ command' = [command EXCEPT ![owner[a]][wjob[w]] = "READY"]
                 /\ wpc'[w] = IF wjob[w] < Installs + Tests THEN "link" ELSE "down"
                 /\ wjob'[w] = IF wjob[w] < Installs + Tests THEN wjob[w] + 1 ELSE 0
        <5>1. \A t \in Testrun : t # owner[a] => command'[t] = command[t]
          BY <4>4
        <5>2. \A j \in Command : command'[owner[a]][j] = IF j = wjob[w] THEN "READY"
                                                         ELSE command[owner[a]][j]
          BY <4>1, <4>4
        <5>3. \A b \in Avm : InTest(w, b)' => b = a /\ wpc'[w] = "link"
          BY <3>0, <4>4 DEF InTest
        <5>4. OneTask'
          BY <2>0, <3>0, <4>2, <5>3 DEF TestedInv, OneTask
        <5>5. ASSUME NEW b \in Avm,
                     \/ Mails(b)' > 0
                     \/ \E v \in Worker : InTest(v, b)' /\ wpc'[v] \notin {"link", "exec"}
              PROVE  owner[b] # None /\ AllAre(owner[b], "NULL")'
          <6>1. Mails(b) > 0 /\ b # a
            BY <2>0, <3>0, <4>2, <5>3, <5>5 DEF TestedInv, OneTask
          <6>2. owner[b] \in Testrun /\ AllAre(owner[b], "NULL")
            BY <6>1 DEF TestedInv, Untouched
          <6>3. owner[b] # owner[a]
            BY <6>1, <6>2 DEF OneMachine
          <6> QED  BY <3>0, <5>1, <6>2, <6>3 DEF AllAre
        <5>6. ASSUME NEW t \in Testrun, \A b \in Avm : owner[b] # t PROVE AllAre(t, "NULL")'
          BY <5>1, <5>6 DEF TestedInv, Untouched, AllAre
        <5>7. Untouched'
          BY <3>0, <5>5, <5>6 DEF Untouched, AllAre
        <5>8. /\ Command = 1..(Installs + Tests) /\ Installs \in Nat /\ Tests \in Nat
              /\ \A j \in Command : /\ j < wjob[w] => command[owner[a]][j] = "READY"
                                    /\ j > wjob[w] => command[owner[a]][j] = "NULL"
          BY <3>0, <4>0, CampaignAssumption DEF TestedInv, InOrder, Command
        <5>9. InOrder'
          BY <2>0, <3>0, <4>1, <4>4, <5>2, <5>8 DEF InOrder
        <5>10. Visibly'
          <6>1. CASE wjob[w] < Installs + Tests
            BY <2>0, <3>0, <4>0, <4>4, <5>1, <6>1 DEF TestedInv, Visibly, AllAre
          <6>2. CASE ~(wjob[w] < Installs + Tests)
            <7>1. AllAre(owner[a], "READY")'
              BY <3>0, <4>1, <5>2, <5>8, <6>2 DEF AllAre
            <7> QED  BY <2>0, <3>0, <4>0, <5>1, <7>1 DEF TestedInv, Visibly, AllAre
          <6> QED  BY <6>1, <6>2
        <5>11. Finished'
          BY <2>0, <4>0, <4>1, <4>4 DEF TestedInv, Finished, AllAre
        <5> QED  BY <5>4, <5>7, <5>9, <5>10, <5>11 DEF TestedInv
      <4> QED  BY <3>4, <4>3, <4>4 DEF TestRuns
    <3>5. CASE TestReadsStatuses(w, a) \/ TestFinishesCampaign(w, a)
      <4>1. /\ UNCHANGED command /\ wpc[w] \in {"statuses", "finished"}
            /\ wpc'[w] \in {"finished", "ack"}
        BY <3>5 DEF TestReadsStatuses, TestFinishesCampaign
      <4>2. \A b \in Avm : ~InTest(w, b)'
        BY <3>0, <4>1 DEF InTest
      <4>3. wpc'[w] = "finished" \/ campaign' = "READY"
            => campaign = "READY" \/ wpc[w] = "finished" \/ CommandStatuses = {"READY"}
        BY <3>5 DEF TestReadsStatuses, TestFinishesCampaign
      <4>4. CommandStatuses = {"READY"} => \A t \in Testrun : AllAre(t, "READY")
        BY <4>1, AllTested DEF TestedInv
      <4> QED  BY <2>0, <3>0, <4>1, <4>2, <4>3, <4>4
               DEF TestedInv, OneTask, Untouched, InOrder, Visibly, Finished, AllAre
    <3> QED  BY <3>1, <3>2, <3>3, <3>4, <3>5
  <2>9. CASE CampaignDelete(w)
    <3>1. /\ UNCHANGED <<command, owner>> /\ (campaign' = "READY" => campaign = "READY")
          /\ wpc[w] # "link" /\ wpc'[w] \notin {"link", "exec", "finished"}
      BY <2>9 DEF CampaignDelete, DeleteReads, DeleteEnds, DeletePublishesAvm, DeleteSetsAvm
    <3>2. \A a \in Avm : ~InTest(w, a)'
      BY <2>9 DEF CampaignDelete, DeleteReads, DeleteEnds, DeletePublishesAvm, DeleteSetsAvm,
                  InTest
    <3>3. \A a \in Avm : Mails(a)' = Mails(a)
      BY <1>0, <1>1, <2>9 DEF CampaignDelete, DeleteReads, DeleteEnds, DeletePublishesAvm,
                              DeleteSetsAvm
    <3> QED  BY <3>1, <3>2, <3>3, TestedFrame
  <2>10. CASE AvmDelete(w)
    <3>1. /\ UNCHANGED <<command, owner, campaign, queue>>
          /\ wpc[w] # "link" /\ wpc'[w] \notin {"link", "exec", "finished"}
      BY <2>10 DEF AvmDelete, AvmDeletes, AvmSetsDeleted
    <3>2. \A a \in Avm : ~InTest(w, a)'
      BY <2>10 DEF AvmDelete, AvmDeletes, AvmSetsDeleted, InTest
    <3> QED  BY <1>0, <3>1, <3>2, TestedFrame
  <2> QED
    BY <1>3, <2>1, <2>2, <2>3, <2>4, <2>5, <2>6, <2>7, <2>8, <2>9, <2>10 DEF WorkerStep
<1> QED  BY <1>2, <1>3 DEF Next

\* "Used to know when a campaign has finished" (model/campaign.py): with one worker
\* and no faults, every APK of a READY campaign was installed and every package
\* tested. (With two workers it may be READY early: run campaign_ready_early.)
THEOREM ReadyWasTested == ASSUME OneWorker, MaxFaults = 0 PROVE Spec => []ReadyMeansTested
<1> DEFINE Inv == Known /\ Marked /\ OrphanInv /\ CountInv /\ TestedInv
<1>1. Init => Inv
  BY OrphanInit, QuotaInit, CountInit, TestedInit DEF QuotaInv
<1>2. TypeOK /\ CountInv => OneMachine
  BY OnlyOneMachine DEF TypeOK
<1>3. TypeOK /\ OneMachine /\ OneMachine' /\ Inv /\ [Next]_vars => Inv'
  <2> SUFFICES ASSUME TypeOK, OneMachine, OneMachine', Inv, [Next]_vars PROVE Inv'
    OBVIOUS
  <2>1. Known' /\ Marked' /\ OrphanInv' /\ CountInv'
    BY OrphanStep, KnownStep, MarkedStep, CountStep, OneIsFinite
  <2>2. TestedInv'
    BY TestedStep DEF OrphanInv
  <2> QED  BY <2>1, <2>2
<1>4. TypeOK /\ CountInv /\ [Next]_vars => CountInv'
  BY CountStep, OneIsFinite
<1>5. Inv => ReadyMeansTested
  BY DEF TestedInv, Finished, AllAre, ReadyMeansTested
<1>6. Spec => []TypeOK
  BY TypeCorrect
<1>7. Spec => []OneMachine
  BY <1>2, <1>4, <1>6, CountInit, PTL DEF Spec
<1> HIDE DEF Inv
<1> QED  BY <1>1, <1>3, <1>5, <1>6, <1>7, PTL DEF Spec
--------------------------------------------------------------------------------
(* A campaign does not come to rest before it is over: with one worker and no    *)
(* faults, each test run of a RUNNING campaign has a task that is on with it, or  *)
(* was tested, and the task of the last one sees that; or the campaign is being  *)
(* deleted.                                                                      *)

\* The campaign_run that starts the campaign is still to come.
RunAhead ==
    \/ post # "done" \/ queue[<<"campaign_run", None>>] > 0
    \/ \E w \in Worker : wmsg[w] = <<"campaign_run", None>> /\ wpc[w] \in {"check", "get", "running"}

\* Worker w is on its way to a machine for t.
Seeks(w, t) ==
    \/ wmsg[w] = <<"campaign_run", None>> /\ wpc[w] = "loop" /\ t \in wtodo[w]
    \/ wmsg[w] = <<"campaign_avm_create", t>> /\ wpc[w] \in {"check", "get", "quota", "delay", "insert"}
Asked(w, t) == queue[<<"campaign_avm_create", t>>] > 0 \/ Seeks(w, t)

\* Machine a has a task that leads to its commands; and it must stand for it.
InLine(w, a) == Mails(a) > 0 \/ InTest(w, a)
Needs(w, a) == Mails(a) > 0 \/ (InTest(w, a) /\ wpc[w] \notin {"creating", "build"})

\* What the task of machine a has yet to do when the commands are READY.
Closes(w, a) == /\ wmsg[w] = <<"campaign_runtest", a>>
                /\ wpc[w] \in {"down", "deleted", "statuses", "finished"}

Chased(w, a) == queue[<<"avm_delete", a>>] > 0 \/ wmsg[w] = <<"avm_delete", a>>

\* Nobody takes the machine away from its test.
Spared(w, a) ==
    /\ ~Chased(w, a)
    /\ InLine(w, a) => AvmVisible(a)
    /\ Closes(w, a) /\ wpc[w] = "down" => AvmVisible(a)
    /\ Needs(w, a) => machine[a] # "none"

OnTheWay(w, t) ==
    \/ Asked(w, t) \/ AllAre(t, "READY")
    \/ \E a \in Avm : owner[a] = t /\ InLine(w, a)

LastSees(w) == (\A t \in Testrun : AllAre(t, "READY")) => \E a \in Avm : Closes(w, a)

Attending(w) ==
    /\ \A a \in Avm : Spared(w, a)
    /\ \A t \in Testrun : OnTheWay(w, t)
    /\ LastSees(w)

\* Nothing is being deleted.
Going(w) == campaign = "RUNNING" /\ ~Deleting(w)

\* What holds besides, in the order of the calls.
Ordered ==
    /\ campaign = "QUEUED" => RunAhead
    /\ \A w \in Worker : wpc[w] = "loop_missing" => campaign # "RUNNING"
    /\ \A w \in Worker, t \in Testrun :
          wmsg[w] = <<"campaign_avm_create", t>> /\ wpc[w] \in {"creating", "build", "publish"}
          => wavm[w] \in Avm /\ owner[wavm[w]] = t
    /\ \A w \in Worker, a \in Avm :
          Closes(w, a) /\ wpc[w] \in {"down", "deleted"} => owner[a] # None /\ AllAre(owner[a], "READY")

GoingInv == Ordered /\ \A w \in Worker : Going(w) => Attending(w)

\* A step that leaves every task where it is, or hands it on.
LEMMA GoingFrame ==
    ASSUME NEW w \in Worker, Attending(w), UNCHANGED owner,
           \A t \in Testrun : /\ Asked(w, t) => Asked(w, t)'
                              /\ AllAre(t, "READY")' <=> AllAre(t, "READY"),
           \A a \in Avm : /\ Chased(w, a)' => Chased(w, a)
                          /\ InLine(w, a)' <=> InLine(w, a)
                          /\ Closes(w, a)' <=> Closes(w, a)
                          /\ InLine(w, a) /\ AvmVisible(a) => AvmVisible(a)'
                          /\ Needs(w, a)' => machine'[a] # "none",
           wpc'[w] = "down" => wpc[w] = "down" /\ UNCHANGED status
    PROVE  Attending(w)'
<1>1. ASSUME NEW a \in Avm PROVE Spared(w, a)'
  BY <1>1 DEF Attending, Spared, AvmVisible
<1>2. ASSUME NEW t \in Testrun PROVE OnTheWay(w, t)'
  BY <1>2 DEF Attending, OnTheWay
<1>3. LastSees(w)'
  BY DEF Attending, LastSees
<1> QED  BY <1>1, <1>2, <1>3 DEF Attending

\* A message that is no task of a test run.
Ours == {"campaign_avm_create", "campaign_containers_create", "campaign_runtest", "avm_delete"}

LEMMA OtherMessages ==
    ASSUME TypeOK,
           \/ UNCHANGED queue
           \/ \E m \in Message : /\ m[1] \notin Ours
                                 /\ \/ queue' = [queue EXCEPT ![m] = @ + 1]
                                    \/ queue' = [queue EXCEPT ![m] = @ - 1]
    PROVE  /\ \A t \in Testrun : queue'[<<"campaign_avm_create", t>>] = queue[<<"campaign_avm_create", t>>]
           /\ \A a \in Avm : /\ queue'[<<"avm_delete", a>>] = queue[<<"avm_delete", a>>]
                             /\ Mails(a)' = Mails(a)
<1>1. \A m \in Message : m[1] \in Ours => queue'[m] = queue[m]
  BY DEF TypeOK
<1>2. /\ \A t \in Testrun : <<"campaign_avm_create", t>> \in Message
      /\ \A a \in Avm : \A k \in {"campaign_containers_create", "campaign_runtest", "avm_delete"} :
            <<k, a>> \in Message
  BY DEF Message
<1> QED  BY <1>1, <1>2 DEF Mails, Ours

LEMMA OrderedInit == Init => Ordered
BY DEF Init, Ordered, RunAhead, Closes, NoMessage

LEMMA OrderedStep ==
    ASSUME OneWorker, MaxFaults = 0, TypeOK, TestedInv, Ordered, [Next]_vars
    PROVE  Ordered'
<1> USE DEF rows, http, At, Goto, Rest, Closes
<1> /\ wpc \in [Worker -> Call]
    /\ wmsg \in [Worker -> Message \cup {NoMessage}]
    /\ wavm \in [Worker -> Avm \cup {None}]
    /\ owner \in [Avm -> Testrun \cup {None}]
    /\ command \in [Testrun -> [Command -> {"NULL", "RUNNING", "READY"}]]
    /\ queue \in [Message -> Nat]
    /\ <<"campaign_run", None>> \in Message
  BY DEF TypeOK, Message
<1> None \notin Avm /\ None \notin Testrun
  BY CampaignAssumption
<1> DEFINE run == <<"campaign_run", None>>
\* Publishing takes nothing away.
<1>0. ASSUME NEW task, NEW x, Publish(task, x) PROVE queue[run] > 0 => queue'[run] > 0
  BY <1>0 DEF Publish
<1>1. CASE \/ Server \/ UNCHANGED vars
           \/ \E a \in Avm : StackBuilt(a) \/ DeviceBoots(a)
  <2>1. CASE PostInserts
    BY <2>1 DEF PostInserts, Ordered, RunAhead, work, AllAre
  <2>2. CASE PostPublishes
    <3>1. queue'[run] > 0
      BY <2>2 DEF PostPublishes, Publish
    <3> QED  BY <2>2, <3>1 DEF PostPublishes, Ordered, RunAhead, work, AllAre
  <2>3. CASE DeletePublishes
    <3>1. queue[run] > 0 => queue'[run] > 0
      BY <1>0, <2>3 DEF DeletePublishes
    <3> QED  BY <2>3, <3>1 DEF DeletePublishes, Ordered, RunAhead, work, AllAre
  <2>4. CASE \/ DeleteLooksUp \/ DeleteSetsStatus \/ UNCHANGED vars
             \/ \E a \in Avm : StackBuilt(a) \/ DeviceBoots(a)
    BY <2>4 DEF DeleteLooksUp, DeleteSetsStatus, StackBuilt, DeviceBoots, vars, work, Ordered,
                RunAhead, AllAre
  <2> QED  BY <1>1, <2>1, <2>2, <2>3, <2>4 DEF Server
<1>2. ASSUME NEW w \in Worker,
             \/ \E m \in Message : Take(w, m)
             \/ WorkerStep(w) \/ Redeliver(w) \/ Fail(w)
      PROVE  Ordered'
  <2>0. \A v \in Worker : v = w
    BY DEF OneWorker
  <2>1. ~Redeliver(w) /\ ~Fail(w)
    BY DEF Redeliver, Fail, TypeOK
  \* Where the worker is not in the calls that Ordered is about.
  <2> DEFINE Calm == wpc'[w] \notin {"loop_missing", "creating", "build", "publish", "down", "deleted"}
  <2>2. ASSUME Calm, campaign' = "QUEUED" => campaign = "QUEUED" /\ RunAhead' PROVE Ordered'
    BY <2>0, <2>2 DEF Ordered
  <2>3. ASSUME NEW m \in Message, Take(w, m) PROVE Ordered'
    <3>1. wpc'[w] = "check" /\ wmsg'[w] = m /\ campaign' = campaign /\ post' = post
          /\ wpc[w] = "idle" /\ queue' = [queue EXCEPT ![m] = @ - 1]
      BY <2>3 DEF Take
    <3>2. CASE m = run
      BY <2>2, <3>1, <3>2 DEF Ordered, RunAhead
    <3>3. CASE m # run
      BY <2>0, <2>2, <3>1, <3>3 DEF Ordered, RunAhead
    <3> QED  BY <3>2, <3>3
  <2>4. CASE Check(w)
    <3>1. wmsg[w] = run => wpc'[w] = "get"
      BY <2>4 DEF Check
    <3> QED  BY <2>0, <2>2, <2>4, <3>1 DEF Check, Ordered, RunAhead
  <2>5. CASE Delay(w)
    <3>1. queue[run] > 0 => queue'[run] > 0
      BY <2>5 DEF Delay
    <3> QED  BY <2>0, <2>2, <2>5, <3>1 DEF Delay, Ordered, RunAhead
  <2>6. CASE SetError(w) \/ Ack(w)
    BY <2>0, <2>2, <2>6 DEF SetError, Ack, Ordered, RunAhead
  <2>7. CASE CampaignRun(w)
    <3>1. CASE RunGets(w)
      BY <2>0, <2>2, <3>1 DEF RunGets, CampaignVisible, Ordered, RunAhead
    <3>2. CASE RunSetsStatus(w)
      BY <2>0, <2>2, <3>2 DEF RunSetsStatus, Ordered, RunAhead
    <3>3. CASE RunEnds(w)
      BY <2>0, <2>2, <3>3 DEF RunEnds, Ordered, RunAhead
    <3>4. ASSUME NEW t \in Testrun, RunPublishes(w, t) PROVE Ordered'
      <4>1. queue[run] > 0 => queue'[run] > 0
        BY <1>0, <3>4 DEF RunPublishes
      <4> QED  BY <2>0, <2>2, <3>4, <4>1 DEF RunPublishes, Ordered, RunAhead
    <3> QED  BY <2>7, <3>1, <3>2, <3>3, <3>4 DEF CampaignRun
  <2>8. CASE CampaignAvmCreate(w)
    <3> SUFFICES ASSUME NEW t \in Testrun,
                        \/ CreateGets(w, t) \/ CreateChecksQuota(w, t)
                        \/ \E a \in Avm : CreateInserts(w, t, a)
                        \/ CreateSetsCreating(w, t) \/ CreateBuilds(w, t)
                        \/ CreatePublishes(w, t)
                 PROVE  Ordered'
      BY <2>8 DEF CampaignAvmCreate
    <3>1. CASE CreateGets(w, t) \/ CreateChecksQuota(w, t)
      BY <2>0, <2>2, <3>1 DEF CreateGets, CreateChecksQuota, Ordered, RunAhead
    <3>2. ASSUME NEW a \in Avm, CreateInserts(w, t, a) PROVE Ordered'
      BY <2>0, <3>2 DEF CreateInserts, Ordered, RunAhead
    <3>3. CASE CreateSetsCreating(w, t) \/ CreateBuilds(w, t)
      BY <2>0, <3>3 DEF CreateSetsCreating, CreateBuilds, Ordered, RunAhead
    <3>4. CASE CreatePublishes(w, t)
      <4>1. queue[run] > 0 => queue'[run] > 0
        BY <1>0, <3>4 DEF CreatePublishes
      <4> QED  BY <2>0, <2>2, <3>4, <4>1 DEF CreatePublishes, Ordered, RunAhead
    <3> QED  BY <3>1, <3>2, <3>3, <3>4
  <2>9. CASE CampaignContainersCreate(w)
    <3> PICK a \in Avm : \/ PlayersGet(w, a) \/ PlayersStart(w, a)
                         \/ PlayersReady(w, a) \/ PlayersPublish(w, a)
      BY <2>9 DEF CampaignContainersCreate
    <3>1. queue[run] > 0 => queue'[run] > 0
      BY <1>0 DEF PlayersGet, PlayersStart, PlayersReady, PlayersPublish
    <3> QED  BY <2>0, <3>1 DEF PlayersGet, PlayersStart, PlayersReady, PlayersPublish, Ordered, RunAhead
  <2>10. CASE CampaignRuntest(w)
    <3> PICK a \in Avm : \/ TestGets(w, a) \/ TestWaitsForBoot(w, a)
                         \/ TestLinks(w, a) \/ TestRuns(w, a)
                         \/ TestTearsDown(w, a) \/ TestSetsDeleted(w, a)
                         \/ TestReadsStatuses(w, a) \/ TestFinishesCampaign(w, a)
      BY <2>10 DEF CampaignRuntest
    <3>1. CASE \/ TestGets(w, a) \/ TestWaitsForBoot(w, a) \/ TestLinks(w, a) \/ TestSetsDeleted(w, a)
               \/ TestReadsStatuses(w, a) \/ TestFinishesCampaign(w, a)
      BY <2>0, <2>2, <3>1 DEF TestGets, TestWaitsForBoot, TestLinks, TestSetsDeleted,
         TestReadsStatuses, TestFinishesCampaign, Ordered, RunAhead
    <3>2. CASE TestTearsDown(w, a)
      BY <2>0, <3>2 DEF TestTearsDown, Ordered, RunAhead, AllAre
    <3>3. CASE TestRuns(w, a)
      <4>1. campaign' = "QUEUED" => campaign = "QUEUED" /\ RunAhead'
        BY <2>0, <3>3 DEF TestRuns, Ordered, RunAhead
      <4>2. CASE wpc'[w] # "down"
        BY <2>2, <3>3, <4>1, <4>2 DEF TestRuns
      <4>3. CASE wpc'[w] = "down"
        <5>1. /\ wjob[w] \in Command /\ owner[a] \in Testrun
              /\ \A j \in Command : j < wjob[w] => command[owner[a]][j] = "READY"
          BY <3>3 DEF TestRuns, TestedInv, InOrder
        <5>2. /\ command' = [command EXCEPT ![owner[a]][wjob[w]] = "READY"]
              /\ ~(wjob[w] < Installs + Tests) /\ wmsg' = wmsg /\ owner' = owner
              /\ wmsg[w] = <<"campaign_runtest", a>>
          BY <3>3, <4>3 DEF TestRuns
        <5>3. AllAre(owner[a], "READY")'
          BY <5>1, <5>2, CampaignAssumption DEF AllAre, Command
        <5> QED  BY <2>0, <4>1, <4>3, <5>1, <5>2, <5>3 DEF Ordered
      <4> QED  BY <4>2, <4>3
    <3> QED  BY <3>1, <3>2, <3>3
  <2>11. CASE CampaignDelete(w)
    <3>1. CASE DeleteReads(w)
      BY <2>0, <3>1 DEF DeleteReads, CampaignVisible, Ordered, RunAhead
    <3>2. CASE DeleteEnds(w)
      BY <2>0, <2>2, <3>2 DEF DeleteEnds, Ordered, RunAhead
    <3>3. ASSUME NEW a \in Avm, DeletePublishesAvm(w, a) \/ DeleteSetsAvm(w, a) PROVE Ordered'
      <4>1. queue[run] > 0 => queue'[run] > 0
        BY <1>0, <3>3 DEF DeletePublishesAvm, DeleteSetsAvm
      <4> QED  BY <2>0, <3>3, <4>1 DEF DeletePublishesAvm, DeleteSetsAvm, Ordered, RunAhead
    <3> QED  BY <2>11, <3>1, <3>2, <3>3 DEF CampaignDelete
  <2>12. CASE AvmDelete(w)
    BY <2>0, <2>12 DEF AvmDelete, AvmDeletes, AvmSetsDeleted, Ordered, RunAhead
  <2> QED
    BY <1>2, <2>1, <2>3, <2>4, <2>5, <2>6, <2>7, <2>8, <2>9, <2>10, <2>11, <2>12 DEF WorkerStep
<1> QED  BY <1>1, <1>2 DEF Next

\* Who asks for a machine has none yet ...
LEMMA NoneYet ==
    ASSUME OneWorker, faults = 0, TypeOK, CountInv, NEW w \in Worker, NEW t \in Testrun, AsksFor(w, t)
    PROVE  \A a \in Avm : owner[a] # t
<1>1. IsFiniteSet(Machines(t)) /\ IsFiniteSet(Askers(t)) /\ Requests(t) \in Nat
      /\ Cardinality(Machines(t)) \in Nat /\ Cardinality(Askers(t)) \in Nat
  BY OneIsFinite, CountFacts
<1>2. w \in Askers(t)
  BY DEF Askers
<1>3. Cardinality(Askers(t)) # 0
  BY <1>1, <1>2, FS_EmptySet
<1>4. Cardinality(Machines(t)) + Cardinality(Askers(t)) + Requests(t) <= 1
  BY DEF CountInv, Counted
<1>5. Cardinality(Machines(t)) = 0
  BY <1>1, <1>3, <1>4
<1>6. Machines(t) = {}
  BY <1>1, <1>5, FS_EmptySet
<1> QED  BY <1>6 DEF Machines

\* ... and campaign_run begins with nothing.
LEMMA NothingYet ==
    ASSUME OneWorker, faults = 0, TypeOK, Known, Registered, CountInv,
           NEW w \in Worker, wmsg[w] = <<"campaign_run", None>>, wpc[w] = "running"
    PROVE  /\ \A a \in Avm : owner[a] = None
           /\ \A m \in Message : m[2] \in Avm => queue[m] = 0
<1>1. \A t \in Testrun, a \in Avm : owner[a] # t
  BY NoneYet DEF AsksFor
<1>2. \A a \in Avm : owner[a] = None
  BY <1>1 DEF TypeOK
<1>3. ASSUME NEW m \in Message, m[2] \in Avm PROVE queue[m] = 0
  <2>1. status[m[2]] = "NONE"
    BY <1>2, <1>3 DEF Registered
  <2> QED  BY <1>3, <2>1 DEF Known, TypeOK
<1> QED  BY <1>2, <1>3

LEMMA GoingStep ==
    ASSUME OneWorker, MaxFaults = 0, Testrun # {}, TypeOK, Known, Registered, CountInv,
           TestedInv, GoingInv, [Next]_vars, NEW w \in Worker, Going(w)'
    PROVE  Attending(w)'
<1> USE DEF rows, http, At, Goto, Rest
<1> /\ wpc \in [Worker -> Call]
    /\ wmsg \in [Worker -> Message \cup {NoMessage}]
    /\ wavm \in [Worker -> Avm \cup {None}]
    /\ wtodo \in [Worker -> SUBSET (Testrun \cup Avm)]
    /\ owner \in [Avm -> Testrun \cup {None}]
    /\ status \in [Avm -> {"NONE", "QUEUED", "CREATING", "READY", "DELETING", "DELETED", "ERROR"}]
    /\ machine \in [Avm -> {"none", "building", "up", "booted"}]
    /\ command \in [Testrun -> [Command -> {"NULL", "RUNNING", "READY"}]]
    /\ queue \in [Message -> Nat]
  BY DEF TypeOK
<1> None \notin Avm /\ None \notin Testrun /\ \A t \in Testrun : t \notin Avm
  BY CampaignAssumption
<1> DEFINE Silent == /\ \A t \in Testrun : queue'[<<"campaign_avm_create", t>>]
                                           = queue[<<"campaign_avm_create", t>>]
                     /\ \A a \in Avm : /\ queue'[<<"avm_delete", a>>] = queue[<<"avm_delete", a>>]
                                       /\ Mails(a)' = Mails(a)
<1>0. UNCHANGED queue => Silent
  BY OtherMessages
<1>1. /\ Ordered
      /\ UNCHANGED campaign /\ ~Deleting(w) => Attending(w)
  BY DEF GoingInv, Going
<1>2. CASE \/ Server \/ UNCHANGED vars
           \/ \E a \in Avm : StackBuilt(a) \/ DeviceBoots(a)
  <2>1. Silent
    <3>1. CASE PostPublishes \/ DeletePublishes
      <4>1. \E m \in Message : m[1] \notin Ours /\ queue' = [queue EXCEPT ![m] = @ + 1]
        BY <3>1 DEF PostPublishes, DeletePublishes, Publish, Message, Ours
      <4> QED  BY <4>1, OtherMessages
    <3>2. CASE ~(PostPublishes \/ DeletePublishes)
      BY <1>0, <1>2, <3>2 DEF Server, PostInserts, DeleteLooksUp, DeleteSetsStatus, StackBuilt,
                              DeviceBoots, vars
    <3> QED  BY <3>1, <3>2
  <2>2. /\ UNCHANGED <<campaign, command, owner, status, work>>
        /\ \A a \in Avm : machine[a] # "none" => machine'[a] # "none"
    BY <1>2 DEF Server, PostInserts, PostPublishes, DeleteLooksUp, DeletePublishes,
                DeleteSetsStatus, StackBuilt, DeviceBoots, vars, Going
  <2>3. Attending(w)
    BY <1>1, <2>2 DEF Going, Deleting, work
  <2>4. \A t \in Testrun : Asked(w, t)' <=> Asked(w, t)
    BY <2>1, <2>2 DEF Asked, Seeks, work
  <2>5. ASSUME NEW a \in Avm
        PROVE  /\ Chased(w, a)' <=> Chased(w, a)
               /\ InLine(w, a)' <=> InLine(w, a)
               /\ Closes(w, a)' <=> Closes(w, a)
               /\ AvmVisible(a) => AvmVisible(a)'
               /\ Needs(w, a)' <=> Needs(w, a)
    BY <2>1, <2>2 DEF Chased, InLine, Closes, AvmVisible, Needs, InTest, work
  <2>6. \A a \in Avm : Needs(w, a)' => machine'[a] # "none"
    BY <2>2, <2>3, <2>5 DEF Attending, Spared
  <2> QED  BY <2>2, <2>3, <2>4, <2>5, <2>6, GoingFrame DEF work, AllAre
<1>3. ASSUME \/ \E m \in Message : Take(w, m)
             \/ WorkerStep(w) \/ Redeliver(w) \/ Fail(w)
      PROVE  Attending(w)'
  <2>1. ~Redeliver(w) /\ ~Fail(w)
    BY DEF Redeliver, Fail, TypeOK
  \* A step that changes no row, where the worker was Attending.
  <2> DEFINE Still == /\ \A t \in Testrun : Seeks(w, t) => Seeks(w, t)'
                      /\ \A a \in Avm : /\ wmsg'[w] = <<"avm_delete", a>> => wmsg[w] = <<"avm_delete", a>>
                                        /\ InTest(w, a)' <=> InTest(w, a)
                                        /\ Closes(w, a)' <=> Closes(w, a)
                      /\ wpc[w] \in {"creating", "build"} => wpc'[w] \in {"creating", "build"}
                      /\ wpc'[w] = "down" => wpc[w] = "down" /\ UNCHANGED status
  <2>2. ASSUME Attending(w), UNCHANGED <<command, owner, machine>>, Silent, Still,
               \A a \in Avm : InLine(w, a) /\ AvmVisible(a) => AvmVisible(a)'
        PROVE  Attending(w)'
    <3>1. \A t \in Testrun : Asked(w, t) => Asked(w, t)'
      BY <2>2 DEF Asked
    <3>2. ASSUME NEW a \in Avm
          PROVE  /\ Chased(w, a)' => Chased(w, a)
                 /\ InLine(w, a)' <=> InLine(w, a)
                 /\ Closes(w, a)' <=> Closes(w, a)
                 /\ Needs(w, a)' => Needs(w, a)
      BY <2>2 DEF Chased, InLine, Needs
    <3>3. \A a \in Avm : Needs(w, a)' => machine'[a] # "none"
      BY <2>2, <3>2 DEF Attending, Spared
    <3> QED  BY <2>2, <3>1, <3>2, <3>3, GoingFrame DEF AllAre
  <2>4. ASSUME NEW m \in Message, Take(w, m) PROVE Attending(w)'
    <3>0. /\ UNCHANGED <<campaign, command, owner, status, machine>>
          /\ wpc[w] = "idle" /\ wpc'[w] = "check" /\ wmsg'[w] = m /\ wavm' = wavm
          /\ queue[m] > 0 /\ queue' = [queue EXCEPT ![m] = @ - 1] /\ wmsg[w] = NoMessage
      BY <2>4 DEF Take, TypeOK
    <3>1. /\ Attending(w) /\ \A a \in Avm : ~InTest(w, a) /\ ~Closes(w, a) /\ ~Closes(w, a)'
          /\ \A t \in Testrun : ~Seeks(w, t)
      BY <1>1, <3>0 DEF Deleting, InTest, Closes, Seeks
    <3>2. CASE m[1] \notin Ours
      <4>1. Silent
        BY <3>0, <3>2, OtherMessages
      <4>2. Still
        BY <3>0, <3>1, <3>2 DEF InTest, Ours
      <4> QED  BY <2>2, <3>0, <3>1, <4>1, <4>2 DEF AvmVisible
    <3>3. ASSUME NEW t \in Testrun, m = <<"campaign_avm_create", t>> PROVE Attending(w)'
      <4>1. \A n \in Message : n # m => queue'[n] = queue[n]
        BY <3>0
      <4>2. ASSUME NEW a \in Avm
            PROVE  Mails(a)' = Mails(a) /\ queue'[<<"avm_delete", a>>] = queue[<<"avm_delete", a>>]
        BY <3>3, <4>1 DEF Mails, Message
      <4>3. \A u \in Testrun : Asked(w, u) => Asked(w, u)'
        <5>1. Seeks(w, t)'
          BY <3>0, <3>3 DEF Seeks
        <5>2. \A u \in Testrun : u # t => queue'[<<"campaign_avm_create", u>>]
                                          = queue[<<"campaign_avm_create", u>>]
          BY <3>3, <4>1 DEF Message
        <5> QED  BY <3>1, <5>1, <5>2 DEF Asked
      <4>4. ASSUME NEW a \in Avm
            PROVE  /\ Chased(w, a)' => Chased(w, a)
                   /\ InLine(w, a)' <=> InLine(w, a)
                   /\ Needs(w, a)' => Needs(w, a)
        BY <3>0, <3>1, <3>3, <4>2 DEF Chased, InLine, Needs, InTest
      <4>5. \A a \in Avm : Needs(w, a)' => machine'[a] # "none"
        BY <3>0, <3>1, <4>4 DEF Attending, Spared
      <4> QED  BY <3>0, <3>1, <4>3, <4>4, <4>5, GoingFrame DEF AllAre, AvmVisible
    <3>4. ASSUME NEW a \in Avm, NEW task \in {"campaign_containers_create", "campaign_runtest"},
                 m = <<task, a>>
          PROVE  Attending(w)'
      <4>1. Mails(a)' = Mails(a) - 1 /\ \A b \in Avm : b # a => Mails(b)' = Mails(b)
        BY <3>0, <3>4, MailLeaves
      <4>2. \A b \in Avm : Mails(b) \in Nat
        BY MailsCount
      <4>3. /\ \A b \in Avm : queue'[<<"avm_delete", b>>] = queue[<<"avm_delete", b>>]
            /\ \A u \in Testrun : queue'[<<"campaign_avm_create", u>>] = queue[<<"campaign_avm_create", u>>]
        BY <3>0, <3>4 DEF Message
      <4>4. Mails(a) > 0
        <5>1. \A k \in {"campaign_containers_create", "campaign_runtest"} : queue[<<k, a>>] \in Nat
          BY DEF Message
        <5>2. CASE task = "campaign_containers_create"  BY <3>0, <3>4, <5>1, <5>2 DEF Mails
        <5>3. CASE task = "campaign_runtest"            BY <3>0, <3>4, <5>1, <5>3 DEF Mails
        <5> QED  BY <5>2, <5>3
      <4>5. \A b \in Avm : InTest(w, b)' <=> b = a
        BY <3>0, <3>4 DEF InTest
      <4>6. \A u \in Testrun : Asked(w, u) => Asked(w, u)'
        BY <3>1, <4>3 DEF Asked
      <4>7. ASSUME NEW b \in Avm
            PROVE  /\ Chased(w, b)' => Chased(w, b)
                   /\ InLine(w, b)' <=> InLine(w, b)
                   /\ Needs(w, b)' => Needs(w, b)
        <5>1. Chased(w, b)' => Chased(w, b)
          BY <3>0, <3>4, <4>3 DEF Chased
        <5>2. CASE b = a
          BY <4>1, <4>2, <4>4, <4>5, <5>1, <5>2 DEF InLine, Needs
        <5>3. CASE b # a
          BY <3>1, <4>1, <4>5, <5>1, <5>3 DEF InLine, Needs
        <5> QED  BY <5>2, <5>3
      <4>8. \A b \in Avm : Needs(w, b)' => machine'[b] # "none"
        BY <3>0, <3>1, <4>7 DEF Attending, Spared
      <4> QED  BY <3>0, <3>1, <4>6, <4>7, <4>8, GoingFrame DEF AllAre, AvmVisible
    <3>5. ASSUME NEW a \in Avm, m = <<"avm_delete", a>> PROVE FALSE
      BY <3>0, <3>1, <3>5 DEF Attending, Spared, Chased
    <3> QED  BY <3>2, <3>3, <3>4, <3>5 DEF Message, Ours
  <2>5. CASE Delay(w)
    <3>0. /\ UNCHANGED <<campaign, command, owner, status, machine, wmsg>>
          /\ wpc[w] = "delay" /\ wpc'[w] = "ack" /\ wmsg[w] \in Message
          /\ queue' = [queue EXCEPT ![wmsg[w]] = @ + 1]
      BY <2>5 DEF Delay, TypeOK
    <3>1. Attending(w) /\ \A a \in Avm : ~InTest(w, a)' /\ ~Closes(w, a) /\ ~Closes(w, a)'
      BY <1>1, <3>0 DEF Deleting, InTest, Closes
    <3>2. CASE wmsg[w][1] \notin Ours
      <4>1. Silent
        BY <3>0, <3>2, OtherMessages
      <4>2. Still
        BY <3>0, <3>1, <3>2 DEF InTest, Seeks, Ours
      <4> QED  BY <2>2, <3>0, <3>1, <4>1, <4>2 DEF AvmVisible
    <3>3. ASSUME NEW t \in Testrun, wmsg[w] = <<"campaign_avm_create", t>> PROVE Attending(w)'
      <4>1. /\ \A n \in Message : n # wmsg[w] => queue'[n] = queue[n]
            /\ queue'[wmsg[w]] = queue[wmsg[w]] + 1 /\ queue[wmsg[w]] \in Nat
        BY <3>0
      <4>2. ASSUME NEW a \in Avm
            PROVE  Mails(a)' = Mails(a) /\ queue'[<<"avm_delete", a>>] = queue[<<"avm_delete", a>>]
        BY <3>3, <4>1 DEF Mails, Message
      <4>3. \A u \in Testrun : Asked(w, u) => Asked(w, u)'
        <5>1. queue'[<<"campaign_avm_create", t>>] > 0
          BY <3>3, <4>1
        <5>2. \A u \in Testrun : u # t => queue'[<<"campaign_avm_create", u>>]
                                          = queue[<<"campaign_avm_create", u>>]
          BY <3>3, <4>1 DEF Message
        <5>3. \A u \in Testrun : u # t => ~Seeks(w, u)
          BY <3>0, <3>3 DEF Seeks
        <5> QED  BY <5>1, <5>2, <5>3 DEF Asked
      <4>4. ASSUME NEW a \in Avm
            PROVE  /\ Chased(w, a)' => Chased(w, a)
                   /\ InLine(w, a)' <=> InLine(w, a)
                   /\ Needs(w, a)' => Needs(w, a)
        <5>1. ~InTest(w, a)
          BY <3>0, <3>3 DEF InTest
        <5> QED  BY <3>0, <3>1, <4>2, <5>1 DEF Chased, InLine, Needs
      <4>5. \A a \in Avm : Needs(w, a)' => machine'[a] # "none"
        BY <3>0, <3>1, <4>4 DEF Attending, Spared
      <4> QED  BY <3>0, <3>1, <4>3, <4>4, <4>5, GoingFrame DEF AllAre, AvmVisible
    <3>4. ASSUME NEW a \in Avm, NEW task \in {"campaign_containers_create", "campaign_runtest"},
                 wmsg[w] = <<task, a>>
          PROVE  Attending(w)'
      <4>1. Mails(a)' = Mails(a) + 1 /\ \A b \in Avm : b # a => Mails(b)' = Mails(b)
        BY <3>0, <3>4, MailArrives
      <4>2. Mails(a)' > 0
        BY <4>1, MailsCount
      <4>3. /\ \A b \in Avm : queue'[<<"avm_delete", b>>] = queue[<<"avm_delete", b>>]
            /\ \A u \in Testrun : queue'[<<"campaign_avm_create", u>>] = queue[<<"campaign_avm_create", u>>]
        BY <3>0, <3>4 DEF Message
      <4>4. \A u \in Testrun : Asked(w, u) => Asked(w, u)'
        BY <3>0, <3>4, <4>3 DEF Asked, Seeks
      <4>5. \A b \in Avm : InTest(w, b) <=> b = a
        BY <3>0, <3>4 DEF InTest
      <4>6. ASSUME NEW b \in Avm
            PROVE  /\ Chased(w, b)' => Chased(w, b)
                   /\ InLine(w, b)' <=> InLine(w, b)
                   /\ Needs(w, b)' => Needs(w, b)
        <5>1. CASE b = a
          BY <3>0, <4>2, <4>3, <4>5, <5>1 DEF Chased, InLine, Needs
        <5>2. CASE b # a
          BY <3>0, <3>1, <4>1, <4>3, <4>5, <5>2 DEF Chased, InLine, Needs
        <5> QED  BY <5>1, <5>2
      <4>7. \A b \in Avm : Needs(w, b)' => machine'[b] # "none"
        BY <3>0, <3>1, <4>6 DEF Attending, Spared
      <4> QED  BY <3>0, <3>1, <4>4, <4>6, <4>7, GoingFrame DEF AllAre, AvmVisible
    <3>5. ASSUME NEW a \in Avm, wmsg[w] = <<"avm_delete", a>> PROVE FALSE
      BY <3>1, <3>5 DEF Attending, Spared, Chased
    <3> QED  BY <3>0, <3>2, <3>3, <3>4, <3>5 DEF Message, Ours
  <2>6. CASE Check(w) \/ SetError(w) \/ Ack(w)
    <3>0. /\ UNCHANGED <<campaign, command, owner, queue, machine>>
          /\ wpc[w] \in {"check", "error", "ack"}
      BY <2>6 DEF Check, SetError, Ack
    <3>1. Attending(w)
      BY <1>1, <3>0 DEF Deleting
    <3>2. \A a \in Avm : AvmVisible(a) => AvmVisible(a)'
      BY <2>6 DEF Check, SetError, Ack, AvmVisible
    <3>3. CASE Check(w)
      <4>1. \A a \in Avm : wmsg[w] # <<"avm_delete", a>>
        BY <3>1 DEF Attending, Spared, Chased
      <4>2. ASSUME NEW a \in Avm, wmsg[w][2] = a PROVE status[a] # "DELETED"
        <5>1. wmsg[w] \in Message
          BY <3>3 DEF Check, TypeOK
        <5>2. wmsg[w] \in {<<"campaign_containers_create", a>>, <<"campaign_runtest", a>>}
          BY <4>1, <4>2, <5>1 DEF Message
        <5>3. InTest(w, a)
          BY <3>3, <5>2 DEF Check, InTest
        <5> QED  BY <3>1, <5>3 DEF Attending, Spared, InLine, AvmVisible
      <4>3. wmsg'[w] = wmsg[w] /\ wpc[w] = "check" /\ wavm' = wavm /\ wtodo' = wtodo
            /\ wpc'[w] = "get"
        BY <3>3, <4>2 DEF Check
      <4>4. Still
        BY <4>3 DEF Seeks, InTest, Closes
      <4> QED  BY <1>0, <2>2, <3>0, <3>1, <3>2, <4>4
    <3>4. CASE SetError(w) \/ Ack(w)
      <4>1. Still
        BY <3>4 DEF SetError, Ack, Seeks, InTest, Closes, NoMessage
      <4> QED  BY <1>0, <2>2, <3>0, <3>1, <3>2, <4>1
    <3> QED  BY <2>6, <3>3, <3>4
  <2>7. CASE CampaignRun(w)
    <3>1. CASE RunGets(w) \/ RunEnds(w)
      <4>1. UNCHANGED <<rows, machine, queue>> /\ Attending(w)
        BY <1>1, <3>1 DEF RunGets, RunEnds, Deleting
      <4>2. Still
        BY <3>1 DEF RunGets, RunEnds, Seeks, InTest, Closes
      <4> QED  BY <1>0, <2>2, <4>1, <4>2 DEF AvmVisible
    <3>2. CASE RunSetsStatus(w)
      <4>1. /\ \A a \in Avm : owner[a] = None
            /\ \A m \in Message : m[2] \in Avm => queue[m] = 0
        BY <3>2, NothingYet DEF RunSetsStatus, TypeOK
      <4>2. /\ UNCHANGED <<command, owner, queue, machine, wmsg>>
            /\ wmsg[w] = <<"campaign_run", None>> /\ wpc'[w] = "loop" /\ wtodo'[w] = Testrun
        BY <3>2 DEF RunSetsStatus
      <4>3. ASSUME NEW a \in Avm PROVE Spared(w, a)'
        <5>1. Mails(a)' = 0 /\ queue'[<<"avm_delete", a>>] = 0
          BY <4>1, <4>2 DEF Mails, Message
        <5> QED  BY <4>2, <5>1 DEF Spared, Chased, InLine, Needs, InTest, Closes
      <4>4. ASSUME NEW t \in Testrun PROVE Asked(w, t)'
        BY <4>2 DEF Asked, Seeks
      <4>5. ASSUME NEW t \in Testrun PROVE ~AllAre(t, "READY")'
        <5>1. AllAre(t, "NULL")
          BY <4>1 DEF TestedInv, Untouched
        <5> QED  BY <4>2, <5>1, CampaignAssumption DEF AllAre, Command
      <4> QED  BY <4>3, <4>4, <4>5 DEF Attending, OnTheWay, LastSees
    <3>3. ASSUME NEW t \in Testrun, RunPublishes(w, t) PROVE Attending(w)'
      <4>0. /\ UNCHANGED <<campaign, command, owner, status, machine, wmsg, wpc>>
            /\ queue' = [queue EXCEPT ![<<"campaign_avm_create", t>>] = @ + 1]
            /\ wmsg[w] = <<"campaign_run", None>> /\ wpc[w] = "loop" /\ wtodo'[w] = wtodo[w] \ {t}
            /\ <<"campaign_avm_create", t>> \in Message
        BY <3>3 DEF RunPublishes, Publish, Message
      <4>1. Attending(w) /\ \A a \in Avm : ~InTest(w, a) /\ ~InTest(w, a)' /\ ~Closes(w, a) /\ ~Closes(w, a)'
        BY <1>1, <4>0 DEF Deleting, InTest, Closes
      <4>2. /\ \A n \in Message : n # <<"campaign_avm_create", t>> => queue'[n] = queue[n]
            /\ queue'[<<"campaign_avm_create", t>>] > 0
        BY <4>0
      <4>3. ASSUME NEW u \in Testrun PROVE Asked(w, u) => Asked(w, u)'
        BY <4>0, <4>2 DEF Asked, Seeks, Message
      <4>4. ASSUME NEW a \in Avm
            PROVE  Mails(a)' = Mails(a) /\ queue'[<<"avm_delete", a>>] = queue[<<"avm_delete", a>>]
        BY <4>2 DEF Mails, Message
      <4>5. ASSUME NEW a \in Avm
            PROVE  /\ Chased(w, a)' => Chased(w, a)
                   /\ InLine(w, a)' <=> InLine(w, a)
                   /\ Needs(w, a)' => Needs(w, a)
        BY <4>0, <4>1, <4>4 DEF Chased, InLine, Needs
      <4>6. \A a \in Avm : Needs(w, a)' => machine'[a] # "none"
        BY <4>0, <4>1, <4>5 DEF Attending, Spared
      <4> QED  BY <4>0, <4>1, <4>3, <4>5, <4>6, GoingFrame DEF AllAre, AvmVisible
    <3> QED  BY <2>7, <3>1, <3>2, <3>3 DEF CampaignRun
  <2>8. CASE CampaignAvmCreate(w)
    <3> PICK t \in Testrun : \/ CreateGets(w, t) \/ CreateChecksQuota(w, t)
                             \/ \E a \in Avm : CreateInserts(w, t, a)
                             \/ CreateSetsCreating(w, t) \/ CreateBuilds(w, t)
                             \/ CreatePublishes(w, t)
      BY <2>8 DEF CampaignAvmCreate
    <3>0. Attending(w) /\ wmsg[w] = <<"campaign_avm_create", t>> /\ UNCHANGED <<campaign, wmsg>>
          /\ wpc[w] \in {"get", "quota", "insert", "creating", "build", "publish"}
      BY <1>1 DEF CreateGets, CreateChecksQuota, CreateInserts, CreateSetsCreating, CreateBuilds,
                  CreatePublishes, Deleting
    <3>1. CASE CreateGets(w, t) \/ CreateChecksQuota(w, t)
      <4>1. UNCHANGED <<rows, machine, queue>>
        BY <3>1 DEF CreateGets, CreateChecksQuota
      <4>2. campaign = "RUNNING"
        BY <3>0 DEF Going
      <4>3. Still
        BY <3>1, <4>2 DEF CreateGets, CreateChecksQuota, Seeks, InTest, Closes, CampaignVisible
      <4> QED  BY <1>0, <2>2, <3>0, <4>1, <4>3 DEF AvmVisible
    <3>2. ASSUME NEW a \in Avm, CreateInserts(w, t, a) PROVE Attending(w)'
      <4>0. /\ UNCHANGED <<command, machine, queue, wmsg>> /\ owner[a] = None
            /\ owner' = [owner EXCEPT ![a] = t] /\ status' = [status EXCEPT ![a] = "QUEUED"]
            /\ wavm'[w] = a /\ wpc'[w] = "creating" /\ wpc[w] = "insert"
        BY <3>2 DEF CreateInserts
      <4>1. \A b \in Avm : ~InTest(w, b) /\ (InTest(w, b)' <=> b = a) /\ ~Closes(w, b)'
        BY <3>0, <4>0 DEF InTest, Closes
      <4>2. \A b \in Avm : InLine(w, b) => InLine(w, b)' /\ owner[b] # None
        <5>1. ASSUME NEW b \in Avm, InLine(w, b) PROVE owner[b] # None
          BY <4>1, <5>1 DEF InLine, TestedInv, Untouched
        <5> QED  BY <1>0, <4>0, <4>1, <5>1 DEF InLine
      <4>3. ASSUME NEW b \in Avm PROVE Spared(w, b)'
        <5>1. Spared(w, b) /\ Mails(b)' = Mails(b)
          BY <1>0, <3>0, <4>0 DEF Attending
        <5> QED  BY <4>0, <4>1, <5>1 DEF Spared, Chased, InLine, Needs, AvmVisible
      <4>4. ASSUME NEW u \in Testrun PROVE OnTheWay(w, u)'
        <5>1. CASE u = t
          BY <4>0, <4>1, <5>1 DEF OnTheWay, InLine
        <5>2. CASE u # t
          <6>1. OnTheWay(w, u) /\ ~Seeks(w, u)
            BY <3>0, <5>2 DEF Attending, Seeks
          <6> QED  BY <4>0, <4>2, <5>2, <6>1 DEF OnTheWay, Asked, AllAre
        <5> QED  BY <5>1, <5>2
      <4>5. ~AllAre(t, "READY")'
        <5>1. AllAre(t, "NULL")
          BY <3>0, <4>0, NoneYet DEF AsksFor, TestedInv, Untouched, TypeOK
        <5> QED  BY <4>0, <5>1, CampaignAssumption DEF AllAre, Command
      <4>6. LastSees(w)'
        BY <4>5 DEF LastSees
      <4> QED  BY <4>3, <4>4, <4>6 DEF Attending
    <3>3. CASE CreateSetsCreating(w, t)
      <4>1. wavm[w] \in Avm /\ InTest(w, wavm[w])
        BY <1>1, <3>0, <3>3 DEF CreateSetsCreating, Ordered, InTest
      <4>2. AvmVisible(wavm[w])
        BY <3>0, <4>1 DEF Attending, Spared, InLine
      <4>3. /\ UNCHANGED <<command, owner, machine, queue>>
            /\ wpc[w] = "creating" /\ wpc'[w] = "build" /\ wavm'[w] = wavm[w]
            /\ \A a \in Avm : AvmVisible(a) => AvmVisible(a)'
        BY <3>3, <4>2 DEF CreateSetsCreating, AvmVisible
      <4>4. Still
        BY <3>0, <4>3 DEF Seeks, InTest, Closes
      <4> QED  BY <1>0, <2>2, <3>0, <4>3, <4>4
    <3>4. CASE CreateBuilds(w, t)
      <4>1. wavm[w] \in Avm /\ InTest(w, wavm[w])
        BY <1>1, <3>0, <3>4 DEF CreateBuilds, Ordered, InTest
      <4>2. AvmVisible(wavm[w])
        BY <3>0, <4>1 DEF Attending, Spared, InLine
      <4>3. /\ UNCHANGED <<command, owner, status, queue>>
            /\ wpc[w] = "build" /\ wpc'[w] = "publish" /\ wavm'[w] = wavm[w]
            /\ machine' = [machine EXCEPT ![wavm[w]] = "building"]
        BY <3>4, <4>2 DEF CreateBuilds
      <4>4. Silent
        BY <1>0, <4>3
      <4>5. ASSUME NEW u \in Testrun PROVE Asked(w, u) => Asked(w, u)'
        BY <3>0, <4>3, <4>4 DEF Asked, Seeks
      <4>6. ASSUME NEW a \in Avm
            PROVE  /\ Chased(w, a)' => Chased(w, a)
                   /\ InTest(w, a)' <=> InTest(w, a)
                   /\ Closes(w, a)' <=> Closes(w, a)
        BY <3>0, <4>3, <4>4 DEF Chased, InTest, Closes
      <4>7. ASSUME NEW a \in Avm PROVE InLine(w, a)' <=> InLine(w, a)
        BY <4>4, <4>6 DEF InLine
      <4>8. ASSUME NEW a \in Avm, Needs(w, a)' PROVE machine'[a] # "none"
        <5>1. CASE a = wavm[w]
          BY <4>3, <5>1
        <5>2. CASE a # wavm[w]
          <6>1. Needs(w, a)
            BY <3>0, <4>3, <4>4, <4>8, <5>2 DEF Needs, InTest
          <6> QED  BY <3>0, <4>3, <5>2, <6>1 DEF Attending, Spared
        <5> QED  BY <5>1, <5>2
      <4> QED  BY <3>0, <4>3, <4>5, <4>6, <4>7, <4>8, GoingFrame DEF AllAre, AvmVisible
    <3>5. CASE CreatePublishes(w, t)
      <4> DEFINE task == "campaign_containers_create"
      <4>0. wpc[w] = "publish" /\ wavm[w] \in Avm
        BY <1>1, <3>0, <3>5 DEF CreatePublishes, Ordered
      <4> PICK a \in Avm : a = wavm[w]
        BY <4>0
      <4>1. /\ UNCHANGED <<command, owner, status, machine>>
            /\ wpc[w] = "publish" /\ wpc'[w] = "ack"
            /\ queue' = [queue EXCEPT ![<<task, a>>] = @ + 1]
        BY <3>5 DEF CreatePublishes, Publish
      <4>3. Mails(a)' = Mails(a) + 1 /\ \A b \in Avm : b # a => Mails(b)' = Mails(b)
        BY <4>1, MailArrives
      <4>4. Mails(a)' > 0
        BY <4>3, MailsCount
      <4>5. /\ \A b \in Avm : queue'[<<"avm_delete", b>>] = queue[<<"avm_delete", b>>]
            /\ \A u \in Testrun : queue'[<<"campaign_avm_create", u>>] = queue[<<"campaign_avm_create", u>>]
        BY <4>1 DEF Message
      <4>6. ASSUME NEW u \in Testrun PROVE Asked(w, u) => Asked(w, u)'
        BY <3>0, <4>1, <4>5 DEF Asked, Seeks
      <4>7. \A b \in Avm : /\ InTest(w, b) <=> b = a
                           /\ ~InTest(w, b)' /\ ~Closes(w, b) /\ ~Closes(w, b)'
        BY <3>0, <4>1 DEF InTest, Closes
      <4>8. ASSUME NEW b \in Avm
            PROVE  /\ Chased(w, b)' => Chased(w, b)
                   /\ InLine(w, b)' <=> InLine(w, b)
                   /\ Needs(w, b)' => Needs(w, b)
        <5>1. CASE b = a
          BY <3>0, <4>1, <4>4, <4>5, <4>7, <5>1 DEF Chased, InLine, Needs
        <5>2. CASE b # a
          BY <3>0, <4>1, <4>3, <4>5, <4>7, <5>2 DEF Chased, InLine, Needs
        <5> QED  BY <5>1, <5>2
      <4>9. \A b \in Avm : Needs(w, b)' => machine'[b] # "none"
        BY <3>0, <4>1, <4>8 DEF Attending, Spared
      <4> QED  BY <3>0, <4>1, <4>6, <4>7, <4>8, <4>9, GoingFrame DEF AllAre, AvmVisible
    <3> QED  BY <3>1, <3>2, <3>3, <3>4, <3>5
  <2>9. CASE CampaignContainersCreate(w)
    <3> PICK a \in Avm : \/ PlayersGet(w, a) \/ PlayersStart(w, a)
                         \/ PlayersReady(w, a) \/ PlayersPublish(w, a)
      BY <2>9 DEF CampaignContainersCreate
    <3>0. /\ Attending(w) /\ wmsg[w] = <<"campaign_containers_create", a>>
          /\ UNCHANGED <<wmsg, command, owner, machine>>
          /\ wpc[w] \in {"get", "output", "ready", "publish"}
      BY <1>1 DEF PlayersGet, PlayersStart, PlayersReady, PlayersPublish, Deleting
    <3>1. InTest(w, a) /\ AvmVisible(a) /\ machine[a] # "none"
      BY <3>0 DEF Attending, Spared, InLine, Needs, InTest
    <3>2. CASE PlayersGet(w, a) \/ PlayersStart(w, a) \/ PlayersReady(w, a)
      <4>1. /\ UNCHANGED queue /\ wpc'[w] \in {"output", "delay", "ready", "publish"}
            /\ \A b \in Avm : AvmVisible(b) => AvmVisible(b)'
        BY <3>1, <3>2 DEF PlayersGet, PlayersStart, PlayersReady, AvmVisible
      <4>2. Still
        BY <3>0, <4>1 DEF Seeks, InTest, Closes
      <4> QED  BY <1>0, <2>2, <3>0, <4>1, <4>2
    <3>3. CASE PlayersPublish(w, a)
      <4> DEFINE task == "campaign_runtest"
      <4>1. /\ UNCHANGED status /\ wpc[w] = "publish" /\ wpc'[w] = "ack"
            /\ queue' = [queue EXCEPT ![<<task, a>>] = @ + 1]
        BY <3>3 DEF PlayersPublish, Publish
      <4>3. Mails(a)' = Mails(a) + 1 /\ \A b \in Avm : b # a => Mails(b)' = Mails(b)
        BY <4>1, MailArrives
      <4>4. Mails(a)' > 0
        BY <4>3, MailsCount
      <4>5. /\ \A b \in Avm : queue'[<<"avm_delete", b>>] = queue[<<"avm_delete", b>>]
            /\ \A u \in Testrun : queue'[<<"campaign_avm_create", u>>] = queue[<<"campaign_avm_create", u>>]
        BY <4>1 DEF Message
      <4>6. ASSUME NEW u \in Testrun PROVE Asked(w, u) => Asked(w, u)'
        BY <3>0, <4>1, <4>5 DEF Asked, Seeks
      <4>7. \A b \in Avm : /\ InTest(w, b) <=> b = a
                           /\ ~InTest(w, b)' /\ ~Closes(w, b) /\ ~Closes(w, b)'
        BY <3>0, <4>1 DEF InTest, Closes
      <4>8. ASSUME NEW b \in Avm
            PROVE  /\ Chased(w, b)' => Chased(w, b)
                   /\ InLine(w, b)' <=> InLine(w, b)
                   /\ Needs(w, b)' => Needs(w, b)
        <5>1. CASE b = a
          BY <3>0, <4>1, <4>4, <4>5, <4>7, <5>1 DEF Chased, InLine, Needs
        <5>2. CASE b # a
          BY <3>0, <4>1, <4>3, <4>5, <4>7, <5>2 DEF Chased, InLine, Needs
        <5> QED  BY <5>1, <5>2
      <4>9. \A b \in Avm : Needs(w, b)' => machine'[b] # "none"
        BY <3>0, <4>1, <4>8 DEF Attending, Spared
      <4> QED  BY <3>0, <4>1, <4>6, <4>7, <4>8, <4>9, GoingFrame DEF AllAre, AvmVisible
    <3> QED  BY <3>2, <3>3
  <2>10. CASE CampaignRuntest(w)
    <3> PICK a \in Avm : \/ TestGets(w, a) \/ TestWaitsForBoot(w, a)
                         \/ TestLinks(w, a) \/ TestRuns(w, a)
                         \/ TestTearsDown(w, a) \/ TestSetsDeleted(w, a)
                         \/ TestReadsStatuses(w, a) \/ TestFinishesCampaign(w, a)
      BY <2>10 DEF CampaignRuntest
    <3>0. ~TestFinishesCampaign(w, a)
      BY DEF TestFinishesCampaign, Going
    <3>1. /\ Attending(w) /\ wmsg[w] = <<"campaign_runtest", a>>
          /\ UNCHANGED <<wmsg, owner, queue, campaign>>
          /\ wpc[w] \in {"get", "boot", "link", "exec", "down", "deleted", "statuses"}
      BY <1>1, <3>0 DEF TestGets, TestWaitsForBoot, TestLinks, TestRuns, TestTearsDown,
                        TestSetsDeleted, TestReadsStatuses, Deleting
    <3>2. Silent /\ campaign = "RUNNING"
      BY <1>0, <3>1 DEF Going
    <3>3. CASE TestGets(w, a) \/ TestWaitsForBoot(w, a)
      <4>1. InTest(w, a) /\ AvmVisible(a)
        BY <3>1, <3>3 DEF TestGets, TestWaitsForBoot, Attending, Spared, InLine, InTest
      <4>2. /\ UNCHANGED <<command, machine, status>>
            /\ wpc[w] \in {"get", "boot"} /\ wpc'[w] \in {"boot", "delay", "link"}
        BY <3>2, <3>3, <4>1 DEF TestGets, TestWaitsForBoot, CampaignVisible
      <4>3. Still
        BY <3>1, <4>2 DEF Seeks, InTest, Closes
      <4> QED  BY <2>2, <3>1, <3>2, <4>2, <4>3 DEF AvmVisible
    <3>4. CASE TestLinks(w, a) \/ (TestRuns(w, a) /\ wpc'[w] # "down")
      <4>1. InTest(w, a) /\ machine[a] # "none"
        BY <3>1, <3>4 DEF TestLinks, TestRuns, Attending, Spared, Needs, InTest
      <4>2. /\ UNCHANGED <<machine, status>>
            /\ wpc[w] \in {"link", "exec"} /\ wpc'[w] \in {"exec", "link"}
        BY <3>4, <4>1 DEF TestLinks, TestRuns
      <4>3. /\ wjob[w] \in Command /\ owner[a] \in Testrun
            /\ \E s \in {"RUNNING", "READY"} : command' = [command EXCEPT ![owner[a]][wjob[w]] = s]
            /\ command[owner[a]][wjob[w]] # "READY"
        BY <3>1, <3>4, <4>1 DEF TestedInv, InOrder, TestLinks, TestRuns
      <4>4. ~AllAre(owner[a], "READY") /\ ~AllAre(owner[a], "READY")'
        <5>1. ~AllAre(owner[a], "READY")
          BY <4>3 DEF AllAre
        <5>2. CASE TestLinks(w, a)
          BY <4>3, <5>2 DEF TestLinks, AllAre
        <5>3. CASE TestRuns(w, a)
          <6>1. wjob[w] < Installs + Tests /\ wpc[w] = "exec"
            BY <3>4, <4>1, <4>2, <5>3 DEF TestRuns
          <6>2. wjob[w] + 1 \in Command /\ wjob[w] + 1 > wjob[w]
            BY <4>3, <6>1, CampaignAssumption DEF Command
          <6>3. command[owner[a]][wjob[w] + 1] = "NULL"
            BY <3>1, <6>1, <6>2 DEF TestedInv, InOrder
          <6> PICK s \in {"RUNNING", "READY"} : command' = [command EXCEPT ![owner[a]][wjob[w]] = s]
            BY <4>3
          <6> DEFINE j == wjob[w] + 1
          <6>4. command'[owner[a]] = [command[owner[a]] EXCEPT ![wjob[w]] = s]
            BY <4>3
          <6>5. command[owner[a]] \in [Command -> {"NULL", "RUNNING", "READY"}] /\ j # wjob[w]
            BY <4>3, <6>2 DEF Command
          <6>6. command'[owner[a]][j] = command[owner[a]][j]
            BY <6>2, <6>4, <6>5
          <6> QED  BY <3>1, <6>2, <6>3, <6>6 DEF AllAre
        <5> QED  BY <3>4, <5>1, <5>2, <5>3
      <4>5. ASSUME NEW t \in Testrun PROVE AllAre(t, "READY")' <=> AllAre(t, "READY")
        <5>1. CASE t = owner[a]
          BY <3>1, <4>4, <5>1 DEF AllAre
        <5>2. CASE t # owner[a]
          BY <4>3, <5>2 DEF AllAre
        <5> QED  BY <5>1, <5>2
      <4>6. \A t \in Testrun : Asked(w, t) => Asked(w, t)'
        BY <3>1, <3>2, <4>2 DEF Asked, Seeks
      <4>7. ASSUME NEW b \in Avm
            PROVE  /\ Chased(w, b)' => Chased(w, b)
                   /\ InLine(w, b)' <=> InLine(w, b)
                   /\ Closes(w, b)' <=> Closes(w, b)
                   /\ Needs(w, b)' => Needs(w, b)
        <5>1. InTest(w, b)' <=> InTest(w, b)
          BY <3>1, <4>2 DEF InTest
        <5> QED  BY <3>1, <3>2, <4>2, <5>1 DEF Chased, InLine, Closes, Needs
      <4>8. \A b \in Avm : Needs(w, b)' => machine'[b] # "none"
        BY <3>1, <4>2, <4>7 DEF Attending, Spared
      <4> QED  BY <3>1, <4>2, <4>5, <4>6, <4>7, <4>8, GoingFrame DEF AvmVisible
    <3>5. CASE TestRuns(w, a) /\ wpc'[w] = "down"
      <4>1. /\ UNCHANGED <<machine, status>> /\ wpc[w] = "exec"
            /\ command' = [command EXCEPT ![owner[a]][wjob[w]] = "READY"]
        BY <3>5 DEF TestRuns
      <4>2. AllAre(owner[a], "READY")' /\ owner'[a] = owner[a] /\ owner[a] \in Testrun
        <5>1. Ordered'
          BY OrderedStep DEF GoingInv
        <5>2. Closes(w, a)'
          BY <3>1, <3>5 DEF Closes
        <5>3. (owner[a] # None /\ AllAre(owner[a], "READY"))'
          BY <3>5, <5>1, <5>2 DEF Ordered
        <5> QED  BY <3>1, <5>3
      <4>3. InTest(w, a) /\ AvmVisible(a)
        BY <3>1, <4>1 DEF Attending, Spared, InLine, InTest
      <4>4. \A b \in Avm : (InTest(w, b) <=> b = a) /\ ~InTest(w, b)'
        BY <3>1, <3>5, <4>1 DEF InTest
      <4>5. ASSUME NEW b \in Avm PROVE Spared(w, b)'
        <5>1. Spared(w, b)
          BY <3>1 DEF Attending
        <5> QED
          BY <3>1, <3>2, <4>1, <4>3, <4>4, <5>1 DEF Spared, Chased, InLine, Needs, Closes, AvmVisible
      <4>6. ASSUME NEW t \in Testrun PROVE OnTheWay(w, t)'
        <5>1. CASE t = owner[a]
          BY <4>2, <5>1 DEF OnTheWay, AllAre
        <5>2. CASE t # owner[a]
          <6>1. OnTheWay(w, t) /\ ~Seeks(w, t)
            BY <3>1 DEF Attending, Seeks
          <6>2. AllAre(t, "READY") => AllAre(t, "READY")'
            BY <4>1, <4>2, <5>2 DEF AllAre
          <6>3. \A b \in Avm : owner[b] = t /\ InLine(w, b) => InLine(w, b)'
            BY <3>2, <4>4, <5>2 DEF InLine
          <6> QED  BY <3>1, <3>2, <6>1, <6>2, <6>3 DEF OnTheWay, Asked
        <5> QED  BY <5>1, <5>2
      <4>7. LastSees(w)'
        BY <3>1, <3>5 DEF LastSees, Closes
      <4> QED  BY <4>5, <4>6, <4>7 DEF Attending
    <3>6. CASE TestTearsDown(w, a) \/ TestSetsDeleted(w, a)
      <4>1. /\ wpc[w] \in {"down", "deleted"} /\ UNCHANGED command
            /\ \A b \in Avm : b # a => machine'[b] = machine[b] /\ status'[b] = status[b]
            /\ owner[a] # None /\ AllAre(owner[a], "READY")
        BY <1>1, <3>1, <3>6 DEF TestTearsDown, TestSetsDeleted, Ordered, Closes
      <4>2. Mails(a) = 0
        <5>1. ~AllAre(owner[a], "NULL")
          BY <4>1, CampaignAssumption DEF AllAre, Command
        <5>2. ~(Mails(a) > 0)
          BY <5>1 DEF TestedInv, Untouched
        <5> QED  BY <5>2, MailsCount
      <4>3. /\ Closes(w, a) /\ (wpc[w] = "down" => wpc'[w] = "deleted")
            /\ wpc[w] = "deleted" => wpc'[w] = "statuses"
        BY <3>1, <3>6, <4>1 DEF TestTearsDown, TestSetsDeleted, Closes, Attending, Spared
      <4>4. \A b \in Avm : ~InTest(w, b) /\ ~InTest(w, b)' /\ (Closes(w, b)' <=> Closes(w, b))
        BY <3>1, <4>1, <4>3 DEF InTest, Closes
      <4>5. \A t \in Testrun : Asked(w, t) => Asked(w, t)'
        BY <3>1, <3>2 DEF Asked, Seeks
      <4>6. ASSUME NEW b \in Avm
            PROVE  /\ Chased(w, b)' => Chased(w, b)
                   /\ InLine(w, b)' <=> InLine(w, b)
                   /\ Needs(w, b)' => Needs(w, b)
                   /\ InLine(w, b) \/ Needs(w, b) => b # a
        BY <3>1, <3>2, <4>2, <4>4 DEF Chased, InLine, Needs
      <4>7. \A b \in Avm : Needs(w, b)' => machine'[b] # "none"
        BY <3>1, <4>1, <4>6 DEF Attending, Spared
      <4>8. \A b \in Avm : InLine(w, b) /\ AvmVisible(b) => AvmVisible(b)'
        BY <4>1, <4>6 DEF AvmVisible
      <4> QED  BY <3>1, <4>1, <4>3, <4>4, <4>5, <4>6, <4>7, <4>8, GoingFrame DEF AllAre
    <3>7. CASE TestReadsStatuses(w, a)
      <4>1. UNCHANGED <<command, machine, status>> /\ wpc[w] = "statuses"
            /\ wpc'[w] = IF CommandStatuses = {"READY"} THEN "finished" ELSE "ack"
        BY <3>7 DEF TestReadsStatuses
      <4>2. \A b \in Avm : ~InTest(w, b) /\ ~InTest(w, b)'
        BY <3>1, <4>1 DEF InTest
      <4>3. ASSUME NEW b \in Avm PROVE Spared(w, b)'
        <5>1. Spared(w, b)
          BY <3>1 DEF Attending
        <5> QED  BY <3>1, <3>2, <4>1, <4>2, <5>1 DEF Spared, Chased, InLine, Needs, Closes, AvmVisible
      <4>4. ASSUME NEW t \in Testrun PROVE OnTheWay(w, t)'
        <5>1. OnTheWay(w, t) /\ ~Seeks(w, t)
          BY <3>1 DEF Attending, Seeks
        <5> QED  BY <3>1, <3>2, <4>1, <4>2, <5>1 DEF OnTheWay, Asked, InLine, AllAre
      <4>5. ASSUME \A t \in Testrun : AllAre(t, "READY") PROVE CommandStatuses = {"READY"}
        <5>1. ASSUME NEW t \in Testrun PROVE Found(t) = {"READY"}
          <6>1. {j \in Command : command[t][j] # "NULL"} = Command
            BY <4>5 DEF AllAre
          <6>2. 1..Installs \subseteq Command /\ 1 \in Command
            BY CampaignAssumption DEF Command
          <6> QED  BY <4>5, <6>1, <6>2 DEF Found, AllAre
        <5> QED  BY <5>1 DEF CommandStatuses
      <4>6. LastSees(w)'
        BY <3>1, <4>1, <4>5 DEF LastSees, AllAre, Closes
      <4> QED  BY <4>3, <4>4, <4>6 DEF Attending
    <3> QED  BY <3>0, <3>3, <3>4, <3>5, <3>6, <3>7
  <2>11. CASE CampaignDelete(w)
    <3>1. /\ wmsg[w] = <<"campaign_delete", None>> /\ wmsg' = wmsg
          /\ wpc[w] \in {"get", "loop", "loop_missing"}
      BY <2>11 DEF CampaignDelete, DeleteReads, DeleteEnds, DeletePublishesAvm, DeleteSetsAvm
    <3>2. CASE DeleteEnds(w)
      BY <1>1, <3>2 DEF DeleteEnds, Ordered, Going
    <3>3. CASE ~DeleteEnds(w)
      <4>1. wpc'[w] \in {"loop", "loop_missing"}
        BY <2>11, <3>1, <3>3 DEF CampaignDelete, DeleteReads, DeletePublishesAvm, DeleteSetsAvm
      <4> QED  BY <3>1, <4>1 DEF Going, Deleting
    <3> QED  BY <3>2, <3>3
  <2>12. CASE AvmDelete(w)
    <3> PICK a \in Avm : AvmDeletes(w, a) \/ AvmSetsDeleted(w, a)
      BY <2>12 DEF AvmDelete
    <3>1. Chased(w, a) /\ UNCHANGED campaign /\ ~Deleting(w)
      BY DEF AvmDeletes, AvmSetsDeleted, Chased, Deleting
    <3> QED  BY <1>1, <3>1 DEF Attending, Spared
  <2> QED
    BY <1>3, <2>1, <2>4, <2>5, <2>6, <2>7, <2>8, <2>9, <2>10, <2>11, <2>12 DEF WorkerStep
<1> QED  BY <1>2, <1>3 DEF Next, OneWorker
--------------------------------------------------------------------------------
\* Before the POST there is nothing.
Blank ==
    campaign = "NONE" => /\ post = "idle" /\ del = "idle"
                         /\ \A m \in Message : queue[m] = 0
                         /\ \A w \in Worker : wpc[w] = "idle"
                         /\ \A a \in Avm : machine[a] = "none"

LEMMA BlankStep == ASSUME TypeOK, Blank, [Next]_vars PROVE Blank'
<1> SUFFICES ASSUME campaign' = "NONE" PROVE Blank'
  BY DEF Blank
<1> USE DEF rows, http, work, At, Goto
<1>1. campaign = "NONE"
  <2>1. CASE Server \/ UNCHANGED vars
    BY <2>1 DEF Server, PostInserts, PostPublishes, DeleteLooksUp, DeletePublishes, DeleteSetsStatus, vars
  <2>2. ASSUME NEW a \in Avm, StackBuilt(a) \/ DeviceBoots(a) PROVE campaign = "NONE"
    BY <2>2 DEF StackBuilt, DeviceBoots
  <2>3. ASSUME NEW w \in Worker, \/ \E m \in Message : Take(w, m)
                                 \/ WorkerStep(w) \/ Redeliver(w) \/ Fail(w)
        PROVE  campaign = "NONE"
    BY <2>3 DEF Take, Redeliver, Fail, WorkerStep, Check, Delay, SetError, Ack, CampaignRun, RunGets,
       RunSetsStatus, RunEnds, RunPublishes, CampaignAvmCreate, CreateGets, CreateChecksQuota,
       CreateInserts, CreateSetsCreating, CreateBuilds, CreatePublishes, CampaignContainersCreate,
       PlayersGet, PlayersStart, PlayersReady, PlayersPublish, CampaignRuntest, TestGets,
       TestWaitsForBoot, TestLinks, TestRuns, TestTearsDown, TestSetsDeleted, TestReadsStatuses,
       TestFinishesCampaign, CampaignDelete, DeleteReads, DeleteEnds, DeletePublishesAvm,
       DeleteSetsAvm, AvmDelete, AvmDeletes, AvmSetsDeleted
  <2> QED  BY <2>1, <2>2, <2>3 DEF Next
<1>2. CASE UNCHANGED vars
  BY <1>1, <1>2 DEF Blank, vars
<1>3. CASE ~UNCHANGED vars
  <2>1. ~(\E w \in Worker : \/ \E m \in Message : Take(w, m)
                            \/ WorkerStep(w) \/ Redeliver(w) \/ Fail(w))
    <3>1. ASSUME NEW w \in Worker, WorkerStep(w) PROVE wpc[w] # "idle"
      BY <3>1 DEF WorkerStep, Check, Delay, SetError, Ack, CampaignRun, RunGets,
       RunSetsStatus, RunEnds, RunPublishes, CampaignAvmCreate, CreateGets, CreateChecksQuota,
       CreateInserts, CreateSetsCreating, CreateBuilds, CreatePublishes, CampaignContainersCreate,
       PlayersGet, PlayersStart, PlayersReady, PlayersPublish, CampaignRuntest, TestGets,
       TestWaitsForBoot, TestLinks, TestRuns, TestTearsDown, TestSetsDeleted, TestReadsStatuses,
       TestFinishesCampaign, CampaignDelete, DeleteReads, DeleteEnds, DeletePublishesAvm,
       DeleteSetsAvm, AvmDelete, AvmDeletes, AvmSetsDeleted, TypeOK, NoMessage, Call
    <3> QED  BY <1>1, <3>1 DEF Blank, Take, Redeliver, Fail
  <2>2. ~(\E a \in Avm : StackBuilt(a) \/ DeviceBoots(a))
    BY <1>1 DEF Blank, StackBuilt, DeviceBoots
  <2>3. ~Server
    BY <1>1 DEF Blank, Server, PostInserts, PostPublishes, DeleteLooksUp, DeletePublishes,
                DeleteSetsStatus, CampaignVisible
  <2> QED  BY <1>3, <2>1, <2>2, <2>3 DEF Next
<1> QED  BY <1>2, <1>3

\* With one worker and no faults, each machine that failed while it stood, or that
\* outlived its campaign, is about to be deleted.
Doomed(a) ==
    \/ queue[<<"avm_delete", a>>] > 0
    \/ \E w \in Worker : wmsg[w] = <<"avm_delete", a>> /\ wpc[w] \in {"check", "get"}

FailedGo(a) ==
    Stands(a) => /\ status[a] = "ERROR" \/ campaign = "DELETED" => Doomed(a)
                 /\ \A w \in Worker :
                       /\ wpc[w] = "error" /\ wmsg[w][2] = a => Doomed(a)
                       /\ Deleting(w) => a \in wtodo[w] \/ Doomed(a)

Unfailed == \A w \in Worker : wpc[w] = "build" /\ wavm[w] \in Avm => status[wavm[w]] = "CREATING"
Posted == \A w \in Worker : Deleting(w) /\ wavm[w] \in Avm => Doomed(wavm[w])

FailedInv == Unfailed /\ Posted /\ \A a \in Avm : FailedGo(a)

LEMMA FailedInit == Init => FailedInv
BY DEF Init, FailedInv, Unfailed, Posted, FailedGo, Stands, Deleting, NoMessage

LEMMA FailedStep ==
    ASSUME OneWorker, MaxFaults = 0, TypeOK, Blank, Marked, OrphanInv, FailedInv, [Next]_vars
    PROVE  FailedInv'
<1> USE DEF rows, http, At, Goto, Rest, Stands
<1> /\ wpc \in [Worker -> Call]
    /\ wmsg \in [Worker -> Message \cup {NoMessage}]
    /\ wavm \in [Worker -> Avm \cup {None}]
    /\ wtodo \in [Worker -> SUBSET (Testrun \cup Avm)]
    /\ status \in [Avm -> {"NONE", "QUEUED", "CREATING", "READY", "DELETING", "DELETED", "ERROR"}]
    /\ machine \in [Avm -> {"none", "building", "up", "booted"}]
    /\ queue \in [Message -> Nat]
    /\ \A a \in Avm : <<"avm_delete", a>> \in Message
  BY DEF TypeOK, Message
<1> None \notin Avm /\ None \notin Testrun /\ \A t \in Testrun : t \notin Avm
  BY CampaignAssumption
\* Only avm_delete itself takes its message.
<1>0. ASSUME \/ UNCHANGED queue
             \/ \E m \in Message : \/ queue' = [queue EXCEPT ![m] = @ + 1]
                                   \/ m[1] # "avm_delete" /\ queue' = [queue EXCEPT ![m] = @ - 1],
             NEW a \in Avm
      PROVE  queue[<<"avm_delete", a>>] > 0 => queue'[<<"avm_delete", a>>] > 0
  BY <1>0
<1>1. CASE \/ Server \/ UNCHANGED vars
           \/ \E a \in Avm : StackBuilt(a) \/ DeviceBoots(a)
  <2>1. \/ UNCHANGED queue
        \/ \E m \in Message : queue' = [queue EXCEPT ![m] = @ + 1]
    BY <1>1 DEF Server, PostInserts, PostPublishes, DeleteLooksUp, DeletePublishes, DeleteSetsStatus,
                StackBuilt, DeviceBoots, vars, Publish, Message
  <2>2. /\ UNCHANGED <<status, wmsg, wpc, wavm, wtodo>>
        /\ campaign' = "DELETED" => campaign = "DELETED"
        /\ \A a \in Avm : machine'[a] # "none" => machine[a] # "none"
    BY <1>1 DEF Server, PostInserts, PostPublishes, DeleteLooksUp, DeletePublishes, DeleteSetsStatus,
                StackBuilt, DeviceBoots, vars, work
  <2>3. \A a \in Avm : Doomed(a) => Doomed(a)'
    BY <1>0, <2>1, <2>2 DEF Doomed
  <2>4. \A a \in Avm : FailedGo(a)'
    BY <2>2, <2>3 DEF FailedInv, FailedGo, Deleting
  <2> QED  BY <2>2, <2>3, <2>4 DEF FailedInv, Unfailed, Posted, Deleting
<1>2. ASSUME NEW w \in Worker,
             \/ \E m \in Message : Take(w, m)
             \/ WorkerStep(w) \/ Redeliver(w) \/ Fail(w)
      PROVE  FailedInv'
  <2>0. \A v \in Worker : v = w
    BY DEF OneWorker
  <2>1. ~Redeliver(w) /\ ~Fail(w)
    BY DEF Redeliver, Fail, TypeOK
  <2>2. \A a \in Avm : Stands(a) => AvmVisible(a)
    BY DEF OrphanInv, Registered
  \* A step that dooms no machine less, and leaves none behind.
  <2>3. ASSUME \A a \in Avm : /\ Doomed(a) => Doomed(a)'
                              /\ machine'[a] # "none" => machine[a] # "none"
                              /\ status'[a] = "ERROR" => status[a] = "ERROR",
               campaign' = "DELETED" => campaign = "DELETED",
               wpc'[w] = "build" /\ wavm'[w] \in Avm => status'[wavm'[w]] = "CREATING",
               \A a \in Avm : wpc'[w] = "error" /\ wmsg'[w][2] = a /\ machine'[a] # "none" => Doomed(a)',
               ~Deleting(w)'
        PROVE  FailedInv'
    <3>1. \A a \in Avm : FailedGo(a)'
      BY <2>0, <2>3 DEF FailedInv, FailedGo
    <3> QED  BY <2>0, <2>3, <3>1 DEF FailedInv, Unfailed, Posted
  <2>4. ASSUME NEW m \in Message, Take(w, m) PROVE FailedInv'
    <3>1. /\ UNCHANGED <<campaign, status, machine>> /\ wpc'[w] = "check" /\ wmsg'[w] = m
          /\ queue' = [queue EXCEPT ![m] = @ - 1] /\ wmsg[w] = NoMessage
      BY <2>4 DEF Take, TypeOK
    <3>2. ASSUME NEW a \in Avm, Doomed(a) PROVE Doomed(a)'
      <4>1. queue[<<"avm_delete", a>>] > 0
        BY <2>0, <3>1, <3>2 DEF Doomed, NoMessage
      <4>2. CASE m = <<"avm_delete", a>>
        BY <3>1, <4>2 DEF Doomed
      <4>3. CASE m # <<"avm_delete", a>>
        BY <3>1, <4>1, <4>3 DEF Doomed
      <4> QED  BY <4>2, <4>3
    <3> QED  BY <2>3, <3>1, <3>2 DEF Deleting
  <2>5. CASE Check(w)
    <3>1. /\ UNCHANGED <<campaign, status, machine, queue, wmsg>> /\ wpc[w] = "check"
          /\ wpc'[w] = IF wmsg[w][2] \in Avm /\ status[wmsg[w][2]] = "DELETED" THEN "ack" ELSE "get"
      BY <2>5 DEF Check
    <3>2. ASSUME NEW a \in Avm, Stands(a), Doomed(a) PROVE Doomed(a)'
      BY <2>0, <2>2, <3>1, <3>2 DEF Doomed, AvmVisible
    <3> QED  BY <2>0, <3>1, <3>2 DEF FailedInv, FailedGo, Unfailed, Posted, Deleting
  <2>6. CASE Delay(w)
    <3>1. /\ UNCHANGED <<campaign, status, machine, wmsg>> /\ wpc[w] = "delay" /\ wpc'[w] = "ack"
          /\ wmsg[w] \in Message /\ queue' = [queue EXCEPT ![wmsg[w]] = @ + 1]
      BY <2>6 DEF Delay, TypeOK
    <3>2. \A a \in Avm : Doomed(a) => Doomed(a)'
      BY <1>0, <2>0, <3>1 DEF Doomed
    <3> QED  BY <2>3, <3>1, <3>2 DEF Deleting
  <2>7. CASE SetError(w)
    <3>1. /\ UNCHANGED <<campaign, machine, queue, wmsg>> /\ wpc[w] = "error" /\ wpc'[w] = "ack"
          /\ \A a \in Avm : status'[a] = "ERROR" => status[a] = "ERROR" \/ wmsg[w][2] = a
      BY <2>7 DEF SetError
    <3>2. \A a \in Avm : Doomed(a) <=> Doomed(a)'
      BY <2>0, <3>1 DEF Doomed
    <3>3. \A a \in Avm : FailedGo(a)'
      BY <2>0, <3>1, <3>2 DEF FailedInv, FailedGo, Deleting
    <3> QED  BY <2>0, <3>1, <3>3 DEF FailedInv, Unfailed, Posted, Deleting
  <2>8. CASE Ack(w)
    <3>0. UNCHANGED <<campaign, status, machine, queue>> /\ wpc[w] = "ack" /\ wpc'[w] = "idle"
      BY <2>8 DEF Ack
    <3>1. \A a \in Avm : Doomed(a) => Doomed(a)'
      BY <2>0, <3>0 DEF Doomed
    <3> QED  BY <2>3, <3>0, <3>1 DEF Deleting
  \* The tasks but avm_delete take no avm_delete away.
  <2>9. ASSUME wmsg' = wmsg, \A a \in Avm : wmsg[w] # <<"avm_delete", a>>,
               \/ UNCHANGED queue
               \/ \E m \in Message : queue' = [queue EXCEPT ![m] = @ + 1]
        PROVE  \A a \in Avm : Doomed(a) => Doomed(a)'
    BY <1>0, <2>0, <2>9 DEF Doomed
  <2>10. CASE CampaignRun(w)
    <3>1. /\ wmsg' = wmsg /\ wmsg[w] = <<"campaign_run", None>>
          /\ UNCHANGED <<status, machine>> /\ wpc'[w] \notin {"build"}
          /\ campaign' = "DELETED" => campaign = "DELETED"
      BY <2>10 DEF CampaignRun, RunGets, RunSetsStatus, RunEnds, RunPublishes
    <3>2. \/ UNCHANGED queue
          \/ \E m \in Message : queue' = [queue EXCEPT ![m] = @ + 1]
      BY <2>10 DEF CampaignRun, RunGets, RunSetsStatus, RunEnds, RunPublishes, Publish, Message
    <3>3. \A a \in Avm : Doomed(a) => Doomed(a)'
      BY <2>9, <3>1, <3>2
    <3> QED  BY <2>3, <3>1, <3>3 DEF Deleting
  <2>11. CASE CampaignAvmCreate(w)
    <3> PICK t \in Testrun : \/ CreateGets(w, t) \/ CreateChecksQuota(w, t)
                             \/ \E a \in Avm : CreateInserts(w, t, a)
                             \/ CreateSetsCreating(w, t) \/ CreateBuilds(w, t)
                             \/ CreatePublishes(w, t)
      BY <2>11 DEF CampaignAvmCreate
    <3>1. wmsg' = wmsg /\ wmsg[w] = <<"campaign_avm_create", t>> /\ campaign' = campaign
      BY DEF CreateGets, CreateChecksQuota, CreateInserts, CreateSetsCreating, CreateBuilds, CreatePublishes
    <3>2. CASE CreateGets(w, t) \/ CreateChecksQuota(w, t) \/ (\E a \in Avm : CreateInserts(w, t, a))
      <4>1. /\ UNCHANGED <<machine, queue>> /\ wpc'[w] # "build"
            /\ \A a \in Avm : status'[a] = "ERROR" => status[a] = "ERROR"
        BY <3>2 DEF CreateGets, CreateChecksQuota, CreateInserts
      <4>2. \A a \in Avm : Doomed(a) => Doomed(a)'
        BY <2>9, <3>1, <4>1
      <4> QED  BY <2>3, <3>1, <4>1, <4>2 DEF Deleting
    <3>3. CASE CreateSetsCreating(w, t)
      <4>1. /\ UNCHANGED <<machine, queue, wavm>>
            /\ wpc'[w] = "build" /\ wavm[w] \in Avm => status'[wavm[w]] = "CREATING"
            /\ \A a \in Avm : status'[a] = "ERROR" => status[a] = "ERROR"
        BY <3>3 DEF CreateSetsCreating
      <4>2. \A a \in Avm : Doomed(a) => Doomed(a)'
        BY <2>9, <3>1, <4>1
      <4> QED  BY <2>3, <3>1, <4>1, <4>2 DEF Deleting
    <3>4. CASE CreateBuilds(w, t)
      <4>1. /\ UNCHANGED <<status, queue, wavm>> /\ wpc[w] = "build" /\ wpc'[w] \in {"publish", "error"}
            /\ \A a \in Avm : machine'[a] # "none" => machine[a] # "none" \/ a = wavm[w]
        BY <3>4 DEF CreateBuilds
      <4>2. \A a \in Avm : Doomed(a) => Doomed(a)'
        BY <2>9, <3>1, <4>1
      <4>3. campaign # "DELETED"
        BY <3>1, <4>1 DEF OrphanInv, BuildsFor
      <4>4. ASSUME NEW a \in Avm, a = wavm[w] PROVE FailedGo(a)'
        <5>1. status[a] = "CREATING"
          BY <4>1, <4>4 DEF FailedInv, Unfailed
        <5> QED  BY <2>0, <3>1, <4>1, <4>3, <4>4, <5>1 DEF FailedGo, Deleting
      <4>5. ASSUME NEW a \in Avm, a # wavm[w] PROVE FailedGo(a)'
        BY <2>0, <3>1, <4>1, <4>2, <4>5 DEF FailedInv, FailedGo, Deleting
      <4> QED  BY <2>0, <3>1, <4>1, <4>4, <4>5 DEF FailedInv, Unfailed, Posted, Deleting
    <3>5. CASE CreatePublishes(w, t)
      <4>1. UNCHANGED <<status, machine>> /\ wpc'[w] = "ack" /\ wpc[w] = "publish"
        BY <3>5 DEF CreatePublishes
      <4>2. UNCHANGED queue \/ \E m \in Message : queue' = [queue EXCEPT ![m] = @ + 1]
        <5>1. CASE wavm[w] \in Avm
          BY <3>5, <5>1 DEF CreatePublishes, Publish, Message
        <5>2. CASE wavm[w] \notin Avm
          <6>1. <<"campaign_containers_create", wavm[w]>> \notin Message
            BY <5>2 DEF Message
          <6> QED  BY <3>5, <6>1 DEF CreatePublishes, Publish
        <5> QED  BY <5>1, <5>2
      <4>3. \A a \in Avm : Doomed(a) => Doomed(a)'
        BY <2>9, <3>1, <4>2
      <4> QED  BY <2>3, <3>1, <4>1, <4>3 DEF Deleting
    <3> QED  BY <3>2, <3>3, <3>4, <3>5
  <2>12. CASE CampaignContainersCreate(w)
    <3> PICK a \in Avm : \/ PlayersGet(w, a) \/ PlayersStart(w, a)
                         \/ PlayersReady(w, a) \/ PlayersPublish(w, a)
      BY <2>12 DEF CampaignContainersCreate
    <3>1. /\ wmsg' = wmsg /\ wmsg[w] = <<"campaign_containers_create", a>>
          /\ UNCHANGED <<campaign, machine>>
          /\ wpc'[w] # "build" /\ (wpc'[w] = "error" => machine[a] = "none")
          /\ \A b \in Avm : status'[b] = "ERROR" => status[b] = "ERROR"
      BY <2>2 DEF PlayersGet, PlayersStart, PlayersReady, PlayersPublish
    <3>2. UNCHANGED queue \/ \E m \in Message : queue' = [queue EXCEPT ![m] = @ + 1]
      BY DEF PlayersGet, PlayersStart, PlayersReady, PlayersPublish, Publish, Message
    <3>3. \A b \in Avm : Doomed(b) => Doomed(b)'
      BY <2>9, <3>1, <3>2
    <3> QED  BY <2>3, <3>1, <3>3 DEF Deleting
  <2>13. CASE CampaignRuntest(w)
    <3> PICK a \in Avm : \/ TestGets(w, a) \/ TestWaitsForBoot(w, a)
                         \/ TestLinks(w, a) \/ TestRuns(w, a)
                         \/ TestTearsDown(w, a) \/ TestSetsDeleted(w, a)
                         \/ TestReadsStatuses(w, a) \/ TestFinishesCampaign(w, a)
      BY <2>13 DEF CampaignRuntest
    <3>1. /\ wmsg' = wmsg /\ wmsg[w] = <<"campaign_runtest", a>> /\ UNCHANGED queue
          /\ wpc[w] # "idle" /\ wpc'[w] # "build" /\ (campaign' = "DELETED" => campaign = "DELETED")
          /\ \A b \in Avm : status'[b] = "ERROR" => status[b] = "ERROR"
          /\ \A b \in Avm : machine'[b] # "none" => machine[b] # "none"
      BY DEF TestGets, TestWaitsForBoot, TestLinks, TestRuns, TestTearsDown, TestSetsDeleted,
             TestReadsStatuses, TestFinishesCampaign
    <3>2. \A b \in Avm : Doomed(b) => Doomed(b)'
      BY <2>9, <3>1
    <3>3. wpc'[w] = "error" /\ machine'[a] # "none" => campaign = "DELETED"
      BY <2>2, <3>1 DEF TestGets, TestWaitsForBoot, TestLinks, TestRuns, TestTearsDown, TestSetsDeleted,
             TestReadsStatuses, TestFinishesCampaign, CampaignVisible, Blank
    <3>4. \A b \in Avm : wpc'[w] = "error" /\ wmsg'[w][2] = b /\ machine'[b] # "none" => Doomed(b)'
      BY <3>1, <3>2, <3>3 DEF FailedInv, FailedGo
    <3> QED  BY <2>3, <3>1, <3>2, <3>4 DEF Deleting
  <2>14. CASE CampaignDelete(w)
    <3>0. wmsg' = wmsg /\ wmsg[w] = <<"campaign_delete", None>> /\ UNCHANGED machine
      BY <2>14 DEF CampaignDelete, DeleteReads, DeleteEnds, DeletePublishesAvm, DeleteSetsAvm
    <3>1. CASE DeleteReads(w)
      <4>1. /\ UNCHANGED <<campaign, status, queue, wavm>> /\ wpc[w] = "get"
            /\ wpc'[w] \in {"loop", "loop_missing"} /\ wtodo'[w] = {a \in Avm : owner[a] # None}
        BY <3>1 DEF DeleteReads
      <4>2. \A a \in Avm : Doomed(a) => Doomed(a)'
        BY <2>9, <3>0, <4>1
      <4>3. \A a \in Avm : Stands(a) => a \in wtodo'[w]
        BY <4>1 DEF OrphanInv, Registered, AvmVisible
      <4>4. \A a \in Avm : FailedGo(a)'
        BY <2>0, <3>0, <4>1, <4>2, <4>3 DEF FailedInv, FailedGo
      <4>5. wavm[w] = None
        BY <4>1 DEF Marked
      <4> QED  BY <2>0, <4>1, <4>4, <4>5 DEF FailedInv, Unfailed, Posted
    <3>2. CASE DeleteEnds(w)
      <4>1. /\ UNCHANGED <<status, queue, wavm>> /\ wtodo[w] = {} /\ Deleting(w)
            /\ wpc'[w] \in {"ack", "error"}
        BY <3>2 DEF DeleteEnds, Deleting
      <4>2. \A a \in Avm : Doomed(a) => Doomed(a)'
        BY <2>9, <3>0, <4>1
      <4>3. \A a \in Avm : Stands(a) => Doomed(a)
        BY <4>1 DEF FailedInv, FailedGo
      <4>4. \A a \in Avm : FailedGo(a)'
        BY <3>0, <4>2, <4>3 DEF FailedGo
      <4> QED  BY <2>0, <3>0, <4>1, <4>4 DEF FailedInv, Unfailed, Posted, Deleting
    <3>3. ASSUME NEW a \in Avm, DeletePublishesAvm(w, a) PROVE FailedInv'
      <4>1. UNCHANGED <<campaign, status, wpc>> /\ Deleting(w) /\ Deleting(w)'
        BY <3>3 DEF DeletePublishesAvm, Deleting
      <4>2. UNCHANGED queue \/ \E m \in Message : queue' = [queue EXCEPT ![m] = @ + 1]
        BY <3>3 DEF DeletePublishesAvm, Publish
      <4>3. \A b \in Avm : Doomed(b) => Doomed(b)'
        BY <2>9, <3>0, <4>2
      <4>4. \/ wtodo' = wtodo /\ wavm'[w] = a /\ Doomed(a)'
            \/ ~Stands(a) /\ wavm' = wavm /\ wtodo'[w] = wtodo[w] \ {a}
        BY <2>2, <3>3 DEF DeletePublishesAvm, Publish, Doomed
      <4>5. \A b \in Avm : FailedGo(b)'
        BY <2>0, <3>0, <4>1, <4>3, <4>4 DEF FailedInv, FailedGo
      <4>6. wpc[w] # "build"
        BY <4>1 DEF Deleting
      <4> QED  BY <2>0, <4>1, <4>3, <4>4, <4>5, <4>6 DEF FailedInv, Unfailed, Posted
    <3>4. ASSUME NEW a \in Avm, DeleteSetsAvm(w, a) PROVE FailedInv'
      <4>1. /\ UNCHANGED <<campaign, queue, wpc>> /\ Deleting(w) /\ Deleting(w)' /\ wavm[w] = a
            /\ wavm'[w] = None /\ wtodo'[w] = wtodo[w] \ {a}
            /\ \A b \in Avm : status'[b] = "ERROR" => status[b] = "ERROR"
        BY <3>4 DEF DeleteSetsAvm, Deleting
      <4>2. \A b \in Avm : Doomed(b) => Doomed(b)'
        BY <2>9, <3>0, <4>1
      <4>3. Doomed(a)
        BY <4>1 DEF FailedInv, Posted
      <4>4. \A b \in Avm : FailedGo(b)'
        BY <2>0, <3>0, <4>1, <4>2, <4>3 DEF FailedInv, FailedGo
      <4>5. wpc[w] # "build"
        BY <4>1 DEF Deleting
      <4> QED  BY <2>0, <4>1, <4>4, <4>5 DEF FailedInv, Unfailed, Posted
    <3> QED  BY <2>14, <3>1, <3>2, <3>3, <3>4 DEF CampaignDelete
  <2>15. CASE AvmDelete(w)
    <3> PICK a \in Avm : AvmDeletes(w, a) \/ AvmSetsDeleted(w, a)
      BY <2>15 DEF AvmDelete
    <3>1. /\ wmsg' = wmsg /\ wmsg[w] = <<"avm_delete", a>> /\ UNCHANGED <<campaign, queue>>
          /\ wpc'[w] \in {"deleted", "error", "ack"}
          /\ \A b \in Avm : status'[b] = "ERROR" => status[b] = "ERROR"
          /\ \A b \in Avm : machine'[b] # "none" => machine[b] # "none"
          /\ wpc[w] \in {"get", "deleted"} /\ (wpc[w] = "get" => machine'[a] = "none")
      BY <2>2 DEF AvmDeletes, AvmSetsDeleted
    <3>2. ASSUME NEW b \in Avm, machine'[b] # "none", Doomed(b) PROVE Doomed(b)'
      BY <2>0, <3>1, <3>2 DEF Doomed
    <3>3. wpc'[w] = "error" => machine'[a] = "none"
      BY <2>2, <3>1 DEF AvmDeletes, AvmSetsDeleted
    <3>4. \A b \in Avm : FailedGo(b)'
      BY <2>0, <3>1, <3>2, <3>3 DEF FailedInv, FailedGo, Deleting
    <3> QED  BY <2>0, <3>1, <3>4 DEF FailedInv, Unfailed, Posted, Deleting
  <2> QED
    BY <1>2, <2>1, <2>4, <2>5, <2>6, <2>7, <2>8, <2>10, <2>11, <2>12, <2>13, <2>14, <2>15 DEF WorkerStep
<1> QED  BY <1>1, <1>2 DEF Next

\* Nothing is on its way: no message, no handler, no worker at work.
Quiet == /\ post = "done" /\ del = "idle"
         /\ \A m \in Message : queue[m] = 0
         /\ \A w \in Worker : wpc[w] = "idle"

RestsOver == Quiet => campaign \in {"READY", "DELETING", "DELETED"}
RestsClean == Quiet => \A a \in Avm : ~Stands(a)

\* With one worker and no faults, a campaign that has test runs never comes to rest
\* before it is READY or was deleted: some message or worker is still on with it
\* (tasks.py campaign_run to campaign_runtest). It is what CampaignEnds needs besides
\* fairness.
THEOREM RestsWhenOver ==
    ASSUME OneWorker, Worker # {}, MaxFaults = 0, Testrun # {}
    PROVE  Spec => []RestsOver
<1> DEFINE Inv == Known /\ Marked /\ OrphanInv /\ CountInv /\ TestedInv /\ GoingInv /\ Blank
<1>1. Init => Inv
  <2>1. Init => Blank
    BY DEF Init, Blank
  <2>2. Init => \A w \in Worker : ~Going(w)
    BY DEF Init, Going
  <2> QED  BY <2>1, <2>2, OrphanInit, QuotaInit, CountInit, TestedInit, OrderedInit DEF QuotaInv, GoingInv
<1>2. TypeOK /\ CountInv => OneMachine
  BY OnlyOneMachine DEF TypeOK
<1>3. TypeOK /\ TypeOK' /\ Inv /\ [Next]_vars => Inv'
  <2> SUFFICES ASSUME TypeOK, TypeOK', Inv, [Next]_vars PROVE Inv'
    OBVIOUS
  <2>1. Known' /\ Marked' /\ OrphanInv' /\ CountInv' /\ Blank'
    BY OrphanStep, KnownStep, MarkedStep, CountStep, OneIsFinite, BlankStep
  <2>2. OneMachine /\ OneMachine'
    <3>1. OneMachine
      BY <1>2
    <3>2. faults = 0 /\ faults' = 0
      BY DEF TypeOK
    <3>3. TypeOK' /\ CountInv' /\ (faults = 0)' => OneMachine'
      BY OnlyOneMachine, PTL
    <3> QED  BY <2>1, <3>1, <3>2, <3>3
  <2>3. TestedInv'
    BY <2>2, TestedStep DEF OrphanInv
  <2>4. Ordered'
    BY OrderedStep DEF GoingInv
  <2>5. ASSUME NEW w \in Worker, Going(w)' PROVE Attending(w)'
    BY <2>2, <2>5, GoingStep DEF OrphanInv
  <2> QED  BY <2>1, <2>3, <2>4, <2>5 DEF GoingInv
<1>4. TypeOK /\ Inv => RestsOver
  <2> SUFFICES ASSUME TypeOK, Inv, Quiet PROVE campaign \in {"READY", "DELETING", "DELETED"}
    BY DEF RestsOver
  <2>1. campaign # "NONE"
    BY DEF Quiet, Blank
  <2>2. campaign # "QUEUED"
    BY DEF Quiet, GoingInv, Ordered, RunAhead, Message
  <2>3. campaign # "RUNNING"
    <3> SUFFICES ASSUME campaign = "RUNNING" PROVE FALSE
      OBVIOUS
    <3> PICK w \in Worker : TRUE
      OBVIOUS
    <3>1. Attending(w) /\ wpc[w] = "idle"
      BY DEF Quiet, Going, Deleting, GoingInv
    <3>2. ASSUME NEW t \in Testrun PROVE AllAre(t, "READY")
      <4>1. \A a \in Avm : Mails(a) = 0 /\ ~InTest(w, a)
        BY <3>1 DEF Quiet, Mails, InTest, Message
      <4>2. ~Asked(w, t)
        BY <3>1 DEF Quiet, Asked, Seeks, Message
      <4> QED  BY <3>1, <4>1, <4>2 DEF Attending, OnTheWay, InLine
    <3> QED  BY <3>1, <3>2 DEF Attending, LastSees, Closes
  <2> QED  BY <2>1, <2>2, <2>3 DEF TypeOK
<1> HIDE DEF Inv
<1> QED  BY TypeCorrect, <1>1, <1>3, <1>4, PTL DEF Spec

\* With one worker and no faults, no machine stands when everything is at rest,
\* whenever the campaign was deleted: the slot of the quota is free again.
THEOREM NothingLeft == ASSUME OneWorker, MaxFaults = 0 PROVE Spec => []RestsClean
<1> DEFINE Inv == Known /\ Marked /\ OrphanInv /\ FailedInv /\ Blank
<1>1. Init => Inv
  <2>1. Init => Blank
    BY DEF Init, Blank
  <2> QED  BY <2>1, OrphanInit, QuotaInit, FailedInit DEF QuotaInv
<1>2. TypeOK /\ Inv /\ [Next]_vars => Inv'
  BY OrphanStep, KnownStep, MarkedStep, FailedStep, BlankStep
<1>3. TypeOK /\ Inv /\ FewLeaks => RestsClean
  <2> SUFFICES ASSUME TypeOK, Inv, FewLeaks, Quiet, NEW a \in Avm, Stands(a) PROVE FALSE
    BY DEF RestsClean
  <2>1. ~Mail(a) /\ ~Doomed(a)
    BY DEF Quiet, Mail, Doomed, Message
  <2>2. status[a] # "ERROR"
    BY <2>1 DEF FailedInv, FailedGo
  <2>3. a \in Leaked
    <3>1. \A w \in Worker : wmsg[w] = <<"none", None>>
      BY DEF Quiet, TypeOK, NoMessage
    <3>2. ~Held(a)
      BY <3>1, CampaignAssumption DEF Held
    <3> QED  BY <2>1, <2>2, <3>2 DEF Leaked, Safe, Stands
  <2>4. Cardinality(Leaked) = 0 /\ IsFiniteSet(Leaked)
    <3>1. IsFiniteSet(Leaked)
      BY CampaignAssumption, FS_Subset DEF Leaked
    <3>2. Cardinality(Leaked) \in Nat /\ Cardinality(Leaked) <= 0
      BY <3>1, FS_CardinalityType DEF FewLeaks, TypeOK
    <3> QED  BY <3>1, <3>2
  <2> QED  BY <2>3, <2>4, FS_EmptySet
<1> HIDE DEF Inv
<1> QED  BY TypeCorrect, LeaksAreFaults, <1>1, <1>2, <1>3, PTL DEF Spec
================================================================================
