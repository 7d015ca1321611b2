------------------------ MODULE CommandLifecycle_proofs ------------------------
(* Theorems about CommandLifecycle, for any number of commands, APKs, workers   *)
(* and faults.                                                                  *)
(*                                                                              *)
(* The argument: a command is in one place, the broker or the hands of one      *)
(* worker (OneCopy), so nobody else sets RUNNING what this worker has recorded  *)
(* the output of (Recorded), nobody else uninstalls for it (KeptInv), and what  *)
(* it lets go of has its outcome, or is obsolete (RunningIsOnItsWay).           *)
EXTENDS CommandLifecycle, TLAPS

USE CommandAssumption

LEMMA TypeInit == Init => TypeOK
BY DEF Init, TypeOK, Status, Calls

LEMMA TypeStep == TypeOK /\ [Next]_vars => TypeOK'
<1> SUFFICES ASSUME TypeOK, [Next]_vars PROVE TypeOK'
  OBVIOUS
<1> USE DEF TypeOK, Status, Calls, around, row, work
<1>1. ASSUME NEW c \in Command, AskChecks(c) \/ Handler(c) \/ Abort(c) PROVE TypeOK'
  <2> USE DEF Ask
  <2>1. CASE AskChecks(c)     BY <2>1 DEF AskChecks
  <2>2. CASE AskPublishes(c)  BY <2>2 DEF AskPublishes
  <2>3. CASE AskInserts(c)    BY <2>3 DEF AskInserts
  <2>4. CASE Abort(c)         BY <2>4 DEF Abort, Trouble
  <2> QED  BY <1>1, <2>1, <2>2, <2>3, <2>4 DEF Handler
<1>2. CASE MachineGoes
  BY <1>2 DEF MachineGoes
<1>3. ASSUME NEW x \in Apk, ApkGoes(x) PROVE TypeOK'
  BY <1>3 DEF ApkGoes
<1>4. ASSUME NEW w \in Worker, NEW c \in Command,
             Take(w, c) \/ Check(w, c) \/ SetError(w, c) \/ Redeliver(w, c) \/ Fail(w, c)
      PROVE  TypeOK'
  <2> USE DEF At, Goto, Hand
  <2>1. CASE Take(w, c)       BY <2>1 DEF Take
  <2>2. CASE Check(w, c)      BY <2>2 DEF Check
  <2>3. CASE SetError(w, c)   BY <2>3 DEF SetError, Update
  <2>4. CASE Redeliver(w, c)  BY <2>4 DEF Redeliver, Trouble
  <2>5. CASE Fail(w, c)
    <3>1. installed' \in Apk \cup {None}
      BY <2>5 DEF Fail, Install
    <3> QED  BY <2>5, <3>1 DEF Fail, Trouble
  <2> QED  BY <1>4, <2>1, <2>2, <2>3, <2>4, <2>5
<1>5. ASSUME NEW w \in Worker, NEW c \in Command, Task(w, c) PROVE TypeOK'
  <2> USE DEF At, Goto, Update
  <2>1. CASE Get(w, c)         BY <2>1 DEF Get
  <2>2. CASE SetRunning(w, c)  BY <2>2 DEF SetRunning
  <2>3. CASE Uninstall(w, c)   BY <2>3 DEF Uninstall
  <2>4. CASE ExecuteInstall(w, c)
    <3>1. installed' \in Apk \cup {None}
      <4>1. apkOf[c] \in Apk
        BY <2>4 DEF ExecuteInstall, Install
      <4>2. installed' = apkOf[c] \/ installed' = installed
        BY <2>4 DEF ExecuteInstall
      <4> QED  BY <4>1, <4>2
    <3>2. /\ wpc' \in [Worker -> Calls \cup {"idle", "check", "error", "ack"}]
          /\ success' \in [Worker -> BOOLEAN]
          /\ wcmd' = wcmd
      BY <2>4 DEF ExecuteInstall, Ran
    <3> QED  BY <2>4, <3>1, <3>2 DEF ExecuteInstall
  <2>5. CASE ExecuteTest(w, c)  BY <2>5 DEF ExecuteTest, Ran
  <2>6. CASE Record(w, c)       BY <2>6 DEF Record
  <2>7. CASE SetReady(w, c)     BY <2>7 DEF SetReady
  <2> QED  BY <1>5, <2>1, <2>2, <2>3, <2>4, <2>5, <2>6, <2>7 DEF Task
<1>6. ASSUME NEW w \in Worker, Ack(w) PROVE TypeOK'
  BY <1>6 DEF Ack, Hand
<1>7. CASE UNCHANGED vars
  BY <1>7 DEF vars
<1> QED  BY <1>1, <1>2, <1>3, <1>4, <1>5, <1>6, <1>7 DEF Next, WorkerStep

\* Every variable stays within its type.
THEOREM TypeCorrect == Spec => []TypeOK
BY TypeInit, TypeStep, PTL DEF Spec

--------------------------------------------------------------------------------
(* A command is in one place.                                                   *)

Asked(c) == asking[c] \in {"insert", "done"}

OneCopy ==
    /\ \A c \in Command : queue[c] > 0 => /\ queue[c] = 1 /\ Asked(c)
                                          /\ \A w \in Worker : wcmd[w] # c
    /\ \A w \in Worker : wcmd[w] \in Command => Asked(wcmd[w])
    /\ \A v, w \in Worker : wcmd[v] = wcmd[w] /\ wcmd[v] \in Command => v = w
    /\ \A w \in Worker : wpc[w] # "idle" => wcmd[w] \in Command

LEMMA CopyInit == Init => OneCopy
BY DEF Init, OneCopy

LEMMA CopyStep == TypeOK /\ OneCopy /\ [Next]_vars => OneCopy'
<1> SUFFICES ASSUME TypeOK, OneCopy, [Next]_vars PROVE OneCopy'
  OBVIOUS
<1> USE DEF TypeOK, OneCopy, Asked, work
<1>1. CASE UNCHANGED <<queue, work, asking>>
  BY <1>1
<1>2. ASSUME NEW c \in Command, AskChecks(c) \/ AskInserts(c) \/ Abort(c) PROVE OneCopy'
  <2>1. asking' \in [Command -> {"no", "publish", "insert", "done"}]
    BY <1>2, TypeStep
  <2>2. /\ UNCHANGED <<queue, work>>
        /\ \A d \in Command : Asked(d) => Asked(d)'
    BY <1>2 DEF AskChecks, AskInserts, Abort, Ask
  <2> QED  BY <2>2
<1>3. ASSUME NEW c \in Command, AskPublishes(c) PROVE OneCopy'
  BY <1>3 DEF AskPublishes, Ask
<1>4. ASSUME NEW w \in Worker, NEW c \in Command, Take(w, c) PROVE OneCopy'
  BY <1>4 DEF Take, Hand
<1>5. ASSUME NEW w \in Worker, NEW c \in Command, Redeliver(w, c) PROVE OneCopy'
  BY <1>5 DEF Redeliver, Hand
<1>6. ASSUME NEW w \in Worker, Ack(w) PROVE OneCopy'
  BY <1>6 DEF Ack, Hand
<1>7. ASSUME NEW w \in Worker, NEW c \in Command, WorkerStep(w, c) \/ Fail(w, c) PROVE OneCopy'
  <2>1. UNCHANGED <<queue, wcmd, asking>> /\ wcmd[w] = c
    BY <1>7 DEF WorkerStep, Task, Fail, Check, SetError, Get, SetRunning, Uninstall,
                ExecuteInstall, ExecuteTest, Record, SetReady, At, Goto, Ran
  <2>2. \A v \in Worker : v # w => wpc'[v] = wpc[v]
    BY <1>7 DEF WorkerStep, Task, Fail, Check, SetError, Get, SetRunning, Uninstall,
                ExecuteInstall, ExecuteTest, Record, SetReady, At, Goto, Ran
  <2> QED  BY <2>1, <2>2
<1>8. CASE MachineGoes \/ \E x \in Apk : ApkGoes(x)
  BY <1>1, <1>8 DEF MachineGoes, ApkGoes
<1>9. CASE UNCHANGED vars
  BY <1>1, <1>9 DEF vars
<1> QED  BY <1>2, <1>3, <1>4, <1>5, <1>6, <1>7, <1>8, <1>9 DEF Next, Handler

--------------------------------------------------------------------------------
(* The output of a command is there before it turns READY.                      *)

Recorded == \A w \in Worker :
    wpc[w] = "ready" /\ status[wcmd[w]] = "RUNNING" => output[wcmd[w]]

LEMMA RecordedInit == Init => Recorded
BY DEF Init, Recorded

LEMMA RecordedStep == TypeOK /\ OneCopy /\ Recorded /\ [Next]_vars => Recorded'
<1> SUFFICES ASSUME TypeOK, OneCopy, Recorded, [Next]_vars,
                    NEW v \in Worker, wpc'[v] = "ready", status'[wcmd'[v]] = "RUNNING"
             PROVE  output'[wcmd'[v]]
  BY DEF Recorded
<1> USE DEF TypeOK, Recorded, work, row
<1>1. CASE UNCHANGED <<status, output, work>>
  BY <1>1
<1>2. ASSUME NEW c \in Command, AskChecks(c) \/ Handler(c) \/ Abort(c)
      PROVE  output'[wcmd'[v]]
  <2>1. wcmd[v] \in Command
    BY <1>2 DEF OneCopy, AskChecks, Handler, AskPublishes, AskInserts, Abort
  <2>2. CASE AskInserts(c)
    BY <2>1, <2>2 DEF AskInserts
  <2> QED  BY <1>1, <1>2, <2>2 DEF AskChecks, Handler, AskPublishes, Abort
<1>3. ASSUME NEW w \in Worker, NEW c \in Command, Take(w, c) PROVE output'[wcmd'[v]]
  BY <1>3 DEF Take, Hand
<1>4. ASSUME NEW w \in Worker, NEW c \in Command, Redeliver(w, c) PROVE output'[wcmd'[v]]
  BY <1>4 DEF Redeliver, Hand
<1>5. ASSUME NEW w \in Worker, Ack(w) PROVE output'[wcmd'[v]]
  BY <1>5 DEF Ack, Hand
<1>6. ASSUME NEW w \in Worker, NEW c \in Command, WorkerStep(w, c) \/ Fail(w, c)
      PROVE  output'[wcmd'[v]]
  <2>1. /\ wcmd' = wcmd /\ wcmd[w] = c
        /\ v # w => wpc[v] = "ready" /\ wcmd[v] \in Command /\ wcmd[v] # c
    BY <1>6 DEF OneCopy, WorkerStep, Task, Fail, Check, SetError, Get, SetRunning, Uninstall,
                ExecuteInstall, ExecuteTest, Record, SetReady, At, Goto, Ran
  <2>2. \A d \in Command : d # c => status'[d] = status[d] /\ output'[d] = output[d]
    BY <1>6 DEF WorkerStep, Task, Fail, Check, SetError, Get, SetRunning, Uninstall,
                ExecuteInstall, ExecuteTest, Record, SetReady, Update
  <2>3. CASE v # w
    BY <2>1, <2>2, <2>3
  <2>4. CASE v = w
    <3>1. Record(w, c)
      BY <1>6, <2>4 DEF WorkerStep, Task, Fail, Check, SetError, Get, SetRunning,
                Uninstall, ExecuteInstall, ExecuteTest, SetReady, At, Goto, Ran
    <3> QED  BY <2>1, <2>4, <3>1 DEF Record
  <2> QED  BY <2>3, <2>4
<1>7. CASE MachineGoes \/ \E x \in Apk : ApkGoes(x)
  BY <1>1, <1>7 DEF MachineGoes, ApkGoes
<1>8. CASE UNCHANGED vars
  BY <1>1, <1>8 DEF vars
<1> QED  BY <1>2, <1>3, <1>4, <1>5, <1>6, <1>7, <1>8 DEF Next

LEMMA ReadyStep ==
    ASSUME TypeOK, Recorded, [Next]_vars, NEW c \in Command,
           status[c] = "RUNNING", status'[c] = "READY"
    PROVE  output'[c]
<1> USE DEF row
<1>1. status' # status
  OBVIOUS
<1>2. PICK d \in Command : \/ AskInserts(d)
                           \/ \E w \in Worker : SetError(w, d) \/ SetRunning(w, d)
                                                  \/ SetReady(w, d)
  <2>1. CASE \E e \in Command : AskChecks(e) \/ Handler(e) \/ Abort(e)
    BY <1>1, <2>1 DEF AskChecks, Handler, AskPublishes, Abort
  <2>2. CASE MachineGoes \/ \E x \in Apk : ApkGoes(x)
    BY <1>1, <2>2 DEF MachineGoes, ApkGoes
  <2>3. ASSUME NEW w \in Worker, NEW e \in Command, Take(w, e) \/ Redeliver(w, e) \/ Fail(w, e)
        PROVE  FALSE
    BY <1>1, <2>3 DEF Take, Redeliver, Fail
  <2>4. ASSUME NEW w \in Worker, NEW e \in Command, WorkerStep(w, e)
        PROVE  SetError(w, e) \/ SetRunning(w, e) \/ SetReady(w, e)
    BY <1>1, <2>4 DEF WorkerStep, Task, Check, Get, Uninstall, ExecuteInstall, ExecuteTest, Record
  <2>5. CASE (\E w \in Worker : Ack(w)) \/ UNCHANGED vars
    BY <1>1, <2>5 DEF Ack, vars
  <2> QED  BY <2>1, <2>2, <2>3, <2>4, <2>5 DEF Next
<1> USE DEF TypeOK
<1>3. \E w \in Worker : SetReady(w, c)
  BY <1>2 DEF AskInserts, SetError, SetRunning, SetReady, Update
<1> QED  BY <1>3 DEF SetReady, Recorded, At

\* A client that polls a RUNNING command until it is READY gets the output in the
\* same answer (command_status), whatever was delivered twice before.
THEOREM OutputAlwaysWithReady == Spec => OutputWithReady
<1> DEFINE Inv == TypeOK /\ OneCopy /\ Recorded
<1>1. Init => Inv
  BY TypeInit, CopyInit, RecordedInit
<1>2. Inv /\ [Next]_vars => Inv'
  BY TypeStep, CopyStep, RecordedStep
<1>3. Inv /\ [Next]_vars =>
        [\A c \in Command : status[c] = "RUNNING" /\ status'[c] = "READY" => output'[c]]_vars
  BY ReadyStep
<1> HIDE DEF Inv
<1> QED  BY <1>1, <1>2, <1>3, PTL DEF Spec, OutputWithReady
--------------------------------------------------------------------------------
(* The only install there is leaves its APK on the machine.                     *)

\* No install but c was asked for.
Alone(c) == Install(c) /\ \A d \in Command \ {c} : Install(d) => asking[d] = "no"

\* What the worker that has c in hand knows of the machine.
OwnInstall(w, c) == wcmd[w] = c =>
    /\ wpc[w] \in {"uninstall", "execute"} => status[c] # "READY"
    /\ wpc[w] = "record" => IF success[w] THEN installed = apkOf[c] ELSE status[c] # "READY"
    /\ wpc[w] = "ready" => installed = apkOf[c]

Kept(c) == Alone(c) =>
    /\ status[c] = "READY" => installed = apkOf[c]
    /\ \A w \in Worker : OwnInstall(w, c)

KeptInv == /\ \A w \in Worker : wpc[w] = "uninstall" => Install(wcmd[w])
           /\ \A c \in Command : Kept(c)

LEMMA KeptInit == Init => KeptInv
BY DEF Init, KeptInv, Kept, OwnInstall

LEMMA AloneBefore ==
    ASSUME TypeOK, [Next]_vars, NEW c \in Command, Alone(c)'
    PROVE  Alone(c) /\ apkOf' = apkOf
<1>1. ASSUME NEW d \in Command, AskChecks(d) \/ Handler(d) \/ Abort(d)
      PROVE  apkOf' = apkOf /\ \A e \in Command : asking'[e] = "no" => asking[e] = "no"
  BY <1>1 DEF TypeOK, around, Handler, AskChecks, AskPublishes, AskInserts, Abort, Ask
<1>2. ASSUME NEW w \in Worker, NEW d \in Command, WorkerStep(w, d)
      PROVE  UNCHANGED <<apkOf, asking>>
  BY <1>2 DEF around, WorkerStep, Task, Check, SetError, Get, SetRunning, Uninstall,
              ExecuteInstall, ExecuteTest, Record, SetReady
<1>3. ASSUME NEW w \in Worker, NEW d \in Command,
             Take(w, d) \/ Redeliver(w, d) \/ Fail(w, d)
      PROVE  UNCHANGED <<apkOf, asking>>
  BY <1>3 DEF around, Take, Redeliver, Fail
<1>4. ASSUME MachineGoes \/ (\E x \in Apk : ApkGoes(x)) \/ UNCHANGED vars
      PROVE  UNCHANGED <<apkOf, asking>>
  BY <1>4 DEF around, MachineGoes, ApkGoes, vars
<1>5. ASSUME NEW w \in Worker, Ack(w) PROVE UNCHANGED <<apkOf, asking>>
  BY <1>5 DEF around, Ack
<1>6. apkOf' = apkOf /\ \A e \in Command : asking'[e] = "no" => asking[e] = "no"
  BY <1>1, <1>2, <1>3, <1>4, <1>5 DEF Next
<1> QED  BY <1>6 DEF Alone, Install

LEMMA KeptStep == TypeOK /\ OneCopy /\ KeptInv /\ [Next]_vars => KeptInv'
<1> SUFFICES ASSUME TypeOK, OneCopy, KeptInv, [Next]_vars PROVE KeptInv'
  OBVIOUS
<1>1. ASSUME NEW w \in Worker, wpc'[w] = "uninstall" PROVE Install(wcmd[w])'
  <2> USE <1>1 DEF TypeOK, KeptInv, Install, around, work
  <2>1. CASE UNCHANGED <<apkOf, work>>
    BY <2>1
  <2>2. ASSUME NEW v \in Worker, NEW c \in Command, Take(v, c) \/ Redeliver(v, c) \/ Fail(v, c)
        PROVE  Install(wcmd[w])'
    BY <2>2 DEF Take, Redeliver, Fail, Hand, Goto
  <2>3. ASSUME NEW v \in Worker, NEW c \in Command, WorkerStep(v, c) PROVE Install(wcmd[w])'
    BY <2>3 DEF WorkerStep, Task, Check, SetError, Get, SetRunning, Uninstall,
                ExecuteInstall, ExecuteTest, Record, SetReady, At, Goto, Ran
  <2>4. ASSUME NEW v \in Worker, Ack(v) PROVE Install(wcmd[w])'
    BY <2>4 DEF Ack, Hand
  <2> QED  BY <2>1, <2>2, <2>3, <2>4 DEF Next, vars, Handler, AskChecks, AskPublishes,
              AskInserts, Abort, MachineGoes, ApkGoes
<1>2. ASSUME NEW c \in Command, Alone(c)'
      PROVE  /\ status'[c] = "READY" => installed' = apkOf'[c]
             /\ \A w \in Worker : OwnInstall(w, c)'
  <2>0. /\ Alone(c) /\ apkOf' = apkOf /\ Kept(c)
        /\ \A w \in Worker : wcmd[w] \in Command /\ Install(wcmd[w]) => wcmd[w] = c
        /\ c # None
    BY <1>2, AloneBefore DEF KeptInv, OneCopy, Alone, Asked
  <2> USE DEF TypeOK, Kept, OwnInstall, around, row, work
  <2>1. CASE UNCHANGED <<installed, status, work>>
    BY <2>0, <2>1
  <2>2. ASSUME NEW d \in Command, AskInserts(d)
        PROVE  /\ status'[c] = "READY" => installed' = apkOf'[c]
               /\ \A w \in Worker : OwnInstall(w, c)'
    BY <2>0, <2>2 DEF AskInserts
  <2>3. ASSUME NEW v \in Worker, NEW d \in Command, Take(v, d) \/ Redeliver(v, d)
        PROVE  /\ status'[c] = "READY" => installed' = apkOf'[c]
               /\ \A w \in Worker : OwnInstall(w, c)'
    BY <2>0, <2>3 DEF Take, Redeliver, Hand
  <2>4. ASSUME NEW v \in Worker, Ack(v)
        PROVE  /\ status'[c] = "READY" => installed' = apkOf'[c]
               /\ \A w \in Worker : OwnInstall(w, c)'
    BY <2>0, <2>4 DEF Ack, Hand
  <2>5. ASSUME NEW v \in Worker, NEW d \in Command, d # c, WorkerStep(v, d) \/ Fail(v, d)
        PROVE  /\ status'[c] = "READY" => installed' = apkOf'[c]
               /\ \A w \in Worker : OwnInstall(w, c)'
    <3>1. wcmd[v] = d /\ ~Install(d) /\ wpc[v] # "uninstall"
      BY <2>0, <2>5 DEF KeptInv, WorkerStep, Task, Check, SetError, Get, SetRunning, Uninstall,
                ExecuteInstall, ExecuteTest, Record, SetReady, Fail, At
    <3>2. /\ installed' = installed /\ status'[c] = status[c] /\ wcmd' = wcmd
          /\ \A w \in Worker : w # v => wpc'[w] = wpc[w] /\ success'[w] = success[w]
      BY <2>5, <3>1 DEF WorkerStep, Task, Check, SetError, Get, SetRunning, Uninstall, Update,
                ExecuteInstall, ExecuteTest, Record, SetReady, Fail, At, Goto, Ran
    <3> QED  BY <2>0, <2>5, <3>1, <3>2
  <2>6. ASSUME NEW v \in Worker, WorkerStep(v, c) \/ Fail(v, c)
        PROVE  /\ status'[c] = "READY" => installed' = apkOf'[c]
               /\ \A w \in Worker : OwnInstall(w, c)'
    <3>1. /\ wcmd[v] = c /\ wcmd' = wcmd /\ Install(c)
          /\ \A w \in Worker : w # v => wcmd[w] # c
      BY <2>0, <2>6 DEF OneCopy, Alone, WorkerStep, Task, Check, SetError, Get, SetRunning,
                Uninstall, ExecuteInstall, ExecuteTest, Record, SetReady, Fail, At, Goto, Ran
    <3>2. SUFFICES /\ status'[c] = "READY" => installed' = apkOf'[c]
                   /\ OwnInstall(v, c)'
      BY <3>1
    <3>3. CASE Check(v, c) \/ SetError(v, c) \/ Get(v, c) \/ SetRunning(v, c)
      BY <2>0, <3>1, <3>3 DEF Check, SetError, Get, SetRunning, At, Goto, Update
    <3>4. CASE Uninstall(v, c)
      BY <2>0, <3>1, <3>4 DEF Uninstall, At, Goto
    <3>5. CASE ExecuteInstall(v, c)
      BY <2>0, <3>1, <3>5 DEF ExecuteInstall, At, Goto, Ran
    <3>6. CASE Record(v, c) \/ SetReady(v, c)
      BY <2>0, <3>1, <3>6 DEF Record, SetReady, At, Goto, Update
    <3>7. CASE Fail(v, c)
      BY <2>0, <3>1, <3>7 DEF Fail, At, Goto
    <3> QED  BY <2>6, <3>1, <3>3, <3>4, <3>5, <3>6, <3>7 DEF WorkerStep, Task, ExecuteTest
  <2> QED  BY <2>1, <2>2, <2>3, <2>4, <2>5, <2>6 DEF Next, vars, Handler, AskChecks,
              AskPublishes, Abort, MachineGoes, ApkGoes
<1> QED  BY <1>1, <1>2 DEF KeptInv, Kept

\* What a READY install put on the machine is there (apk_install), unless another
\* install was asked for.
THEOREM ReadyStaysInstalled == Spec => []ReadyIsInstalled
<1> DEFINE Inv == TypeOK /\ OneCopy /\ KeptInv
<1>1. Init => Inv
  BY TypeInit, CopyInit, KeptInit
<1>2. Inv /\ [Next]_vars => Inv'
  BY TypeStep, CopyStep, KeptStep
<1>3. Inv => ReadyIsInstalled
  <2> SUFFICES ASSUME Inv, NEW c \in Command, Install(c), status[c] = "READY",
                      \A d \in Command \ {c} : Install(d) => asking[d] = "no"
               PROVE  installed = apkOf[c]
    BY DEF ReadyIsInstalled
  <2> QED  BY DEF KeptInv, Kept, Alone
<1> HIDE DEF Inv
<1> QED  BY <1>1, <1>2, <1>3, PTL DEF Spec

--------------------------------------------------------------------------------
(* An empty machine is between an uninstall and its install.                    *)

Undisturbed == machine = "up" /\ troubles = 0 /\ \A x \in Apk : apk[x] = "READY"

\* Install c has been executed.
Executed(c) == /\ Install(c)
               /\ \/ status[c] \in {"READY", "ERROR"}
                  \/ \E w \in Worker : wcmd[w] = c /\ wpc[w] \in {"record", "ready", "error", "ack"}

\* A worker is about to execute an install.
Installing == \E w \in Worker : wcmd[w] \in Command /\ Install(wcmd[w]) /\ wpc[w] = "execute"

LeavesOne == Undisturbed /\ (\E c \in Command : Executed(c)) => installed # None \/ Installing

LEMMA LeavesInit == Init => LeavesOne
BY DEF Init, LeavesOne, Executed

LEMMA LeavesStep == TypeOK /\ KeptInv /\ LeavesOne /\ [Next]_vars => LeavesOne'
<1> SUFFICES ASSUME TypeOK, KeptInv, LeavesOne, [Next]_vars, Undisturbed',
                    NEW c \in Command, Executed(c)', installed' = None
             PROVE  Installing'
  BY DEF LeavesOne
<1> USE DEF TypeOK, around, row, work
<1>0. Undisturbed /\ apkOf' = apkOf
  <2>1. ASSUME NEW x \in Apk, ApkGoes(x) PROVE FALSE
    BY <2>1 DEF ApkGoes, Undisturbed
  <2>2. ASSUME MachineGoes PROVE FALSE
    BY <2>2 DEF MachineGoes, Undisturbed
  <2>3. ASSUME NEW w \in Worker, NEW d \in Command, Redeliver(w, d) \/ Fail(w, d) PROVE FALSE
    BY <2>3 DEF Redeliver, Fail, Trouble, Undisturbed
  <2>4. ASSUME NEW d \in Command, Abort(d) PROVE FALSE
    BY <2>4 DEF Abort, Trouble, Undisturbed
  <2>5. UNCHANGED <<apkOf, machine, apk, troubles>>
    <3>1. ASSUME NEW d \in Command, AskChecks(d) \/ Handler(d)
          PROVE  UNCHANGED <<apkOf, machine, apk, troubles>>
      BY <3>1 DEF Handler, AskChecks, AskPublishes, AskInserts
    <3>2. ASSUME NEW w \in Worker, NEW d \in Command, Take(w, d) \/ WorkerStep(w, d)
          PROVE  UNCHANGED <<apkOf, machine, apk, troubles>>
      BY <3>2 DEF Take, WorkerStep, Task, Check, SetError, Get, SetRunning, Uninstall,
                  ExecuteInstall, ExecuteTest, Record, SetReady
    <3>3. ASSUME NEW w \in Worker, Ack(w) PROVE UNCHANGED <<apkOf, machine, apk, troubles>>
      BY <3>3 DEF Ack
    <3>4. CASE UNCHANGED vars
      BY <3>4 DEF vars
    <3> QED  BY <2>1, <2>2, <2>3, <2>4, <3>1, <3>2, <3>3, <3>4 DEF Next
  <2> QED  BY <2>5 DEF Undisturbed
<1>1. CASE UNCHANGED <<installed, status, work>>
  BY <1>0, <1>1 DEF LeavesOne, Executed, Installing, Install
<1>2. ASSUME NEW d \in Command, AskInserts(d) PROVE Installing'
  BY <1>0, <1>2 DEF AskInserts, LeavesOne, Executed, Installing, Install
<1>3. ASSUME NEW v \in Worker, NEW d \in Command, Take(v, d) PROVE Installing'
  <2>1. Executed(c)
    BY <1>0, <1>3 DEF Take, Hand, Executed, Install
  <2>2. Installing
    BY <1>0, <1>3, <2>1 DEF LeavesOne, Take
  <2> QED  BY <1>0, <1>3, <2>2 DEF Take, Hand, Installing, Install
<1>4. ASSUME NEW v \in Worker, Ack(v) PROVE Installing'
  <2>1. Executed(c)
    BY <1>0, <1>4 DEF Ack, Hand, Executed, Install
  <2>2. Installing
    BY <1>0, <1>4, <2>1 DEF LeavesOne, Ack
  <2> QED  BY <1>0, <1>4, <2>2 DEF Ack, Hand, Installing, Install
<1>5. ASSUME NEW v \in Worker, NEW d \in Command, WorkerStep(v, d) PROVE Installing'
  <2>1. CASE Uninstall(v, d)
    <3>1. Install(d) /\ wcmd'[v] = d /\ wpc'[v] = "execute"
      BY <2>1 DEF Uninstall, At, Goto, KeptInv
    <3> QED  BY <1>0, <3>1 DEF Installing, Install
  <2>2. CASE ExecuteInstall(v, d)
    <3>1. apkOf[d] \in Apk /\ apk[apkOf[d]] = "READY" /\ machine = "up"
      BY <1>0, <2>2 DEF ExecuteInstall, Install, Undisturbed
    <3>2. installed # None
      BY <3>1, <2>2, CommandAssumption DEF ExecuteInstall, Installable
    <3>3. UNCHANGED installed
      BY <3>1, <2>2, CommandAssumption DEF ExecuteInstall
    <3> QED  BY <3>2, <3>3
  <2>3. CASE Check(v, d) \/ Get(v, d) \/ SetRunning(v, d)
    <3>0. ~Install(d) \/ ~Obsolete(d)
      BY <1>0 DEF Obsolete, Undisturbed, Install
    <3>1. Executed(c)
      BY <1>0, <2>3, <3>0 DEF Check, Get, SetRunning, At, Goto, Update, Executed, Install
    <3>2. Installing
      BY <1>0, <2>3, <3>1 DEF LeavesOne, Check, Get, SetRunning
    <3> QED  BY <1>0, <2>3, <3>2 DEF Check, Get, SetRunning, At, Goto, Installing, Install
  <2>4. CASE SetError(v, d) \/ ExecuteTest(v, d) \/ Record(v, d) \/ SetReady(v, d)
    <3>1. Executed(c)
      BY <1>0, <2>4 DEF SetError, ExecuteTest, Record, SetReady, At, Goto, Ran, Update,
                        Executed, Install
    <3>2. Installing
      BY <1>0, <2>4, <3>1 DEF LeavesOne, SetError, ExecuteTest, Record, SetReady
    <3> QED  BY <1>0, <2>4, <3>2 DEF SetError, ExecuteTest, Record, SetReady, At, Goto, Ran,
                                     Installing, Install
  <2> QED  BY <1>5, <2>1, <2>2, <2>3, <2>4 DEF WorkerStep, Task
<1>6. ASSUME NEW v \in Worker, NEW d \in Command, Redeliver(v, d) \/ Fail(v, d) PROVE Installing'
  BY <1>6 DEF Redeliver, Fail, Trouble, Undisturbed
<1> QED  BY <1>1, <1>2, <1>3, <1>4, <1>5, <1>6 DEF Next, vars, Handler, AskChecks,
            AskPublishes, Abort, MachineGoes, ApkGoes

\* Where nothing failed, installs that are over leave one of their APKs on the
\* machine (apk_install), however many workers uninstall and install at once.
THEOREM OneIsLeft == Spec => []InstallsLeaveOne
<1> DEFINE Inv == TypeOK /\ OneCopy /\ KeptInv /\ LeavesOne
<1>1. Init => Inv
  BY TypeInit, CopyInit, KeptInit, LeavesInit
<1>2. Inv /\ [Next]_vars => Inv'
  BY TypeStep, CopyStep, KeptStep, LeavesStep
<1>3. Inv => InstallsLeaveOne
  BY DEF LeavesOne, InstallsLeaveOne, Undisturbed, Executed, Installing
<1> HIDE DEF Inv
<1> QED  BY <1>1, <1>2, <1>3, PTL DEF Spec
--------------------------------------------------------------------------------
(* What shows RUNNING is on its way.                                            *)

\* A task about c is in the broker, or with a worker that has yet to record its end.
OnItsWay(c) == queue[c] > 0 \/ \E w \in Worker : wcmd[w] = c /\ wpc[w] \notin {"idle", "ack"}

RunningIsOnItsWay == \A c \in Command : status[c] = "RUNNING" => Obsolete(c) \/ OnItsWay(c)

LEMMA ObsoleteStays ==
    ASSUME TypeOK, [Next]_vars, NEW c \in Command, Obsolete(c) PROVE Obsolete(c)'
<1> USE DEF TypeOK, Obsolete, Install, around
<1>1. CASE UNCHANGED around
  BY <1>1
<1>2. CASE MachineGoes \/ \E x \in Apk : ApkGoes(x)
  BY <1>2, CommandAssumption DEF MachineGoes, ApkGoes
<1>3. ASSUME NEW w \in Worker, NEW d \in Command, WorkerStep(w, d) PROVE UNCHANGED around
  BY <1>3 DEF WorkerStep, Task, Check, SetError, Get, SetRunning, Uninstall, ExecuteInstall,
              ExecuteTest, Record, SetReady
<1> QED  BY <1>1, <1>2, <1>3 DEF Next, vars, Handler, AskChecks, AskPublishes, AskInserts, Abort,
                                 Take, Redeliver, Fail, Ack

LEMMA RunningStep ==
    TypeOK /\ OneCopy /\ RunningIsOnItsWay /\ [Next]_vars => RunningIsOnItsWay'
<1> SUFFICES ASSUME TypeOK, OneCopy, RunningIsOnItsWay, [Next]_vars,
                    NEW c \in Command, status'[c] = "RUNNING", ~Obsolete(c)'
             PROVE  OnItsWay(c)'
  BY DEF RunningIsOnItsWay
<1>0. ~Obsolete(c) /\ c # None /\ (status[c] = "RUNNING" => OnItsWay(c))
  BY ObsoleteStays DEF RunningIsOnItsWay
<1> USE DEF TypeOK, OnItsWay, work, row
<1>1. CASE UNCHANGED <<status, work>> /\ (queue[c] > 0 => queue'[c] > 0)
  BY <1>0, <1>1
<1>2. ASSUME NEW d \in Command, AskInserts(d) PROVE OnItsWay(c)'
  BY <1>0, <1>2 DEF AskInserts
<1>3. ASSUME NEW w \in Worker, NEW d \in Command, Take(w, d) \/ Redeliver(w, d)
      PROVE  OnItsWay(c)'
  <2>1. status[c] = "RUNNING" /\ \A v \in Worker : v # w => wcmd'[v] = wcmd[v] /\ wpc'[v] = wpc[v]
    BY <1>0, <1>3 DEF Take, Redeliver, Hand
  <2>2. CASE d = c
    BY <1>3, <2>2 DEF Take, Redeliver, Hand
  <2>3. CASE d # c
    <3>1. queue'[c] = queue[c] /\ (wcmd[w] = c => wpc[w] = "idle")
      BY <1>3, <2>3 DEF Take, Redeliver
    <3> QED  BY <1>0, <2>1, <3>1
  <2> QED  BY <2>2, <2>3
<1>4. ASSUME NEW w \in Worker, Ack(w) PROVE OnItsWay(c)'
  BY <1>0, <1>4 DEF Ack, Hand
<1>5. ASSUME NEW w \in Worker, NEW d \in Command, WorkerStep(w, d) \/ Fail(w, d)
      PROVE  OnItsWay(c)'
  <2>1. /\ UNCHANGED <<queue, wcmd>> /\ wcmd[w] = d
        /\ \A v \in Worker : v # w => wpc'[v] = wpc[v]
    BY <1>5 DEF WorkerStep, Task, Fail, Check, SetError, Get, SetRunning, Uninstall,
                ExecuteInstall, ExecuteTest, Record, SetReady, At, Goto, Ran
  <2>2. CASE d # c
    <3>1. status'[c] = status[c]
      BY <1>5, <2>2 DEF WorkerStep, Task, Fail, Check, SetError, Get, SetRunning, Uninstall,
                        ExecuteInstall, ExecuteTest, Record, SetReady, Update
    <3> QED  BY <1>0, <2>1, <2>2, <3>1
  <2>3. CASE d = c
    <3>1. SUFFICES wpc'[w] \notin {"idle", "ack"}
      BY <2>1, <2>3
    <3> QED  BY <1>0, <1>5, <2>3 DEF WorkerStep, Task, Fail, Check, SetError, Get, SetRunning,
                      Uninstall, ExecuteInstall, ExecuteTest, Record, SetReady, At, Goto, Ran, Update
  <2> QED  BY <2>2, <2>3
<1>6. ASSUME NEW d \in Command, AskChecks(d) \/ AskPublishes(d) \/ Abort(d) PROVE OnItsWay(c)'
  BY <1>1, <1>6 DEF AskChecks, AskPublishes, Abort
<1>7. CASE MachineGoes \/ (\E x \in Apk : ApkGoes(x)) \/ UNCHANGED vars
  BY <1>1, <1>7 DEF MachineGoes, ApkGoes, vars
<1> QED  BY <1>2, <1>3, <1>4, <1>5, <1>6, <1>7 DEF Next, Handler

\* A command that shows RUNNING has not been forgotten: its task is in the broker or
\* with a worker that has yet to record READY or ERROR, whatever failed, crashed or was
\* delivered again, unless its machine or its APK was deleted (is_task_obsolete lets go of
\* the row). It is what CommandEnds needs besides fairness.
THEOREM RunningStaysOnItsWay == Spec => []RunningIsOnItsWay
<1> DEFINE Inv == TypeOK /\ OneCopy /\ RunningIsOnItsWay
<1>1. Init => Inv
  BY TypeInit, CopyInit DEF Init, RunningIsOnItsWay
<1>2. Inv /\ [Next]_vars => Inv'
  BY TypeStep, CopyStep, RunningStep
<1>3. Inv => RunningIsOnItsWay
  OBVIOUS
<1> HIDE DEF Inv
<1> QED  BY <1>1, <1>2, <1>3, PTL DEF Spec
================================================================================
