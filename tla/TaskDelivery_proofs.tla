-------------------------- MODULE TaskDelivery_proofs --------------------------
(* Theorems about the delivery of tasks, for any number of tasks, workers and  *)
(* message slots, any timeouts, and any number of crashes and outages.         *)
(*                                                                             *)
(* The argument: Owned (types, one message per busy process, published tasks   *)
(* only) is inductive. On top of it SomeCopy, the strengthening of NoTaskLost  *)
(* which does not count a message that is about to be acknowledged, is         *)
(* inductive as well, since every hand-over publishes before it acknowledges.  *)
(* Aged and FewCopies are inductive over Owned, too: a retry costs its delay,  *)
(* and only a crash turns a superseded message into a copy.                    *)
EXTENDS TaskDelivery, FiniteSetTheorems, TLAPS

USE DeliveryAssumption

\* The delay of a repost is a number of ticks.
LEMMA BackoffNat == ASSUME NEW k \in 0..FloatLimit PROVE Backoff(k) \in Nat
<1>1. PICK n \in Nat, d \in Nat \ {0} : n = 3 ^ k /\ d = 2 ^ k
  BY PowerAssumption
<1>2. (DelayMin * n) \div d \in Nat
  OBVIOUS
<1> QED BY <1>1, <1>2 DEF Backoff, LesserOf

\* A message that is published, reposted or grows older is a message.
LEMMA NewMessage ==
    ASSUME NEW t \in Task, NEW f \in BOOLEAN, NEW d \in Nat
    PROVE  Message(t, f, d) \in MessageType /\ Message(t, f, d).task = t
BY DEF Message, MessageType, Expired

LEMMA BlankMessage == Blank \in MessageType
BY DEF Blank, MessageType, Expired

LEMMA OlderMessage ==
    ASSUME NEW m \in MessageType
    PROVE LET older == [m EXCEPT !.age = LesserOf(Expired, m.age + 1),
                                 !.delay = IF m.delay > 0 THEN m.delay - 1 ELSE 0]
          IN  older \in MessageType /\ older.task = m.task
<1> DEFINE age == LesserOf(Expired, m.age + 1)
           delay == IF m.delay > 0 THEN m.delay - 1 ELSE 0
<1>1. age \in 0..Expired
  BY DEF LesserOf, Expired, MessageType
<1>2. delay \in Nat
  BY DEF MessageType
<1> HIDE DEF age, delay
<1>3. /\ [m EXCEPT !.age = age, !.delay = delay] \in MessageType
      /\ [m EXCEPT !.age = age, !.delay = delay].task = m.task
  BY <1>1, <1>2 DEF MessageType
<1> QED BY <1>3 DEF age, delay

\* What a process has in hand is a published task.
Owned == TypeOK /\ OneAtATime /\ SlotsInUse

LEMMA OwnedTask == ASSUME Owned, NEW i \in Slot, at[i] # "free"
                   PROVE msg[i].task \in published /\ msg[i].task \in Task
BY DEF Owned, SlotsInUse, TypeOK

\* A successor takes the slot of the message in hand, which moves to a free one.
LEMMA Succession ==
    ASSUME TypeOK, NEW i \in Slot, at[i] # "free", NEW m \in MessageType, Succeed(i, m)
    PROVE  /\ at' \in [Slot -> Place] /\ msg' \in [Slot -> MessageType]
           /\ \E j \in Slot : /\ j # i /\ at[j] = "free"
                             /\ at'[i] = "delayed" /\ at'[j] = at[i]
                             /\ msg'[i] = m /\ msg'[j] = msg[i]
                             /\ \A k \in Slot \ {i, j} : at'[k] = at[k] /\ msg'[k] = msg[k]
<1>1. PICK j \in Slot : /\ at[j] = "free"
                        /\ at' = [at EXCEPT ![j] = at[i], ![i] = "delayed"]
                        /\ msg' = [msg EXCEPT ![j] = msg[i], ![i] = m]
  BY DEF Succeed
<1>2. at' \in [Slot -> Place] /\ msg' \in [Slot -> MessageType]
  BY <1>1 DEF TypeOK, Place
<1>3. /\ j # i /\ at[j] = "free"
      /\ at'[i] = "delayed" /\ at'[j] = at[i]
      /\ msg'[i] = m /\ msg'[j] = msg[i]
      /\ \A k \in Slot \ {i, j} : at'[k] = at[k] /\ msg'[k] = msg[k]
  BY <1>1 DEF TypeOK
<1> QED BY <1>2, <1>3

\* What a TaskDelay publishes, and what the retry process does.
LEMMA RepublishSucceeds ==
    ASSUME Owned, NEW w \in Worker, NEW i \in Slot, Republish(w, i)
    PROVE  \E m \in MessageType :
              /\ m.task = msg[i].task /\ m.age = 0 /\ m.retries = 0
              /\ Succeed(i, m)
<1>1. msg[i].task \in Task
  BY OwnedTask DEF Republish, At
<1> DEFINE m == Message(msg[i].task, FALSE, HeatPoll)
<1>2. m \in MessageType /\ m.task = msg[i].task
  BY <1>1, NewMessage
<1>3. m.age = 0 /\ m.retries = 0
  BY DEF Message
<1> QED BY <1>2, <1>3 DEF Republish

LEMMA RepostSucceeds ==
    ASSUME Owned, NEW i \in Slot, Repost(i)
    PROVE  \E m \in MessageType :
              /\ m.task = msg[i].task /\ m.age = msg[i].age
              /\ m.retries = msg[i].retries + 1 /\ m.delay = Backoff(m.retries)
              /\ m.retries \in 0..FloatLimit
              /\ Succeed(i, m)
<1> DEFINE r == msg[i].retries + 1
           m == [msg[i] EXCEPT !.retries = r, !.delay = Backoff(r)]
<1>1. msg[i] \in MessageType
  BY DEF Owned, TypeOK
<1>2. r \in 0..FloatLimit
  BY <1>1 DEF Repost, MessageType
<1>3. Backoff(r) \in Nat
  BY <1>2, BackoffNat
<1>4. Succeed(i, m)
  BY DEF Repost
<1>5. PICK x \in MessageType, q \in 0..FloatLimit, d \in Nat :
          x = msg[i] /\ q = r /\ d = Backoff(r)
  BY <1>1, <1>2, <1>3
<1>6. m = [x EXCEPT !.retries = q, !.delay = d]
  BY <1>5
<1>7. /\ m \in MessageType /\ m.task = x.task /\ m.age = x.age
      /\ m.retries = q /\ m.delay = d
  <2> HIDE DEF m, r
  <2> QED BY <1>6 DEF MessageType
<1> QED BY <1>4, <1>5, <1>7

\* Every step keeps the variables in their types.
LEMMA TypeStep == Owned /\ [Next]_vars => TypeOK'
<1> SUFFICES ASSUME Owned, [Next]_vars PROVE TypeOK'
  OBVIOUS
<1> USE BlankMessage DEF TypeOK, Owned
<1>1. ASSUME NEW t \in Task, Publish(t) PROVE TypeOK'
  <2>1. Message(t, TRUE, 0) \in MessageType
    BY NewMessage
  <2> QED BY <1>1, <2>1 DEF Publish, Enqueue, Place
<1>2. ASSUME NEW i \in Slot, Undelay(i) PROVE TypeOK'
  BY <1>2 DEF Undelay, Move, Place
<1>3. ASSUME NEW i \in Slot, DeliverRetry(i) PROVE TypeOK'
  BY <1>3 DEF DeliverRetry, Move, Place, RetryState
<1>4. ASSUME NEW i \in Slot, Discard(i) PROVE TypeOK'
  BY <1>4, OwnedTask DEF Discard, RetryAt, Remove, Place, RetryState
<1>5. ASSUME NEW i \in Slot, Repost(i) PROVE TypeOK'
  BY <1>5, RepostSucceeds, Succession DEF Repost, RetryAt, RetryState
<1>6. ASSUME NEW i \in Slot, RepostRaises(i) PROVE TypeOK'
  BY <1>6 DEF RepostRaises, RetryState
<1>7. ASSUME NEW i \in Slot, AckRetry(i) PROVE TypeOK'
  BY <1>7 DEF AckRetry, Remove, Place, RetryState
<1>8. ASSUME NEW w \in Worker, NEW i \in Slot, Deliver(w, i) PROVE TypeOK'
  BY <1>8 DEF Deliver, Move, Place, WorkerState
<1>9. ASSUME NEW w \in Worker, NEW i \in Slot, WorkerStep(w, i) PROVE TypeOK'
  <2> USE DEF WorkerState
  <2>1. CASE RaiseEarly(w, i)
    BY <2>1 DEF RaiseEarly
  <2>2. CASE FindObsolete(w, i)
    BY <2>2 DEF FindObsolete, Result
  <2>3. CASE StartHandler(w, i)
    BY <2>3 DEF StartHandler
  <2>4. CASE CheckRaises(w, i)
    BY <2>4 DEF CheckRaises
  <2>5. CASE HandlerDone(w, i)
    BY <2>5 DEF HandlerDone, Result
  <2>6. CASE HandlerDelays(w, i)
    BY <2>6 DEF HandlerDelays
  <2>7. CASE HandlerFails(w, i)
    BY <2>7 DEF HandlerFails
  <2>8. CASE Republish(w, i)
    <3>1. at[i] # "free"
      BY <2>8 DEF Republish, At
    <3> QED BY <2>8, <3>1, RepublishSucceeds, Succession DEF Republish
  <2>9. CASE RecordError(w, i)
    BY <2>9 DEF RecordError, Result
  <2>10. CASE RecordRaises(w, i)
    BY <2>10 DEF RecordRaises
  <2>11. CASE Ack(w, i)
    BY <2>11 DEF Ack, Remove, Place
  <2>12. CASE Nack(w, i)
    BY <2>12, OwnedTask DEF Nack, At, Move, Remove, Place
  <2> QED BY <1>9, <2>1, <2>2, <2>3, <2>4, <2>5, <2>6, <2>7, <2>8, <2>9, <2>10,
             <2>11, <2>12 DEF WorkerStep
<1>10. ASSUME NEW w \in Worker, CrashWorker(w) PROVE TypeOK'
  BY <1>10 DEF CrashWorker, Place, WorkerState
<1>11. ASSUME NEW w \in Worker, StartWorker(w) PROVE TypeOK'
  BY <1>11 DEF StartWorker, WorkerState
<1>12. CASE Tick
  <2>1. ASSUME NEW i \in Slot PROVE msg'[i] \in MessageType
    BY <1>12, OlderMessage DEF Tick
  <2>2. msg' \in [Slot -> MessageType]
    BY <1>12, <2>1 DEF Tick
  <2> QED BY <1>12, <2>2 DEF Tick
<1>13. CASE StartRetry
  BY <1>13 DEF StartRetry, RetryState
<1>14. CASE CrashRetry
  BY <1>14 DEF CrashRetry, Place, RetryState
<1>15. CASE OutageBegin \/ OutageEnd
  BY <1>15 DEF OutageBegin, OutageEnd
<1>16. CASE UNCHANGED vars
  BY <1>16 DEF vars
<1> QED BY <1>1, <1>2, <1>3, <1>4, <1>5, <1>6, <1>7, <1>8, <1>9, <1>10, <1>11,
           <1>12, <1>13, <1>14, <1>15, <1>16 DEF Next, RetryStep

\* So does a successor.
LEMMA SuccessionOwned ==
    ASSUME Owned, NEW i \in Slot, NEW m \in MessageType,
           m.task = msg[i].task, Succeed(i, m), UNCHANGED published,
           \/ at[i] = "held" /\ retry = "check" /\ retry' = "ack" /\ UNCHANGED worker
           \/ \E w \in Worker : /\ at[i] = w /\ worker[w] = "delay"
                               /\ worker' = [worker EXCEPT ![w] = "ack"] /\ UNCHANGED retry
    PROVE  (OneAtATime /\ SlotsInUse)'
<1>0. TypeOK /\ at[i] # "free" /\ at[i] \in Worker \cup {"held"}
  BY DEF Owned
<1> PICK j \in Slot : /\ j # i /\ at[j] = "free"
                      /\ at'[i] = "delayed" /\ at'[j] = at[i]
                      /\ msg'[i] = m /\ msg'[j] = msg[i]
                      /\ \A k \in Slot \ {i, j} : at'[k] = at[k] /\ msg'[k] = msg[k]
  BY <1>0, Succession
<1>1. "delayed" \notin Worker \cup {"held"} /\ "free" \notin Worker \cup {"held"}
  OBVIOUS
<1>2. \A w \in Worker : worker'[w] \in {"down", "idle"} <=> worker[w] \in {"down", "idle"}
  BY <1>0 DEF TypeOK
<1>3. retry' \in {"down", "idle"} <=> retry \in {"down", "idle"}
  OBVIOUS
<1>4. OneAtATime'
  BY <1>0, <1>1 DEF Owned, OneAtATime
<1>5. SlotsInUse'
  <2>1. ASSUME NEW k \in Slot
        PROVE  /\ at'[k] \in Worker => worker'[at'[k]] \notin {"down", "idle"}
               /\ at'[k] = "held" => retry' \notin {"down", "idle"}
               /\ at'[k] # "free" => msg'[k].task \in published'
    BY <1>0, <1>1, <1>2, <1>3 DEF Owned, SlotsInUse
  <2>2. ASSUME NEW w \in Worker, worker'[w] \notin {"down", "idle"}
        PROVE  \E k \in Slot : at'[k] = w
    <3>1. PICK k \in Slot : at[k] = w
      BY <1>2, <2>2 DEF Owned, SlotsInUse
    <3>2. CASE k = i
      BY <3>1, <3>2
    <3>3. CASE k # i
      BY <1>1, <3>1, <3>3
    <3> QED BY <3>2, <3>3
  <2> QED BY <2>1, <2>2 DEF SlotsInUse
<1> QED BY <1>4, <1>5

\* Every step keeps slots and processes in agreement.
LEMMA OwnedStep == Owned /\ [Next]_vars => (OneAtATime /\ SlotsInUse)'
<1> SUFFICES ASSUME Owned, [Next]_vars PROVE (OneAtATime /\ SlotsInUse)'
  OBVIOUS
<1> USE DEF Owned, OneAtATime, SlotsInUse, TypeOK
<1>1. ASSUME NEW t \in Task, Publish(t) PROVE (OneAtATime /\ SlotsInUse)'
  BY <1>1 DEF Publish, Enqueue, Message
<1>2. ASSUME NEW i \in Slot, Undelay(i) PROVE (OneAtATime /\ SlotsInUse)'
  BY <1>2 DEF Undelay, Move
<1>3. ASSUME NEW i \in Slot, DeliverRetry(i) PROVE (OneAtATime /\ SlotsInUse)'
  BY <1>3 DEF DeliverRetry, Move
<1>4. ASSUME NEW i \in Slot, Discard(i) PROVE (OneAtATime /\ SlotsInUse)'
  BY <1>4 DEF Discard, RetryAt, Remove
<1>5. ASSUME NEW i \in Slot, Repost(i) PROVE (OneAtATime /\ SlotsInUse)'
  <2>1. /\ retry = "check" /\ at[i] = "held" /\ retry' = "ack"
        /\ UNCHANGED <<worker, published>>
    BY <1>5 DEF Repost, RetryAt
  <2> QED BY <1>5, <2>1, RepostSucceeds, SuccessionOwned
<1>6. ASSUME NEW i \in Slot, RepostRaises(i) PROVE (OneAtATime /\ SlotsInUse)'
  BY <1>6 DEF RepostRaises, RetryAt
<1>7. ASSUME NEW i \in Slot, AckRetry(i) PROVE (OneAtATime /\ SlotsInUse)'
  BY <1>7 DEF AckRetry, RetryAt, Remove
<1>8. ASSUME NEW w \in Worker, NEW i \in Slot, Deliver(w, i) PROVE (OneAtATime /\ SlotsInUse)'
  BY <1>8 DEF Deliver, Move, Place
<1>9. ASSUME NEW w \in Worker, NEW i \in Slot, WorkerStep(w, i) PROVE (OneAtATime /\ SlotsInUse)'
  <2>1. CASE RaiseEarly(w, i)
    BY <2>1 DEF RaiseEarly, At
  <2>2. CASE FindObsolete(w, i)
    BY <2>2 DEF FindObsolete, At
  <2>3. CASE StartHandler(w, i)
    BY <2>3 DEF StartHandler, At
  <2>4. CASE CheckRaises(w, i)
    BY <2>4 DEF CheckRaises, At
  <2>5. CASE HandlerDone(w, i)
    BY <2>5 DEF HandlerDone, At
  <2>6. CASE HandlerDelays(w, i)
    BY <2>6 DEF HandlerDelays, At
  <2>7. CASE HandlerFails(w, i)
    BY <2>7 DEF HandlerFails, At
  <2>8. CASE Republish(w, i)
    <3>1. /\ at[i] = w /\ worker[w] = "delay" /\ worker' = [worker EXCEPT ![w] = "ack"]
          /\ UNCHANGED <<retry, published>>
      BY <2>8 DEF Republish, At
    <3> QED BY <2>8, <3>1, RepublishSucceeds, SuccessionOwned
  <2>9. CASE RecordError(w, i)
    BY <2>9 DEF RecordError, At
  <2>10. CASE RecordRaises(w, i)
    BY <2>10 DEF RecordRaises, At
  <2>11. CASE Ack(w, i)
    BY <2>11 DEF Ack, At, Remove
  <2>12. CASE Nack(w, i)
    BY <2>12 DEF Nack, At, Move, Remove
  <2> QED BY <1>9, <2>1, <2>2, <2>3, <2>4, <2>5, <2>6, <2>7, <2>8, <2>9, <2>10,
             <2>11, <2>12 DEF WorkerStep
<1>10. ASSUME NEW w \in Worker, CrashWorker(w) PROVE (OneAtATime /\ SlotsInUse)'
  BY <1>10 DEF CrashWorker, Place
<1>11. ASSUME NEW w \in Worker, StartWorker(w) PROVE (OneAtATime /\ SlotsInUse)'
  BY <1>11 DEF StartWorker
<1>12. CASE Tick
  <2>1. \A i \in Slot : msg'[i].task = msg[i].task
    BY <1>12, OlderMessage DEF Tick
  <2>2. UNCHANGED <<at, worker, retry, published>>
    BY <1>12 DEF Tick
  <2> QED BY <2>1, <2>2
<1>13. CASE StartRetry
  BY <1>13 DEF StartRetry
<1>14. CASE CrashRetry
  BY <1>14 DEF CrashRetry
<1>15. CASE OutageBegin \/ OutageEnd
  BY <1>15 DEF OutageBegin, OutageEnd
<1>16. CASE UNCHANGED vars
  BY <1>16 DEF vars
<1> QED BY <1>1, <1>2, <1>3, <1>4, <1>5, <1>6, <1>7, <1>8, <1>9, <1>10, <1>11,
           <1>12, <1>13, <1>14, <1>15, <1>16 DEF Next, RetryStep

LEMMA OwnedInit == Init => Owned
<1> SUFFICES ASSUME Init PROVE Owned
  OBVIOUS
<1> USE DEF Init
<1>1. TypeOK
  <2>1. at \in [Slot -> Place] /\ msg \in [Slot -> MessageType]
    BY BlankMessage DEF Place
  <2>2. worker \in [Worker -> WorkerState] /\ retry \in RetryState
    BY DEF WorkerState, RetryState
  <2>3. outcome \in [Task -> SUBSET Result] /\ crashes \in 0..MaxCrashes
    OBVIOUS
  <2>4. declared \in BOOLEAN /\ outage \in BOOLEAN
    OBVIOUS
  <2> QED BY <2>1, <2>2, <2>3, <2>4 DEF TypeOK
<1>2. OneAtATime /\ SlotsInUse
  BY DEF OneAtATime, SlotsInUse
<1> QED BY <1>1, <1>2 DEF Owned

LEMMA OwnedAlways == Spec => []Owned
<1>1. Owned /\ [Next]_vars => Owned'
  BY TypeStep, OwnedStep DEF Owned
<1> QED BY OwnedInit, <1>1, PTL DEF Spec

\* The variables of the broker, the workers and the retry process stay in their
\* types, whatever the interleaving, the outages and the crashes.
THEOREM TypeCorrect == Spec => []TypeOK
<1>1. Owned => TypeOK
  BY DEF Owned
<1> QED BY OwnedAlways, <1>1, PTL

\* No worker, and not the retry process either, ever has two messages in hand.
THEOREM OneMessageEach == Spec => []OneAtATime
<1>1. Owned => OneAtATime
  BY DEF Owned
<1> QED BY OwnedAlways, <1>1, PTL

\* A message stays a copy of its task when it is succeeded: the successor is one.
LEMMA SuccessorCopies ==
    ASSUME Owned, NEW i \in Slot, at[i] # "free", NEW m \in MessageType,
           m.task = msg[i].task, Succeed(i, m),
           \/ at[i] = "held" /\ retry = "check" /\ retry' = "ack" /\ UNCHANGED worker
           \/ \E w \in Worker : /\ at[i] = w /\ worker[w] = "delay"
                               /\ worker' = [worker EXCEPT ![w] = "ack"] /\ UNCHANGED retry
    PROVE  \A t \in Task : Copies(t)' = Copies(t)
<1> PICK j \in Slot : /\ j # i /\ at[j] = "free"
                      /\ at'[i] = "delayed" /\ at'[j] = at[i]
                      /\ msg'[i] = m /\ msg'[j] = msg[i]
                      /\ \A k \in Slot \ {i, j} : at'[k] = at[k] /\ msg'[k] = msg[k]
  BY Succession DEF Owned
<1>1. ~Superseded(i)' /\ Superseded(j)'
  BY DeliveryAssumption DEF Superseded, RetryAt, At, Owned, TypeOK
<1>2. ASSUME NEW k \in Slot \ {i, j} PROVE Superseded(k)' = Superseded(k)
  BY DeliveryAssumption DEF Superseded, RetryAt, At, Owned, TypeOK, OneAtATime
<1>3. ~Superseded(i)
  BY DeliveryAssumption DEF Superseded, RetryAt, At, Owned
<1> QED BY <1>1, <1>2, <1>3 DEF Copies

\* Every hand-over leaves a message behind that is not about to be acknowledged.
LEMMA CopyStep == Owned /\ SomeCopy /\ [Next]_vars => SomeCopy'
<1> SUFFICES ASSUME Owned, SomeCopy, [Next]_vars PROVE SomeCopy'
  OBVIOUS
<1> USE DEF Owned, OneAtATime, SlotsInUse, TypeOK, SomeCopy, Copies, Superseded, RetryAt, At
<1>1. ASSUME NEW t \in Task, Publish(t) PROVE SomeCopy'
  BY <1>1 DEF Publish, Enqueue, Message
<1>2. ASSUME NEW i \in Slot, Undelay(i) PROVE SomeCopy'
  BY <1>2 DEF Undelay, Move
<1>3. ASSUME NEW i \in Slot, DeliverRetry(i) PROVE SomeCopy'
  BY <1>3 DEF DeliverRetry, Move
<1>4. ASSUME NEW i \in Slot, Discard(i) PROVE SomeCopy'
  BY <1>4, OwnedTask DEF Discard, Remove
<1>5. ASSUME NEW i \in Slot, Repost(i) PROVE SomeCopy'
  <2>1. /\ at[i] = "held" /\ retry = "check" /\ retry' = "ack"
        /\ UNCHANGED <<worker, declared, published, outcome, failed, dropped>>
    BY <1>5 DEF Repost
  <2> QED BY <1>5, <2>1, RepostSucceeds, SuccessorCopies
<1>6. ASSUME NEW i \in Slot, RepostRaises(i) PROVE SomeCopy'
  BY <1>6 DEF RepostRaises
<1>7. ASSUME NEW i \in Slot, AckRetry(i) PROVE SomeCopy'
  BY <1>7 DEF AckRetry, Remove
<1>8. ASSUME NEW w \in Worker, NEW i \in Slot, Deliver(w, i) PROVE SomeCopy'
  BY <1>8 DEF Deliver, Move, Place
<1>9. ASSUME NEW w \in Worker, NEW i \in Slot, WorkerStep(w, i) PROVE SomeCopy'
  <2> USE DEF At
  <2>1. CASE RaiseEarly(w, i)
    BY <2>1 DEF RaiseEarly
  <2>2. CASE FindObsolete(w, i)
    <3>1. /\ outcome'[msg[i].task] # {}
          /\ \A t \in Task : outcome[t] # {} => outcome'[t] # {}
      BY <2>2, OwnedTask DEF FindObsolete
    <3>2. \A k \in Slot \ {i} : Superseded(k)' => Superseded(k)
      BY <2>2 DEF FindObsolete
    <3>3. UNCHANGED <<at, msg, declared, published, failed, dropped>>
      BY <2>2 DEF FindObsolete
    <3> QED BY <3>1, <3>2, <3>3
  <2>3. CASE StartHandler(w, i)
    BY <2>3 DEF StartHandler
  <2>4. CASE CheckRaises(w, i)
    BY <2>4 DEF CheckRaises
  <2>5. CASE HandlerDone(w, i)
    <3>1. /\ outcome'[msg[i].task] # {}
          /\ \A t \in Task : outcome[t] # {} => outcome'[t] # {}
      BY <2>5, OwnedTask DEF HandlerDone
    <3>2. \A k \in Slot \ {i} : Superseded(k)' => Superseded(k)
      BY <2>5 DEF HandlerDone
    <3>3. UNCHANGED <<at, msg, declared, published, failed, dropped>>
      BY <2>5 DEF HandlerDone
    <3>4. outcome \in [Task -> SUBSET Result] /\ published \subseteq Task
      BY DEF TypeOK
    <3> HIDE DEF OneAtATime, SlotsInUse, TypeOK
    <3>5. ASSUME NEW t \in Task, NEW k \in Copies(t), t # msg[i].task
          PROVE k \in Copies(t)'
      BY <3>2, <3>3, <3>5
    <3> QED BY <3>1, <3>3, <3>4, <3>5
  <2>6. CASE HandlerDelays(w, i)
    BY <2>6 DEF HandlerDelays
  <2>7. CASE HandlerFails(w, i)
    BY <2>7 DEF HandlerFails
  <2>8. CASE Republish(w, i)
    <3>1. /\ at[i] = w /\ worker[w] = "delay" /\ worker' = [worker EXCEPT ![w] = "ack"]
          /\ UNCHANGED <<retry, declared, published, outcome, failed, dropped>>
      BY <2>8 DEF Republish, At
    <3>2. at[i] # "free"
      BY <3>1
    <3>3. \A t \in Task : Copies(t)' = Copies(t)
      BY <2>8, <3>1, <3>2, RepublishSucceeds, SuccessorCopies
    <3> HIDE DEF Copies
    <3> QED BY <3>1, <3>3
  <2>9. CASE RecordError(w, i)
    <3>1. /\ outcome'[msg[i].task] # {}
          /\ \A t \in Task : outcome[t] # {} => outcome'[t] # {}
      BY <2>9, OwnedTask DEF RecordError
    <3>2. \A k \in Slot \ {i} : Superseded(k)' => Superseded(k)
      BY <2>9 DEF RecordError
    <3>3. UNCHANGED <<at, msg, declared, published, failed, dropped>>
      BY <2>9 DEF RecordError
    <3>4. outcome \in [Task -> SUBSET Result] /\ published \subseteq Task
      BY DEF TypeOK
    <3> HIDE DEF OneAtATime, SlotsInUse, TypeOK
    <3>5. ASSUME NEW t \in Task, NEW k \in Copies(t), t # msg[i].task
          PROVE k \in Copies(t)'
      BY <3>2, <3>3, <3>5
    <3> QED BY <3>1, <3>3, <3>4, <3>5
  <2>10. CASE RecordRaises(w, i)
    BY <2>10 DEF RecordRaises
  <2>11. CASE Ack(w, i)
    BY <2>11 DEF Ack, Remove
  <2>12. CASE Nack(w, i)
    BY <2>12 DEF Nack, Move, Remove
  <2> QED BY <1>9, <2>1, <2>2, <2>3, <2>4, <2>5, <2>6, <2>7, <2>8, <2>9, <2>10,
             <2>11, <2>12 DEF WorkerStep
<1>10. ASSUME NEW w \in Worker, CrashWorker(w) PROVE SomeCopy'
  <2>1. UNCHANGED <<msg, declared, published, outcome, failed, dropped>>
    BY <1>10 DEF CrashWorker
  <2>2. ASSUME NEW t \in Task, NEW k \in Copies(t) PROVE k \in Copies(t)'
    <3>1. at'[k] # "free" /\ msg'[k].task = t
      BY <1>10, <2>1 DEF CrashWorker
    <3>2. ~Superseded(k)'
      BY <1>10 DEF CrashWorker
    <3> QED BY <3>1, <3>2 DEF Copies
  <2> QED BY <2>1, <2>2 DEF TypeOK
<1>11. ASSUME NEW w \in Worker, StartWorker(w) PROVE SomeCopy'
  BY <1>11 DEF StartWorker
<1>12. CASE Tick
  <2>1. \A i \in Slot : msg'[i].task = msg[i].task
    BY <1>12, OlderMessage DEF Tick
  <2>2. UNCHANGED <<at, worker, retry, declared, published, outcome, failed, dropped>>
    BY <1>12 DEF Tick
  <2> QED BY <2>1, <2>2
<1>13. CASE StartRetry
  BY <1>13 DEF StartRetry
<1>14. CASE CrashRetry
  <2>1. UNCHANGED <<msg, declared, published, outcome, failed, dropped>>
    BY <1>14 DEF CrashRetry
  <2>2. ASSUME NEW t \in Task, NEW k \in Copies(t) PROVE k \in Copies(t)'
    <3>1. at'[k] # "free" /\ msg'[k].task = t
      BY <1>14, <2>1 DEF CrashRetry
    <3>2. ~Superseded(k)'
      BY <1>14 DEF CrashRetry
    <3> QED BY <3>1, <3>2 DEF Copies
  <2> QED BY <2>1, <2>2 DEF TypeOK
<1>15. CASE OutageBegin \/ OutageEnd
  BY <1>15 DEF OutageBegin, OutageEnd
<1>16. CASE UNCHANGED vars
  BY <1>16 DEF vars
<1> QED BY <1>1, <1>2, <1>3, <1>4, <1>5, <1>6, <1>7, <1>8, <1>9, <1>10, <1>11,
           <1>12, <1>13, <1>14, <1>15, <1>16 DEF Next, RetryStep

LEMMA CopyAlways == Spec => []SomeCopy
<1>1. Init => SomeCopy
  BY DEF Init, SomeCopy
<1> QED BY OwnedAlways, <1>1, CopyStep, PTL DEF Spec

\* A published task is carried by a message, or has a result, or is among the
\* failed ones; it can only be gone if it was nacked before the retry process had
\* ever declared its queues.
THEOREM NoLoss == Spec => []NoTaskLost
<1>1. Owned /\ SomeCopy => NoTaskLost
  BY DEF Owned, TypeOK, SomeCopy, NoTaskLost, Copies, Carried
<1> QED BY OwnedAlways, CopyAlways, <1>1, PTL

\* Results and failed tasks come from published tasks only.
LEMMA PublishedStep == Owned /\ OnlyPublished /\ [Next]_vars => OnlyPublished'
<1> SUFFICES ASSUME Owned, OnlyPublished, [Next]_vars PROVE OnlyPublished'
  OBVIOUS
<1> USE DEF OnlyPublished, Owned, TypeOK
<1>1. ASSUME NEW t \in Task, Publish(t) PROVE OnlyPublished'
  BY <1>1 DEF Publish
<1>2. ASSUME NEW i \in Slot, RetryStep(i) PROVE OnlyPublished'
  BY <1>2, OwnedTask DEF RetryStep, Discard, Repost, RepostRaises, AckRetry, RetryAt
<1>3. ASSUME NEW w \in Worker, NEW i \in Slot, WorkerStep(w, i) PROVE OnlyPublished'
  <2>1. CASE FindObsolete(w, i) \/ HandlerDone(w, i) \/ RecordError(w, i)
    BY <2>1, OwnedTask DEF FindObsolete, HandlerDone, RecordError, At
  <2>2. CASE ~(FindObsolete(w, i) \/ HandlerDone(w, i) \/ RecordError(w, i))
    <3>1. UNCHANGED <<published, outcome, failed>>
      BY <1>3, <2>2 DEF WorkerStep, RaiseEarly, StartHandler, CheckRaises, HandlerDelays,
         HandlerFails, Republish, RecordRaises, Ack, Nack
    <3>2. UNCHANGED dropped \/ Nack(w, i)
      BY <1>3, <2>2 DEF WorkerStep, RaiseEarly, StartHandler, CheckRaises, HandlerDelays,
         HandlerFails, Republish, RecordRaises, Ack
    <3>3. dropped' \subseteq published
      BY <3>2, OwnedTask DEF Nack, At
    <3> QED BY <3>1, <3>3
  <2> QED BY <2>1, <2>2
<1>4. CASE UNCHANGED <<published, outcome, failed, dropped>>
  BY <1>4
<1>5. ASSUME NEW i \in Slot, Undelay(i) \/ DeliverRetry(i)
      PROVE UNCHANGED <<published, outcome, failed, dropped>>
  BY <1>5 DEF Undelay, DeliverRetry
<1>6. ASSUME NEW w \in Worker, NEW i \in Slot, Deliver(w, i)
      PROVE UNCHANGED <<published, outcome, failed, dropped>>
  BY <1>6 DEF Deliver
<1>7. ASSUME NEW w \in Worker, CrashWorker(w) \/ StartWorker(w)
      PROVE UNCHANGED <<published, outcome, failed, dropped>>
  BY <1>7 DEF CrashWorker, StartWorker
<1>8. ASSUME Tick \/ StartRetry \/ CrashRetry \/ OutageBegin \/ OutageEnd \/ UNCHANGED vars
      PROVE UNCHANGED <<published, outcome, failed, dropped>>
  BY <1>8 DEF Tick, StartRetry, CrashRetry, OutageBegin, OutageEnd, vars
<1> QED BY <1>1, <1>2, <1>3, <1>4, <1>5, <1>6, <1>7, <1>8 DEF Next

\* A step that leaves places and tasks alone, but for moves between places in the
\* broker, carries the same tasks.
LEMMA SameCarried ==
    ASSUME \A i \in Slot : /\ msg'[i].task = msg[i].task
                           /\ (at'[i] = "free" <=> at[i] = "free")
    PROVE Carried' = Carried
<1>1. \A t : t \in Carried' <=> t \in Carried
  BY DEF Carried
<1> QED BY <1>1

\* A successor carries the task of the message it succeeds.
LEMMA SuccessorCarries ==
    ASSUME Owned, NEW i \in Slot, at[i] # "free", NEW m \in MessageType,
           m.task = msg[i].task, Succeed(i, m)
    PROVE  Carried' = Carried
<1> PICK j \in Slot : /\ j # i /\ at[j] = "free"
                      /\ at'[i] = "delayed" /\ at'[j] = at[i]
                      /\ msg'[i] = m /\ msg'[j] = msg[i]
                      /\ \A k \in Slot \ {i, j} : at'[k] = at[k] /\ msg'[k] = msg[k]
  BY Succession DEF Owned
<1> QED BY DEF Carried

\* A message whose successor was published, or whose result was recorded, may go.
LEMMA AckedTask ==
    ASSUME Owned, SomeCopy, NEW i \in Slot, Superseded(i), at[i] # "free",
           Remove(i)
    PROVE /\ Carried' \in {Carried, Carried \ {msg[i].task}}
          /\ Carried' # Carried => /\ msg[i].task \in Carried
                                   /\ outcome[msg[i].task] # {} \/ msg[i].task \in failed \cup dropped
<1> DEFINE t == msg[i].task
<1>1. t \in published /\ t \in Task
  BY OwnedTask
<1>2. \A j \in Slot \ {i} : at'[j] = at[j] /\ msg'[j] = msg[j]
  BY DEF Remove, Owned, TypeOK
<1>3. at'[i] = "free"
  BY DEF Remove, Owned, TypeOK
<1>4. /\ \A u \in Carried : u # t => u \in Carried'
      /\ \A u \in Carried' : u \in Carried
      /\ t \in Carried
  BY <1>1, <1>2, <1>3 DEF Carried
<1>5. ASSUME t \notin Carried' PROVE Copies(t) = {}
  <2>1. ASSUME NEW j \in Copies(t) PROVE FALSE
    <3>1. j # i /\ at[j] # "free" /\ msg[j].task = t /\ j \in Slot
      BY <2>1 DEF Copies
    <3> QED BY <3>1, <1>1, <1>2, <1>5 DEF Carried
  <2> QED BY <2>1
<1>6. t \notin Carried' => outcome[t] # {} \/ t \in failed \cup dropped
  BY <1>1, <1>5 DEF SomeCopy
<1> QED BY <1>4, <1>6

\* Each step of the delivery path is a step of the abstract service, or none.
LEMMA ServiceStep ==
    ASSUME Owned, SomeCopy, OnlyPublished, [Next]_vars
    PROVE [Service!Next]_(Service!vars)
<1> USE DEF Owned, TypeOK
<1> DEFINE Done == [Service!Next]_(Service!vars)
<1>0. ASSUME Carried' = Carried, UNCHANGED <<outcome, failed, dropped, declared>> PROVE Done
  BY <1>0 DEF Service!vars
<1>1. ASSUME NEW t \in Task, Publish(t) PROVE Done
  <2>1. Carried' = Carried \cup {t}
    BY <1>1 DEF Publish, Enqueue, Message, Carried
  <2>2. t \notin Carried
    BY <1>1 DEF Publish, Carried, SlotsInUse
  <2>3. Service!Submit(t)
    BY <1>1, <2>1, <2>2 DEF Publish, Service!Submit, OnlyPublished
  <2> QED BY <2>3 DEF Service!Next
<1>2. ASSUME NEW i \in Slot, Undelay(i) \/ DeliverRetry(i) PROVE Done
  BY <1>0, <1>2, SameCarried DEF Undelay, DeliverRetry, Move
<1>3. ASSUME NEW i \in Slot, Discard(i) PROVE Done
  <2> DEFINE t == msg[i].task
  <2>1. t \in Task /\ t \in Carried
    BY <1>3, OwnedTask DEF Discard, RetryAt, Carried
  <2>2. Carried' \in {Carried, Carried \ {t}}
    BY <1>3, <2>1 DEF Discard, Remove, Carried
  <2>3. Service!GiveUp(t)
    BY <1>3, <2>1, <2>2 DEF Discard, Service!GiveUp
  <2> QED BY <2>1, <2>3 DEF Service!Next
<1>4. ASSUME NEW i \in Slot, Repost(i) PROVE Done
  <2>1. Carried' = Carried
    BY <1>4, RepostSucceeds, SuccessorCarries DEF Repost, RetryAt
  <2> QED BY <1>0, <1>4, <2>1 DEF Repost
<1>5. ASSUME NEW i \in Slot, RepostRaises(i) PROVE Done
  BY <1>0, <1>5, SameCarried DEF RepostRaises
<1>6. ASSUME NEW i \in Slot, Superseded(i), at[i] # "free", Remove(i),
             UNCHANGED <<outcome, failed, dropped, declared>>
      PROVE Done
  <2> DEFINE t == msg[i].task
  <2>1. t \in Task
    BY <1>6, OwnedTask
  <2>2. CASE Carried' = Carried
    BY <1>0, <1>6, <2>2
  <2>3. CASE Carried' # Carried
    <3>1. Service!Settle(t)
      BY <1>6, <2>3, AckedTask DEF Service!Settle
    <3> QED BY <2>1, <3>1 DEF Service!Next
  <2> QED BY <2>2, <2>3
<1>7. ASSUME NEW i \in Slot, AckRetry(i) PROVE Done
  BY <1>6, <1>7 DEF AckRetry, RetryAt, Superseded
<1>8. ASSUME NEW w \in Worker, NEW i \in Slot, Deliver(w, i) PROVE Done
  BY <1>0, <1>8, SameCarried DEF Deliver, Move
<1>9. ASSUME NEW w \in Worker, NEW i \in Slot, WorkerStep(w, i) PROVE Done
  <2>1. ASSUME NEW r \in Result, outcome' = [outcome EXCEPT ![msg[i].task] = @ \cup {r}],
               UNCHANGED <<at, msg, failed, dropped, declared>>, at[i] = w
        PROVE Done
    <3>1. msg[i].task \in Task /\ msg[i].task \in Carried
      BY <2>1, OwnedTask DEF Carried
    <3>2. Carried' = Carried
      BY <2>1 DEF Carried
    <3>3. Service!Perform(msg[i].task, r)
      BY <2>1, <3>1, <3>2 DEF Service!Perform
    <3> QED BY <3>1, <3>3 DEF Service!Next
  <2>2. CASE FindObsolete(w, i) \/ HandlerDone(w, i) \/ RecordError(w, i)
    BY <2>1, <2>2 DEF FindObsolete, HandlerDone, RecordError, At, Result
  <2>3. CASE \/ RaiseEarly(w, i) \/ StartHandler(w, i) \/ CheckRaises(w, i)
             \/ HandlerDelays(w, i) \/ HandlerFails(w, i) \/ RecordRaises(w, i)
    BY <1>0, <2>3, SameCarried
       DEF RaiseEarly, StartHandler, CheckRaises, HandlerDelays, HandlerFails, RecordRaises
  <2>4. CASE Republish(w, i)
    <3>1. Carried' = Carried
      BY <2>4, RepublishSucceeds, SuccessorCarries DEF Republish, At
    <3> QED BY <1>0, <2>4, <3>1 DEF Republish
  <2>5. CASE Ack(w, i)
    BY <1>6, <2>5 DEF Ack, At, Superseded
  <2>6. CASE Nack(w, i)
    <3> DEFINE t == msg[i].task
    <3>1. t \in Task /\ t \in Carried
      BY <2>6, OwnedTask DEF Nack, At, Carried
    <3>2. CASE declared
      BY <1>0, <2>6, <3>2, SameCarried DEF Nack, At, Move
    <3>3. CASE ~declared
      <4>1. Carried' \in {Carried, Carried \ {t}}
        BY <2>6, <3>1, <3>3 DEF Nack, Remove, Carried
      <4>2. Service!Lose(t)
        BY <2>6, <3>1, <3>3, <4>1 DEF Nack, Service!Lose
      <4> QED BY <3>1, <4>2 DEF Service!Next
    <3> QED BY <3>2, <3>3
  <2> QED BY <1>9, <2>2, <2>3, <2>4, <2>5, <2>6 DEF WorkerStep
<1>10. ASSUME NEW w \in Worker, CrashWorker(w) \/ StartWorker(w) PROVE Done
  BY <1>0, <1>10, SameCarried DEF CrashWorker, StartWorker
<1>11. CASE Tick
  <2>1. \A i \in Slot : msg'[i].task = msg[i].task
    BY <1>11, OlderMessage DEF Tick
  <2> QED BY <1>0, <1>11, <2>1, SameCarried DEF Tick
<1>12. CASE StartRetry
  <2>1. Carried' = Carried /\ declared' = TRUE /\ UNCHANGED <<outcome, failed, dropped>>
    BY <1>12, SameCarried DEF StartRetry
  <2>2. Service!SetUp
    BY <2>1 DEF Service!SetUp
  <2> QED BY <2>2 DEF Service!Next
<1>14. CASE CrashRetry
  BY <1>0, <1>14, SameCarried DEF CrashRetry
<1>13. CASE OutageBegin \/ OutageEnd \/ UNCHANGED vars
  BY <1>0, <1>13, SameCarried DEF OutageBegin, OutageEnd, vars
<1> QED BY <1>1, <1>2, <1>3, <1>4, <1>5, <1>7, <1>8, <1>9, <1>10, <1>11, <1>12, <1>13,
           <1>14
        DEF Next, RetryStep

\* The broker, the workers and the retry process together implement the abstract
\* task service, whether the retry queues exist from the start or not.
THEOREM Refinement == Spec => ImplementsService
<1>1. Init => Service!Init /\ OnlyPublished
  BY DEF Init, Service!Init, OnlyPublished, Carried
<1>2. Owned /\ SomeCopy /\ OnlyPublished /\ [Next]_vars => [Service!Next]_(Service!vars)
  BY ServiceStep
<1> QED BY <1>1, <1>2, OwnedAlways, CopyAlways, PublishedStep, PTL
        DEF Spec, ImplementsService, Service!Spec
--------------------------------------------------------------------------------
(* A retry costs its delay.                                                     *)

DelayLeast == LesserOf(DelayMin, DelayMax)

\* The age that so many retries take.
AgeOf(retries) == LesserOf(Expired, retries * DelayLeast)

LEMMA BackoffLeast == ASSUME NEW k \in 0..FloatLimit PROVE Backoff(k) >= DelayLeast
<1>1. PICK n \in Nat, d \in Nat \ {0} : n = 3 ^ k /\ d = 2 ^ k /\ n >= d
  BY PowerAssumption
<1> DEFINE x == DelayMin * n
           q == x \div d
<1>2. x \in Nat /\ x >= DelayMin * d
  BY <1>1
<1>3. q \in Nat /\ x = d * q + (x % d) /\ x % d < d
  BY <1>2
<1>4. q >= DelayMin
  <2> SUFFICES ASSUME q + 1 <= DelayMin PROVE FALSE
    BY <1>3
  <2>1. d * (q + 1) <= d * DelayMin
    BY <1>3
  <2>2. d * (q + 1) = d * q + d
    BY <1>3
  <2> QED  BY <1>2, <1>3, <2>1, <2>2
<1> QED  BY <1>1, <1>3, <1>4 DEF Backoff, DelayLeast, LesserOf

LEMMA AgeFacts ==
    /\ DelayLeast \in Nat /\ Expired \in Nat
    /\ AgeOf(0) = 0
    /\ \A r \in Nat : /\ AgeOf(r) \in Nat /\ AgeOf(r) <= Expired
                      /\ AgeOf(r + 1) <= AgeOf(r) + DelayLeast
<1>1. DelayLeast \in Nat /\ Expired \in Nat
  BY DEF DelayLeast, LesserOf, Expired
<1> HIDE DEF DelayLeast, Expired
<1>2. \A r \in Nat : r * DelayLeast \in Nat /\ (r + 1) * DelayLeast = r * DelayLeast + DelayLeast
  BY <1>1
<1>3. 0 * DelayLeast = 0
  BY <1>1
<1> QED  BY <1>1, <1>2, <1>3 DEF AgeOf, LesserOf

\* Only a delayed message waits, and every message is as old as its retries took.
Aged == \A i \in Slot :
    /\ at[i] \notin {"free", "delayed"} => msg[i].delay = 0
    /\ at[i] # "free" => msg[i].age + msg[i].delay >= AgeOf(msg[i].retries)

LEMMA AgedInit == Init => Aged
BY DEF Init, Aged

LEMMA AgedStep == Owned /\ Aged /\ [Next]_vars => Aged'
<1> SUFFICES ASSUME Owned, Aged, [Next]_vars PROVE Aged'
  OBVIOUS
<1>0. TypeOK
  BY DEF Owned
<1> USE DEF TypeOK, Aged
<1>1. ASSUME UNCHANGED msg, \A i \in Slot : \/ at'[i] = at[i]
                                            \/ at[i] = "delayed" /\ msg[i].delay = 0
                                            \/ at[i] \notin {"free", "delayed"}
      PROVE  Aged'
  BY <1>1
<1>2. ASSUME NEW i \in Slot, Remove(i) PROVE Aged'
  BY <1>0, <1>2 DEF Remove
<1>3. ASSUME NEW t \in Task, Publish(t) PROVE Aged'
  BY <1>0, <1>3, AgeFacts DEF Publish, Enqueue, Message
<1>4. ASSUME NEW w \in Worker, NEW i \in Slot, Republish(w, i) PROVE Aged'
  <2>1. at[i] \notin {"free", "delayed"}
    BY <1>4 DEF Republish, At
  <2>2. PICK m \in MessageType : m.age = 0 /\ m.retries = 0 /\ Succeed(i, m)
    BY <1>4, RepublishSucceeds
  <2>3. m.delay \in Nat /\ m.age + m.delay >= AgeOf(m.retries)
    BY <2>2, AgeFacts DEF MessageType
  <2> QED BY <1>0, <2>1, <2>2, <2>3, Succession
<1>5. ASSUME NEW i \in Slot, Repost(i) PROVE Aged'
  <2> DEFINE r == msg[i].retries
  <2>1. /\ at[i] = "held" /\ r \in 0..FloatLimit /\ r + 1 \in 0..FloatLimit
        /\ msg[i] \in MessageType
    BY <1>0, <1>5 DEF Repost, RetryAt, MessageType
  <2>2. PICK m \in MessageType :
            /\ m.age = msg[i].age /\ m.retries = r + 1 /\ m.delay = Backoff(m.retries)
            /\ Succeed(i, m)
    BY <1>5, RepostSucceeds
  <2>4. msg[i].age >= AgeOf(r)
    BY <2>1 DEF MessageType
  <2>5. Backoff(r + 1) \in Nat /\ Backoff(r + 1) >= DelayLeast
    BY <2>1, BackoffNat, BackoffLeast
  <2>6. msg[i].age + Backoff(r + 1) >= AgeOf(r + 1)
    BY <2>1, <2>4, <2>5, AgeFacts DEF MessageType
  <2>7. m.age + m.delay >= AgeOf(m.retries)
    BY <2>2, <2>6
  <2> QED  BY <1>0, <2>1, <2>2, <2>7, Succession
<1>6. CASE Tick
  <2> SUFFICES ASSUME NEW i \in Slot, at[i] # "free"
               PROVE  /\ at'[i] # "delayed" => msg'[i].delay = 0
                      /\ msg'[i].age + msg'[i].delay >= AgeOf(msg'[i].retries)
    BY <1>6 DEF Tick
  <2> DEFINE age == LesserOf(Expired, msg[i].age + 1)
             delay == IF msg[i].delay > 0 THEN msg[i].delay - 1 ELSE 0
  <2>1. msg[i] \in MessageType
    BY <1>0
  <2>2. /\ msg'[i].age = age /\ msg'[i].delay = delay
        /\ msg'[i].retries = msg[i].retries /\ at' = at
    BY <1>6, <2>1 DEF Tick, MessageType
  <2>3. msg[i].delay = 0 => delay = 0
    OBVIOUS
  <2>4. age = Expired \/ age + delay >= msg[i].age + msg[i].delay
    BY <2>1, AgeFacts DEF MessageType, LesserOf
  <2>5. age \in Nat /\ delay \in Nat /\ msg[i].retries \in Nat
    BY <2>1, AgeFacts DEF MessageType, LesserOf
  <2>6. age + delay >= AgeOf(msg[i].retries)
    <3> HIDE DEF age, delay
    <3>1. CASE age = Expired
      BY <3>1, <2>5, AgeFacts
    <3>2. CASE age + delay >= msg[i].age + msg[i].delay
      BY <3>2, <2>1, <2>5, AgeFacts DEF MessageType
    <3> QED  BY <2>4, <3>1, <3>2
  <2> QED  BY <2>2, <2>3, <2>6
<1>7. ASSUME NEW i \in Slot, Undelay(i) \/ DeliverRetry(i) \/ RepostRaises(i) PROVE Aged'
  BY <1>0, <1>1, <1>7 DEF Undelay, DeliverRetry, RepostRaises, Move
<1>8. ASSUME NEW i \in Slot, Discard(i) \/ AckRetry(i) PROVE Aged'
  BY <1>2, <1>8 DEF Discard, AckRetry
<1>9. ASSUME NEW w \in Worker, NEW i \in Slot, Deliver(w, i) PROVE Aged'
  BY <1>0, <1>1, <1>9 DEF Deliver, Move
<1>10. ASSUME NEW w \in Worker, NEW i \in Slot, WorkerStep(w, i) PROVE Aged'
  <2>1. CASE Nack(w, i)
    <3>1. CASE Move(i, "retry")
      BY <1>0, <1>1, <2>1, <3>1 DEF Nack, At, Move
    <3> QED  BY <1>2, <2>1, <3>1 DEF Nack
  <2>2. CASE Ack(w, i)
    BY <1>2, <2>2 DEF Ack
  <2>3. CASE UNCHANGED <<at, msg>>
    BY <1>1, <2>3
  <2> QED  BY <1>4, <1>10, <2>1, <2>2, <2>3 DEF WorkerStep, RaiseEarly, FindObsolete,
              StartHandler, CheckRaises, HandlerDone, HandlerDelays, HandlerFails,
              RecordError, RecordRaises
<1>11. ASSUME NEW w \in Worker, CrashWorker(w) PROVE Aged'
  BY <1>0, <1>1, <1>11 DEF CrashWorker
<1>12. CASE CrashRetry
  BY <1>0, <1>1, <1>12 DEF CrashRetry
<1>13. ASSUME \/ \E w \in Worker : StartWorker(w)
              \/ StartRetry \/ OutageBegin \/ OutageEnd \/ UNCHANGED vars
       PROVE  Aged'
  <2>1. UNCHANGED <<at, msg>>
    BY <1>13 DEF StartWorker, StartRetry, OutageBegin, OutageEnd, vars
  <2> QED  BY <1>1, <2>1
<1> QED  BY <1>3, <1>5, <1>6, <1>7, <1>8, <1>9, <1>10, <1>11, <1>12, <1>13 DEF Next, RetryStep

\* A message with r retries is as old as r delays, or has them still to wait: none is
\* discarded before its fail timeout (retry/main.py).
THEOREM RetriesTakeTime == Spec => []AgedByRetries
<1>1. Owned /\ Aged => AgedByRetries
  BY DEF Aged, AgedByRetries, AgeOf, DelayLeast
<1> QED  BY OwnedAlways, AgedInit, AgedStep, <1>1, PTL DEF Spec

--------------------------------------------------------------------------------
(* Every crash adds one copy.                                                   *)

Few(t) == IsFiniteSet(Copies(t)) /\ Cardinality(Copies(t)) <= 1 + crashes

FewCopies == \A t \in Task : Few(t)

\* How a step may change the copies of a task.
Begun(t) == Copies(t) = {} /\ \E j \in Slot : Copies(t)' \subseteq {j}
Doubled(t) == crashes' = crashes + 1 /\ \E j \in Slot : Copies(t)' \subseteq Copies(t) \cup {j}

LEMMA AtMostOneMore ==
    ASSUME NEW S, IsFiniteSet(S), NEW j, NEW T, T \subseteq S \cup {j}
    PROVE  IsFiniteSet(T) /\ Cardinality(T) <= Cardinality(S) + 1
<1>0. Cardinality(S) \in Nat
  BY FS_CardinalityType
<1>1. /\ IsFiniteSet(S \cup {j})
      /\ Cardinality(S \cup {j}) <= Cardinality(S) + 1
  <2>1. /\ IsFiniteSet(S \cup {j})
        /\ Cardinality(S \cup {j}) = IF j \in S THEN Cardinality(S) ELSE Cardinality(S) + 1
    BY FS_AddElement
  <2> QED  BY <1>0, <2>1
<1>2. IsFiniteSet(T) /\ Cardinality(T) <= Cardinality(S \cup {j}) /\ Cardinality(T) \in Nat
  BY <1>1, FS_Subset, FS_CardinalityType
<1>3. Cardinality(S \cup {j}) \in Nat
  BY <1>1, FS_CardinalityType
<1> QED  BY <1>0, <1>1, <1>2, <1>3

LEMMA FewKept ==
    ASSUME NEW t \in Task, Few(t), crashes \in Nat, crashes' \in Nat, crashes' >= crashes,
           Copies(t)' \subseteq Copies(t) \/ Begun(t) \/ Doubled(t)
    PROVE  Few(t)'
<1> USE DEF Few
<1>0. Cardinality(Copies(t)) \in Nat
  BY FS_CardinalityType
<1>1. CASE Copies(t)' \subseteq Copies(t)
  <2>1. /\ IsFiniteSet(Copies(t)') /\ Cardinality(Copies(t)') \in Nat
        /\ Cardinality(Copies(t)') <= Cardinality(Copies(t))
    BY <1>1, FS_Subset, FS_CardinalityType
  <2> QED  BY <1>0, <2>1
<1>3. CASE Begun(t)
  <2> PICK j \in Slot : Copies(t) = {} /\ Copies(t)' \subseteq {} \cup {j}
    BY <1>3 DEF Begun
  <2>1. IsFiniteSet(Copies(t)') /\ Cardinality(Copies(t)') <= Cardinality(Copies(t)) + 1
    BY AtMostOneMore
  <2>2. Cardinality(Copies(t)) = 0 /\ Cardinality(Copies(t)') \in Nat
    BY <2>1, FS_EmptySet, FS_CardinalityType
  <2> QED  BY <2>1, <2>2
<1>4. CASE Doubled(t)
  <2> PICK j \in Slot : crashes' = crashes + 1 /\ Copies(t)' \subseteq Copies(t) \cup {j}
    BY <1>4 DEF Doubled
  <2>1. IsFiniteSet(Copies(t)') /\ Cardinality(Copies(t)') <= Cardinality(Copies(t)) + 1
    BY AtMostOneMore
  <2> QED  BY <1>0, <2>1, FS_CardinalityType
<1> QED  BY <1>1, <1>3, <1>4

LEMMA FewInit == Init => FewCopies
<1> SUFFICES ASSUME Init, NEW t \in Task PROVE Few(t)
  BY DEF FewCopies
<1>1. Copies(t) = {}
  BY DEF Init, Copies
<1>2. crashes = 0
  BY DEF Init
<1> QED  BY <1>1, <1>2, FS_EmptySet DEF Few

LEMMA FewStep == Owned /\ FewCopies /\ [Next]_vars => FewCopies'
<1> SUFFICES ASSUME Owned, FewCopies, [Next]_vars, NEW t \in Task PROVE Few(t)'
  BY DEF FewCopies
<1>0. /\ TypeOK /\ TypeOK' /\ Few(t) /\ crashes \in Nat /\ crashes' \in Nat
      /\ OneAtATime /\ SlotsInUse
  BY TypeStep DEF Owned, FewCopies, TypeOK
<1> USE DEF TypeOK
<1>1. ASSUME UNCHANGED <<at, crashes>>, \A i \in Slot : msg'[i].task = msg[i].task,
             \A i \in Slot : Superseded(i) => Superseded(i)'
      PROVE  Few(t)'
  <2>1. Copies(t)' \subseteq Copies(t)
    BY <1>1 DEF Copies
  <2> QED  BY <1>0, <1>1, <2>1, FewKept
<1>2. ASSUME NEW j \in Slot, NEW p \in Place \ {"free"}, Move(j, p),
             at[j] # "free", UNCHANGED crashes,
             \A k \in Slot : k # j /\ Superseded(k) => Superseded(k)', ~Superseded(j)
      PROVE  Few(t)'
  <2>1. Copies(t)' \subseteq Copies(t)
    BY <1>0, <1>2 DEF Copies, Move
  <2> QED  BY <1>0, <1>2, <2>1, FewKept
<1>3. ASSUME NEW j \in Slot, Remove(j), UNCHANGED crashes,
             \A k \in Slot : k # j /\ Superseded(k) => Superseded(k)'
      PROVE  Few(t)'
  <2>1. Copies(t)' \subseteq Copies(t)
    BY <1>0, <1>3 DEF Copies, Remove
  <2> QED  BY <1>0, <1>3, <2>1, FewKept
<1>4. ASSUME NEW s \in Task, Publish(s) PROVE Few(t)'
  <2>1. PICK j \in Slot : /\ at[j] = "free" /\ at' = [at EXCEPT ![j] = "ready"]
                          /\ msg' = [msg EXCEPT ![j] = Message(s, TRUE, 0)]
    BY <1>4 DEF Publish, Enqueue
  <2>2. /\ UNCHANGED <<worker, retry, crashes>> /\ s \notin published
        /\ msg'[j].task = s
    BY <1>0, <1>4, <2>1 DEF Publish, Message
  <2>3. \A k \in Slot : k # j => (Superseded(k) <=> Superseded(k)')
    BY <1>0, <2>1, <2>2 DEF Superseded, RetryAt, At
  <2>4. CASE t # s
    <3>1. Copies(t)' \subseteq Copies(t)
      BY <1>0, <2>1, <2>2, <2>3, <2>4 DEF Copies
    <3> QED  BY <1>0, <2>2, <3>1, FewKept
  <2>5. CASE t = s
    <3>1. Copies(t) = {}
      BY <1>0, <2>2, <2>5 DEF Copies, SlotsInUse
    <3>2. Copies(t)' \subseteq {j}
      BY <1>0, <2>1, <2>2, <2>3, <3>1 DEF Copies
    <3> QED  BY <1>0, <2>2, <3>1, <3>2, FewKept DEF Begun
  <2> QED  BY <2>4, <2>5
<1>5. ASSUME UNCHANGED crashes, Copies(t)' = Copies(t)
      PROVE  Few(t)'
  BY <1>0, <1>5, FewKept
<1>6. ASSUME NEW w \in Worker, NEW i \in Slot, Republish(w, i) PROVE Few(t)'
  <2>1. /\ at[i] = w /\ worker[w] = "delay" /\ worker' = [worker EXCEPT ![w] = "ack"]
        /\ UNCHANGED <<retry, crashes>> /\ at[i] # "free"
    BY <1>6 DEF Republish, At
  <2>2. Copies(t)' = Copies(t)
    BY <1>6, <2>1, RepublishSucceeds, SuccessorCopies
  <2> QED  BY <1>5, <2>1, <2>2
<1>7. ASSUME NEW i \in Slot, Repost(i) PROVE Few(t)'
  <2>1. /\ at[i] = "held" /\ retry = "check" /\ retry' = "ack"
        /\ UNCHANGED <<worker, crashes>>
    BY <1>7 DEF Repost, RetryAt
  <2>2. Copies(t)' = Copies(t)
    BY <1>7, <2>1, RepostSucceeds, SuccessorCopies
  <2> QED  BY <1>5, <2>1, <2>2
<1>8. ASSUME NEW p \in Worker \cup {"held"}, UNCHANGED msg, crashes' = crashes + 1,
             \A k \in Slot : IF at[k] = p THEN at'[k] # "free" ELSE at'[k] = at[k],
             \A k \in Slot : at[k] # p /\ Superseded(k) => Superseded(k)'
      PROVE  Few(t)'
  <2>1. \A k \in Copies(t)' : at[k] # p => k \in Copies(t)
    BY <1>0, <1>8 DEF Copies
  <2>2. CASE \E j \in Slot : at[j] = p
    <3> PICK j \in Slot : at[j] = p
      BY <2>2
    <3>1. \A k \in Slot : at[k] = p => k = j
      BY <1>0 DEF OneAtATime
    <3>2. Copies(t)' \subseteq Copies(t) \cup {j}
      BY <2>1, <3>1 DEF Copies
    <3> QED  BY <1>0, <1>8, <3>2, FewKept DEF Doubled
  <2>3. CASE \A j \in Slot : at[j] # p
    <3>1. Copies(t)' \subseteq Copies(t)
      BY <2>1, <2>3 DEF Copies
    <3> QED  BY <1>0, <1>8, <3>1, FewKept
  <2> QED  BY <2>2, <2>3
<1>9. ASSUME NEW w \in Worker, CrashWorker(w) PROVE Few(t)'
  BY <1>0, <1>8, <1>9 DEF CrashWorker, Superseded, RetryAt, At
<1>10. CASE CrashRetry
  BY <1>0, <1>8, <1>10 DEF CrashRetry, Superseded, RetryAt, At
<1>11. CASE Tick
  <2>1. \A i \in Slot : msg'[i].task = msg[i].task
    BY <1>0, <1>11, OlderMessage DEF Tick
  <2>2. \A i \in Slot : Superseded(i) => Superseded(i)'
    BY <1>11 DEF Tick, Superseded, RetryAt, At
  <2> QED  BY <1>1, <1>11, <2>1, <2>2 DEF Tick
<1>12. ASSUME NEW i \in Slot, Undelay(i) PROVE Few(t)'
  BY <1>0, <1>2, <1>12 DEF Undelay, Superseded, RetryAt, At, Place, Move
<1>13. ASSUME NEW i \in Slot, DeliverRetry(i) PROVE Few(t)'
  BY <1>0, <1>2, <1>13 DEF DeliverRetry, Superseded, RetryAt, At, Place, Move
<1>14. ASSUME NEW w \in Worker, NEW i \in Slot, Deliver(w, i) PROVE Few(t)'
  BY <1>0, <1>2, <1>14 DEF Deliver, Superseded, RetryAt, At, Place, Move
<1>15. ASSUME NEW i \in Slot, Discard(i) \/ AckRetry(i) PROVE Few(t)'
  <2>1. /\ at[i] = "held" /\ Remove(i) /\ UNCHANGED <<worker, crashes>>
        /\ retry \in {"check", "ack"}
    BY <1>15 DEF Discard, AckRetry, RetryAt
  <2>2. \A k \in Slot : k # i /\ Superseded(k) => Superseded(k)'
    BY <1>0, <2>1 DEF Superseded, RetryAt, At, Remove, OneAtATime
  <2> QED  BY <1>3, <2>1, <2>2
<1>16. ASSUME NEW i \in Slot, RepostRaises(i) PROVE Few(t)'
  BY <1>0, <1>1, <1>16 DEF RepostRaises, Superseded, RetryAt, At
<1>17. ASSUME NEW w \in Worker, NEW i \in Slot, WorkerStep(w, i) PROVE Few(t)'
  <2>1. CASE Nack(w, i)
    <3>1. \A k \in Slot : k # i /\ Superseded(k) => Superseded(k)'
      BY <1>0, <2>1 DEF Nack, Move, Remove, Superseded, RetryAt, At, OneAtATime
    <3>2. ~Superseded(i) /\ at[i] # "free"
      BY <1>0, <2>1 DEF Nack, Superseded, RetryAt, At
    <3>3. CASE Move(i, "retry")
      BY <1>2, <2>1, <3>1, <3>2, <3>3 DEF Nack, Place
    <3>4. CASE Remove(i)
      BY <1>3, <2>1, <3>1, <3>4 DEF Nack
    <3> QED  BY <2>1, <3>3, <3>4 DEF Nack
  <2>2. CASE Ack(w, i)
    <3>1. \A k \in Slot : k # i /\ Superseded(k) => Superseded(k)'
      BY <1>0, <2>2 DEF Ack, Remove, Superseded, RetryAt, At, OneAtATime
    <3> QED  BY <1>3, <2>2, <3>1 DEF Ack
  <2>3. CASE \/ RaiseEarly(w, i) \/ FindObsolete(w, i) \/ StartHandler(w, i)
             \/ CheckRaises(w, i) \/ HandlerDone(w, i) \/ HandlerDelays(w, i)
             \/ HandlerFails(w, i) \/ RecordError(w, i) \/ RecordRaises(w, i)
    <3>1. /\ UNCHANGED <<at, msg, retry, crashes>> /\ worker[w] # "ack"
          /\ \A v \in Worker : v # w => worker'[v] = worker[v]
      BY <1>0, <2>3 DEF RaiseEarly, FindObsolete, StartHandler, CheckRaises, HandlerDone,
            HandlerDelays, HandlerFails, RecordError, RecordRaises, At
    <3>2. \A k \in Slot : Superseded(k) => Superseded(k)'
      BY <3>1 DEF Superseded, RetryAt, At
    <3> QED  BY <1>1, <3>1, <3>2
  <2> QED  BY <1>6, <1>17, <2>1, <2>2, <2>3 DEF WorkerStep
<1>18. ASSUME NEW w \in Worker, StartWorker(w) PROVE Few(t)'
  BY <1>0, <1>1, <1>18 DEF StartWorker, Superseded, RetryAt, At
<1>19. CASE StartRetry
  BY <1>0, <1>1, <1>19 DEF StartRetry, Superseded, RetryAt, At
<1>20. CASE OutageBegin \/ OutageEnd \/ UNCHANGED vars
  BY <1>0, <1>1, <1>20 DEF OutageBegin, OutageEnd, vars, Superseded, RetryAt, At
<1> QED  BY <1>4, <1>7, <1>9, <1>10, <1>11, <1>12, <1>13, <1>14, <1>15, <1>16, <1>17, <1>18,
            <1>19, <1>20 DEF Next, RetryStep

\* Without a crash no two workers ever execute the same task (worker/main.py); each
\* crash between the publication of a successor and the acknowledgement adds one copy.
THEOREM CopiesStayBounded == Spec => []CopiesBounded
<1>1. FewCopies => CopiesBounded
  BY DEF FewCopies, Few, CopiesBounded
<1> QED  BY OwnedAlways, FewInit, FewStep, <1>1, PTL DEF Spec
================================================================================
