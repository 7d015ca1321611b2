----------------------------- MODULE TaskDelivery ------------------------------
(* The road a task travels: the broker of tasks.py (an x-delayed-message       *)
(* exchange and the 'orchestration' queue, which dead-letters into             *)
(* 'orchestration.retry', which dead-letters into 'orchestration.failed'), the *)
(* dispatch loop of the worker processes (worker/main.py, task_errors.py) and  *)
(* the retry process (retry/main.py).                                          *)
(*                                                                             *)
(* A message occupies a slot. The work of a handler is one step with the       *)
(* endings the dispatcher tells apart; the handlers have modules of their own. *)
(* Time is counted in ticks, in the age of a message (saturating one tick past *)
(* FailTimeout) and in the delay it has left, so that no clock is unbounded.   *)
EXTENDS Integers, FiniteSets

CONSTANTS
    Task,         \* tasks the HTTP server publishes, each once
    NoTask,       \* the task of a free slot
    Worker,       \* kyaraben-worker processes
    Slot,         \* storage for messages; whoever publishes waits for a free one
    Rejects,      \* pairs (w, t): process w was started with --reject and the message_id
                  \* under which t was published
    HeatPoll,     \* worker.heat_poll_interval
    DelayMin,     \* retry.delay_min
    DelayMax,     \* retry.delay_max
    FailTimeout,  \* retry.fail_timeout
    FloatLimit,   \* largest retry count whose back-off is still a finite float
    QueuesExist,  \* an earlier run of the retry process declared the (durable) retry queues
    MaxCrashes    \* bound on crashes of worker and retry processes

ASSUME DeliveryAssumption ==
    /\ NoTask \notin Task
    /\ Worker \cap {"free", "delayed", "ready", "retry", "held"} = {}
    /\ Rejects \subseteq Worker \X Task
    /\ HeatPoll \in Nat /\ DelayMin \in Nat /\ DelayMax \in Nat
    /\ FailTimeout \in Nat /\ FloatLimit \in Nat /\ MaxCrashes \in Nat
    /\ QueuesExist \in BOOLEAN

\* A fact of arithmetic (whatever FloatLimit is), named because the provers know
\* nothing about exponentiation.
ASSUME PowerAssumption ==
    \A k \in 0..FloatLimit : 3 ^ k \in Nat /\ 2 ^ k \in Nat \ {0} /\ 3 ^ k >= 2 ^ k

VARIABLES
    at,         \* at[i]: where the message in slot i is; a worker has it unacknowledged
    msg,        \* msg[i]: the message in slot i
    worker,     \* worker[w]: what process w is doing with its message
    retry,      \* the same for the retry process, whose message is "held"
    declared,   \* the retry and failed queues exist in the broker
    outage,     \* the database, or another service of every handler, is down
    published,  \* tasks the server has published
    outcome,    \* outcome[t]: the results workers recorded for t
    failed,     \* tasks in the 'orchestration.failed' queue
    dropped,    \* tasks dead-lettered while no retry queue was bound
    crashes     \* crashes so far

vars == <<at, msg, worker, retry, declared, outage, published, outcome, failed,
          dropped, crashes>>

\* "done": the handler returned, or was not needed any more.
Result == {"done", "error"}

Place == {"free", "delayed", "ready", "retry", "held"} \cup Worker

\* The age past which a message only gets older, never different.
Expired == FailTimeout + 1

Blank == [task |-> NoTask, first |-> FALSE, age |-> 0, retries |-> 0, delay |-> 0]

\* Every call of publish makes up a message_id; the first one of a task is the one
\* that Rejects speaks of.
Message(t, first, delay) ==
    [task |-> t, first |-> first, age |-> 0, retries |-> 0, delay |-> delay]

LesserOf(a, b) == IF a <= b THEN a ELSE b

\* int(delay_min * 1.5 ** retries), capped. The product is exact in a double.
Backoff(retries) == LesserOf(DelayMax, (DelayMin * 3 ^ retries) \div (2 ^ retries))

\* Slots are storage: which of the free ones is used next makes no difference.
NextFree == CHOOSE i \in Slot : at[i] = "free"

\* Message m goes into a free slot, at p.
Enqueue(m, p) == \E i \in Slot : /\ at[i] = "free" /\ i = NextFree
                                 /\ at' = [at EXCEPT ![i] = p]
                                 /\ msg' = [msg EXCEPT ![i] = m]

\* Message m, the successor of the one in hand in slot i, goes into the delayed exchange.
\* It takes the slot, and what is in hand moves to another.
Succeed(i, m) == \E j \in Slot :
    /\ at[j] = "free" /\ j = NextFree
    /\ at' = [at EXCEPT ![j] = at[i], ![i] = "delayed"]
    /\ msg' = [msg EXCEPT ![j] = msg[i], ![i] = m]

\* The message in slot i leaves the broker.
Remove(i) == /\ at' = [at EXCEPT ![i] = "free"]
             /\ msg' = [msg EXCEPT ![i] = Blank]
Move(i, p) == at' = [at EXCEPT ![i] = p] /\ UNCHANGED msg

Init == /\ at = [i \in Slot |-> "free"]
        /\ msg = [i \in Slot |-> Blank]
        /\ worker = [w \in Worker |-> "idle"]
        /\ retry = "down"
        /\ declared = QueuesExist
        /\ outage = FALSE
        /\ published = {}
        /\ outcome = [t \in Task |-> {}]
        /\ failed = {}
        /\ dropped = {}
        /\ crashes = 0

\* Process w, or the retry process, has slot i in hand and is about to do st.
At(w, st, i) == worker[w] = st /\ at[i] = w
RetryAt(st, i) == retry = st /\ at[i] = "held"

--------------------------------------------------------------------------------
(* Mutants: operations with a plausible bug, for seeing each property fail.    *)

\* A failed message is acknowledged like any other.
NackAcknowledges(w, i) ==
    /\ At(w, "nack", i)
    /\ Remove(i)
    /\ worker' = [worker EXCEPT ![w] = "idle"]
    /\ UNCHANGED <<retry, declared, outage, published, outcome, failed, dropped, crashes>>

\* The prefetch window is not set.
DeliverWithoutQos(w, i) ==
    /\ worker[w] # "down"
    /\ at[i] = "ready"
    /\ Move(i, w)
    /\ worker' = [worker EXCEPT ![w] = "check"]
    /\ UNCHANGED <<retry, declared, outage, published, outcome, failed, dropped, crashes>>

\* TaskDelay is re-raised after the republication, and the message dead-lettered.
RepublishAndRaise(w, i) ==
    /\ At(w, "delay", i)
    /\ Succeed(i, Message(msg[i].task, FALSE, HeatPoll))
    /\ worker' = [worker EXCEPT ![w] = "nack"]
    /\ UNCHANGED <<retry, declared, outage, published, outcome, failed, dropped, crashes>>

\* The retry queue has no dead-letter exchange of its own.
DiscardSilently(i) ==
    /\ RetryAt("check", i)
    /\ msg[i].age > FailTimeout
    /\ Remove(i)
    /\ retry' = "idle"
    /\ UNCHANGED <<worker, declared, outage, published, outcome, failed, dropped, crashes>>

RepostWith(i, m) ==
    /\ RetryAt("check", i)
    /\ msg[i].age <= FailTimeout
    /\ Succeed(i, m)
    /\ retry' = "ack"
    /\ UNCHANGED <<worker, declared, outage, published, outcome, failed, dropped, crashes>>

\* The delay header is lost, the timestamp is renewed, the overflow is ignored.
RepostAtOnce(i) == RepostWith(i, [msg[i] EXCEPT !.retries = @ + 1, !.delay = 0])
RepostRejuvenated(i) ==
    RepostWith(i, [msg[i] EXCEPT !.age = 0, !.retries = LesserOf(FloatLimit, @ + 1),
                                 !.delay = DelayMin])

--------------------------------------------------------------------------------
(* The publisher and the broker.                                               *)

\* A request handler of the HTTP server publishes a task (tasks.py publish).
Publish(t) ==
    /\ t \notin published
    /\ Enqueue(Message(t, TRUE, 0), "ready")
    /\ published' = published \cup {t}
    /\ UNCHANGED <<worker, retry, declared, outage, outcome, failed, dropped, crashes>>

\* The delayed-message exchange routes a message whose x-delay has passed.
Undelay(i) ==
    /\ at[i] = "delayed" /\ msg[i].delay = 0
    /\ Move(i, "ready")
    /\ UNCHANGED <<worker, retry, declared, outage, published, outcome, failed,
                   dropped, crashes>>

\* One tick: every message gets older, every delay shorter.
Tick ==
    /\ msg' = [i \in Slot |->
                IF at[i] = "free" THEN msg[i]
                ELSE [msg[i] EXCEPT
                        !.age = LesserOf(Expired, msg[i].age + 1),
                        !.delay = IF msg[i].delay > 0 THEN msg[i].delay - 1 ELSE 0]]
    /\ UNCHANGED <<at, worker, retry, declared, outage, published, outcome, failed,
                   dropped, crashes>>

\* The broker delivers to a worker with nothing unacknowledged (prefetch 1).
Deliver(w, i) ==
    /\ worker[w] = "idle"
    /\ at[i] = "ready"
    /\ Move(i, w)
    /\ worker' = [worker EXCEPT ![w] = "check"]
    /\ UNCHANGED <<retry, declared, outage, published, outcome, failed, dropped, crashes>>

\* The same for the retry process, from its own queue.
DeliverRetry(i) ==
    /\ retry = "idle"
    /\ at[i] = "retry"
    /\ Move(i, "held")
    /\ retry' = "check"
    /\ UNCHANGED <<worker, declared, outage, published, outcome, failed, dropped, crashes>>

--------------------------------------------------------------------------------
(* The worker: App.consume and handle_message. Slot i is the one in hand.      *)

\* properties.message_id in args.reject: a repost keeps the id, a TaskDelay does not.
Rejected(w, i) == <<w, msg[i].task>> \in Rejects /\ msg[i].first

\* Rejected: nacked before any handler. (So is a message with an unknown task, which
\* the server does not publish.)
RaiseEarly(w, i) ==
    /\ At(w, "check", i)
    /\ Rejected(w, i)
    /\ worker' = [worker EXCEPT ![w] = "nack"]
    /\ UNCHANGED <<at, msg, retry, declared, outage, published, outcome, failed, dropped, crashes>>

\* is_task_obsolete finds one of the objects DELETED: the task is settled as is.
FindObsolete(w, i) ==
    /\ At(w, "check", i)
    /\ ~Rejected(w, i)
    /\ ~outage
    /\ outcome' = [outcome EXCEPT ![msg[i].task] = @ \cup {"done"}]
    /\ worker' = [worker EXCEPT ![w] = "ack"]
    /\ UNCHANGED <<at, msg, retry, declared, outage, published, failed, dropped, crashes>>

\* is_task_obsolete returns False, and the handler is awaited.
StartHandler(w, i) ==
    /\ At(w, "check", i)
    /\ ~Rejected(w, i)
    /\ ~outage
    /\ worker' = [worker EXCEPT ![w] = "run"]
    /\ UNCHANGED <<at, msg, retry, declared, outage, published, outcome, failed, dropped, crashes>>

\* is_task_obsolete, outside the try block, raises: consume nacks.
CheckRaises(w, i) ==
    /\ At(w, "check", i)
    /\ ~Rejected(w, i)
    /\ outage
    /\ worker' = [worker EXCEPT ![w] = "nack"]
    /\ UNCHANGED <<at, msg, retry, declared, outage, published, outcome, failed, dropped, crashes>>

\* The handler returns.
HandlerDone(w, i) ==
    /\ At(w, "run", i)
    /\ ~outage
    /\ outcome' = [outcome EXCEPT ![msg[i].task] = @ \cup {"done"}]
    /\ worker' = [worker EXCEPT ![w] = "ack"]
    /\ UNCHANGED <<at, msg, retry, declared, outage, published, failed, dropped, crashes>>

\* The handler raises TaskDelay: heat or the VM is not ready yet.
HandlerDelays(w, i) ==
    /\ At(w, "run", i)
    /\ ~outage
    /\ worker' = [worker EXCEPT ![w] = "delay"]
    /\ UNCHANGED <<at, msg, retry, declared, outage, published, outcome, failed, dropped, crashes>>

\* The handler raises anything else, OSHeatError included: caught, not re-raised.
HandlerFails(w, i) ==
    /\ At(w, "run", i)
    /\ worker' = [worker EXCEPT ![w] = "error"]
    /\ UNCHANGED <<at, msg, retry, declared, outage, published, outcome, failed, dropped, crashes>>

\* A TaskDelay publishes a new message, with a new timestamp and no retries.
Republish(w, i) ==
    /\ At(w, "delay", i)
    /\ Succeed(i, Message(msg[i].task, FALSE, HeatPoll))
    /\ worker' = [worker EXCEPT ![w] = "ack"]
    /\ UNCHANGED <<retry, declared, outage, published, outcome, failed, dropped, crashes>>

\* set_status_error writes ERROR in the row of the object the task is about ...
RecordError(w, i) ==
    /\ At(w, "error", i)
    /\ ~outage
    /\ outcome' = [outcome EXCEPT ![msg[i].task] = @ \cup {"error"}]
    /\ worker' = [worker EXCEPT ![w] = "ack"]
    /\ UNCHANGED <<at, msg, retry, declared, outage, published, failed, dropped, crashes>>

\* ... or raises in its turn, out of handle_message.
RecordRaises(w, i) ==
    /\ At(w, "error", i)
    /\ outage
    /\ worker' = [worker EXCEPT ![w] = "nack"]
    /\ UNCHANGED <<at, msg, retry, declared, outage, published, outcome, failed, dropped, crashes>>

\* handle_message returned: the message is acknowledged and leaves the broker.
Ack(w, i) ==
    /\ At(w, "ack", i)
    /\ Remove(i)
    /\ worker' = [worker EXCEPT ![w] = "idle"]
    /\ UNCHANGED <<retry, declared, outage, published, outcome, failed, dropped, crashes>>

\* handle_message raised: nack without requeue, which dead-letters the message
\* into the retry queue, or into nothing when no retry process ever declared it.
Nack(w, i) ==
    /\ At(w, "nack", i)
    /\ worker' = [worker EXCEPT ![w] = "idle"]
    /\ \/ declared /\ Move(i, "retry") /\ UNCHANGED dropped
       \/ ~declared /\ Remove(i) /\ dropped' = dropped \cup {msg[i].task}
    /\ UNCHANGED <<retry, declared, outage, published, outcome, failed, crashes>>

--------------------------------------------------------------------------------
(* The retry process.                                                          *)

\* TaskCollector.setup declares the queues, then consuming starts.
StartRetry ==
    /\ retry = "down"
    /\ retry' = "idle"
    /\ declared' = TRUE
    /\ UNCHANGED <<at, msg, worker, outage, published, outcome, failed, dropped, crashes>>

\* Older than fail_timeout: nack, into the failed queue.
Discard(i) ==
    /\ RetryAt("check", i)
    /\ msg[i].age > FailTimeout
    /\ failed' = failed \cup {msg[i].task}
    /\ Remove(i)
    /\ retry' = "idle"
    /\ UNCHANGED <<worker, declared, outage, published, outcome, dropped, crashes>>

\* repost: the same id and timestamp, one more retry, a longer delay.
Repost(i) ==
    LET retries == msg[i].retries + 1 IN
    /\ RetryAt("check", i)
    /\ msg[i].age <= FailTimeout
    /\ retries <= FloatLimit
    /\ Succeed(i, [msg[i] EXCEPT !.retries = retries, !.delay = Backoff(retries)])
    /\ retry' = "ack"
    /\ UNCHANGED <<worker, declared, outage, published, outcome, failed, dropped, crashes>>

\* The back-off, before it is capped, no longer fits a float: OverflowError leaves the callback, the
\* message stays unacknowledged, and prefetch 1 keeps all others away.
RepostRaises(i) ==
    /\ RetryAt("check", i)
    /\ msg[i].age <= FailTimeout
    /\ msg[i].retries + 1 > FloatLimit
    /\ retry' = "stalled"
    /\ UNCHANGED <<at, msg, worker, declared, outage, published, outcome, failed, dropped, crashes>>

AckRetry(i) ==
    /\ RetryAt("ack", i)
    /\ Remove(i)
    /\ retry' = "idle"
    /\ UNCHANGED <<worker, declared, outage, published, outcome, failed, dropped, crashes>>

--------------------------------------------------------------------------------
(* Failures: outages of the services, crashes and restarts of the processes.   *)

OutageBegin == /\ ~outage /\ outage' = TRUE
               /\ UNCHANGED <<at, msg, worker, retry, declared, published, outcome,
                              failed, dropped, crashes>>

OutageEnd == /\ outage /\ outage' = FALSE
             /\ UNCHANGED <<at, msg, worker, retry, declared, published, outcome,
                            failed, dropped, crashes>>

\* The connection closes: the broker requeues what was not acknowledged.
CrashWorker(w) ==
    /\ crashes < MaxCrashes
    /\ worker[w] # "down"
    /\ crashes' = crashes + 1
    /\ worker' = [worker EXCEPT ![w] = "down"]
    /\ at' = [i \in Slot |-> IF at[i] = w THEN "ready" ELSE at[i]]
    /\ UNCHANGED <<msg, retry, declared, outage, published, outcome, failed, dropped>>

StartWorker(w) ==
    /\ worker[w] = "down"
    /\ worker' = [worker EXCEPT ![w] = "idle"]
    /\ UNCHANGED <<at, msg, retry, declared, outage, published, outcome, failed, dropped, crashes>>

CrashRetry ==
    /\ crashes < MaxCrashes
    /\ retry # "down"
    /\ crashes' = crashes + 1
    /\ retry' = "down"
    /\ at' = [i \in Slot |-> IF at[i] = "held" THEN "retry" ELSE at[i]]
    /\ UNCHANGED <<msg, worker, declared, outage, published, outcome, failed, dropped>>

--------------------------------------------------------------------------------
WorkerStep(w, i) ==
    \/ RaiseEarly(w, i)   \/ FindObsolete(w, i)  \/ StartHandler(w, i)
    \/ CheckRaises(w, i)  \/ HandlerDone(w, i)   \/ HandlerDelays(w, i)
    \/ HandlerFails(w, i) \/ Republish(w, i)     \/ RecordError(w, i)
    \/ RecordRaises(w, i) \/ Ack(w, i)           \/ Nack(w, i)

RetryStep(i) == Discard(i) \/ Repost(i) \/ RepostRaises(i) \/ AckRetry(i)

Next ==
    \/ \E t \in Task : Publish(t)
    \/ \E i \in Slot : Undelay(i) \/ DeliverRetry(i) \/ RetryStep(i)
    \/ \E w \in Worker, i \in Slot : Deliver(w, i) \/ WorkerStep(w, i)
    \/ \E w \in Worker : CrashWorker(w) \/ StartWorker(w)
    \/ Tick \/ StartRetry \/ CrashRetry \/ OutageBegin \/ OutageEnd

Spec == Init /\ [][Next]_vars

\* Processes keep running and are restarted, the broker serves every message of
\* a queue, time passes, and what a handler polls for is ready in the end. An
\* outage may last for ever, and may come back.
Fairness ==
    /\ WF_vars(Tick)
    /\ WF_vars(StartRetry \/ \E i \in Slot : RetryStep(i))
    /\ \A w \in Worker : WF_vars(StartWorker(w) \/ \E i \in Slot : WorkerStep(w, i))
    /\ \A t \in Task :
          /\ WF_vars(\E i \in Slot : msg[i].task = t /\ Undelay(i))
          /\ SF_vars(\E i \in Slot : msg[i].task = t /\ DeliverRetry(i))
          /\ SF_vars(\E w \in Worker, i \in Slot : msg[i].task = t /\ Deliver(w, i))
          /\ SF_vars(\E w \in Worker, i \in Slot : msg[i].task = t /\ HandlerDone(w, i))

FairSpec == Spec /\ Fairness

--------------------------------------------------------------------------------
MessageType == [task : Task \cup {NoTask}, first : BOOLEAN, age : 0..Expired,
                retries : 0..FloatLimit, delay : Nat]

WorkerState == {"down", "idle", "check", "run", "delay", "error", "ack", "nack"}
RetryState == {"down", "idle", "check", "ack", "stalled"}

TypeOK ==
    /\ at \in [Slot -> Place]
    /\ msg \in [Slot -> MessageType]
    /\ worker \in [Worker -> WorkerState]
    /\ retry \in RetryState
    /\ declared \in BOOLEAN /\ outage \in BOOLEAN
    /\ published \subseteq Task /\ failed \subseteq Task /\ dropped \subseteq Task
    /\ outcome \in [Task -> SUBSET Result]
    /\ crashes \in 0..MaxCrashes

\* The tasks some message still carries, wherever it is.
Carried == {t \in Task : \E i \in Slot : at[i] # "free" /\ msg[i].task = t}

\* A message whose successor has been published already and which only has to be
\* acknowledged; a crash in this window delivers both.
Superseded(i) ==
    \/ RetryAt("ack", i)
    \/ \E w \in Worker : At(w, "ack", i)

Copies(t) == {i \in Slot : at[i] # "free" /\ msg[i].task = t /\ ~Superseded(i)}

\* A busy process has a message, one without work has none; what is in a slot
\* has been published.
SlotsInUse ==
    /\ \A i \in Slot : /\ at[i] \in Worker => worker[at[i]] \notin {"down", "idle"}
                       /\ at[i] = "held" => retry \notin {"down", "idle"}
                       /\ at[i] # "free" => msg[i].task \in published
    /\ \A w \in Worker : worker[w] \notin {"down", "idle"} => \E i \in Slot : at[i] = w

\* Only what was published leaves a trace.
OnlyPublished ==
    /\ failed \subseteq published /\ dropped \subseteq published
    /\ \A t \in Task \ published : outcome[t] = {}

\* A task without a result has a message that is not about to be acknowledged.
SomeCopy ==
    /\ QueuesExist => declared
    /\ dropped # {} => ~QueuesExist
    /\ \A t \in published :
          \/ Copies(t) # {} \/ outcome[t] # {} \/ t \in failed \/ t \in dropped

Service == INSTANCE TaskService
             WITH pending <- Carried, givenUp <- failed, lost <- dropped, ready <- declared

\* The delivery path implements the abstract task service: a task is performed at
\* least once or given up after a timeout, and no crash, outage or hand-over makes it
\* vanish; a nack does, and only one before the retry queues have been declared.
ImplementsService == Service!Spec

\* Every task the server published is still carried by some message, has a result,
\* or waits in the failed queue; only a task nacked before any retry process had
\* declared the dead-letter queues can be gone (Nack). Each hand-over (TaskDelay, retry)
\* publishes the successor before it lets go of the message.
NoTaskLost ==
    \A t \in published :
        \/ t \in Carried
        \/ outcome[t] # {}
        \/ t \in failed
        \/ t \in dropped /\ ~QueuesExist

\* Without a crash a task travels as one message, so no two workers ever execute
\* the same task; every crash, in the window between publishing a successor and
\* acknowledging, adds at most one more copy.
CopiesBounded == \A t \in Task : Cardinality(Copies(t)) <= 1 + crashes

\* doc/source/server.rst:43-44: a worker "only executes one task at a time", and so
\* does the retry process: nobody has two unacknowledged messages, which is what
\* lets a crash requeue, and an acknowledgement settle, the right one.
OneAtATime ==
    \A i, j \in Slot : at[i] = at[j] /\ at[i] \in Worker \cup {"held"} => i = j

\* A message is discarded only once its whole fail timeout went by, however
\* often it was reposted: a message with r retries is at least as old as the
\* delays it was given, less the one it is still waiting for.
AgedByRetries ==
    \A i \in Slot : at[i] # "free" /\ msg[i].retries > 0 =>
        msg[i].age + msg[i].delay >= LesserOf(Expired, msg[i].retries * LesserOf(DelayMin, DelayMax))

\* Has ended: with a result, in the failed queue, or nacked before any retry process
\* had declared a queue for it ("if defined", worker/main.py:86).
Settled(t) == outcome[t] # {} \/ t \in failed \/ t \in dropped

\* Every published task ends, through outages that may last for ever, unless the
\* retry process stops at a message whose back-off overflows (RetryDrains).
EventuallySettled ==
    (\A t \in Task : t \in published ~> Settled(t)) \/ <>[](retry = "stalled")

\* doc/source/server.rst:61-64: the retry process "receives the failed tasks and
\* reschedules them [...] until KYARABEN_RETRY_FAIL_TIMEOUT has passed and the
\* task is discarded". Whatever waits in the retry queue leaves it.
RetryDrains ==
    \A i \in Slot : at[i] \in {"retry", "held"} ~> at[i] \notin {"retry", "held"}
================================================================================
