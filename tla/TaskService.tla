------------------------------ MODULE TaskService ------------------------------
(* What the task queue of kyaraben promises to the code that publishes tasks,  *)
(* with no mention of messages, queues or processes: a task is performed at    *)
(* least once, or given up after having failed, and it never just vanishes,    *)
(* but for one that fails before the place for failed tasks has been set up.   *)
(*                                                                             *)
(* TaskDelivery implements this specification (TaskDelivery!Service).          *)
EXTENDS Naturals

CONSTANTS Task,       \* the tasks the HTTP server publishes
          Result      \* how a worker may settle one (done, error)

VARIABLES pending,    \* tasks somebody still carries
          outcome,    \* outcome[t]: the results recorded so far
          givenUp,    \* tasks discarded into the failed queue
          lost,       \* tasks that failed before it was
          ready       \* the place for failed tasks has been set up

vars == <<pending, outcome, givenUp, lost, ready>>

Init == /\ pending = {}
        /\ outcome = [t \in Task |-> {}]
        /\ givenUp = {}
        /\ lost = {}
        /\ ready \in BOOLEAN

\* A publisher hands over a task it never published before.
Submit(t) == /\ t \notin pending
             /\ outcome[t] = {}
             /\ t \notin givenUp \cup lost
             /\ pending' = pending \cup {t}
             /\ UNCHANGED <<outcome, givenUp, lost, ready>>

\* A worker performs a pending task; at least once, hence perhaps again.
Perform(t, r) == /\ t \in pending
                 /\ outcome' = [outcome EXCEPT ![t] = @ \cup {r}]
                 /\ UNCHANGED <<pending, givenUp, lost, ready>>

\* A task is let go of only when it has a result or has been given up, or lost, before.
Settle(t) == /\ t \in pending
             /\ outcome[t] # {} \/ t \in givenUp \cup lost
             /\ pending' = pending \ {t}
             /\ UNCHANGED <<outcome, givenUp, lost, ready>>

GiveUp(t) == /\ t \in pending
             /\ givenUp' = givenUp \cup {t}
             /\ pending' \in {pending, pending \ {t}}
             /\ UNCHANGED <<outcome, lost, ready>>

SetUp == /\ ready' = TRUE
         /\ UNCHANGED <<pending, outcome, givenUp, lost>>

\* Only before that may a task that fails vanish.
Lose(t) == /\ ~ready
           /\ t \in pending
           /\ lost' = lost \cup {t}
           /\ pending' \in {pending, pending \ {t}}
           /\ UNCHANGED <<outcome, givenUp, ready>>

Next == \/ \E t \in Task : \/ Submit(t)
                           \/ \E r \in Result : Perform(t, r)
                           \/ Settle(t)
                           \/ GiveUp(t)
                           \/ Lose(t)
        \/ SetUp

Spec == Init /\ [][Next]_vars
================================================================================
