---------------------------- MODULE MCTaskDelivery -----------------------------
(* Instances of TaskDelivery for TLC.                                          *)
EXTENDS TaskDelivery

\* Whom --reject was given to: nobody, or one process, for every task.
Nobody == {}
OneProcess == {CHOOSE w \in Worker : TRUE} \X Task

\* Whoever is about to publish and finds no slot waits for one that is about to be
\* acknowledged. (Not a property of the code: it says what four slots leave out, which is
\* both workers and the retry process having such a message at the same time.)
SlotsComeFree ==
    \/ \E i \in Slot : at[i] = "free"
    \/ retry = "ack"
    \/ \E w \in Worker : worker[w] = "ack"
================================================================================
