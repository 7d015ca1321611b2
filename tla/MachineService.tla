---------------------------- MODULE MachineService -----------------------------
(* What machines promise to the project they are in, however they are made: on  *)
(* their own (AvmLifecycle) or for test runs (Campaign). It is what             *)
(* ProjectLifecycle knows of them, and its tenants keep to it too.              *)

CONSTANT Machine

VARIABLES
    row,     \* the row in avms: "NONE"; "ACTIVE", which Project.is_active counts; "OVER"
    built    \* built[m]: something of the machine exists outside the database

vars == <<row, built>>

Init == /\ row = [m \in Machine |-> "NONE"]
        /\ built = [m \in Machine |-> FALSE]

\* The row comes before anything else, and stays.
Inserts(m) ==
    /\ row[m] = "NONE"
    /\ row' = [row EXCEPT ![m] = "ACTIVE"]
    /\ UNCHANGED built

\* Only a machine that counts is built or taken down.
Builds(m) ==
    /\ row[m] = "ACTIVE"
    /\ \E b \in BOOLEAN : built' = [built EXCEPT ![m] = b]
    /\ UNCHANGED row

\* A machine is over when nothing of it is left.
Goes(m) ==
    /\ row[m] = "ACTIVE"
    /\ row' = [row EXCEPT ![m] = "OVER"]
    /\ built' = [built EXCEPT ![m] = FALSE]

\* A DELETING or an ERROR that comes late takes it back, with nothing built.
Revives(m) ==
    /\ row[m] = "OVER"
    /\ row' = [row EXCEPT ![m] = "ACTIVE"]
    /\ UNCHANGED built

Next == \E m \in Machine : Inserts(m) \/ Builds(m) \/ Goes(m) \/ Revives(m)

Spec == Init /\ [][Next]_vars
================================================================================
