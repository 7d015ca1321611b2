---------------------------- MODULE MCSchemaUpdate -----------------------------
(* Instances of SchemaUpdate for TLC.                                           *)
EXTENDS SchemaUpdate

CONSTANTS s1, s2, s3, s4

MCServer == {s1, s2, s3, s4}

\* Four releases; the newest has lost a script in a merge.
MCScripts ==
    [s \in MCServer |-> CASE s = s1 -> 1..2 [] s = s2 -> 1..3 [] s = s3 -> 1..4 [] OTHER -> {1, 3, 4, 5}]

RepositoryServer == {s1, s2, s3}

\* The last three releases of server/db/scripts.
RepositoryScripts ==
    [s \in RepositoryServer |-> CASE s = s1 -> 1..9 [] s = s2 -> 1..10 [] OTHER -> 1..11]
================================================================================
