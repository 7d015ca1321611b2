---------------------------- MODULE SchemaUpdate -------------------------------
(* Server processes of one or several releases start, with or without           *)
(* --db-update, on one database (server/main.py, server/db/schema.py).           *)
(*                                                                              *)
(* db_update is one transaction at the level READ COMMITTED. A server that runs *)
(* a script, or creates the table of the version, locks what another would      *)
(* change until its transaction ends: there is at most one such server at a     *)
(* time, the holder. A script with the same number is the same in every release.*)
EXTENDS Integers

CONSTANTS
    Server,     \* server processes
    None,       \* no server
    Last,       \* the highest number of a script
    Scripts,    \* Scripts[s]: the numbers of the scripts that server s comes with
    Empty,      \* scripts with nothing in them
    Repeatable  \* scripts that do not fail when they are run again

Version == 1..Last

ASSUME SchemaAssumption ==
    /\ None \notin Server
    /\ Last \in Nat
    /\ Scripts \in [Server -> SUBSET Version]
    /\ Empty \subseteq Version /\ Repeatable \subseteq Version
    /\ \A s \in Server : \E v \in Scripts[s] : \A u \in Scripts[s] : u <= v

\* max(scripts)
Required(s) == CHOOSE v \in Scripts[s] : \A u \in Scripts[s] : u <= v

VARIABLES
    db,         \* what is committed: the version, and the scripts that have been applied
    tx,         \* what the holder has not committed yet
    holder,     \* the server whose transaction holds the locks, or None
    pc, cur,    \* the next step of each server; its current_version
    update      \* update[s]: server s was started with --db-update

vars == <<db, tx, holder, pc, cur, update>>

NoTable == -1

Init == /\ db = [version |-> NoTable, applied |-> {}]
        /\ tx = db
        /\ holder = None
        /\ pc = [s \in Server |-> "off"]
        /\ cur = [s \in Server |-> 0]
        /\ update = [s \in Server |-> FALSE]

\* The database as the transaction of a server sees it.
Seen(s) == IF holder = s THEN tx ELSE db

Free(s) == holder \in {None, s}

Goto(s, next) == pc' = [pc EXCEPT ![s] = next]

\* The process ends, and its transaction is rolled back.
End(s) == /\ Goto(s, "off")
          /\ holder' = IF holder = s THEN None ELSE holder
          /\ UNCHANGED <<db, tx, cur, update>>

Behind(s) == pc[s] = "script" /\ cur[s] < Required(s)

--------------------------------------------------------------------------------
(* Mutants: operations with a plausible bug, for seeing each property fail.     *)

\* A missing script is passed over like an empty one.
SkipsMissing(s) ==
    /\ Behind(s) /\ (cur[s] + 1 \in Empty \/ cur[s] + 1 \notin Scripts[s])
    /\ cur' = [cur EXCEPT ![s] = @ + 1]
    /\ UNCHANGED <<db, tx, holder, pc, update>>

\* A script that was applied before goes through again, whatever it does.
AppliesAgain(s) ==
    /\ Behind(s) /\ cur[s] + 1 \in Scripts[s] \ Empty
    /\ Free(s)
    /\ tx' = [version |-> cur[s] + 1, applied |-> Seen(s).applied \cup {cur[s] + 1}]
    /\ holder' = s
    /\ cur' = [cur EXCEPT ![s] = @ + 1]
    /\ UNCHANGED <<db, pc, update>>

\* COMMIT and the next BEGIN in the loop, after each script.
CommitsEach(s) ==
    /\ pc[s] = "script"
    /\ db' = Seen(s)
    /\ holder' = IF holder = s THEN None ELSE holder
    /\ IF Behind(s) THEN UNCHANGED pc ELSE Goto(s, "check")
    /\ UNCHANGED <<tx, cur, update>>

--------------------------------------------------------------------------------
(* db_update                                                                    *)

Start(s, withUpdate) ==
    /\ pc[s] = "off"
    /\ update' = [update EXCEPT ![s] = withUpdate]
    /\ Goto(s, IF withUpdate THEN "table" ELSE "check")
    /\ UNCHANGED <<db, tx, holder, cur>>

\* CREATE TABLE IF NOT EXISTS: there is one,
FindsTable(s) ==
    /\ pc[s] = "table" /\ db.version # NoTable
    /\ Goto(s, "select")
    /\ UNCHANGED <<db, tx, holder, cur, update>>

\* or there is none, nor has another server one to commit,
CreatesTable(s) ==
    /\ pc[s] \in {"table", "wait"} /\ db.version = NoTable /\ holder = None
    /\ tx' = [db EXCEPT !.version = 0]
    /\ holder' = s
    /\ Goto(s, "select")
    /\ UNCHANGED <<db, cur, update>>

\* or another server has, and whether it will be committed has to be seen:
WaitsForTable(s) ==
    /\ pc[s] = "table" /\ db.version = NoTable /\ holder # None
    /\ Goto(s, "wait")
    /\ UNCHANGED <<db, tx, holder, cur, update>>

\* when it is, the statement violates a unique index of the catalogue.
TableCollides(s) ==
    /\ pc[s] = "wait" /\ db.version # NoTable
    /\ End(s)

Selects(s) ==
    /\ pc[s] = "select"
    /\ cur' = [cur EXCEPT ![s] = Seen(s).version]
    /\ Goto(s, "script")
    /\ UNCHANGED <<db, tx, holder, update>>

\* An empty script is not counted: "continue" passes the UPDATE.
SkipsEmpty(s) ==
    /\ Behind(s) /\ cur[s] + 1 \in Scripts[s] \cap Empty
    /\ cur' = [cur EXCEPT ![s] = @ + 1]
    /\ UNCHANGED <<db, tx, holder, pc, update>>

\* A script, and the UPDATE of the version.
Applies(s) ==
    /\ Behind(s) /\ cur[s] + 1 \in Scripts[s] \ Empty
    /\ Free(s)
    /\ cur[s] + 1 \notin Seen(s).applied \ Repeatable
    /\ tx' = [version |-> cur[s] + 1, applied |-> Seen(s).applied \cup {cur[s] + 1}]
    /\ holder' = s
    /\ cur' = [cur EXCEPT ![s] = @ + 1]
    /\ UNCHANGED <<db, pc, update>>

ScriptIsMissing(s) ==
    /\ Behind(s) /\ cur[s] + 1 \notin Scripts[s]
    /\ End(s)

ScriptFails(s) ==
    /\ Behind(s) /\ cur[s] + 1 \in Scripts[s] \ Empty
    /\ Free(s)
    /\ cur[s] + 1 \in Seen(s).applied \ Repeatable
    /\ End(s)

Commits(s) ==
    /\ pc[s] = "script" /\ cur[s] >= Required(s)
    /\ db' = Seen(s)
    /\ holder' = IF holder = s THEN None ELSE holder
    /\ Goto(s, "check")
    /\ UNCHANGED <<tx, cur, update>>

(* db_require_latest_version *)

Serves(s) ==
    /\ pc[s] = "check"
    /\ db.version = Required(s)
    /\ Goto(s, "serving")
    /\ UNCHANGED <<db, tx, holder, cur, update>>

Refuses(s) ==
    /\ pc[s] = "check"
    /\ db.version # Required(s)
    /\ End(s)

\* A crash, a stop, the victim of a deadlock.
Stops(s) ==
    /\ pc[s] # "off"
    /\ End(s)

Next == \E s \in Server :
    \/ \E withUpdate \in BOOLEAN : Start(s, withUpdate)
    \/ FindsTable(s) \/ CreatesTable(s) \/ WaitsForTable(s) \/ TableCollides(s)
    \/ Selects(s) \/ SkipsEmpty(s) \/ Applies(s) \/ ScriptIsMissing(s) \/ ScriptFails(s)
    \/ Commits(s)
    \/ Serves(s) \/ Refuses(s) \/ Stops(s)

Spec == Init /\ [][Next]_vars

--------------------------------------------------------------------------------
(* Properties.                                                                  *)

Database == [version : {NoTable} \cup 0..Last, applied : SUBSET Version]

\* Every variable stays within its type.
TypeOK ==
    /\ db \in Database /\ tx \in Database
    /\ holder \in Server \cup {None}
    /\ pc \in [Server -> {"off", "table", "wait", "select", "script", "check", "serving"}]
    /\ cur \in [Server -> {NoTable} \cup 0..Last]
    /\ update \in [Server -> BOOLEAN]

\* The scripts that bring a schema to a version.
Upto(v) == (1..v) \ Empty

\* A server serves on a schema to which every script up to its own version has been
\* applied, whoever applied it, and whatever has been started, stopped or rolled back.
ServesUpToDate ==
    \A s \in Server : pc[s] = "serving" => Upto(Required(s)) \subseteq db.applied

\* What --db-update promises: after it, the server is not told to run with --db-update
\* again ("Please run again with --db-update", schema.py:74-80).
UpdateSuffices ==
    \A s \in Server : pc[s] = "check" /\ update[s] => db.version >= Required(s)

\* What it keeps: after it, the scripts of the release have been applied, and stay so.
\* Only the count of them may be too low: when another server, which read the version
\* earlier, runs a script again that can be, or when the last script is empty.
UpdateCounts ==
    \A s \in Server : pc[s] = "check" /\ update[s] =>
        /\ Upto(Required(s)) \subseteq db.applied
        /\ db.version >= Required(s) \/ db.version \in Repeatable \/ Required(s) \in Empty

\* The committed version goes back only to a script that can be run again: it is the
\* failure of the script that stops a server which read the version too early.
VersionFalls == [][db'.version >= db.version \/ db'.version \in Repeatable]_vars

\* What is committed is nothing, or the schema of a release with all its scripts, and
\* counted up to the empty ones at its end: never a part of an update.
WholeReleases ==
    \/ db.version = NoTable
    \/ \E s \in Server : /\ Upto(Required(s)) \subseteq db.applied
                         /\ db.version <= Required(s)
                         /\ (db.version + 1)..Required(s) \subseteq Empty
================================================================================
