------------------------- MODULE SchemaUpdate_proofs ---------------------------
(* What every start of every server of every set of releases keeps.             *)
EXTENDS SchemaUpdate, TLAPS

LEMMA ScriptsAreVersions ==
    ASSUME NEW s \in Server
    PROVE  Scripts[s] \subseteq Version
BY SchemaAssumption

\* max(scripts) is the number of a script, and no number is higher.
LEMMA RequiredIsLast ==
    ASSUME NEW s \in Server
    PROVE  /\ Required(s) \in Scripts[s]
           /\ Required(s) \in Version
           /\ \A u \in Scripts[s] : u <= Required(s)
<1>1. PICK v \in Scripts[s] : \A u \in Scripts[s] : u <= v
  BY SchemaAssumption
<1>2. Required(s) \in Scripts[s] /\ \A u \in Scripts[s] : u <= Required(s)
  BY <1>1 DEF Required
<1> QED
  BY <1>2, ScriptsAreVersions

--------------------------------------------------------------------------------
(* Type correctness.                                                            *)

LEMMA TypeStep ==
    ASSUME TypeOK, [Next]_vars
    PROVE  TypeOK'
<1> USE DEF TypeOK
<1>1. CASE UNCHANGED vars
  BY <1>1 DEF vars, Database
<1>2. ASSUME NEW s \in Server, NEW u \in BOOLEAN, Start(s, u)
      PROVE  TypeOK'
  BY <1>2 DEF Start, Goto, Database
<1>3. ASSUME NEW s \in Server, FindsTable(s) \/ WaitsForTable(s) \/ Serves(s)
      PROVE  TypeOK'
  BY <1>3 DEF FindsTable, WaitsForTable, Serves, Goto, Database
<1>4. ASSUME NEW s \in Server, CreatesTable(s)
      PROVE  TypeOK'
  <2>1. tx' \in Database
    BY <1>4, SchemaAssumption DEF CreatesTable, Database
  <2> QED
    BY <1>4, <2>1 DEF CreatesTable, Goto
<1>5. ASSUME NEW s \in Server, End(s)
      PROVE  TypeOK'
  BY <1>5 DEF End, Goto, Database
<1>6. ASSUME NEW s \in Server, Selects(s)
      PROVE  TypeOK'
  <2>1. Seen(s).version \in {NoTable} \cup 0..Last
    BY DEF Seen, Database
  <2> QED
    BY <1>6, <2>1 DEF Selects, Goto
<1>7. ASSUME NEW s \in Server, SkipsEmpty(s)
      PROVE  TypeOK'
  <2>1. cur[s] + 1 \in 0..Last
    BY <1>7, ScriptsAreVersions DEF SkipsEmpty, Version
  <2> QED
    BY <1>7, <2>1 DEF SkipsEmpty
<1>8. ASSUME NEW s \in Server, Applies(s)
      PROVE  TypeOK'
  <2>1. cur[s] + 1 \in Version /\ cur[s] + 1 \in 0..Last
    BY <1>8, ScriptsAreVersions DEF Applies, Version
  <2>2. Seen(s).applied \subseteq Version
    BY DEF Seen, Database
  <2>3. tx' \in Database
    BY <1>8, <2>1, <2>2 DEF Applies, Database
  <2> QED
    BY <1>8, <2>1, <2>3 DEF Applies
<1>9. ASSUME NEW s \in Server, Commits(s)
      PROVE  TypeOK'
  <2>1. Seen(s) \in Database
    BY DEF Seen
  <2> QED
    BY <1>9, <2>1 DEF Commits, Goto
<1> QED
  BY <1>1, <1>2, <1>3, <1>4, <1>5, <1>6, <1>7, <1>8, <1>9
  DEF Next, TableCollides, ScriptIsMissing, ScriptFails, Refuses, Stops

\* Every variable keeps its type, with any servers, scripts and releases.
THEOREM TypeCorrect == Spec => []TypeOK
<1>1. Init => TypeOK
  BY SchemaAssumption DEF Init, TypeOK, Database
<1> QED
  BY <1>1, TypeStep, PTL DEF Spec

--------------------------------------------------------------------------------
(* A version counts scripts that were applied.                                  *)

Truthful ==
    /\ Upto(db.version) \subseteq db.applied
    /\ holder # None => Upto(tx.version) \subseteq tx.applied /\ db.applied \subseteq tx.applied
    /\ \A s \in Server : pc[s] = "script" => Upto(cur[s]) \subseteq Seen(s).applied
    /\ \A s \in Server : pc[s] = "serving" \/ (pc[s] = "check" /\ update[s])
                            => Upto(Required(s)) \subseteq db.applied
    /\ \A s \in Server : holder = s => pc[s] \in {"select", "script"}

LEMMA TruthfulStep ==
    ASSUME TypeOK, Truthful, [Next]_vars
    PROVE  Truthful'
<1> USE DEF TypeOK, Truthful, Database, Goto, Seen
<1> USE SchemaAssumption
<1>1. CASE UNCHANGED vars
  BY <1>1 DEF vars
<1>2. ASSUME NEW s \in Server, NEW u \in BOOLEAN, Start(s, u)
      PROVE  Truthful'
  BY <1>2 DEF Start
<1>3. ASSUME NEW s \in Server, FindsTable(s) \/ WaitsForTable(s)
      PROVE  Truthful'
  BY <1>3 DEF FindsTable, WaitsForTable
<1>4. ASSUME NEW s \in Server, CreatesTable(s)
      PROVE  Truthful'
  <2>1. Upto(0) = {}
    BY DEF Upto
  <2> QED
    BY <1>4, <2>1 DEF CreatesTable
<1>5. ASSUME NEW s \in Server, End(s)
      PROVE  Truthful'
  BY <1>5 DEF End
<1>6. ASSUME NEW s \in Server, Selects(s)
      PROVE  Truthful'
  BY <1>6 DEF Selects
<1>7. ASSUME NEW s \in Server, SkipsEmpty(s)
      PROVE  Truthful'
  <2>1. cur[s] \in Int /\ pc[s] = "script" /\ cur[s] + 1 \in Empty
    BY <1>7 DEF SkipsEmpty, Behind, NoTable
  <2>2. Upto(cur[s] + 1) \subseteq Upto(cur[s])
    BY <2>1 DEF Upto
  <2> QED
    BY <1>7, <2>1, <2>2 DEF SkipsEmpty
<1>8. ASSUME NEW s \in Server, Applies(s)
      PROVE  Truthful'
  <2>1. cur[s] \in Int /\ pc[s] = "script"
    BY <1>8 DEF Applies, Behind, NoTable
  <2>2. Upto(cur[s] + 1) \subseteq Upto(cur[s]) \cup {cur[s] + 1}
    BY <2>1 DEF Upto
  <2>3. db.applied \subseteq Seen(s).applied
    OBVIOUS
  <2>4. tx'.version = cur[s] + 1 /\ tx'.applied = Seen(s).applied \cup {cur[s] + 1}
    BY <1>8 DEF Applies
  <2>5. /\ holder' = s /\ db' = db /\ pc' = pc /\ update' = update
        /\ cur' = [cur EXCEPT ![s] = @ + 1]
    BY <1>8 DEF Applies
  <2>6. Upto(tx'.version) \subseteq tx'.applied /\ db.applied \subseteq tx'.applied
    BY <2>1, <2>2, <2>3, <2>4
  <2>7. ASSUME NEW r \in Server, r # s, pc[r] = "script"
        PROVE  Upto(cur[r]) \subseteq db.applied
    BY <1>8, <2>7 DEF Applies, Free
  <2>8. \A r \in Server : pc'[r] = "script" => Upto(cur'[r]) \subseteq Seen(r)'.applied
    BY <2>1, <2>4, <2>5, <2>6, <2>7
  <2> QED
    BY <2>1, <2>5, <2>6, <2>8
<1>9. ASSUME NEW s \in Server, Commits(s)
      PROVE  Truthful'
  <2>1. db.applied \subseteq db'.applied /\ Upto(db'.version) \subseteq db'.applied
    BY <1>9 DEF Commits
  <2>2. Upto(Required(s)) \subseteq db'.applied
    <3>1. Upto(Required(s)) \subseteq Upto(cur[s])
      BY <1>9, RequiredIsLast DEF Commits, Upto, Version, NoTable
    <3> QED
      BY <1>9, <3>1 DEF Commits
  <2>3. CASE holder = s
    BY <1>9, <2>1, <2>2, <2>3 DEF Commits
  <2>4. CASE holder # s
    BY <1>9, <2>1, <2>2, <2>4 DEF Commits
  <2> QED
    BY <2>3, <2>4
<1>10. ASSUME NEW s \in Server, Serves(s)
       PROVE  Truthful'
  BY <1>10 DEF Serves
<1> QED
  BY <1>1, <1>2, <1>3, <1>4, <1>5, <1>6, <1>7, <1>8, <1>9, <1>10
  DEF Next, TableCollides, ScriptIsMissing, ScriptFails, Refuses, Stops

LEMMA TruthfulInit == Init => Truthful
<1>1. Upto(NoTable) = {}
  BY DEF Upto, NoTable
<1> QED
  BY <1>1, SchemaAssumption DEF Init, Truthful

\* A server that serves does so on a schema with all the scripts of its release.
THEOREM UpToDate == Spec => []ServesUpToDate
<1>1. Truthful => ServesUpToDate
  BY DEF Truthful, ServesUpToDate, Upto
<1>2. Init => TypeOK
  BY SchemaAssumption DEF Init, TypeOK, Database
<1> QED
  BY <1>1, <1>2, TruthfulInit, TruthfulStep, TypeStep, PTL DEF Spec

--------------------------------------------------------------------------------
(* What the count of a database says.                                           *)

\* Before a script come all the lower ones; the count is that of an applied script, and no
\* higher one has been applied, unless it can be run again.
Ordered(d) ==
    /\ \A u \in d.applied : Upto(u) \subseteq d.applied
    /\ d.version \in d.applied \cup {0, NoTable}
    /\ d.version \notin Repeatable => d.applied \subseteq 1..d.version

\* The holder has counted its scripts, but for empty ones at the end, and goes no further
\* than its release.
Counting(s) ==
    /\ pc[s] = "select" => tx.version = 0
    /\ pc[s] = "script" => /\ cur[s] <= Required(s)
                           /\ tx.version <= cur[s]
                           /\ (tx.version + 1)..cur[s] \subseteq Empty

Counted ==
    /\ Ordered(db)
    /\ holder # None => Ordered(tx) /\ tx.version # NoTable
    /\ \A s \in Server : holder = s => Counting(s)

\* A script that is not run again was not passed over: none after it has been applied.
LEMMA AppliesInOrder ==
    ASSUME TypeOK, Truthful, Counted, NEW s \in Server, Applies(s)
    PROVE  Ordered(tx)'
<1> DEFINE v == cur[s] + 1
<1>1. /\ v \in Version /\ v \notin Empty /\ cur[s] \in Int /\ pc[s] = "script"
      /\ tx' = [version |-> v, applied |-> Seen(s).applied \cup {v}]
      /\ v \notin Seen(s).applied \ Repeatable
  BY ScriptsAreVersions DEF Applies, Behind, TypeOK, NoTable
<1>2. Ordered(Seen(s)) /\ Seen(s).applied \subseteq Version
  BY SchemaAssumption DEF Counted, Seen, TypeOK, Database
<1>3. Upto(cur[s]) \subseteq Seen(s).applied
  BY <1>1 DEF Truthful
<1>4. Upto(v) \subseteq Upto(cur[s]) \cup {v}
  BY <1>1 DEF Upto
<1>5. \A u \in tx'.applied : Upto(u) \subseteq tx'.applied
  BY <1>1, <1>2, <1>3, <1>4 DEF Ordered
<1>6. ASSUME v \notin Repeatable, NEW u \in tx'.applied
      PROVE  u \in 1..v
  <2>1. u \in Int /\ v \in Int /\ u >= 1
    BY <1>1, <1>2 DEF Version
  <2>2. CASE u > v
    <3>1. u \in Seen(s).applied
      BY <1>1, <2>1, <2>2
    <3>2. v \in Upto(u)
      BY <1>1, <2>1, <2>2 DEF Upto, Version
    <3>3. v \in Seen(s).applied
      BY <1>2, <3>1, <3>2 DEF Ordered
    <3> QED
      BY <1>1, <1>6, <3>3
  <2> QED
    BY <2>1, <2>2
<1> HIDE DEF v
<1>7. tx'.version = v /\ v \in tx'.applied
  BY <1>1
<1>8. tx'.version \notin Repeatable => tx'.applied \subseteq 1..tx'.version
  BY <1>6, <1>7
<1> QED
  BY <1>5, <1>7, <1>8 DEF Ordered

LEMMA CountedStep ==
    ASSUME TypeOK, Truthful, Counted, [Next]_vars
    PROVE  Counted'
<1> USE DEF TypeOK, Counted, Database, Goto
<1> USE SchemaAssumption
<1>0. \A s \in Server : Required(s) \in Version /\ Required(s) \in Int /\ Required(s) >= 1
                            /\ cur[s] \in Int
  BY RequiredIsLast DEF Version, NoTable
<1>1. CASE UNCHANGED vars
  BY <1>1 DEF vars, Counting, Ordered
<1>2. ASSUME NEW s \in Server, NEW u \in BOOLEAN, Start(s, u)
      PROVE  Counted'
  BY <1>2 DEF Start, Counting, Ordered
<1>3. ASSUME NEW s \in Server, FindsTable(s) \/ WaitsForTable(s)
      PROVE  Counted'
  <2>1. holder # s
    BY <1>3 DEF FindsTable, WaitsForTable, Truthful
  <2> QED
    BY <1>3, <2>1 DEF FindsTable, WaitsForTable, Counting, Ordered
<1>4. ASSUME NEW s \in Server, CreatesTable(s)
      PROVE  Counted'
  <2>1. db.applied = {}
    <3>1. db.version \notin Repeatable /\ db.version = -1
      BY <1>4 DEF CreatesTable, Version, NoTable
    <3> QED
      BY <3>1 DEF Ordered
  <2>2. tx' = [version |-> 0, applied |-> {}]
    BY <1>4, <2>1 DEF CreatesTable
  <2>3. Ordered(tx)' /\ tx'.version # NoTable
    BY <2>2 DEF Ordered, NoTable
  <2> QED
    BY <1>4, <2>2, <2>3 DEF CreatesTable, Counting, Ordered
<1>5. ASSUME NEW s \in Server, End(s)
      PROVE  Counted'
  BY <1>5 DEF End, Counting, Ordered
<1>6. ASSUME NEW s \in Server, Selects(s)
      PROVE  Counted'
  <2>1. holder = s => cur'[s] = 0 /\ tx.version = 0
    BY <1>6 DEF Selects, Seen, Counting
  <2>2. (holder = s => Counting(s))'
    BY <1>0, <1>6, <2>1 DEF Selects, Counting
  <2> QED
    BY <1>6, <2>2 DEF Selects, Counting, Ordered
<1>7. ASSUME NEW s \in Server, SkipsEmpty(s)
      PROVE  Counted'
  <2>1. cur[s] < Required(s) /\ cur[s] + 1 \in Empty /\ pc[s] = "script"
    BY <1>7 DEF SkipsEmpty, Behind
  <2>2. (holder = s => Counting(s))'
    BY <1>0, <1>7, <2>1 DEF SkipsEmpty, Counting, NoTable
  <2> QED
    BY <1>7, <2>2 DEF SkipsEmpty, Counting, Ordered
<1>8. ASSUME NEW s \in Server, Applies(s)
      PROVE  Counted'
  <2>1. Ordered(tx)'
    BY <1>8, AppliesInOrder
  <2>2. /\ holder' = s /\ tx'.version = cur[s] + 1 /\ pc' = pc /\ db' = db
        /\ cur' = [cur EXCEPT ![s] = @ + 1] /\ cur[s] < Required(s) /\ pc[s] = "script"
        /\ cur[s] + 1 \in Version
    BY <1>8, ScriptsAreVersions DEF Applies, Behind
  <2>3. Counting(s)'
    BY <1>0, <2>2 DEF Counting
  <2>4. tx'.version # NoTable
    BY <2>2 DEF Version, NoTable
  <2> QED
    BY <2>1, <2>2, <2>3, <2>4 DEF Ordered
<1>9. ASSUME NEW s \in Server, Commits(s)
      PROVE  Counted'
  <2>1. Ordered(db)'
    BY <1>9 DEF Commits, Seen, Ordered
  <2>2. ASSUME NEW r \in Server, holder' = r
        PROVE  r # s /\ holder = r /\ tx' = tx /\ pc'[r] = pc[r] /\ cur' = cur
    BY <1>9, <2>2 DEF Commits
  <2>3. \A r \in Server : holder' = r => Counting(r)'
    BY <2>2 DEF Counting
  <2>4. holder' # None => Ordered(tx)' /\ tx'.version # NoTable
    BY <1>9 DEF Commits, Ordered
  <2> QED
    BY <2>1, <2>3, <2>4
<1>10. ASSUME NEW s \in Server, Serves(s)
       PROVE  Counted'
  <2>1. holder # s
    BY <1>10 DEF Serves, Truthful
  <2> QED
    BY <1>10, <2>1 DEF Serves, Counting, Ordered
<1> QED
  BY <1>1, <1>2, <1>3, <1>4, <1>5, <1>6, <1>7, <1>8, <1>9, <1>10
  DEF Next, TableCollides, ScriptIsMissing, ScriptFails, Refuses, Stops

LEMMA Inductive == Spec => [](TypeOK /\ Truthful /\ Counted)
<1>1. Init => TypeOK
  BY SchemaAssumption DEF Init, TypeOK, Database
<1>2. Init => Counted
  BY SchemaAssumption DEF Init, Counted, Ordered, Counting, NoTable
<1> QED
  BY <1>1, <1>2, TruthfulInit, TypeStep, TruthfulStep, CountedStep, PTL DEF Spec

\* After --db-update the scripts of the release have been applied, and the version counts
\* them unless its last script is empty, or a server that read the version earlier has run
\* again a script that does not fail the second time.
THEOREM UpdateIsEnough == Spec => []UpdateCounts
<1>1. ASSUME TypeOK, Truthful, Counted, NEW s \in Server, pc[s] = "check", update[s]
      PROVE  /\ Upto(Required(s)) \subseteq db.applied
             /\ db.version >= Required(s) \/ db.version \in Repeatable \/ Required(s) \in Empty
  <2>1. Upto(Required(s)) \subseteq db.applied
    BY <1>1 DEF Truthful
  <2>2. Required(s) \in 1..Required(s)
    BY RequiredIsLast DEF Version
  <2>3. CASE Required(s) \notin Empty /\ db.version \notin Repeatable
    <3>1. Required(s) \in 1..db.version
      BY <1>1, <2>1, <2>2, <2>3 DEF Upto, Counted, Ordered
    <3> QED
      BY <1>1, <2>1, <3>1 DEF TypeOK, Database, NoTable
  <2> QED
    BY <2>1, <2>3
<1>2. TypeOK /\ Truthful /\ Counted => UpdateCounts
  BY <1>1 DEF UpdateCounts
<1> QED
  BY <1>2, Inductive, PTL

\* Only a commit changes the database.
LEMMA CommitsOnly ==
    ASSUME [Next]_vars
    PROVE  (\E s \in Server : Commits(s)) \/ db' = db
BY DEF Next, vars, End, Start, FindsTable, CreatesTable, WaitsForTable, TableCollides, Selects,
       SkipsEmpty, Applies, ScriptIsMissing, ScriptFails, Serves, Refuses, Stops

LEMMA FallsToRepeatable ==
    ASSUME TypeOK, Truthful, Counted, [Next]_vars
    PROVE  db'.version >= db.version \/ db'.version \in Repeatable
<1>1. db.version \in Int /\ tx.version \in Int
  BY DEF TypeOK, Database, NoTable
<1>2. CASE db' = db
  BY <1>1, <1>2
<1>3. ASSUME NEW s \in Server, Commits(s), holder = s, tx.version \notin Repeatable
      PROVE  db'.version >= db.version
  <2>1. db' = tx /\ holder # None
    BY <1>3, SchemaAssumption DEF Commits, Seen
  <2>2. tx.applied \subseteq 1..tx.version /\ tx.version >= 0 /\ db.applied \subseteq tx.applied
    BY <1>3, <2>1 DEF Counted, Ordered, Truthful, TypeOK, Database, NoTable
  <2>3. db.version \in db.applied \cup {0, NoTable}
    BY DEF Counted, Ordered
  <2> QED
    BY <1>1, <2>1, <2>2, <2>3 DEF NoTable
<1> QED
  BY <1>2, <1>3, CommitsOnly DEF Commits, Seen

\* The committed version goes back only to a script that can be run again, with servers of
\* any releases.
THEOREM Monotone == Spec => VersionFalls
<1>1. TypeOK /\ Truthful /\ Counted /\ [Next]_vars
          => [db'.version >= db.version \/ db'.version \in Repeatable]_vars
  BY FallsToRepeatable
<1> QED
  BY <1>1, Inductive, PTL DEF Spec, VersionFalls

--------------------------------------------------------------------------------
(* Nothing in between is ever committed.                                        *)

LEMMA WholeStep ==
    ASSUME TypeOK, Truthful, Counted, WholeReleases, [Next]_vars
    PROVE  WholeReleases'
<1>1. CASE db' = db
  BY <1>1 DEF WholeReleases
<1>2. ASSUME NEW s \in Server, Commits(s), holder = s
      PROVE  WholeReleases'
  <2>1. Required(s) \in Int /\ cur[s] \in Int
    BY RequiredIsLast DEF TypeOK, NoTable, Version
  <2>2. cur[s] = Required(s) /\ pc[s] = "script"
    BY <1>2, <2>1 DEF Commits, Counted, Counting
  <2>3. db' = tx
    BY <1>2 DEF Commits, Seen
  <2>4. Upto(Required(s)) \subseteq tx.applied
    BY <1>2, <2>2 DEF Truthful, Seen
  <2>5. tx.version <= Required(s) /\ (tx.version + 1)..Required(s) \subseteq Empty
    BY <1>2, <2>2 DEF Counted, Counting
  <2> QED
    BY <2>3, <2>4, <2>5 DEF WholeReleases
<1> QED
  BY <1>1, <1>2, CommitsOnly DEF Commits, Seen

\* What is committed is the schema of a release, whole: a start that fails, is stopped or
\* finds a script missing half-way leaves the version of another release, or none
\* (db_update is one transaction, which commits after the last script).
THEOREM OnlyReleases == Spec => []WholeReleases
<1>1. Init => WholeReleases
  BY DEF Init, WholeReleases
<1>2. TypeOK /\ Truthful /\ Counted /\ WholeReleases /\ [Next]_vars => WholeReleases'
  BY WholeStep
<1> QED
  BY <1>1, <1>2, Inductive, PTL DEF Spec

\* When no release but the newest ends with a script that can be run again, and none with
\* an empty one, no server is told to update after its update.
THEOREM SafeFleet ==
    ASSUME \A s \in Server : Required(s) \notin Empty,
           \A r \in Server : \A s \in Server :
               Required(r) < Required(s) => Required(r) \notin Repeatable
    PROVE  Spec => []UpdateSuffices
<1>1. ASSUME TypeOK, UpdateCounts, WholeReleases, NEW s \in Server, pc[s] = "check", update[s]
      PROVE  db.version >= Required(s)
  <2>1. Required(s) \in Int /\ db.version \in Int
    BY <1>1, RequiredIsLast DEF TypeOK, Database, NoTable, Version
  <2>2. CASE db.version \in Repeatable
    <3>1. db.version # NoTable
      BY <2>2, SchemaAssumption DEF Version, NoTable
    <3>2. PICK r \in Server : /\ db.version <= Required(r)
                              /\ (db.version + 1)..Required(r) \subseteq Empty
      BY <1>1, <3>1 DEF WholeReleases
    <3>3. Required(r) \in Int
      BY RequiredIsLast DEF Version
    <3>4. db.version = Required(r)
      BY <2>1, <3>2, <3>3
    <3> QED
      BY <2>1, <2>2, <3>3, <3>4
  <2> QED
    BY <1>1, <2>2 DEF UpdateCounts
<1>2. TypeOK /\ UpdateCounts /\ WholeReleases => UpdateSuffices
  BY <1>1 DEF UpdateSuffices
<1> QED
  BY <1>2, TypeCorrect, UpdateIsEnough, OnlyReleases, PTL
================================================================================
