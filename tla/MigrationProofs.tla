--------------------------- MODULE MigrationProofs ---------------------------
(***************************************************************************)
(* For every set of callers and every releases that extend one another:    *)
(* the recorded versions tell what the schema is, and a call that returns  *)
(* has its release applied, as if in one step (SchemaUpgrade).             *)
(***************************************************************************)
EXTENDS SchemaMigrations, TLAPS

Inside == {"compare", "apply", "record"}
Recorded == {v \in Versions : records[v] # None}

Ascending(s) == \A i, j \in 1..Len(s) : i < j => s[i] < s[j]
Lists(s, S) == \A v \in Versions : v \in S <=> \E i \in 1..Len(s) : s[i] = v

\* Whoever is past the lock has it.
LockHeld == \A m \in Migrators : pc[m] \in Inside <=> lock = m

\* Nothing is left of a transaction that is over.
NothingLeft ==
  \A m \in Migrators : pc[m] \notin {"apply", "record"} =>
    work[m] = <<>> /\ rows[m] = {} /\ pending[m] = {}

\* The scripts of a transaction: recorded before, executed and noted in it, or
\* still to be applied, each group behind the one before.
Layered(m) ==
  /\ \A v \in DOMAIN Release[m] : records[v] \in {None, Release[m][v]}
  /\ \A v \in DOMAIN Release[m] : v \in pending[m] \cup rows[m] \cup Recorded
  /\ pending[m] \cup rows[m] \subseteq DOMAIN Release[m]
  /\ \A v \in rows[m] : \A w \in Recorded : w < v
  /\ \A v \in pending[m] : \A w \in rows[m] \cup Recorded : w < v

\* What it has executed is what it has noted, but for the script it is at.
Noted(m) ==
  /\ Ascending(work[m])
  /\ pc[m] = "apply" => Lists(work[m], rows[m])
  /\ pc[m] = "record" =>
       \E v \in pending[m] : /\ \A w \in pending[m] : v <= w
                             /\ Lists(work[m], rows[m] \cup {v})

TransactionOK ==
  \A m \in Migrators : pc[m] \in {"apply", "record"} => Layered(m) /\ Noted(m)

\* What is recorded is made of whole releases.
WholeReleases ==
  \A v \in Recorded : \E n \in Migrators :
    v \in DOMAIN Release[n] /\ DOMAIN Release[n] \subseteq Recorded

MigrationInv ==
  /\ TypeOK
  /\ LockHeld
  /\ NothingLeft
  /\ TransactionOK
  /\ WholeReleases
  /\ SchemaIsRecorded
  /\ ReturnedIsApplied

-----------------------------------------------------------------------------
(* Releases and sequences *)

LEMMA ReleaseVersions ==
  ASSUME NEW m \in Migrators
  PROVE  /\ DOMAIN Release[m] \subseteq Versions
         /\ \A v \in DOMAIN Release[m] : Release[m][v] \in Checksums
  BY DEF Versions, Checksums

LEMMA SeparateNone == None \notin Checksums /\ None \notin Migrators
  BY ReleaseAssumption

LEMMA EmptySequence == Ascending(<<>>) /\ Lists(<<>>, {})
  BY DEF Ascending, Lists

LEMMA AppendLists ==
  ASSUME NEW s \in Seq(Versions), NEW S, NEW x \in Versions,
         Lists(s, S), Ascending(s), \A v \in S : v < x, S \subseteq Versions
  PROVE  /\ Lists(Append(s, x), S \cup {x})
         /\ Ascending(Append(s, x))
<1> DEFINE t == Append(s, x)
<1>1. /\ Len(t) = Len(s) + 1 /\ Len(s) \in Nat
      /\ \A i \in 1..Len(s) : t[i] = s[i]
      /\ t[Len(s) + 1] = x
  OBVIOUS
<1>2. \A i \in 1..Len(s) : s[i] \in S
  BY DEF Lists
<1> HIDE DEF t
<1>3. Lists(t, S \cup {x})
  BY <1>1 DEF Lists
<1>4. Ascending(t)
  BY <1>1, <1>2 DEF Ascending
<1> QED
  BY <1>3, <1>4 DEF t

LEMMA ConcatLists ==
  ASSUME NEW s \in Seq(Versions), NEW t \in Seq(Versions), NEW S, NEW T,
         Lists(s, S), Ascending(s), Lists(t, T), Ascending(t),
         \A v \in S : \A w \in T : v < w
  PROVE  /\ Lists(s \o t, S \cup T)
         /\ Ascending(s \o t)
<1> DEFINE u == s \o t
<1>1. /\ Len(s) \in Nat /\ Len(t) \in Nat
      /\ Len(u) = Len(s) + Len(t)
      /\ \A i \in 1..Len(s) : u[i] = s[i]
      /\ \A i \in 1..Len(t) : u[Len(s) + i] = t[i]
  OBVIOUS
<1>2. /\ \A i \in 1..Len(s) : s[i] \in S
      /\ \A i \in 1..Len(t) : t[i] \in T
  BY DEF Lists
<1> HIDE DEF u
<1>3. ASSUME NEW i \in 1..Len(u), ~(i \in 1..Len(s))
      PROVE  i - Len(s) \in 1..Len(t) /\ u[i] = t[i - Len(s)]
  BY <1>1, <1>3
<1>4. Lists(u, S \cup T)
  <2> SUFFICES ASSUME NEW v \in Versions
               PROVE  v \in S \cup T <=> \E i \in 1..Len(u) : u[i] = v
    BY DEF Lists
  <2>1. ASSUME v \in S PROVE \E i \in 1..Len(u) : u[i] = v
    <3>1. PICK i \in 1..Len(s) : s[i] = v
      BY <2>1 DEF Lists
    <3> QED
      BY <1>1, <3>1
  <2>2. ASSUME v \in T PROVE \E i \in 1..Len(u) : u[i] = v
    <3>1. PICK i \in 1..Len(t) : t[i] = v
      BY <2>2 DEF Lists
    <3> QED
      BY <1>1, <3>1
  <2>3. ASSUME NEW i \in 1..Len(u), u[i] = v PROVE v \in S \cup T
    BY <1>1, <1>2, <1>3, <2>3
  <2> QED
    BY <2>1, <2>2, <2>3
<1>5. Ascending(u)
  <2> SUFFICES ASSUME NEW i \in 1..Len(u), NEW j \in 1..Len(u), i < j
               PROVE  u[i] < u[j]
    BY DEF Ascending
  <2>1. CASE j \in 1..Len(s)
    BY <1>1, <2>1 DEF Ascending
  <2>2. CASE i \in 1..Len(s) /\ ~(j \in 1..Len(s))
    BY <1>1, <1>2, <1>3, <2>2
  <2>3. CASE ~(i \in 1..Len(s)) /\ ~(j \in 1..Len(s))
    BY <1>1, <1>3, <2>3 DEF Ascending
  <2> QED
    BY <1>1, <2>1, <2>2, <2>3
<1> QED
  BY <1>4, <1>5 DEF u

-----------------------------------------------------------------------------
(* Types *)

LEMMA NextTypeOK ==
  ASSUME TypeOK, TransactionOK, [Next]_vars PROVE TypeOK'
<1>1. ASSUME NEW m \in Migrators, NEW o \in Ended, End(m, o)
      PROVE  /\ lock' \in Migrators \cup {None}
             /\ pc' \in [Migrators -> Ended \cup {"waiting", "compare", "apply",
                                                  "record"}]
             /\ pending' \in [Migrators -> SUBSET Versions]
             /\ work' \in [Migrators -> Seq(Versions)]
             /\ rows' \in [Migrators -> SUBSET Versions]
  BY <1>1 DEF TypeOK, End, Unlock
<1>2. ASSUME NEW m \in Migrators, Migrate(m) \/ TakeLock(m) PROVE TypeOK'
  BY <1>2 DEF TypeOK, Migrate, TakeLock
<1>3. ASSUME NEW m \in Migrators, Refuse(m) \/ Fail(m) PROVE TypeOK'
  BY <1>1, <1>3 DEF TypeOK, Refuse, Fail, Ended
<1>4. ASSUME NEW m \in Migrators, Accept(m) PROVE TypeOK'
  <2>1. Missing(m) \subseteq Versions
    BY ReleaseVersions DEF Missing
  <2> QED
    BY <1>4, <2>1 DEF TypeOK, Accept
<1>5. ASSUME NEW m \in Migrators, NEW v \in Versions,
             Execute(m, v) \/ RecordVersion(m, v)
      PROVE  TypeOK'
  <2>1. CASE Execute(m, v)
    <3>1. Append(work[m], v) \in Seq(Versions)
      BY DEF TypeOK
    <3>2. work' \in [Migrators -> Seq(Versions)]
      BY <2>1, <3>1 DEF TypeOK, Execute
    <3> QED
      BY <2>1, <3>2 DEF TypeOK, Execute
  <2>2. CASE RecordVersion(m, v)
    BY <2>2 DEF TypeOK, RecordVersion
  <2> QED
    BY <1>5, <2>1, <2>2
<1>6. ASSUME NEW m \in Migrators, Commit(m) PROVE TypeOK'
  <2>0. rows[m] \subseteq DOMAIN Release[m]
    BY <1>6 DEF Commit, TransactionOK, Layered
  <2>1. schema \o work[m] \in Seq(Versions)
    BY DEF TypeOK
  <2>2. records' \in [Versions -> Checksums \cup {None}]
    BY <1>6, <2>0, ReleaseVersions DEF TypeOK, Commit, Stored
  <2> QED
    BY <1>1, <1>6, <2>1, <2>2 DEF TypeOK, Commit, Ended
<1> QED
  BY <1>2, <1>3, <1>4, <1>5, <1>6 DEF Next, Advance, TypeOK, vars, callVars

-----------------------------------------------------------------------------
(* The steps before the commit *)

\* A step that changes neither the database nor an open transaction of the
\* others.
LEMMA DatabaseSame ==
  ASSUME UNCHANGED <<records, schema>>
  PROVE  /\ Recorded' = Recorded
         /\ WholeReleases => WholeReleases'
         /\ SchemaIsRecorded => SchemaIsRecorded'
  BY DEF Recorded, WholeReleases, SchemaIsRecorded

LEMMA OthersSame ==
  ASSUME TypeOK, TransactionOK, UNCHANGED records, NEW m \in Migrators,
         \A n \in Migrators \ {m} :
           /\ pc'[n] = pc[n] /\ pending'[n] = pending[n]
           /\ work'[n] = work[n] /\ rows'[n] = rows[n]
  PROVE  \A n \in Migrators \ {m} :
           pc'[n] \in {"apply", "record"} => Layered(n)' /\ Noted(n)'
  BY DEF TransactionOK, Layered, Noted, Ascending, Lists, Recorded

LEMMA EndKeeps ==
  ASSUME MigrationInv, NEW m \in Migrators, NEW o \in Ended \ {"done"},
         End(m, o), UNCHANGED <<records, schema>>, pc[m] \notin Ended
  PROVE  /\ LockHeld' /\ NothingLeft' /\ TransactionOK'
         /\ WholeReleases' /\ SchemaIsRecorded' /\ ReturnedIsApplied'
<1> USE DEF MigrationInv
<1>1. pc' = [pc EXCEPT ![m] = o] /\ pc'[m] = o
  BY DEF End, TypeOK
<1>2. LockHeld'
  BY <1>1, SeparateNone DEF LockHeld, End, Unlock, Inside, Ended, TypeOK
<1>3. NothingLeft'
  BY <1>1 DEF NothingLeft, End, TypeOK
<1>4. TransactionOK'
  <2>1. \A n \in Migrators \ {m} :
          pc'[n] \in {"apply", "record"} => Layered(n)' /\ Noted(n)'
    BY OthersSame DEF End, TypeOK
  <2>2. pc'[m] \notin {"apply", "record"}
    BY <1>1 DEF Ended
  <2> QED
    BY <2>1, <2>2 DEF TransactionOK
<1>5. ReturnedIsApplied'
  BY <1>1 DEF ReturnedIsApplied, TypeOK
<1> QED
  BY <1>2, <1>3, <1>4, <1>5, DatabaseSame

LEMMA BeforeCommitKeeps ==
  ASSUME MigrationInv, NEW m \in Migrators, Migrate(m) \/ TakeLock(m)
  PROVE  /\ LockHeld' /\ NothingLeft' /\ TransactionOK'
         /\ WholeReleases' /\ SchemaIsRecorded' /\ ReturnedIsApplied'
<1> USE DEF MigrationInv
<1>1. pc'[m] \in {"waiting", "compare"} /\ \A n \in Migrators \ {m} : pc'[n] = pc[n]
  BY DEF Migrate, TakeLock, TypeOK
<1>2. LockHeld'
  <2>1. CASE Migrate(m)
    BY <2>1 DEF Migrate, LockHeld, Inside, Ended, TypeOK
  <2>2. CASE TakeLock(m)
    BY <2>2, SeparateNone DEF TakeLock, LockHeld, Inside, TypeOK
  <2> QED
    BY <2>1, <2>2
<1>3. NothingLeft'
  BY <1>1 DEF NothingLeft, Migrate, TakeLock, Ended, TypeOK
<1>4. TransactionOK'
  <2>1. \A n \in Migrators \ {m} :
          pc'[n] \in {"apply", "record"} => Layered(n)' /\ Noted(n)'
    BY <1>1, OthersSame DEF Migrate, TakeLock
  <2>2. pc'[m] \notin {"apply", "record"}
    BY <1>1
  <2> QED
    BY <2>1, <2>2 DEF TransactionOK
<1>5. ReturnedIsApplied'
  <2>1. \A n \in Migrators : pc'[n] = "done" => pc[n] = "done"
    BY DEF Migrate, TakeLock, TypeOK
  <2>2. records' = records
    BY DEF Migrate, TakeLock
  <2> QED
    BY <2>1, <2>2 DEF ReturnedIsApplied
<1> QED
  BY <1>2, <1>3, <1>4, <1>5, DatabaseSame DEF Migrate, TakeLock

LEMMA AcceptKeeps ==
  ASSUME MigrationInv, NEW m \in Migrators, Accept(m)
  PROVE  /\ LockHeld' /\ NothingLeft' /\ TransactionOK'
         /\ WholeReleases' /\ SchemaIsRecorded' /\ ReturnedIsApplied'
<1> USE DEF MigrationInv
<1>1. /\ pc'[m] = "apply" /\ pending'[m] = Missing(m)
      /\ work'[m] = <<>> /\ rows'[m] = {}
      /\ records' = records
  BY DEF Accept, TypeOK, NothingLeft
<1>2. LockHeld' /\ NothingLeft' /\ ReturnedIsApplied'
  BY DEF Accept, LockHeld, NothingLeft, ReturnedIsApplied, Inside, TypeOK
<1>3. Layered(m)'
  <2>1. \A v \in DOMAIN Release[m] : records[v] \in {None, Release[m][v]}
    BY DEF Accept, Mismatch
  <2>2. \A v \in DOMAIN Release[m] : v \in Missing(m) \cup Recorded
    BY ReleaseVersions DEF Missing, Recorded
  <2>3. \A v \in Missing(m) : \A w \in Recorded : w < v
    <3> SUFFICES ASSUME NEW v \in Missing(m), NEW w \in Recorded PROVE w < v
      OBVIOUS
    <3>1. PICK n \in Migrators :
            w \in DOMAIN Release[n] /\ DOMAIN Release[n] \subseteq Recorded
      BY DEF WholeReleases
    <3>2. v \in DOMAIN Release[m] /\ v \notin DOMAIN Release[n]
      BY <3>1 DEF Missing, Recorded
    <3>3. v > w
      BY <3>1, <3>2, ReleaseAssumption
    <3>4. v \in Nat /\ w \in Nat
      BY <3>1, <3>2, ReleaseVersions, ReleaseAssumption
    <3> QED
      BY <3>3, <3>4
  <2> QED
    BY <1>1, <2>1, <2>2, <2>3 DEF Layered, Recorded, Missing
<1>4. Noted(m)'
  BY <1>1, EmptySequence DEF Noted
<1>5. TransactionOK'
  <2>1. \A n \in Migrators \ {m} :
          pc'[n] \in {"apply", "record"} => Layered(n)' /\ Noted(n)'
    BY OthersSame DEF Accept, TypeOK
  <2> QED
    BY <1>3, <1>4, <2>1 DEF TransactionOK
<1> QED
  BY <1>2, <1>5, DatabaseSame DEF Accept

LEMMA ExecuteKeeps ==
  ASSUME MigrationInv, NEW m \in Migrators, NEW v \in Versions, Execute(m, v)
  PROVE  /\ LockHeld' /\ NothingLeft' /\ TransactionOK'
         /\ WholeReleases' /\ SchemaIsRecorded' /\ ReturnedIsApplied'
<1> USE DEF MigrationInv
<1>1. /\ pc'[m] = "record" /\ work'[m] = Append(work[m], v)
      /\ pending' = pending /\ rows' = rows /\ records' = records
  BY DEF Execute, TypeOK
<1>2. LockHeld' /\ NothingLeft' /\ ReturnedIsApplied'
  BY DEF Execute, LockHeld, NothingLeft, ReturnedIsApplied, Inside, TypeOK
<1>3. Layered(m) /\ Noted(m)
  BY DEF Execute, TransactionOK
<1>4. Layered(m)'
  BY <1>1, <1>3 DEF Layered, Recorded
<1>5. Noted(m)'
  <2>1. /\ work[m] \in Seq(Versions) /\ rows[m] \subseteq Versions
        /\ Lists(work[m], rows[m]) /\ Ascending(work[m])
        /\ \A w \in rows[m] : w < v
    BY <1>3 DEF Execute, Noted, Layered, TypeOK
  <2>2. /\ Lists(Append(work[m], v), rows[m] \cup {v})
        /\ Ascending(Append(work[m], v))
    BY <2>1, AppendLists
  <2>3. v \in pending[m] /\ \A w \in pending[m] : v <= w
    BY DEF Execute
  <2> QED
    BY <1>1, <2>2, <2>3 DEF Noted
<1>6. TransactionOK'
  <2>1. \A n \in Migrators \ {m} :
          pc'[n] \in {"apply", "record"} => Layered(n)' /\ Noted(n)'
    BY OthersSame DEF Execute, TypeOK
  <2> QED
    BY <1>4, <1>5, <2>1 DEF TransactionOK
<1> QED
  BY <1>2, <1>6, DatabaseSame DEF Execute

LEMMA RecordKeeps ==
  ASSUME MigrationInv, NEW m \in Migrators, NEW v \in Versions,
         RecordVersion(m, v)
  PROVE  /\ LockHeld' /\ NothingLeft' /\ TransactionOK'
         /\ WholeReleases' /\ SchemaIsRecorded' /\ ReturnedIsApplied'
<1> USE DEF MigrationInv
<1>1. /\ pc'[m] = "apply" /\ work' = work /\ records' = records
      /\ pending'[m] = pending[m] \ {v} /\ rows'[m] = rows[m] \cup {v}
  BY DEF RecordVersion, TypeOK
<1>2. LockHeld' /\ NothingLeft' /\ ReturnedIsApplied'
  BY DEF RecordVersion, LockHeld, NothingLeft, ReturnedIsApplied, Inside, TypeOK
<1>3. /\ Layered(m) /\ Noted(m) /\ pc[m] = "record"
      /\ v \in pending[m] /\ \A w \in pending[m] : v <= w
  BY DEF RecordVersion, TransactionOK
<1>4. pending[m] \subseteq Nat
  BY ReleaseAssumption DEF TypeOK
<1>5. Layered(m)'
  <2>1. \A w \in pending[m] \ {v} : v < w
    BY <1>3, <1>4
  <2> QED
    BY <1>1, <1>3, <2>1 DEF Layered, Recorded
<1>6. Noted(m)'
  <2>1. PICK w \in pending[m] : /\ \A x \in pending[m] : w <= x
                                /\ Lists(work[m], rows[m] \cup {w})
    BY <1>3 DEF Noted
  <2>2. w = v
    BY <1>3, <1>4, <2>1
  <2> QED
    BY <1>1, <1>3, <2>1, <2>2 DEF Noted
<1>7. TransactionOK'
  <2>1. \A n \in Migrators \ {m} :
          pc'[n] \in {"apply", "record"} => Layered(n)' /\ Noted(n)'
    BY OthersSame DEF RecordVersion, TypeOK
  <2> QED
    BY <1>5, <1>6, <2>1 DEF TransactionOK
<1> QED
  BY <1>2, <1>7, DatabaseSame DEF RecordVersion

-----------------------------------------------------------------------------
(* The commit *)

LEMMA CommitKeeps ==
  ASSUME MigrationInv, NEW m \in Migrators, Commit(m)
  PROVE  /\ LockHeld' /\ NothingLeft' /\ TransactionOK'
         /\ WholeReleases' /\ SchemaIsRecorded' /\ ReturnedIsApplied'
<1> USE DEF MigrationInv
<1>1. /\ pc[m] = "apply" /\ pending[m] = {} /\ Layered(m) /\ Noted(m)
      /\ pc' = [pc EXCEPT ![m] = "done"] /\ lock' = Unlock(m)
      /\ schema' = schema \o work[m]
  BY DEF Commit, End, TransactionOK
<1>2. \A v \in Versions :
        records'[v] = IF v \in rows[m] THEN Release[m][v] ELSE records[v]
  BY DEF Commit, Stored
<1>3. rows[m] \subseteq DOMAIN Release[m] /\ DOMAIN Release[m] \subseteq Versions
  BY <1>1, ReleaseVersions DEF Layered
<1>4. Recorded' = Recorded \cup rows[m]
  BY <1>2, <1>3, ReleaseVersions, SeparateNone DEF Recorded
<1>5. \A v \in Recorded : records'[v] = records[v]
  <2>1. \A v \in Recorded : v \notin rows[m]
    <3>1. \A v \in rows[m] : v \in Nat
      BY <1>3, ReleaseAssumption
    <3> QED
      BY <1>1, <3>1 DEF Layered
  <2> QED
    BY <1>2, <2>1 DEF Recorded
<1>6. \A v \in DOMAIN Release[m] : records'[v] = Release[m][v]
  <2> SUFFICES ASSUME NEW v \in DOMAIN Release[m] PROVE records'[v] = Release[m][v]
    OBVIOUS
  <2>1. v \in rows[m] \cup Recorded
    BY <1>1 DEF Layered
  <2>2. records[v] \in {None, Release[m][v]}
    BY <1>1 DEF Layered
  <2> QED
    BY <1>2, <1>3, <2>1, <2>2 DEF Recorded
<1>7. lock = m /\ \A n \in Migrators \ {m} : pc[n] \notin Inside
  BY <1>1 DEF LockHeld, Inside
<1>8. LockHeld'
  BY <1>1, <1>7, SeparateNone DEF LockHeld, Unlock, Inside, TypeOK
<1>9. NothingLeft'
  BY <1>1 DEF NothingLeft, Commit, End, TypeOK
<1>10. TransactionOK'
  BY <1>1, <1>7 DEF TransactionOK, Inside, TypeOK
<1>11. WholeReleases'
  <2> SUFFICES ASSUME NEW v \in Recorded'
               PROVE  \E n \in Migrators :
                        v \in DOMAIN Release[n] /\ DOMAIN Release[n] \subseteq Recorded'
    BY DEF WholeReleases
  <2>1. CASE v \in Recorded
    BY <1>4, <2>1 DEF WholeReleases
  <2>2. CASE v \in rows[m]
    BY <1>1, <1>3, <1>4, <2>2 DEF Layered
  <2> QED
    BY <1>4, <2>1, <2>2
<1>12. SchemaIsRecorded'
  <2>1. Lists(schema, Recorded) /\ Ascending(schema)
    BY DEF SchemaIsRecorded, Lists, Ascending, Recorded
  <2>2. Lists(work[m], rows[m]) /\ Ascending(work[m])
    BY <1>1 DEF Noted
  <2>3. /\ Lists(schema \o work[m], Recorded \cup rows[m])
        /\ Ascending(schema \o work[m])
    BY <1>1, <2>1, <2>2, ConcatLists DEF Layered, TypeOK
  <2>4. Lists(schema', Recorded') /\ Ascending(schema')
    BY <1>1, <1>4, <2>3
  <2> QED
    BY <2>4 DEF SchemaIsRecorded, Lists, Ascending, Recorded
<1>13. ReturnedIsApplied'
  <2> SUFFICES ASSUME NEW n \in Migrators, pc'[n] = "done",
                      NEW v \in DOMAIN Release[n]
               PROVE  records'[v] = Release[n][v]
    BY DEF ReturnedIsApplied
  <2>1. CASE n = m
    BY <1>6, <2>1
  <2>2. CASE n # m
    <3>1. pc[n] = "done"
      BY <1>1, <2>2 DEF TypeOK
    <3>2. records[v] = Release[n][v] /\ v \in Versions
      BY <3>1, ReleaseVersions DEF ReturnedIsApplied
    <3>3. v \in Recorded
      BY <3>2, ReleaseVersions, SeparateNone DEF Recorded
    <3> QED
      BY <1>5, <3>2, <3>3
  <2> QED
    BY <2>1, <2>2
<1> QED
  BY <1>8, <1>9, <1>10, <1>11, <1>12, <1>13

-----------------------------------------------------------------------------
LEMMA InitMigrationInv == Init => MigrationInv
<1> SUFFICES ASSUME Init PROVE MigrationInv
  OBVIOUS
<1>1. TypeOK
  BY ReleaseAssumption DEF Init, TypeOK, Ended
<1>2. LockHeld /\ NothingLeft /\ TransactionOK /\ ReturnedIsApplied
  BY SeparateNone
  DEF Init, LockHeld, NothingLeft, TransactionOK, ReturnedIsApplied, Inside
<1>3. WholeReleases /\ SchemaIsRecorded
  BY DEF Init, WholeReleases, SchemaIsRecorded, Recorded
<1> QED
  BY <1>1, <1>2, <1>3 DEF MigrationInv

LEMMA NextMigrationInv == MigrationInv /\ [Next]_vars => MigrationInv'
<1> SUFFICES ASSUME MigrationInv, [Next]_vars PROVE MigrationInv'
  OBVIOUS
<1>1. TypeOK'
  BY NextTypeOK DEF MigrationInv
<1>2. ASSUME NEW m \in Migrators, Migrate(m) \/ TakeLock(m) PROVE MigrationInv'
  BY <1>1, <1>2, BeforeCommitKeeps DEF MigrationInv
<1>3. ASSUME NEW m \in Migrators, Refuse(m) \/ Fail(m) PROVE MigrationInv'
  <2>1. PICK o \in Ended \ {"done"} :
          End(m, o) /\ UNCHANGED <<records, schema>> /\ pc[m] \notin Ended
    BY <1>3 DEF Refuse, Fail, Ended
  <2> QED
    BY <1>1, <2>1, EndKeeps DEF MigrationInv
<1>4. ASSUME NEW m \in Migrators, Accept(m) PROVE MigrationInv'
  BY <1>1, <1>4, AcceptKeeps DEF MigrationInv
<1>5. ASSUME NEW m \in Migrators, NEW v \in Versions, Execute(m, v)
      PROVE  MigrationInv'
  BY <1>1, <1>5, ExecuteKeeps DEF MigrationInv
<1>6. ASSUME NEW m \in Migrators, NEW v \in Versions, RecordVersion(m, v)
      PROVE  MigrationInv'
  BY <1>1, <1>6, RecordKeeps DEF MigrationInv
<1>7. ASSUME NEW m \in Migrators, Commit(m) PROVE MigrationInv'
  BY <1>1, <1>7, CommitKeeps DEF MigrationInv
<1>8. CASE UNCHANGED vars
  BY <1>1, <1>8
  DEF MigrationInv, LockHeld, NothingLeft, TransactionOK, Layered, Noted, Lists,
      Ascending, WholeReleases, Recorded, SchemaIsRecorded, ReturnedIsApplied,
      vars, callVars
<1> QED
  BY <1>2, <1>3, <1>4, <1>5, <1>6, <1>7, <1>8 DEF Next, Advance

\* The open transactions, the table of versions and the schema agree in every
\* state (migrate).
THEOREM MigrationInvHolds == Spec => []MigrationInv
  BY InitMigrationInv, NextMigrationInv, PTL DEF Spec

\* Every variable keeps its type: what is stored is a checksum.
THEOREM MigrationTypeCorrect == Spec => []TypeOK
<1>1. MigrationInv => TypeOK
  BY DEF MigrationInv
<1> QED
  BY <1>1, MigrationInvHolds, PTL

\* The scripts whose effect is committed are those with a row, once each and
\* in order, however many calls run at once and wherever they die.
THEOREM VersionsTellSchema == Spec => []SchemaIsRecorded
<1>1. MigrationInv => SchemaIsRecorded
  BY DEF MigrationInv
<1> QED
  BY <1>1, MigrationInvHolds, PTL

\* A call that has returned has its release applied.
THEOREM ReturnedReleaseApplied == Spec => []ReturnedIsApplied
<1>1. MigrationInv => ReturnedIsApplied
  BY DEF MigrationInv
<1> QED
  BY <1>1, MigrationInvHolds, PTL
-----------------------------------------------------------------------------
(* Every step is a step of SchemaUpgrade, or none *)

UpgradeStep == [Atomic!UpgradeNext]_(Atomic!upgradeVars)

\* What the caller sees of a call.
Seen == [m \in Migrators |-> Answer(m)]

LEMMA InitUpgrade == Init => Atomic!UpgradeInit
  BY DEF Init, Atomic!UpgradeInit, Answer, Ended

LEMMA EndedIsNotOpen == "open" \notin Ended
  BY DEF Ended

\* A step that moves one call changes what its caller sees, and nothing else.
LEMMA SeenMoves ==
  ASSUME NEW m \in Migrators, \A n \in Migrators \ {m} : pc'[n] = pc[n]
  PROVE  /\ Seen' = [Seen EXCEPT ![m] = Answer(m)']
         /\ Answer(m)' = Answer(m) => Seen' = Seen
<1>1. \A n \in Migrators \ {m} : Answer(n)' = Answer(n)
  BY DEF Answer
<1>2. \A n \in Migrators : Seen'[n] = Answer(n)' /\ Seen[n] = Answer(n)
  BY DEF Seen
<1>3. /\ DOMAIN Seen = Migrators /\ Seen = [n \in Migrators |-> Seen[n]]
      /\ DOMAIN Seen' = Migrators /\ Seen' = [n \in Migrators |-> Seen'[n]]
  BY DEF Seen
<1>4. Seen' = [Seen EXCEPT ![m] = Answer(m)']
  <2> DEFINE changed == [Seen EXCEPT ![m] = Answer(m)']
  <2>1. /\ DOMAIN changed = Migrators
        /\ \A n \in Migrators : changed[n] = Seen'[n]
    BY <1>1, <1>2, <1>3
  <2>2. changed = [n \in Migrators |-> changed[n]]
    BY <1>3
  <2> QED
    BY <1>3, <2>1, <2>2
<1>5. ASSUME Answer(m)' = Answer(m) PROVE Seen' = Seen
  BY <1>1, <1>2, <1>3, <1>5
<1> QED
  BY <1>4, <1>5

\* A call under way that does not end stays open.
LEMMA OpenStays ==
  ASSUME NEW m \in Migrators, pc[m] \notin Ended, pc'[m] \notin Ended,
         \A n \in Migrators \ {m} : pc'[n] = pc[n], UNCHANGED <<records, schema>>
  PROVE  UpgradeStep
<1>1. Seen' = Seen
  BY SeenMoves DEF Answer
<1> QED
  BY <1>1 DEF UpgradeStep, Atomic!upgradeVars, Seen

LEMMA CallAgain ==
  ASSUME TypeOK, NEW m \in Migrators, Migrate(m)
  PROVE  Atomic!Call(m)
<1>1. /\ pc[m] \in Ended /\ pc'[m] = "waiting"
      /\ \A n \in Migrators \ {m} : pc'[n] = pc[n]
      /\ UNCHANGED <<records, schema>>
  BY DEF Migrate, TypeOK
<1>2. Answer(m) # "open" /\ Answer(m)' = "open"
  BY <1>1, EndedIsNotOpen DEF Answer, Ended
<1>3. Seen[m] = Answer(m) /\ Seen' = [Seen EXCEPT ![m] = "open"]
  BY <1>1, <1>2, SeenMoves DEF Seen
<1> QED
  BY <1>1, <1>2, <1>3 DEF Atomic!Call, Seen

\* The end of a call is an answer.
LEMMA EndReplies ==
  ASSUME TypeOK, NEW m \in Migrators, NEW o \in Ended, End(m, o),
         pc[m] \notin Ended
  PROVE  Atomic!Reply(m, o)
<1>1. pc'[m] = o /\ \A n \in Migrators \ {m} : pc'[n] = pc[n]
  BY DEF End, TypeOK
<1>2. Answer(m) = "open" /\ Answer(m)' = o
  BY <1>1 DEF Answer
<1>3. Seen[m] = "open" /\ Seen' = [Seen EXCEPT ![m] = o]
  BY <1>1, <1>2, SeenMoves DEF Seen
<1> QED
  BY <1>3 DEF Atomic!Reply, Seen

LEMMA RefusalDeclines ==
  ASSUME TypeOK, NEW m \in Migrators, Refuse(m)
  PROVE  Atomic!Decline(m)
<1>1. Atomic!Reply(m, "refused")
  BY EndReplies DEF Refuse, Ended
<1>2. ~Atomic!Fits(m)
  BY DEF Refuse, Mismatch, Atomic!Fits
<1> QED
  BY <1>1, <1>2 DEF Refuse, Atomic!Decline

LEMMA FailureBreaks ==
  ASSUME TypeOK, NEW m \in Migrators, Fail(m)
  PROVE  Atomic!Break(m)
<1>1. Atomic!Reply(m, "failed")
  BY EndReplies DEF Fail, Ended
<1> QED
  BY <1>1 DEF Fail, Atomic!Break

\* What is listed by a sequence is what is appended with it.
LEMMA ConcatGrows ==
  ASSUME NEW s \in Seq(Versions), NEW t \in Seq(Versions),
         NEW S \in SUBSET Versions, Lists(t, S), Ascending(t)
  PROVE  LET u == s \o t IN
         /\ Len(u) >= Len(s)
         /\ \A i \in 1..Len(s) : u[i] = s[i]
         /\ {u[i] : i \in (Len(s) + 1)..Len(u)} = S
         /\ \A i, j \in (Len(s) + 1)..Len(u) : i < j => u[i] < u[j]
<1> DEFINE u == s \o t
<1>1. /\ Len(s) \in Nat /\ Len(t) \in Nat
      /\ Len(u) = Len(s) + Len(t)
      /\ \A i \in 1..Len(s) : u[i] = s[i]
      /\ \A i \in 1..Len(t) : u[Len(s) + i] = t[i] /\ t[i] \in Versions
  OBVIOUS
<1> HIDE DEF u
<1>2. ASSUME NEW i \in (Len(s) + 1)..Len(u)
      PROVE  i - Len(s) \in 1..Len(t) /\ u[i] = t[i - Len(s)]
  <2>1. i - Len(s) \in 1..Len(t) /\ Len(s) + (i - Len(s)) = i
    BY <1>1
  <2> QED
    BY <1>1, <2>1
<1>3. \A i \in (Len(s) + 1)..Len(u) : u[i] \in S
  BY <1>1, <1>2 DEF Lists
<1>4. ASSUME NEW v \in S PROVE \E i \in (Len(s) + 1)..Len(u) : u[i] = v
  <2>1. PICK i \in 1..Len(t) : t[i] = v
    BY DEF Lists
  <2>2. Len(s) + i \in (Len(s) + 1)..Len(u)
    BY <1>1
  <2> QED
    BY <1>1, <2>1, <2>2
<1>5. \A i, j \in (Len(s) + 1)..Len(u) : i < j => u[i] < u[j]
  <2> SUFFICES ASSUME NEW i \in (Len(s) + 1)..Len(u),
                      NEW j \in (Len(s) + 1)..Len(u), i < j
               PROVE  u[i] < u[j]
    OBVIOUS
  <2>1. i - Len(s) < j - Len(s)
    BY <1>1
  <2> QED
    BY <1>2, <2>1 DEF Ascending
<1>6. {u[i] : i \in (Len(s) + 1)..Len(u)} = S
  BY <1>3, <1>4
<1>7. Len(u) >= Len(s)
  BY <1>1
<1> QED
  BY <1>1, <1>5, <1>6, <1>7 DEF u

\* What a call has noted when it commits is what its release lacked then: no
\* other call has recorded anything since it compared.
LEMMA NotedIsWanted ==
  ASSUME MigrationInv, NEW m \in Migrators, Commit(m)
  PROVE  /\ Atomic!Fits(m)
         /\ Atomic!Wanted(m) = rows[m]
         /\ Lists(work[m], rows[m]) /\ Ascending(work[m])
<1>1. /\ Layered(m) /\ Noted(m) /\ pc[m] = "apply" /\ pending[m] = {}
  BY DEF Commit, MigrationInv, TransactionOK
<1>2. \A v \in rows[m] : v \in DOMAIN Release[m] /\ v \notin Recorded
  <2>1. \A v \in rows[m] : v \in Nat
    BY ReleaseAssumption DEF MigrationInv, TypeOK
  <2> QED
    BY <1>1, <2>1 DEF Layered
<1>3. \A v \in DOMAIN Release[m] : v \in Versions /\ v \in rows[m] \cup Recorded
  BY <1>1, ReleaseVersions DEF Layered
<1>4. Atomic!Wanted(m) = rows[m]
  BY <1>2, <1>3 DEF Atomic!Wanted, Recorded
<1> QED
  BY <1>1, <1>4 DEF Layered, Noted, Atomic!Fits

LEMMA CommitUpgrades ==
  ASSUME MigrationInv, NEW m \in Migrators, Commit(m)
  PROVE  Atomic!Upgrade(m)
<1>1. Atomic!Fits(m) /\ Atomic!Wanted(m) = rows[m]
  BY NotedIsWanted
<1>2. Atomic!Grow(Atomic!Wanted(m))
  <2>1. /\ schema \in Seq(Versions) /\ work[m] \in Seq(Versions)
        /\ rows[m] \in SUBSET Versions
    BY DEF MigrationInv, TypeOK
  <2>2. schema' = schema \o work[m]
    BY DEF Commit
  <2>3. Lists(work[m], rows[m]) /\ Ascending(work[m])
    BY NotedIsWanted
  <2>4. LET u == schema \o work[m] IN
        /\ Len(u) >= Len(schema)
        /\ \A i \in 1..Len(schema) : u[i] = schema[i]
        /\ {u[i] : i \in (Len(schema) + 1)..Len(u)} = rows[m]
        /\ \A i, j \in (Len(schema) + 1)..Len(u) : i < j => u[i] < u[j]
    BY <2>1, <2>3, ConcatGrows
  <2>5. Atomic!Grow(rows[m])
    BY <2>2, <2>4 DEF Atomic!Grow
  <2> QED
    BY <1>1, <2>5
<1>3. records' = [v \in Versions |->
                    IF v \in rows[m] THEN Release[m][v] ELSE records[v]]
  BY DEF Commit, Stored
<1>4. Atomic!Reply(m, "done")
  BY EndReplies DEF Commit, Ended, MigrationInv
<1> QED
  BY <1>1, <1>2, <1>3, <1>4 DEF Atomic!Upgrade

LEMMA NextUpgrades == MigrationInv /\ [Next]_vars => UpgradeStep
<1> SUFFICES ASSUME MigrationInv, [Next]_vars PROVE UpgradeStep
  OBVIOUS
<1>0. TypeOK
  BY DEF MigrationInv
<1>1. ASSUME NEW m \in Migrators, Migrate(m) PROVE UpgradeStep
  BY <1>0, <1>1, CallAgain DEF UpgradeStep, Atomic!UpgradeNext
<1>2. ASSUME NEW m \in Migrators, TakeLock(m) \/ Accept(m) PROVE UpgradeStep
  <2>1. /\ pc[m] \notin Ended /\ pc'[m] \notin Ended
        /\ \A n \in Migrators \ {m} : pc'[n] = pc[n]
        /\ UNCHANGED <<records, schema>>
    BY <1>0, <1>2 DEF TakeLock, Accept, TypeOK, Ended
  <2> QED
    BY <2>1, OpenStays
<1>3. ASSUME NEW m \in Migrators, NEW v \in Versions,
             Execute(m, v) \/ RecordVersion(m, v)
      PROVE  UpgradeStep
  <2>1. /\ pc[m] \notin Ended /\ pc'[m] \notin Ended
        /\ \A n \in Migrators \ {m} : pc'[n] = pc[n]
        /\ UNCHANGED <<records, schema>>
    BY <1>0, <1>3 DEF Execute, RecordVersion, TypeOK, Ended
  <2> QED
    BY <2>1, OpenStays
<1>4. ASSUME NEW m \in Migrators, Refuse(m) PROVE UpgradeStep
  BY <1>0, <1>4, RefusalDeclines DEF UpgradeStep, Atomic!UpgradeNext
<1>5. ASSUME NEW m \in Migrators, Fail(m) PROVE UpgradeStep
  BY <1>0, <1>5, FailureBreaks DEF UpgradeStep, Atomic!UpgradeNext
<1>6. ASSUME NEW m \in Migrators, Commit(m) PROVE UpgradeStep
  BY <1>6, CommitUpgrades DEF UpgradeStep, Atomic!UpgradeNext
<1>7. CASE UNCHANGED vars
  BY <1>7 DEF UpgradeStep, Atomic!upgradeVars, Answer, vars, callVars
<1> QED
  BY <1>1, <1>2, <1>3, <1>4, <1>5, <1>6, <1>7 DEF Next, Advance

\* Overlapping calls of migrate are calls that upgrade the database in one
\* step each, one after the other: what a call compared is still so when it
\* commits, and a call that dies or is refused changes nothing.
THEOREM UpgradeImplemented == Spec => ImplementsUpgrade
<1>1. Init => Atomic!UpgradeInit
  BY InitUpgrade
<1>2. MigrationInv /\ [Next]_vars => [Atomic!UpgradeNext]_(Atomic!upgradeVars)
  BY NextUpgrades DEF UpgradeStep
<1> QED
  BY <1>1, <1>2, MigrationInvHolds, PTL
  DEF Spec, ImplementsUpgrade, Atomic!UpgradeSpec
=============================================================================
