--------------------------- MODULE SchemaMigrations ---------------------------
(***************************************************************************)
(* The migration runner (state/migrations.py): whoever deploys a release   *)
(* runs migrate(), which takes an advisory lock in a transaction, compares *)
(* the scripts of its release with the recorded ones, and applies those    *)
(* that are missing, all in that one transaction.                          *)
(*                                                                         *)
(* The database is assumed to do what PostgreSQL promises: what an open    *)
(* transaction has done is seen by no other and is gone if it does not     *)
(* commit, and its advisory lock goes with it.                             *)
(***************************************************************************)
EXTENDS Naturals, Sequences

CONSTANTS
  Migrators,    \* callers of migrate()
  Release,      \* for each, its scripts: a checksum for each version it has
  MaxFailures   \* bound: calls that die or whose script fails

Versions == UNION {DOMAIN Release[m] : m \in Migrators}
Checksums == UNION {{Release[m][v] : v \in DOMAIN Release[m]} : m \in Migrators}
None == <<>>   \* no row, nobody

\* Versions are numbers without duplicates (available_migrations checks it),
\* and a release has scripts only behind those of its predecessors.
ASSUME ReleaseAssumption ==
  /\ Versions \subseteq Nat
  /\ \A m, n \in Migrators :
       \A v \in DOMAIN Release[m] \ DOMAIN Release[n] :
         \A w \in DOMAIN Release[n] : v > w
  /\ None \notin Checksums
  /\ None \notin Migrators
  /\ MaxFailures \in Nat

VARIABLES
  records,   \* the committed rows of schema_migrations
  schema,    \* versions of the scripts whose effect is committed, in their order
  lock,      \* who holds the advisory lock
  pc,        \* where each call is
  pending,   \* scripts it has still to apply
  work,      \* scripts its open transaction has executed, in their order
  rows,      \* rows its open transaction has inserted
  failures   \* what has been used up of the bound

callVars == <<pc, pending, work, rows>>
vars == <<records, schema, lock, callVars, failures>>

Ended == {"idle", "done", "refused", "failed"}

-----------------------------------------------------------------------------
TypeOK ==
  /\ records \in [Versions -> Checksums \cup {None}]
  /\ schema \in Seq(Versions)
  /\ lock \in Migrators \cup {None}
  /\ pc \in [Migrators -> Ended \cup {"waiting", "compare", "apply", "record"}]
  /\ pending \in [Migrators -> SUBSET Versions]
  /\ work \in [Migrators -> Seq(Versions)]
  /\ rows \in [Migrators -> SUBSET Versions]
  /\ failures \in Nat

Init ==
  /\ records = [v \in Versions |-> None]
  /\ schema = <<>>
  /\ lock = None
  /\ pc = [m \in Migrators |-> "idle"]
  /\ pending = [m \in Migrators |-> {}]
  /\ work = [m \in Migrators |-> <<>>]
  /\ rows = [m \in Migrators |-> {}]
  /\ failures = 0

Missing(m) == {v \in DOMAIN Release[m] : records[v] = None}

\* A script that has been applied is not what this release says it is.
Mismatch(m) ==
  \E v \in DOMAIN Release[m] : records[v] \notin {None, Release[m][v]}

\* The lock goes with the transaction, if this call has it.
Unlock(m) == IF lock = m THEN None ELSE lock

\* The transaction is over, and the call with it.
End(m, outcome) ==
  /\ pc' = [pc EXCEPT ![m] = outcome]
  /\ pending' = [pending EXCEPT ![m] = {}]
  /\ work' = [work EXCEPT ![m] = <<>>]
  /\ rows' = [rows EXCEPT ![m] = {}]
  /\ lock' = Unlock(m)

-----------------------------------------------------------------------------
\* migrate() is called, for the first time or again.
Migrate(m) ==
  /\ pc[m] \in Ended
  /\ pc' = [pc EXCEPT ![m] = "waiting"]
  /\ UNCHANGED <<records, schema, lock, pending, work, rows, failures>>

MutTakeLock(m) ==
  /\ pc[m] = "waiting"
  /\ lock' = m
  /\ pc' = [pc EXCEPT ![m] = "compare"]
  /\ UNCHANGED <<records, schema, pending, work, rows, failures>>

TakeLock(m) ==
  /\ pc[m] = "waiting"
  /\ lock = None
  /\ lock' = m
  /\ pc' = [pc EXCEPT ![m] = "compare"]
  /\ UNCHANGED <<records, schema, pending, work, rows, failures>>

MutRefuse(m) ==
  /\ pc[m] = "compare"
  /\ Mismatch(m)
  /\ End(m, "waiting")
  /\ UNCHANGED <<records, schema, failures>>

Refuse(m) ==
  /\ pc[m] = "compare"
  /\ Mismatch(m)
  /\ End(m, "refused")
  /\ UNCHANGED <<records, schema, failures>>

Accept(m) ==
  /\ pc[m] = "compare"
  /\ ~Mismatch(m)
  /\ pending' = [pending EXCEPT ![m] = Missing(m)]
  /\ pc' = [pc EXCEPT ![m] = "apply"]
  /\ UNCHANGED <<records, schema, lock, work, rows, failures>>

MutExecute(m, v) ==
  /\ pc[m] = "apply"
  /\ v \in pending[m] /\ \A w \in pending[m] : v <= w
  /\ schema' = Append(schema, v)
  /\ pc' = [pc EXCEPT ![m] = "record"]
  /\ UNCHANGED <<records, lock, pending, work, rows, failures>>

\* The next script, in the order of the versions.
Execute(m, v) ==
  /\ pc[m] = "apply"
  /\ v \in pending[m] /\ \A w \in pending[m] : v <= w
  /\ work' = [work EXCEPT ![m] = Append(@, v)]
  /\ pc' = [pc EXCEPT ![m] = "record"]
  /\ UNCHANGED <<records, schema, lock, pending, rows, failures>>

\* The row of the script that has just been executed.
RecordVersion(m, v) ==
  /\ pc[m] = "record"
  /\ v \in pending[m] /\ \A w \in pending[m] : v <= w
  /\ rows' = [rows EXCEPT ![m] = @ \cup {v}]
  /\ pending' = [pending EXCEPT ![m] = @ \ {v}]
  /\ pc' = [pc EXCEPT ![m] = "apply"]
  /\ UNCHANGED <<records, schema, lock, work, failures>>

Stored(m, v) == Release[m][v]

Commit(m) ==
  /\ pc[m] = "apply"
  /\ pending[m] = {}
  /\ schema' = schema \o work[m]
  /\ records' = [v \in Versions |-> IF v \in rows[m] THEN Stored(m, v)
                                    ELSE records[v]]
  /\ End(m, "done")
  /\ UNCHANGED failures

\* The process dies, the connection is lost, or a statement fails.
Fail(m) ==
  /\ pc[m] \notin Ended
  /\ failures < MaxFailures
  /\ failures' = failures + 1
  /\ End(m, "failed")
  /\ UNCHANGED <<records, schema>>

-----------------------------------------------------------------------------
Advance(m) ==
  \/ TakeLock(m) \/ Refuse(m) \/ Accept(m) \/ Commit(m)
  \/ \E v \in Versions : Execute(m, v) \/ RecordVersion(m, v)

Next == \E m \in Migrators : Migrate(m) \/ Advance(m) \/ Fail(m)

Spec == Init /\ [][Next]_vars

\* A call goes on until it ends, and the lock is granted in the order in
\* which it is asked for, so nobody waits while others take it for ever.
Fairness ==
  \A m \in Migrators : WF_vars(Advance(m)) /\ SF_vars(TakeLock(m))

FairSpec == Spec /\ Fairness

-----------------------------------------------------------------------------
\* The table tells what the schema is: the scripts whose effect is committed
\* are those with a row, each executed once, in the order of the versions,
\* wherever a call died and whichever releases were deployed at once.
SchemaIsRecorded ==
  /\ \A v \in Versions :
       records[v] # None <=> \E i \in 1..Len(schema) : schema[i] = v
  /\ \A i, j \in 1..Len(schema) : i < j => schema[i] < schema[j]

\* A call that returns has left every script of its release applied as the
\* release has it; no later call of another release changes that.
ReturnedIsApplied ==
  \A m \in Migrators : pc[m] = "done" =>
    \A v \in DOMAIN Release[m] : records[v] = Release[m][v]

\* A call that waits for the lock ends: whoever had the lock and died does
\* not keep it.
CallsEnd ==
  \A m \in Migrators : pc[m] = "waiting" ~> pc[m] \in Ended

-----------------------------------------------------------------------------
(* SchemaMigrations implements SchemaUpgrade: a call is open until it ends. *)

Answer(m) == IF pc[m] \in Ended THEN pc[m] ELSE "open"

Atomic == INSTANCE SchemaUpgrade WITH
  answer <- [m \in Migrators |-> Answer(m)]

\* However many calls overlap and wherever they die, each one that returns has
\* upgraded the database in one step from what it was at that moment: what it
\* had read under the lock still held when it committed, and nobody sees half
\* of an upgrade.
ImplementsUpgrade == Atomic!UpgradeSpec
=============================================================================
