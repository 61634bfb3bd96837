---------------------------- MODULE SchemaUpgrade ----------------------------
(***************************************************************************)
(* What migrate() promises whoever deploys a release: a call either        *)
(* upgrades the database to its release in one step, or changes nothing.   *)
(* An upgrade refuses a database that has a script differently, applies    *)
(* what is missing, each script once and in order, and records it.         *)
(***************************************************************************)
EXTENDS Naturals, Sequences

CONSTANTS Migrators, Release, Versions, None

VARIABLES
  records,   \* the recorded checksum of each version, None without one
  schema,    \* versions of the applied scripts, in their order
  answer     \* what the last call of each caller came to, "open" during one

upgradeVars == <<records, schema, answer>>

UpgradeInit ==
  /\ records = [v \in Versions |-> None]
  /\ schema = <<>>
  /\ answer = [m \in Migrators |-> "idle"]

Wanted(m) == {v \in DOMAIN Release[m] : records[v] = None}

Fits(m) == \A v \in DOMAIN Release[m] : records[v] \in {None, Release[m][v]}

Reply(m, what) ==
  /\ answer[m] = "open"
  /\ answer' = [answer EXCEPT ![m] = what]

Call(m) ==
  /\ answer[m] # "open"
  /\ answer' = [answer EXCEPT ![m] = "open"]
  /\ UNCHANGED <<records, schema>>

\* The schema grows by exactly these versions, in their order.
Grow(S) ==
  /\ Len(schema') >= Len(schema)
  /\ \A i \in 1..Len(schema) : schema'[i] = schema[i]
  /\ {schema'[i] : i \in (Len(schema) + 1)..Len(schema')} = S
  /\ \A i, j \in (Len(schema) + 1)..Len(schema') : i < j => schema'[i] < schema'[j]

Upgrade(m) ==
  /\ Fits(m)
  /\ Grow(Wanted(m))
  /\ records' = [v \in Versions |->
                   IF v \in Wanted(m) THEN Release[m][v] ELSE records[v]]
  /\ Reply(m, "done")

Decline(m) ==
  /\ ~Fits(m)
  /\ Reply(m, "refused")
  /\ UNCHANGED <<records, schema>>

Break(m) ==
  /\ Reply(m, "failed")
  /\ UNCHANGED <<records, schema>>

UpgradeNext ==
  \E m \in Migrators : Call(m) \/ Upgrade(m) \/ Decline(m) \/ Break(m)

UpgradeSpec == UpgradeInit /\ [][UpgradeNext]_upgradeVars
=============================================================================
