---------------------------- MODULE PartitionLease ----------------------------
(***************************************************************************)
(* The lease table of one continuous deployment (continuous_partitions)    *)
(* with the messages its owners put into the outbox (state/continuous.py). *)
(*                                                                         *)
(* Every statement of the store is an operator on the rows; LeaseNext lets *)
(* anybody issue any of them at any time, with any owner and any token     *)
(* ever handed out, so what LeaseSpec promises it promises whatever the    *)
(* supervisors, reconcilers and operators do.  A statement whose WHERE     *)
(* matches no row changes nothing and is not a step.                       *)
(*                                                                         *)
(* Time is abstracted to whether lease_expires_at is null, ahead or past.  *)
(***************************************************************************)
EXTENDS Naturals

CONSTANTS
  Partitions,    \* partition ids discovery may report
  Workers,       \* worker instances
  Emissions,     \* stable ids of events
  Checkpoints,   \* checkpoint keys
  Nobody,        \* no owner
  MaxToken       \* bound: leases granted per partition

ASSUME LeaseAssumption ==
  /\ Nobody \notin Workers
  /\ Emissions \cap Checkpoints = {}
  /\ MaxToken \in Nat

VARIABLES
  pstatus,   \* status, "absent" while the row is not stored
  owner,     \* owner_id
  token,     \* fencing_token
  lease,     \* lease_expires_at: "none", "live", "lapsed"
  outbox     \* fencing_token of the outbox row of each key, 0 without a row

rowVars == <<pstatus, owner, token, lease>>
leaseVars == <<rowVars, outbox>>

-----------------------------------------------------------------------------
PartitionStatus ==
  {"unassigned", "assigned", "running", "blocked_sink", "failed", "inactive"}

Keys == Emissions \cup Checkpoints

LeaseTypeOK ==
  /\ pstatus \in [Partitions -> PartitionStatus \cup {"absent"}]
  /\ owner \in [Partitions -> Workers \cup {Nobody}]
  /\ token \in [Partitions -> Nat]
  /\ lease \in [Partitions -> {"none", "live", "lapsed"}]
  /\ outbox \in [Partitions -> [Keys -> Nat]]

LeaseInit ==
  /\ pstatus = [p \in Partitions |-> "absent"]
  /\ owner = [p \in Partitions |-> Nobody]
  /\ token = [p \in Partitions |-> 0]
  /\ lease = [p \in Partitions |-> "none"]
  /\ outbox = [p \in Partitions |-> [k \in Keys |-> 0]]

Stored == {p \in Partitions : pstatus[p] # "absent"}

MutHolds(p, w, t) == owner[p] = w

\* The fence: the statement's owner and token are the row's.
Holds(p, w, t) == owner[p] = w /\ token[p] = t

\* An emission also needs the lease not to have expired.
MayEmit(p, w, t) == Holds(p, w, t) /\ lease[p] = "live"

-----------------------------------------------------------------------------
(* Discovery *)

\* Rows missing from a discovery, which an empty one is not looked for in.
Gone(D) ==
  {p \in Partitions : /\ D # {} /\ p \notin D
                      /\ pstatus[p] \in {"unassigned", "assigned", "running"}}

\* The token stays with the row, through inactivity and rediscovery.
SyncPartitions(D) ==
  /\ pstatus' = [p \in Partitions |->
       IF p \in D /\ pstatus[p] \in {"absent", "inactive"} THEN "unassigned"
       ELSE IF p \in Gone(D) THEN "inactive"
       ELSE pstatus[p]]
  /\ owner' = [p \in Partitions |-> IF p \in Gone(D) THEN Nobody ELSE owner[p]]
  /\ lease' = [p \in Partitions |-> IF p \in Gone(D) THEN "none" ELSE lease[p]]
  /\ UNCHANGED <<token, outbox>>

-----------------------------------------------------------------------------
(* Leases *)

MutCanAcquire(p, w) == pstatus[p] \in {"unassigned", "assigned", "running"}

CanAcquire(p, w) ==
  /\ pstatus[p] \in {"unassigned", "assigned", "running"}
  /\ lease[p] \in {"none", "lapsed"} \/ owner[p] = w

MutNextEpoch(p) == IF owner[p] = Nobody THEN token[p] + 1 ELSE token[p]

NextEpoch(p) == token[p] + 1

AcquireLease(p, w) ==
  /\ CanAcquire(p, w)
  /\ pstatus' = [pstatus EXCEPT ![p] = "assigned"]
  /\ owner' = [owner EXCEPT ![p] = w]
  /\ token' = [token EXCEPT ![p] = NextEpoch(p)]
  /\ lease' = [lease EXCEPT ![p] = "live"]
  /\ UNCHANGED outbox

\* A renewal only prolongs a lease that has not expired.
RenewLease(p, w, t) == MayEmit(p, w, t) /\ UNCHANGED leaseVars

Unassign(p) ==
  /\ pstatus' = [pstatus EXCEPT ![p] = "unassigned"]
  /\ owner' = [owner EXCEPT ![p] = Nobody]
  /\ lease' = [lease EXCEPT ![p] = "none"]
  /\ UNCHANGED <<token, outbox>>

ReleaseLease(p, w, t) == Holds(p, w, t) /\ Unassign(p)

\* The operator's release is fenced by the token alone.
ReleasePartition(p, t) == p \in Stored /\ token[p] = t /\ Unassign(p)

SetPartitionStatus(p, w, t, s) ==
  /\ Holds(p, w, t)
  /\ pstatus' = [pstatus EXCEPT ![p] = s]
  /\ UNCHANGED <<owner, token, lease, outbox>>

LeaseLapses(p) ==
  /\ lease[p] = "live"
  /\ lease' = [lease EXCEPT ![p] = "lapsed"]
  /\ UNCHANGED <<pstatus, owner, token, outbox>>

-----------------------------------------------------------------------------
(* Writes through the outbox *)

\* insert_outbox: a second write of a key keeps the first envelope and raises
\* the row's fencing token.
Record(p, k, t) ==
  /\ outbox' = [outbox EXCEPT ![p][k] = IF t > @ THEN t ELSE @]
  /\ UNCHANGED rowVars

Emit(p, w, t, k) == MayEmit(p, w, t) /\ Record(p, k, t)

\* A checkpoint is taken from an owner whose lease has expired, until
\* somebody else acquires it.
RecordCheckpoint(p, w, t, k) == Holds(p, w, t) /\ Record(p, k, t)

-----------------------------------------------------------------------------
LeaseNext ==
  \/ \E D \in SUBSET Partitions : SyncPartitions(D)
  \/ \E p \in Partitions, w \in Workers :
       token[p] < MaxToken /\ AcquireLease(p, w)
  \/ \E p \in Partitions, w \in Workers, t \in 1..MaxToken :
       \/ RenewLease(p, w, t) \/ ReleaseLease(p, w, t)
       \/ \E s \in PartitionStatus : SetPartitionStatus(p, w, t, s)
       \/ \E k \in Emissions : Emit(p, w, t, k)
       \/ \E k \in Checkpoints : RecordCheckpoint(p, w, t, k)
  \/ \E p \in Partitions, t \in 0..MaxToken : ReleasePartition(p, t)
  \/ \E p \in Partitions : LeaseLapses(p)

LeaseSpec == LeaseInit /\ [][LeaseNext]_leaseVars

-----------------------------------------------------------------------------
(* What the store promises to any mix of callers *)

\* An owner has a lease, live or lapsed, under a token that was handed out,
\* and nobody else has one: no statement leaves an owner without expiry, whose
\* partition could be seized at once, or an expiry without owner, which would
\* keep the partition from everybody until it passes.
OwnerHasLease ==
  \A p \in Partitions : /\ (owner[p] # Nobody) <=> (lease[p] # "none")
                        /\ owner[p] # Nobody => token[p] > 0

\* No outbox row was written under a token the partition has not reached yet.
WrittenInEpoch ==
  \A p \in Partitions : \A k \in Keys : outbox[p][k] <= token[p]

\* A partition never changes hands, and is never taken over from nobody,
\* under a token somebody had before: owner and token together name one
\* tenure, whatever was released, deactivated or rediscovered in between.
TenuresDistinct ==
  [][\A p \in Partitions : owner'[p] \notin {owner[p], Nobody}
                           => token'[p] > token[p]]_leaseVars

\* What an owner has written is never written over by an earlier one: a
\* message of the partition is only touched under a token at least as high as
\* any it has been written with (the fencing rule of state-schema.md 4 and 5.2).
FencedWrites ==
  [][\A p \in Partitions : \A k \in Keys : outbox'[p][k] # outbox[p][k]
       => \A j \in Keys : outbox'[p][k] >= outbox[p][j]]_leaseVars

LeaseInv == LeaseTypeOK /\ OwnerHasLease /\ WrittenInEpoch

\* The store implements FencedLog, where only a live lease makes a holder.
Log == INSTANCE FencedLog WITH
  Messages <- Emissions,
  Notes <- Checkpoints,
  epoch <- token,
  holder <- [p \in Partitions |->
               IF lease[p] = "live" THEN owner[p] ELSE Nobody],
  mark <- outbox

ImplementsFencedLog == Log!LogSpec
=============================================================================
