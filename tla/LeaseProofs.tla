----------------------------- MODULE LeaseProofs -----------------------------
(***************************************************************************)
(* Whatever its callers do, the lease table keeps its rows consistent,     *)
(* gives every tenure a token of its own, refuses every write of an        *)
(* earlier tenure, and implements FencedLog.                               *)
(***************************************************************************)
EXTENDS PartitionLease, TLAPS

-----------------------------------------------------------------------------
(* Types *)

LEMMA InitLeaseTypeOK == LeaseInit => LeaseTypeOK
  BY DEF LeaseInit, LeaseTypeOK

\* What each statement does to the types.
LEMMA SyncType ==
  ASSUME LeaseTypeOK, NEW D, SyncPartitions(D) PROVE LeaseTypeOK'
  BY DEF LeaseTypeOK, SyncPartitions, PartitionStatus

LEMMA AcquireType ==
  ASSUME LeaseTypeOK, NEW p \in Partitions, NEW w \in Workers, AcquireLease(p, w)
  PROVE  LeaseTypeOK'
  BY DEF LeaseTypeOK, AcquireLease, NextEpoch, PartitionStatus

LEMMA UnassignType ==
  ASSUME LeaseTypeOK, NEW p \in Partitions, Unassign(p) PROVE LeaseTypeOK'
  BY DEF LeaseTypeOK, Unassign, PartitionStatus

LEMMA SetStatusType ==
  ASSUME LeaseTypeOK, NEW p \in Partitions, NEW w, NEW t,
         NEW s \in PartitionStatus, SetPartitionStatus(p, w, t, s)
  PROVE  LeaseTypeOK'
  BY DEF LeaseTypeOK, SetPartitionStatus

LEMMA LapseType ==
  ASSUME LeaseTypeOK, NEW p \in Partitions, LeaseLapses(p) PROVE LeaseTypeOK'
  BY DEF LeaseTypeOK, LeaseLapses

LEMMA RecordType ==
  ASSUME LeaseTypeOK, NEW p \in Partitions, NEW k \in Keys, NEW t \in Nat,
         Record(p, k, t)
  PROVE  LeaseTypeOK'
  BY DEF LeaseTypeOK, Record, rowVars

LEMMA NextLeaseTypeOK == LeaseTypeOK /\ [LeaseNext]_leaseVars => LeaseTypeOK'
<1> SUFFICES ASSUME LeaseTypeOK, [LeaseNext]_leaseVars PROVE LeaseTypeOK'
  OBVIOUS
<1>1. ASSUME NEW D \in SUBSET Partitions, SyncPartitions(D) PROVE LeaseTypeOK'
  BY <1>1, SyncType
<1>2. ASSUME NEW p \in Partitions, NEW w \in Workers, AcquireLease(p, w)
      PROVE  LeaseTypeOK'
  BY <1>2, AcquireType
<1>3. ASSUME NEW p \in Partitions, NEW w \in Workers, NEW t \in 1..MaxToken,
             \/ ReleaseLease(p, w, t)
             \/ \E s \in PartitionStatus : SetPartitionStatus(p, w, t, s)
             \/ \E k \in Emissions : Emit(p, w, t, k)
             \/ \E k \in Checkpoints : RecordCheckpoint(p, w, t, k)
      PROVE  LeaseTypeOK'
  <2>1. t \in Nat
    BY LeaseAssumption
  <2>2. CASE ReleaseLease(p, w, t)
    BY <2>2, UnassignType DEF ReleaseLease
  <2>3. CASE \E s \in PartitionStatus : SetPartitionStatus(p, w, t, s)
    BY <2>3, SetStatusType
  <2>4. CASE \E k \in Emissions : Emit(p, w, t, k)
    BY <2>1, <2>4, RecordType DEF Emit, Keys
  <2>5. CASE \E k \in Checkpoints : RecordCheckpoint(p, w, t, k)
    BY <2>1, <2>5, RecordType DEF RecordCheckpoint, Keys
  <2> QED
    BY <1>3, <2>2, <2>3, <2>4, <2>5
<1>4. ASSUME NEW p \in Partitions, NEW t, ReleasePartition(p, t)
      PROVE  LeaseTypeOK'
  BY <1>4, UnassignType DEF ReleasePartition
<1>5. ASSUME NEW p \in Partitions, LeaseLapses(p) PROVE LeaseTypeOK'
  BY <1>5, LapseType
<1>6. ASSUME UNCHANGED leaseVars PROVE LeaseTypeOK'
  BY <1>6 DEF LeaseTypeOK, leaseVars, rowVars
<1> QED
  BY <1>1, <1>2, <1>3, <1>4, <1>5, <1>6 DEF LeaseNext, RenewLease

-----------------------------------------------------------------------------
(* Rows and messages *)

\* No step lowers a token.
LEMMA TokensGrow ==
  ASSUME LeaseTypeOK, [LeaseNext]_leaseVars
  PROVE  \A p \in Partitions : token'[p] >= token[p]
<1>1. ASSUME NEW q \in Partitions, NEW w \in Workers, AcquireLease(q, w)
      PROVE  \A p \in Partitions : token'[p] >= token[p]
  BY <1>1 DEF AcquireLease, NextEpoch, LeaseTypeOK
<1>2. CASE UNCHANGED token
  BY <1>2 DEF LeaseTypeOK
<1> QED
  BY <1>1, <1>2
  DEF LeaseNext, SyncPartitions, RenewLease, ReleaseLease, ReleasePartition,
      Unassign, SetPartitionStatus, LeaseLapses, Emit, RecordCheckpoint, Record,
      leaseVars, rowVars

LEMMA NextOwnerHasLease ==
  LeaseTypeOK /\ OwnerHasLease /\ [LeaseNext]_leaseVars => OwnerHasLease'
<1> SUFFICES ASSUME LeaseTypeOK, OwnerHasLease, [LeaseNext]_leaseVars
             PROVE  OwnerHasLease'
  OBVIOUS
<1>1. ASSUME NEW D \in SUBSET Partitions, SyncPartitions(D)
      PROVE  OwnerHasLease'
  BY <1>1 DEF SyncPartitions, OwnerHasLease, LeaseTypeOK
<1>2. ASSUME NEW p \in Partitions, NEW w \in Workers, AcquireLease(p, w)
      PROVE  OwnerHasLease'
  BY <1>2, LeaseAssumption
  DEF AcquireLease, NextEpoch, OwnerHasLease, LeaseTypeOK
<1>3. ASSUME NEW p \in Partitions, Unassign(p) PROVE OwnerHasLease'
  BY <1>3 DEF Unassign, OwnerHasLease, LeaseTypeOK
<1>4. ASSUME NEW p \in Partitions, LeaseLapses(p) PROVE OwnerHasLease'
  BY <1>4 DEF LeaseLapses, OwnerHasLease, LeaseTypeOK
<1>5. CASE UNCHANGED <<owner, lease, token>>
  BY <1>5 DEF OwnerHasLease
<1> QED
  BY <1>1, <1>2, <1>3, <1>4, <1>5
  DEF LeaseNext, RenewLease, ReleaseLease, ReleasePartition,
      SetPartitionStatus, Emit, RecordCheckpoint, Record, leaseVars, rowVars

\* A write passes only with the token of the row.
LEMMA WriteUsesToken ==
  ASSUME LeaseTypeOK, [LeaseNext]_leaseVars, outbox' # outbox
  PROVE  /\ UNCHANGED rowVars
         /\ \E p \in Partitions, k \in Keys : Record(p, k, token[p])
<1>1. ASSUME NEW p \in Partitions, NEW w \in Workers, NEW t \in 1..MaxToken,
             \/ \E k \in Emissions : Emit(p, w, t, k)
             \/ \E k \in Checkpoints : RecordCheckpoint(p, w, t, k)
      PROVE  /\ UNCHANGED rowVars
             /\ \E k \in Keys : Record(p, k, token[p])
  BY <1>1 DEF Emit, RecordCheckpoint, MayEmit, Holds, Record, Keys
<1> QED
  BY <1>1
  DEF LeaseNext, SyncPartitions, AcquireLease, RenewLease, ReleaseLease,
      ReleasePartition, Unassign, SetPartitionStatus, LeaseLapses, leaseVars,
      rowVars

LEMMA NextWrittenInEpoch ==
  LeaseTypeOK /\ WrittenInEpoch /\ [LeaseNext]_leaseVars => WrittenInEpoch'
<1> SUFFICES ASSUME LeaseTypeOK, WrittenInEpoch, [LeaseNext]_leaseVars
             PROVE  WrittenInEpoch'
  OBVIOUS
<1>1. \A p \in Partitions : /\ token[p] \in Nat /\ token'[p] \in Nat
                            /\ token'[p] >= token[p]
  BY TokensGrow, NextLeaseTypeOK DEF LeaseTypeOK
<1>2. CASE outbox' = outbox
  <2>1. \A p \in Partitions : \A k \in Keys : outbox[p][k] \in Nat
    BY DEF LeaseTypeOK
  <2> QED
    BY <1>1, <1>2, <2>1 DEF WrittenInEpoch
<1>3. CASE outbox' # outbox
  <2>1. PICK p \in Partitions, k \in Keys : Record(p, k, token[p])
    BY <1>3, WriteUsesToken
  <2>2. token' = token
    BY <1>3, WriteUsesToken DEF rowVars
  <2> QED
    BY <2>1, <2>2 DEF Record, WrittenInEpoch, LeaseTypeOK
<1> QED
  BY <1>2, <1>3

\* Rows and messages stay consistent under every mix of callers.
THEOREM LeaseInvHolds == LeaseSpec => []LeaseInv
<1>1. LeaseInit => LeaseInv
  BY InitLeaseTypeOK, LeaseAssumption
  DEF LeaseInit, LeaseInv, OwnerHasLease, WrittenInEpoch
<1>2. LeaseInv /\ [LeaseNext]_leaseVars => LeaseInv'
  BY NextLeaseTypeOK, NextOwnerHasLease, NextWrittenInEpoch DEF LeaseInv
<1> QED
  BY <1>1, <1>2, PTL DEF LeaseSpec

\* An owner always has a lease under a token handed out, and nobody else.
THEOREM OwnersHaveLeases == LeaseSpec => []OwnerHasLease
<1>1. LeaseInv => OwnerHasLease
  BY DEF LeaseInv
<1> QED
  BY <1>1, LeaseInvHolds, PTL

\* The outbox is never ahead of the fencing token.
THEOREM WritesStayInEpoch == LeaseSpec => []WrittenInEpoch
<1>1. LeaseInv => WrittenInEpoch
  BY DEF LeaseInv
<1> QED
  BY <1>1, LeaseInvHolds, PTL

\* Owner and token together name one tenure of a partition.
THEOREM TenuresAreDistinct == LeaseSpec => TenuresDistinct
<1> DEFINE Fresh == \A p \in Partitions : owner'[p] \notin {owner[p], Nobody}
                                          => token'[p] > token[p]
<1>1. LeaseTypeOK /\ [LeaseNext]_leaseVars => [Fresh]_leaseVars
  <2> SUFFICES ASSUME LeaseTypeOK, LeaseNext PROVE Fresh
    OBVIOUS
  <2>1. ASSUME NEW p \in Partitions, NEW w \in Workers, AcquireLease(p, w)
        PROVE  Fresh
    BY <2>1 DEF AcquireLease, NextEpoch, LeaseTypeOK
  <2>2. ASSUME NEW D \in SUBSET Partitions, SyncPartitions(D) PROVE Fresh
    BY <2>2 DEF SyncPartitions, LeaseTypeOK
  <2>3. ASSUME NEW p \in Partitions, Unassign(p) PROVE Fresh
    BY <2>3 DEF Unassign, LeaseTypeOK
  <2>4. CASE owner' = owner
    BY <2>4
  <2> QED
    BY <2>1, <2>2, <2>3, <2>4
    DEF LeaseNext, RenewLease, ReleaseLease, ReleasePartition,
        SetPartitionStatus, LeaseLapses, Emit, RecordCheckpoint, Record,
        leaseVars, rowVars
<1>2. LeaseInv => LeaseTypeOK
  BY DEF LeaseInv
<1> QED
  BY <1>1, <1>2, LeaseInvHolds, PTL DEF LeaseSpec, TenuresDistinct

\* An earlier tenure never writes over, or after, a later one.
THEOREM WritesAreFenced == LeaseSpec => FencedWrites
<1> DEFINE Fenced ==
      \A p \in Partitions : \A k \in Keys : outbox'[p][k] # outbox[p][k]
        => \A j \in Keys : outbox'[p][k] >= outbox[p][j]
<1>1. LeaseInv /\ [LeaseNext]_leaseVars => [Fenced]_leaseVars
  <2> SUFFICES ASSUME LeaseInv, [LeaseNext]_leaseVars PROVE Fenced
    OBVIOUS
  <2>1. CASE outbox' = outbox
    BY <2>1
  <2>2. CASE outbox' # outbox
    <3>1. PICK p \in Partitions, k \in Keys : Record(p, k, token[p])
      BY <2>2, WriteUsesToken DEF LeaseInv
    <3> QED
      BY <3>1 DEF Record, LeaseInv, WrittenInEpoch, LeaseTypeOK
  <2> QED
    BY <2>1, <2>2
<1> QED
  BY <1>1, LeaseInvHolds, PTL DEF LeaseSpec, FencedWrites

-----------------------------------------------------------------------------
(* Refinement of FencedLog *)

\* The mapping of the holder, named for the proof.
LiveOwner(p) == IF lease[p] = "live" THEN owner[p] ELSE Nobody

LogStep == [Log!LogNext]_(Log!logVars)

\* Rows lose their live owner, nothing is granted and nothing is written.
LEMMA LosingOwners ==
  ASSUME NEW S \in SUBSET Partitions, UNCHANGED <<token, outbox>>,
         \A p \in Partitions : LiveOwner(p)' = IF p \in S THEN Nobody
                                               ELSE LiveOwner(p)
  PROVE  LogStep
<1>1. Log!Lose(S)
  BY DEF Log!Lose, LiveOwner
<1> QED
  BY <1>1 DEF LogStep, Log!LogNext

LEMMA AcquireIsGrant ==
  ASSUME LeaseTypeOK, NEW p \in Partitions, NEW w \in Workers, AcquireLease(p, w)
  PROVE  LogStep
<1>1. LiveOwner(p) \in {Nobody, w}
  BY DEF AcquireLease, CanAcquire, LiveOwner
<1>2. /\ LiveOwner(p)' = w
      /\ \A q \in Partitions : q # p => LiveOwner(q)' = LiveOwner(q)
  BY DEF AcquireLease, LiveOwner, LeaseTypeOK
<1>3. [q \in Partitions |-> LiveOwner(q)'] =
        [[q \in Partitions |-> LiveOwner(q)] EXCEPT ![p] = w]
  BY <1>2
<1>4. Log!Grant(p, w)
  BY <1>1, <1>3 DEF Log!Grant, LiveOwner, AcquireLease, NextEpoch
<1> QED
  BY <1>4 DEF LogStep, Log!LogNext

\* A write that passes the fence puts the current token on its message.
LEMMA RecordMarks ==
  ASSUME LeaseTypeOK, WrittenInEpoch, NEW p \in Partitions, NEW k \in Keys,
         Record(p, k, token[p])
  PROVE  outbox' = [outbox EXCEPT ![p][k] = token[p]]
<1>1. outbox[p][k] \in Nat /\ token[p] \in Nat /\ outbox[p][k] <= token[p]
  BY DEF LeaseTypeOK, WrittenInEpoch
<1>2. (IF token[p] > outbox[p][k] THEN token[p] ELSE outbox[p][k]) = token[p]
  BY <1>1
<1> QED
  BY <1>2 DEF Record

LEMMA EmitIsWrite ==
  ASSUME LeaseInv, NEW p \in Partitions, NEW w \in Workers, NEW t,
         NEW k \in Emissions, Emit(p, w, t, k)
  PROVE  LogStep
<1>1. /\ LiveOwner(p) # Nobody
      /\ Record(p, k, token[p]) /\ UNCHANGED rowVars
  BY LeaseAssumption DEF Emit, MayEmit, Holds, LiveOwner, Record
<1>2. outbox' = [outbox EXCEPT ![p][k] = token[p]]
  BY <1>1, RecordMarks DEF LeaseInv, Keys
<1>3. Log!Write(p, k)
  BY <1>1, <1>2 DEF Log!Write, LiveOwner, rowVars
<1> QED
  BY <1>3 DEF LogStep, Log!LogNext

LEMMA CheckpointIsNote ==
  ASSUME LeaseInv, NEW p \in Partitions, NEW w \in Workers, NEW t,
         NEW k \in Checkpoints, RecordCheckpoint(p, w, t, k)
  PROVE  LogStep
<1>1. /\ token[p] > 0
      /\ Record(p, k, token[p]) /\ UNCHANGED rowVars
  BY LeaseAssumption
  DEF RecordCheckpoint, Holds, Record, LeaseInv, OwnerHasLease
<1>2. outbox' = [outbox EXCEPT ![p][k] = token[p]]
  BY <1>1, RecordMarks DEF LeaseInv, Keys
<1>3. Log!Note(p, k)
  BY <1>1, <1>2 DEF Log!Note, rowVars
<1> QED
  BY <1>3 DEF LogStep, Log!LogNext

LEMMA NextLog == LeaseInv /\ [LeaseNext]_leaseVars => LogStep
<1> SUFFICES ASSUME LeaseInv, [LeaseNext]_leaseVars PROVE LogStep
  OBVIOUS
<1> USE DEF LeaseInv
<1>1. ASSUME NEW D \in SUBSET Partitions, SyncPartitions(D) PROVE LogStep
  <2>1. \A p \in Partitions : LiveOwner(p)' = IF p \in Gone(D) THEN Nobody
                                              ELSE LiveOwner(p)
    BY <1>1 DEF SyncPartitions, LiveOwner, LeaseTypeOK
  <2>2. Gone(D) \in SUBSET Partitions
    BY DEF Gone
  <2> QED
    BY <1>1, <2>1, <2>2, LosingOwners DEF SyncPartitions
<1>2. ASSUME NEW p \in Partitions, Unassign(p) \/ LeaseLapses(p) PROVE LogStep
  <2>1. \A q \in Partitions : LiveOwner(q)' = IF q \in {p} THEN Nobody
                                              ELSE LiveOwner(q)
    BY <1>2 DEF Unassign, LeaseLapses, LiveOwner, LeaseTypeOK
  <2> QED
    BY <1>2, <2>1, LosingOwners DEF Unassign, LeaseLapses
<1>3. ASSUME UNCHANGED <<owner, token, lease, outbox>> PROVE LogStep
  BY <1>3 DEF LogStep, Log!logVars
<1> QED
  BY <1>1, <1>2, <1>3, AcquireIsGrant, EmitIsWrite, CheckpointIsNote
  DEF LeaseNext, RenewLease, ReleaseLease, ReleasePartition,
      SetPartitionStatus, leaseVars, rowVars

\* Only the holder of the latest epoch of a partition adds or confirms
\* messages, and no epoch starts while the one before is still held.
THEOREM FencedLogImplemented == LeaseSpec => ImplementsFencedLog
<1>1. LeaseInit => Log!LogInit
  BY DEF LeaseInit, Log!LogInit, Keys
<1> QED
  BY <1>1, LeaseInvHolds, NextLog, PTL
  DEF LeaseSpec, ImplementsFencedLog, Log!LogSpec, LogStep
=============================================================================
