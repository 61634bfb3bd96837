------------------------- MODULE ContinuousKitProofs -------------------------
(***************************************************************************)
(* For any number of partitions, leases and events, and whatever a test    *)
(* does in which order: no acquire of the continuous kit is refused, every *)
(* handler left behind has been told to stop, and no event is recorded     *)
(* twice.                                                                  *)
(***************************************************************************)
EXTENDS ContinuousKit, TLAPS

\* What a partition has of leases, handles and tasks is its last one.
LastOnly ==
  \A p \in Partitions :
    /\ leased[p] \in {0, issued[p]}
    /\ handle[p] \in {0, issued[p]}
    /\ task[p] \in {0, issued[p]}
    /\ status[p] = "assigned" => handle[p] # 0 /\ task[p] = 0
    /\ status[p] = "running" => handle[p] # 0 /\ task[p] # 0

\* Nothing is known of handles that are not issued yet, nothing runs under one
\* that is only assigned, and a lease that is current has its scope.
HandlesOK ==
  \A h \in Handles :
    LET p == PartitionOf(h) IN
    /\ handler[h] # "none" \/ h \in told => Rank(h) <= issued[p]
    /\ status[p] = "assigned" /\ Rank(h) = issued[p] => handler[h] = "none"
    /\ Current(h) /\ ~draining => h \notin told

\* What the sink has let pass it will not let pass again.
SinkOK ==
  /\ \A x \in writing \cup records : <<PartitionOf(x[1]), x[2]>> \in seen
  /\ RecordedOnce

KitInv ==
  /\ KitTypeOK
  /\ LastOnly
  /\ LiveLeaseServed
  /\ HandlesOK
  /\ StopSignalsReach
  /\ SinkOK

-----------------------------------------------------------------------------
LEMMA Numbers ==
  /\ Last \in Nat /\ LeaseSeconds \in Nat /\ LeaseSeconds > 0 /\ MaxHandles \in Nat
  /\ \A p \in Partitions : p \in Nat
  BY KitAssumption DEF Partitions

LEMMA HandleShape ==
  ASSUME NEW h \in Handles
  PROVE  /\ PartitionOf(h) \in Partitions /\ Rank(h) \in Ranks /\ Rank(h) # 0
         /\ h = <<PartitionOf(h), Rank(h)>>
  BY Numbers DEF Handles, PartitionOf, Rank, Ranks

LEMMA HandleOf ==
  ASSUME NEW p \in Partitions, NEW n \in Ranks, n # 0
  PROVE  <<p, n>> \in Handles /\ PartitionOf(<<p, n>>) = p /\ Rank(<<p, n>>) = n
  BY Numbers DEF Handles, PartitionOf, Rank, Ranks

LEMMA InitOK == Init => KitInv
<1> SUFFICES ASSUME Init PROVE KitInv
  OBVIOUS
<1>1. KitTypeOK
  <2>1. 0 \in Ranks /\ 0 \in 0..LeaseSeconds
    BY Numbers DEF Ranks
  <2> QED
    BY <2>1 DEF Init, KitTypeOK
<1>2. LastOnly /\ LiveLeaseServed
  BY DEF Init, LastOnly, LiveLeaseServed, Refuses
<1>3. HandlesOK /\ StopSignalsReach
  BY HandleShape DEF Init, HandlesOK, StopSignalsReach
<1>4. SinkOK
  BY DEF Init, SinkOK, RecordedOnce
<1> QED
  BY <1>1, <1>2, <1>3, <1>4 DEF KitInv

-----------------------------------------------------------------------------
(* Reconcile *)

\* A partition that reconcile is to assign never refuses.
LEMMA TakesFree ==
  ASSUME LastOnly, LiveLeaseServed, NEW D, NEW p \in Partitions, Takes(D, p)
  PROVE  ~Refuses(p)
  BY DEF LiveLeaseServed, Takes, Refuses, Valid

\* What reconcile does to one partition: it is assigned, dropped, or keeps
\* all but a status that says it was unknown or unwanted.
Assigned(p) ==
  /\ ~draining /\ issued[p] < MaxHandles
  /\ status'[p] = "assigned"
  /\ issued'[p] = issued[p] + 1 /\ leased'[p] = issued[p] + 1
  /\ handle'[p] = issued[p] + 1
  /\ left'[p] = LeaseSeconds /\ task'[p] = 0

Dropped(p) ==
  /\ status[p] \in Active /\ status'[p] = "inactive"
  /\ issued'[p] = issued[p] /\ handle'[p] = 0 /\ task'[p] = 0
  /\ leased'[p] = IF leased[p] = handle[p] THEN 0 ELSE leased[p]
  /\ left'[p] \in {0, left[p]}

Kept(p) ==
  /\ \/ status'[p] = status[p]
     \/ status[p] \in {"absent", "inactive"} /\ status'[p] = "unassigned"
  /\ issued'[p] = issued[p] /\ leased'[p] = leased[p]
  /\ handle'[p] = handle[p] /\ task'[p] = task[p]
  /\ left'[p] \in {0, left[p]}

ScopeTold(p) == told' \cap {h \in Handles : PartitionOf(h) = p}
                = (told \cup Scopes({p})) \cap {h \in Handles : PartitionOf(h) = p}

ScopeSpared(p) == told' \cap {h \in Handles : PartitionOf(h) = p}
                  = told \cap {h \in Handles : PartitionOf(h) = p}

LEMMA ReconcileChanges ==
  ASSUME KitTypeOK, LastOnly, LiveLeaseServed,
         NEW D \in SUBSET Partitions, Reconcile(D), NEW p \in Partitions
  PROVE  \/ Assigned(p) /\ ScopeTold(p)
         \/ Dropped(p) /\ ScopeTold(p)
         \/ Kept(p) /\ ScopeSpared(p)
<1> DEFINE out == {q \in Partitions \ D : status[q] \in Active}
           Reached(q) == \A o \in 1..(q - 1) : Takes(D, o) => ~Refuses(o)
           in == {q \in D : Takes(D, q) /\ Reached(q) /\ ~Refuses(q)}
           ended == out \cup {q \in Reassigned(D) : Reached(q)}
<1>1. /\ \A q \in in : issued[q] < MaxHandles
      /\ told' = told \cup Scopes(ended)
      /\ status' = [q \in Partitions |->
           IF q \in in THEN "assigned"
           ELSE IF q \in out THEN "inactive"
           ELSE IF q \in D /\ Reached(q) /\ status[q] \in {"absent", "inactive"}
                THEN "unassigned" ELSE status[q]]
      /\ issued' = [q \in Partitions |-> IF q \in in THEN issued[q] + 1 ELSE issued[q]]
      /\ leased' = [q \in Partitions |-> IF q \in in THEN issued[q] + 1 ELSE Released(out)[q]]
      /\ left' = [q \in Partitions |-> IF q \in in THEN LeaseSeconds
                                       ELSE IF Released(out)[q] = 0 THEN 0 ELSE left[q]]
      /\ handle' = [q \in Partitions |-> IF q \in in THEN issued[q] + 1
                                         ELSE IF q \in out THEN 0 ELSE handle[q]]
      /\ task' = [q \in Partitions |-> IF q \in in \cup out THEN 0 ELSE task[q]]
  BY DEF Reconcile
<1>2. p \in ended <=> p \in in \/ p \in out
  BY TakesFree DEF Reassigned
<1>3. in \cap out = {}
  OBVIOUS
<1>4. Scopes(ended) \cap {h \in Handles : PartitionOf(h) = p}
      = IF p \in ended THEN Scopes({p}) \cap {h \in Handles : PartitionOf(h) = p} ELSE {}
  BY DEF Scopes
<1>5. Released(out)[p] = IF p \in out /\ leased[p] = handle[p] THEN 0 ELSE leased[p]
  BY DEF Released
<1>6. CASE p \in in
  <2>1. ~draining
    BY <1>6 DEF Takes
  <2>2. Assigned(p)
    <3> HIDE DEF in, out
    <3> QED
      BY <1>1, <1>6, <2>1 DEF Assigned
  <2>3. ScopeTold(p)
    <3> HIDE DEF ended, in, out
    <3> QED
      BY <1>1, <1>2, <1>4, <1>6 DEF ScopeTold
  <2> QED
    BY <2>2, <2>3
<1>7. CASE p \in out
  <2>1. status[p] \in Active
    BY <1>7
  <2>2. Dropped(p)
    <3> HIDE DEF in, out
    <3> QED
      BY <1>1, <1>3, <1>5, <1>7, <2>1 DEF Dropped
  <2>3. ScopeTold(p)
    <3> HIDE DEF ended, in, out
    <3> QED
      BY <1>1, <1>2, <1>4, <1>7 DEF ScopeTold
  <2> QED
    BY <2>2, <2>3
<1>8. CASE p \notin in /\ p \notin out
  <2> HIDE DEF ended, in, out, Reached
  <2>1. Kept(p)
    BY <1>1, <1>5, <1>8 DEF Kept
  <2>2. ScopeSpared(p)
    BY <1>1, <1>2, <1>4, <1>8 DEF ScopeSpared
  <2> QED
    BY <2>1, <2>2
<1> QED
  BY <1>6, <1>7, <1>8

LEMMA ReconcileType ==
  ASSUME KitTypeOK, LastOnly, LiveLeaseServed,
         NEW D \in SUBSET Partitions, Reconcile(D)
  PROVE  KitTypeOK'
<1>1. \A p \in Partitions :
        /\ status'[p] \in Active \cup {"absent", "unassigned", "failed", "inactive"}
        /\ issued'[p] \in Ranks /\ leased'[p] \in Ranks
        /\ left'[p] \in 0..LeaseSeconds
        /\ handle'[p] \in Ranks /\ task'[p] \in Ranks
  <2> SUFFICES ASSUME NEW p \in Partitions
               PROVE  /\ status'[p] \in Active \cup {"absent", "unassigned", "failed", "inactive"}
                      /\ issued'[p] \in Ranks /\ leased'[p] \in Ranks
                      /\ left'[p] \in 0..LeaseSeconds
                      /\ handle'[p] \in Ranks /\ task'[p] \in Ranks
    OBVIOUS
  <2>1. /\ status[p] \in Active \cup {"absent", "unassigned", "failed", "inactive"}
        /\ issued[p] \in Ranks /\ leased[p] \in Ranks
        /\ left[p] \in 0..LeaseSeconds
        /\ handle[p] \in Ranks /\ task[p] \in Ranks
    BY DEF KitTypeOK
  <2>2. CASE Assigned(p)
    BY <2>1, <2>2, Numbers DEF Assigned, Ranks, Active
  <2>3. CASE Dropped(p)
    BY <2>1, <2>3, Numbers DEF Dropped, Ranks, Active
  <2>4. CASE Kept(p)
    BY <2>1, <2>4, Numbers DEF Kept, Ranks
  <2> QED
    BY <2>2, <2>3, <2>4, ReconcileChanges
<1>2. /\ DOMAIN status' = Partitions /\ status' = [p \in Partitions |-> status'[p]]
      /\ issued' = [p \in Partitions |-> issued'[p]]
      /\ leased' = [p \in Partitions |-> leased'[p]]
      /\ left' = [p \in Partitions |-> left'[p]]
      /\ handle' = [p \in Partitions |-> handle'[p]]
      /\ task' = [p \in Partitions |-> task'[p]]
  BY DEF Reconcile
<1>3. told' \subseteq Handles
  BY DEF Reconcile, Scopes, KitTypeOK
<1>4. UNCHANGED <<draining, handler, seen, writing, records>>
  BY DEF Reconcile, sinkVars
<1> QED
  BY <1>1, <1>2, <1>3, <1>4 DEF KitTypeOK

LEMMA ReconcileKeeps ==
  ASSUME KitInv, NEW D \in SUBSET Partitions, Reconcile(D)
  PROVE  LastOnly' /\ LiveLeaseServed' /\ HandlesOK' /\ StopSignalsReach'
<1>1. \A p \in Partitions :
        /\ issued[p] \in Nat /\ leased[p] \in Nat /\ handle[p] \in Nat
        /\ task[p] \in Nat /\ left[p] \in Nat
  BY Numbers DEF KitInv, KitTypeOK, Ranks
<1>2. \A p \in Partitions :
        \/ (Assigned(p) \/ Dropped(p)) /\ ScopeTold(p)
        \/ Kept(p) /\ ScopeSpared(p)
  <2>1. KitTypeOK /\ LastOnly /\ LiveLeaseServed
    BY DEF KitInv
  <2> QED
    BY <2>1, ReconcileChanges
<1>3. draining' = draining /\ handler' = handler
  BY DEF Reconcile
<1>4. LastOnly'
  <2> SUFFICES ASSUME NEW p \in Partitions
               PROVE  (/\ leased[p] \in {0, issued[p]}
                       /\ handle[p] \in {0, issued[p]}
                       /\ task[p] \in {0, issued[p]}
                       /\ status[p] = "assigned" => handle[p] # 0 /\ task[p] = 0
                       /\ status[p] = "running" => handle[p] # 0 /\ task[p] # 0)'
    BY DEF LastOnly
  <2> QED
    BY <1>1, <1>2 DEF KitInv, LastOnly, Assigned, Dropped, Kept
<1>5. LiveLeaseServed'
  BY <1>1, <1>2 DEF KitInv, LastOnly, LiveLeaseServed, Refuses, Assigned, Dropped, Kept, Active
<1>6. HandlesOK' /\ StopSignalsReach'
  <2> SUFFICES ASSUME NEW h \in Handles, NEW p \in Partitions, p = PartitionOf(h)
               PROVE  (/\ handler[h] # "none" \/ h \in told => Rank(h) <= issued[p]
                       /\ status[p] = "assigned" /\ Rank(h) = issued[p] => handler[h] = "none"
                       /\ Current(h) /\ ~draining => h \notin told
                       /\ handler[h] = "live" =>
                            /\ ~(task[p] = Rank(h) /\ handle[p] = Rank(h)) => Told(h)
                            /\ Current(h) /\ ~draining => ~Told(h))'
    BY HandleShape DEF HandlesOK, StopSignalsReach
  <2>1. /\ Rank(h) \in Nat /\ Rank(h) # 0
        /\ h \in Scopes({p}) <=> Rank(h) = issued[p]
    BY HandleShape, Numbers DEF Scopes, Ranks
  <2>2. /\ handler[h] # "none" \/ h \in told => Rank(h) <= issued[p]
        /\ status[p] = "assigned" /\ Rank(h) = issued[p] => handler[h] = "none"
        /\ Current(h) /\ ~draining => h \notin told
        /\ handler[h] = "live" /\ ~(task[p] = Rank(h) /\ handle[p] = Rank(h)) => Told(h)
    BY DEF KitInv, HandlesOK, StopSignalsReach
  <2>3. task[p] \in {0, issued[p]} /\ leased[p] \in {0, issued[p]}
    BY DEF KitInv, LastOnly
  <2>4. CASE Assigned(p) /\ ScopeTold(p)
    <3>1. h \in told' <=> h \in told \/ Rank(h) = issued[p]
      BY <2>1, <2>4 DEF ScopeTold
    <3> QED
      BY <1>1, <1>3, <2>1, <2>2, <2>3, <2>4, <3>1 DEF Assigned, Current, Valid, Told
  <2>5. CASE Dropped(p) /\ ScopeTold(p)
    <3>1. h \in told' <=> h \in told \/ Rank(h) = issued[p]
      BY <2>1, <2>5 DEF ScopeTold
    <3>2. ~Current(h)' \/ draining \/ (h \notin told /\ Rank(h) # issued[p])
      BY <1>1, <2>1, <2>2, <2>5 DEF KitInv, LiveLeaseServed, Dropped, Current, Valid, Refuses
    <3> QED
      BY <1>1, <1>3, <2>1, <2>2, <2>3, <2>5, <3>1, <3>2 DEF Dropped, Told
  <2>6. CASE Kept(p) /\ ScopeSpared(p)
    <3>1. h \in told' <=> h \in told
      BY <2>6 DEF ScopeSpared
    <3> QED
      BY <1>1, <1>3, <2>1, <2>2, <2>3, <2>6, <3>1 DEF Kept, Current, Valid, Told
  <2> QED
    BY <1>2, <2>4, <2>5, <2>6
<1> QED
  BY <1>4, <1>5, <1>6

-----------------------------------------------------------------------------
(* A turn of run_for *)

\* What a turn does to one partition: it harvests a task that is done, starts
\* or keeps a handler whose lease is current, gives up one whose lease is
\* lost, or lets the partition be.
Starts(p) ==
  /\ status[p] = "assigned" /\ task'[p] = handle[p]
  /\ \A h \in Handles : PartitionOf(h) = p =>
       handler'[h] = IF Rank(h) = handle[p] THEN "live" ELSE handler[h]

Continues(p) ==
  /\ status[p] = "running" /\ task'[p] = task[p]
  /\ \A h \in Handles : PartitionOf(h) = p => handler'[h] = handler[h]

Quiet(p) == \A h \in Handles : PartitionOf(h) = p => handler'[h] = handler[h]

TurnHarvests(p) ==
  /\ Over(p) /\ Quiet(p)
  /\ status'[p] \in {"failed", "unassigned"} /\ handle'[p] = handle[p] /\ task'[p] = 0
  /\ leased'[p] = IF leased[p] = handle[p] THEN 0 ELSE leased[p]
  /\ left'[p] \in 0..left[p]

TurnHolds(p) ==
  /\ Starts(p) \/ Continues(p)
  /\ status'[p] = "running" /\ handle'[p] = handle[p] /\ leased'[p] = leased[p]
  /\ handle[p] # 0 /\ handle[p] = leased[p] /\ left[p] > 0
  /\ left'[p] \in 0..LeaseSeconds

TurnLoses(p) ==
  /\ Starts(p) \/ Continues(p)
  /\ status'[p] = "unassigned" /\ handle'[p] = 0 /\ leased'[p] = leased[p]
  /\ left'[p] \in 0..left[p]
  /\ handle[p] = 0 \/ leased[p] # handle[p] \/ left'[p] = 0

TurnSpares(p) ==
  /\ Quiet(p)
  /\ status'[p] = status[p] /\ handle'[p] = handle[p] /\ leased'[p] = leased[p]
  /\ task'[p] = task[p] /\ left'[p] \in 0..left[p]

LEMMA TickChanges ==
  ASSUME KitTypeOK, LastOnly, NEW seconds \in 1..LeaseSeconds, Tick(seconds),
         NEW p \in Partitions
  PROVE  \/ (TurnHarvests(p) \/ TurnHolds(p) \/ TurnSpares(p)) /\ ScopeSpared(p)
         \/ TurnLoses(p) /\ ScopeTold(p)
<1> DEFINE rest == [q \in Partitions |-> IF seconds < left[q] THEN left[q] - seconds ELSE 0]
           done == {q \in Partitions : Over(q)}
           turn == IF draining THEN {} ELSE Partitions \ done
           start == {q \in turn : status[q] = "assigned" /\ task[q] = 0}
           runs == start \cup {q \in turn : status[q] = "running"}
           held == {q \in runs : Valid(q, handle[q], rest[q])}
<1>1. /\ leased' = Released(Harvested)
      /\ left' = [q \in Partitions |->
           IF q \in held \ start /\ task[q] # 0 THEN LeaseSeconds
           ELSE IF Released(Harvested)[q] = 0 THEN 0 ELSE rest[q]]
      /\ task' = [q \in Partitions |-> IF q \in done THEN 0
                                       ELSE IF q \in start THEN handle[q] ELSE task[q]]
      /\ handler' = [h \in Handles |->
           IF PartitionOf(h) \in start /\ Rank(h) = handle[PartitionOf(h)] THEN "live"
           ELSE handler[h]]
      /\ status' = [q \in Partitions |->
           IF q \in done
           THEN IF handler[<<q, task[q]>>] = "raised" THEN "failed" ELSE "unassigned"
           ELSE IF q \in held THEN "running"
           ELSE IF q \in runs THEN "unassigned" ELSE status[q]]
      /\ handle' = [q \in Partitions |-> IF q \in runs \ held THEN 0 ELSE handle[q]]
      /\ told' = told \cup Scopes(runs \ held)
  BY DEF Tick
<1>2. /\ left[p] \in Nat /\ left[p] <= LeaseSeconds /\ leased[p] \in Nat
      /\ seconds \in Nat /\ seconds > 0 /\ LeaseSeconds \in Nat
  BY Numbers DEF KitTypeOK, Ranks
<1>3. rest[p] \in 0..left[p]
  BY <1>2
<1>4. Released(Harvested)[p] = IF p \in done /\ leased[p] = handle[p] THEN 0 ELSE leased[p]
  BY DEF Released, Harvested
<1>5. Scopes(runs \ held) \cap {h \in Handles : PartitionOf(h) = p}
      = IF p \in runs \ held THEN Scopes({p}) \cap {h \in Handles : PartitionOf(h) = p} ELSE {}
  BY DEF Scopes
<1>6. p \in held => handle[p] # 0 /\ handle[p] = leased[p] /\ rest[p] > 0
  BY DEF Valid
<1>7. p \in runs \ held => handle[p] = 0 \/ leased[p] # handle[p] \/ rest[p] = 0
  BY <1>2, <1>3 DEF Valid
<1>8. /\ p \in runs => p \notin done
      /\ p \in start => status[p] = "assigned" /\ task[p] = 0
      /\ p \in runs /\ p \notin start => status[p] = "running"
      /\ held \subseteq runs /\ start \subseteq runs
  OBVIOUS
<1>10. (p \in runs \ held => ScopeTold(p)) /\ (p \notin runs \ held => ScopeSpared(p))
  <2> HIDE DEF runs, held
  <2> QED
    BY <1>1, <1>5 DEF ScopeTold, ScopeSpared
<1>11. p \in done => Over(p)
  OBVIOUS
<1> HIDE DEF rest, done, turn, start, runs, held
<1>12. CASE p \in done
  <2>1. TurnHarvests(p)
    BY <1>1, <1>2, <1>3, <1>4, <1>8, <1>11, <1>12 DEF TurnHarvests, Quiet
  <2> QED
    BY <2>1, <1>8, <1>10, <1>12
<1>13. CASE p \in runs
  <2>1. Starts(p) \/ Continues(p)
    BY <1>1, <1>8, <1>13 DEF Starts, Continues
  <2>2. CASE p \in held
    <3>1. left'[p] \in 0..LeaseSeconds
      BY <1>1, <1>2, <1>3, <1>4, <2>2
    <3>2. TurnHolds(p)
      BY <1>1, <1>2, <1>3, <1>4, <1>6, <1>8, <1>13, <2>1, <2>2, <3>1 DEF TurnHolds
    <3> QED
      BY <3>2, <1>10, <2>2
  <2>3. CASE p \notin held
    <3>1. left'[p] = 0 \/ left'[p] = rest[p]
      BY <1>1, <2>3
    <3>2. left'[p] \in 0..left[p] /\ (rest[p] = 0 => left'[p] = 0)
      BY <1>2, <1>3, <3>1
    <3>3. TurnLoses(p)
      BY <1>1, <1>4, <1>7, <1>8, <1>13, <2>1, <2>3, <3>2 DEF TurnLoses
    <3> QED
      BY <3>3, <1>10, <1>13, <2>3
  <2> QED
    BY <2>2, <2>3
<1>14. CASE p \notin done /\ p \notin runs
  <2>1. left'[p] \in 0..left[p]
    BY <1>1, <1>2, <1>3, <1>8, <1>14
  <2>2. TurnSpares(p)
    BY <1>1, <1>4, <1>8, <1>14, <2>1 DEF TurnSpares, Quiet
  <2> QED
    BY <2>2, <1>10, <1>14
<1> QED
  BY <1>12, <1>13, <1>14

LEMMA TickType ==
  ASSUME KitTypeOK, LastOnly, NEW seconds \in 1..LeaseSeconds, Tick(seconds)
  PROVE  KitTypeOK'
<1>1. \A p \in Partitions :
        /\ status'[p] \in Active \cup {"absent", "unassigned", "failed", "inactive"}
        /\ leased'[p] \in Ranks /\ left'[p] \in 0..LeaseSeconds
        /\ handle'[p] \in Ranks /\ task'[p] \in Ranks
  <2> SUFFICES ASSUME NEW p \in Partitions
               PROVE  /\ status'[p] \in Active \cup {"absent", "unassigned", "failed", "inactive"}
                      /\ leased'[p] \in Ranks /\ left'[p] \in 0..LeaseSeconds
                      /\ handle'[p] \in Ranks /\ task'[p] \in Ranks
    OBVIOUS
  <2>1. /\ status[p] \in Active \cup {"absent", "unassigned", "failed", "inactive"}
        /\ leased[p] \in Ranks /\ handle[p] \in Ranks /\ task[p] \in Ranks
        /\ 0 \in Ranks /\ 0..left[p] \subseteq 0..LeaseSeconds
    BY Numbers DEF KitTypeOK, Ranks
  <2>2. CASE TurnHarvests(p)
    BY <2>1, <2>2 DEF TurnHarvests
  <2>3. CASE TurnHolds(p)
    BY <2>1, <2>3 DEF TurnHolds, Starts, Continues, Active
  <2>4. CASE TurnSpares(p)
    BY <2>1, <2>4 DEF TurnSpares
  <2>5. CASE TurnLoses(p)
    BY <2>1, <2>5 DEF TurnLoses, Starts, Continues
  <2> QED
    BY <2>2, <2>3, <2>4, <2>5, TickChanges
<1>2. /\ status' = [p \in Partitions |-> status'[p]]
      /\ leased' = [p \in Partitions |-> leased'[p]]
      /\ left' = [p \in Partitions |-> left'[p]]
      /\ handle' = [p \in Partitions |-> handle'[p]]
      /\ task' = [p \in Partitions |-> task'[p]]
  BY DEF Tick, Released
<1>3. told' \subseteq Handles /\ handler' \in [Handles -> {"none", "live", "over", "raised"}]
  BY DEF Tick, Scopes, KitTypeOK
<1>4. UNCHANGED <<draining, issued, seen, writing, records>>
  BY DEF Tick, sinkVars
<1> QED
  BY <1>1, <1>2, <1>3, <1>4 DEF KitTypeOK

LEMMA TickKeeps ==
  ASSUME KitInv, NEW seconds \in 1..LeaseSeconds, Tick(seconds)
  PROVE  LastOnly' /\ LiveLeaseServed' /\ HandlesOK' /\ StopSignalsReach'
<1>1. \A p \in Partitions :
        /\ issued[p] \in Nat /\ leased[p] \in Nat /\ handle[p] \in Nat
        /\ task[p] \in Nat /\ left[p] \in Nat
  BY Numbers DEF KitInv, KitTypeOK, Ranks
<1>2. \A p \in Partitions :
        \/ (TurnHarvests(p) \/ TurnHolds(p) \/ TurnSpares(p)) /\ ScopeSpared(p)
        \/ TurnLoses(p) /\ ScopeTold(p)
  <2>1. KitTypeOK /\ LastOnly
    BY DEF KitInv
  <2> QED
    BY <2>1, TickChanges
<1>3. draining' = draining /\ issued' = issued
  BY DEF Tick
<1>4. LastOnly'
  <2> SUFFICES ASSUME NEW p \in Partitions
               PROVE  (/\ leased[p] \in {0, issued[p]}
                       /\ handle[p] \in {0, issued[p]}
                       /\ task[p] \in {0, issued[p]}
                       /\ status[p] = "assigned" => handle[p] # 0 /\ task[p] = 0
                       /\ status[p] = "running" => handle[p] # 0 /\ task[p] # 0)'
    BY DEF LastOnly
  <2>1. /\ leased[p] \in {0, issued[p]}
        /\ handle[p] \in {0, issued[p]}
        /\ task[p] \in {0, issued[p]}
        /\ status[p] = "assigned" => handle[p] # 0 /\ task[p] = 0
        /\ status[p] = "running" => handle[p] # 0 /\ task[p] # 0
    BY DEF KitInv, LastOnly
  <2>2. CASE TurnHarvests(p)
    BY <1>3, <2>1, <2>2 DEF TurnHarvests
  <2>3. CASE TurnHolds(p)
    BY <1>3, <2>1, <2>3 DEF TurnHolds, Starts, Continues
  <2>4. CASE TurnSpares(p)
    BY <1>3, <2>1, <2>4 DEF TurnSpares
  <2>5. CASE TurnLoses(p)
    BY <1>3, <2>1, <2>5 DEF TurnLoses, Starts, Continues
  <2> QED
    BY <1>2, <2>2, <2>3, <2>4, <2>5
<1>5. LiveLeaseServed'
  <2> SUFFICES ASSUME NEW p \in Partitions, Refuses(p)'
               PROVE  (status[p] \in Active /\ handle[p] = leased[p])'
    BY DEF LiveLeaseServed
  <2>1. Refuses(p) => status[p] \in Active /\ handle[p] = leased[p]
    BY DEF KitInv, LiveLeaseServed
  <2>2. ~TurnHarvests(p)
    BY <1>1, <2>1 DEF TurnHarvests, Refuses
  <2>3. ~TurnLoses(p)
    BY <1>1, <2>1 DEF TurnLoses, Refuses
  <2>4. CASE TurnHolds(p)
    BY <2>4 DEF TurnHolds, Active
  <2>5. CASE TurnSpares(p)
    BY <1>1, <2>1, <2>5 DEF TurnSpares, Refuses
  <2> QED
    BY <1>2, <2>2, <2>3, <2>4, <2>5
<1>6. HandlesOK' /\ StopSignalsReach'
  <2> SUFFICES ASSUME NEW h \in Handles, NEW p \in Partitions, p = PartitionOf(h)
               PROVE  (/\ handler[h] # "none" \/ h \in told => Rank(h) <= issued[p]
                       /\ status[p] = "assigned" /\ Rank(h) = issued[p] => handler[h] = "none"
                       /\ Current(h) /\ ~draining => h \notin told
                       /\ handler[h] = "live" =>
                            /\ ~(task[p] = Rank(h) /\ handle[p] = Rank(h)) => Told(h)
                            /\ Current(h) /\ ~draining => ~Told(h))'
    BY HandleShape DEF HandlesOK, StopSignalsReach
  <2>1. /\ Rank(h) \in Nat /\ Rank(h) # 0 /\ h = <<p, Rank(h)>>
        /\ h \in Scopes({p}) <=> Rank(h) = issued[p]
    BY HandleShape, Numbers DEF Scopes, Ranks
  <2>2. /\ handler[h] # "none" \/ h \in told => Rank(h) <= issued[p]
        /\ status[p] = "assigned" /\ Rank(h) = issued[p] => handler[h] = "none"
        /\ Current(h) /\ ~draining => h \notin told
        /\ handler[h] = "live" /\ ~(task[p] = Rank(h) /\ handle[p] = Rank(h)) => Told(h)
    BY DEF KitInv, HandlesOK, StopSignalsReach
  <2>3. /\ task[p] \in {0, issued[p]} /\ leased[p] \in {0, issued[p]}
        /\ handle[p] \in {0, issued[p]}
        /\ status[p] = "assigned" => handle[p] # 0 /\ task[p] = 0
        /\ Refuses(p) => handle[p] = leased[p]
    BY DEF KitInv, LastOnly, LiveLeaseServed
  <2>4. CASE ScopeSpared(p)
    <3>1. h \in told' <=> h \in told
      BY <2>4 DEF ScopeSpared
    <3>2. CASE TurnHarvests(p)
      BY <1>1, <1>3, <2>1, <2>2, <2>3, <3>1, <3>2
         DEF TurnHarvests, Quiet, Over, Current, Valid, Told
    <3>3. CASE TurnHolds(p)
      BY <1>1, <1>3, <2>1, <2>2, <2>3, <3>1, <3>3
         DEF TurnHolds, Starts, Continues, Current, Valid, Told
    <3>4. CASE TurnSpares(p)
      BY <1>1, <1>3, <2>1, <2>2, <2>3, <3>1, <3>4
         DEF TurnSpares, Quiet, Current, Valid, Told
    <3>5. CASE TurnLoses(p) /\ ScopeTold(p)
      <4>1. Rank(h) = issued[p] => h \in told
        BY <2>1, <3>1, <3>5 DEF ScopeTold
      <4> QED
        BY <1>1, <1>3, <2>1, <2>2, <2>3, <3>1, <3>5, <4>1
           DEF TurnLoses, Starts, Continues, Current, Valid, Told, Refuses
    <3> QED
      BY <1>2, <3>2, <3>3, <3>4, <3>5
  <2>5. CASE TurnLoses(p) /\ ScopeTold(p)
    <3>1. h \in told' <=> h \in told \/ Rank(h) = issued[p]
      BY <2>1, <2>5 DEF ScopeTold
    <3>2. ~Current(h)'
      BY <1>1, <2>1, <2>3, <2>5 DEF TurnLoses, Current, Valid, Refuses
    <3> QED
      BY <1>1, <1>3, <2>1, <2>2, <2>3, <2>5, <3>1, <3>2
         DEF TurnLoses, Starts, Continues, Told
  <2> QED
    BY <1>2, <2>4, <2>5
<1> QED
  BY <1>4, <1>5, <1>6

-----------------------------------------------------------------------------
(* The other steps *)

\* The clock goes on, a lease is expired: nothing but seconds and told scopes.
LEMMA SecondsPass ==
  ASSUME KitInv,
         UNCHANGED <<draining, issued, leased, status, handle, task, handler, sinkVars>>,
         left' \in [Partitions -> 0..LeaseSeconds],
         told \subseteq told', told' \subseteq Handles,
         \A p \in Partitions : left'[p] <= left[p],
         \A h \in told' \ told : /\ Rank(h) <= issued[PartitionOf(h)]
                                 /\ ~Current(h)'
  PROVE  KitInv'
<1>1. \A p \in Partitions : left[p] \in Nat /\ left'[p] \in Nat
  BY Numbers DEF KitInv, KitTypeOK
<1>2. \A p \in Partitions : left'[p] > 0 => left[p] > 0
  BY <1>1
<1>3. KitTypeOK'
  BY DEF KitInv, KitTypeOK, sinkVars
<1>4. LastOnly'
  BY DEF KitInv, LastOnly
<1>5. LiveLeaseServed'
  BY <1>2 DEF KitInv, LiveLeaseServed, Refuses
<1>6. \A h \in Handles : Current(h)' => Current(h)
  BY <1>2, HandleShape DEF Current, Valid
<1>7. HandlesOK'
  BY <1>6 DEF KitInv, HandlesOK
<1>8. StopSignalsReach'
  BY <1>6 DEF KitInv, StopSignalsReach, Told
<1>9. SinkOK'
  BY DEF KitInv, SinkOK, RecordedOnce, sinkVars
<1> QED
  BY <1>3, <1>4, <1>5, <1>7, <1>8, <1>9 DEF KitInv

LEMMA AdvanceKeeps ==
  ASSUME KitInv, NEW seconds \in 1..LeaseSeconds, Advance(seconds) PROVE KitInv'
<1>1. \A p \in Partitions : left[p] \in 0..LeaseSeconds /\ left[p] \in Nat
  BY Numbers DEF KitInv, KitTypeOK
<1>2. seconds \in Nat /\ LeaseSeconds \in Nat /\ seconds > 0
  BY Numbers
<1>3. left' \in [Partitions -> 0..LeaseSeconds] /\ \A p \in Partitions : left'[p] <= left[p]
  BY <1>1, <1>2 DEF Advance
<1>4. told' = told /\ told' \subseteq Handles
  BY DEF Advance, taskVars, KitInv, KitTypeOK
<1>5. UNCHANGED <<draining, issued, leased, status, handle, task, handler, sinkVars>>
  BY DEF Advance, taskVars
<1> QED
  BY <1>3, <1>4, <1>5, SecondsPass

LEMMA ExpireLeaseKeeps ==
  ASSUME KitInv, NEW p \in Partitions, ExpireLease(p) PROVE KitInv'
<1>1. \A q \in Partitions : left[q] \in 0..LeaseSeconds /\ left[q] \in Nat
  BY Numbers DEF KitInv, KitTypeOK
<1>2. left' = [left EXCEPT ![p] = 0] /\ left \in [Partitions -> 0..LeaseSeconds]
  BY DEF ExpireLease, KitInv, KitTypeOK
<1>3. left' \in [Partitions -> 0..LeaseSeconds] /\ \A q \in Partitions : left'[q] <= left[q]
  BY <1>1, <1>2, Numbers
<1>4. told' = told \cup Scopes({p}) /\ told' \subseteq Handles
  BY DEF ExpireLease, Scopes, KitInv, KitTypeOK
<1>5. UNCHANGED <<draining, issued, leased, status, handle, task, handler, sinkVars>>
  BY DEF ExpireLease
<1>6. \A h \in told' \ told : Rank(h) <= issued[PartitionOf(h)] /\ ~Current(h)'
  <2> SUFFICES ASSUME NEW h \in told' \ told
               PROVE  Rank(h) <= issued[PartitionOf(h)] /\ ~Current(h)'
    OBVIOUS
  <2>1. PartitionOf(h) = p /\ Rank(h) = issued[p] /\ left'[p] = 0
    BY <1>2, <1>4 DEF Scopes
  <2>2. issued[p] \in Nat
    BY Numbers DEF KitInv, KitTypeOK, Ranks
  <2> QED
    BY <2>1, <2>2 DEF Current, Valid
<1> QED
  BY <1>3, <1>4, <1>5, <1>6, SecondsPass

LEMMA DrainKeeps == ASSUME KitInv, Drain PROVE KitInv'
<1> DEFINE S == {p \in Partitions : status[p] \in Active}
<1>1. /\ draining' = TRUE /\ told' = told \cup Scopes(S)
      /\ UNCHANGED <<leaseVars, status, handle, task, handler, sinkVars>>
  BY DEF Drain
<1>2. \A h \in Scopes(S) : Rank(h) <= issued[PartitionOf(h)] /\ h \in Handles
  BY HandleShape, Numbers DEF Scopes, KitInv, KitTypeOK, Ranks
<1> HIDE DEF S
<1>3. KitTypeOK'
  BY <1>1, <1>2 DEF KitInv, KitTypeOK, leaseVars, sinkVars
<1>4. LastOnly' /\ LiveLeaseServed'
  BY <1>1 DEF KitInv, LastOnly, LiveLeaseServed, Refuses, leaseVars
<1>5. HandlesOK'
  BY <1>1, <1>2 DEF KitInv, HandlesOK, leaseVars
<1>6. StopSignalsReach'
  BY <1>1 DEF StopSignalsReach, Told
<1>7. SinkOK'
  BY <1>1 DEF KitInv, SinkOK, RecordedOnce, sinkVars
<1> QED
  BY <1>3, <1>4, <1>5, <1>6, <1>7 DEF KitInv

LEMMA HandlerEndsKeeps ==
  ASSUME KitInv, NEW h \in Handles, NEW how \in {"over", "raised"}, HandlerEnds(h, how)
  PROVE  KitInv'
<1>1. /\ handler[h] = "live" /\ handler' = [handler EXCEPT ![h] = how]
      /\ UNCHANGED <<draining, leaseVars, taskVars, sinkVars>>
      /\ handler \in [Handles -> {"none", "live", "over", "raised"}]
  BY DEF HandlerEnds, KitInv, KitTypeOK
<1>2. KitTypeOK'
  BY <1>1 DEF KitInv, KitTypeOK, leaseVars, taskVars, sinkVars
<1>3. LastOnly' /\ LiveLeaseServed'
  BY <1>1 DEF KitInv, LastOnly, LiveLeaseServed, Refuses, leaseVars, taskVars
<1>4. \A a \in Handles : /\ handler'[a] = "live" => handler[a] = "live"
                          /\ handler'[a] = "none" <=> handler[a] = "none"
  BY <1>1
<1>5. \A a \in Handles : Current(a)' <=> Current(a)
  BY <1>1 DEF Current, Valid, leaseVars
<1>6. HandlesOK'
  BY <1>1, <1>4, <1>5 DEF KitInv, HandlesOK, leaseVars, taskVars
<1>7. StopSignalsReach'
  BY <1>1, <1>4, <1>5 DEF KitInv, StopSignalsReach, Told, taskVars
<1>8. SinkOK'
  BY <1>1 DEF KitInv, SinkOK, RecordedOnce, sinkVars
<1> QED
  BY <1>2, <1>3, <1>6, <1>7, <1>8 DEF KitInv

\* The sink looks at leases and changes nothing else.
LEMMA SinkOnly ==
  ASSUME KitInv, UNCHANGED <<draining, leaseVars, taskVars, handler>>,
         seen' \in SUBSET (Partitions \X Events),
         writing' \in SUBSET (Handles \X Events), records' \in SUBSET (Handles \X Events),
         SinkOK'
  PROVE  KitInv'
<1>1. KitTypeOK'
  BY DEF KitInv, KitTypeOK, leaseVars, taskVars
<1>2. LastOnly' /\ LiveLeaseServed'
  BY DEF KitInv, LastOnly, LiveLeaseServed, Refuses, leaseVars, taskVars
<1>3. \A a \in Handles : Current(a)' <=> Current(a)
  BY DEF Current, Valid, leaseVars
<1>4. HandlesOK' /\ StopSignalsReach'
  BY <1>3 DEF KitInv, HandlesOK, StopSignalsReach, Told, leaseVars, taskVars
<1> QED
  BY <1>1, <1>2, <1>4 DEF KitInv

LEMMA EmitKeeps ==
  ASSUME KitInv, NEW h \in Handles, NEW e \in Events, Emit(h, e) PROVE KitInv'
<1>1. /\ <<PartitionOf(h), e>> \notin seen
      /\ seen' = seen \cup {<<PartitionOf(h), e>>}
      /\ writing' = writing \cup {<<h, e>>} /\ records' = records
      /\ UNCHANGED <<draining, leaseVars, taskVars, handler>>
  BY DEF Emit, Marked
<1>2. /\ seen' \in SUBSET (Partitions \X Events)
      /\ writing' \in SUBSET (Handles \X Events) /\ records' \in SUBSET (Handles \X Events)
  BY <1>1, HandleShape DEF KitInv, KitTypeOK
<1>3. /\ \A x \in writing \cup records : <<PartitionOf(x[1]), x[2]>> \in seen
      /\ RecordedOnce
  BY DEF KitInv, SinkOK
<1>4. \A x \in writing \cup records :
        x # <<h, e>> /\ ~(PartitionOf(x[1]) = PartitionOf(h) /\ x[2] = e)
  BY <1>1, <1>3
<1>5. SinkOK'
  <2>1. \A x \in writing' \cup records' : <<PartitionOf(x[1]), x[2]>> \in seen'
    BY <1>1, <1>3
  <2>2. RecordedOnce'
    BY <1>1, <1>3, <1>4 DEF RecordedOnce
  <2> QED
    BY <2>1, <2>2 DEF SinkOK
<1> QED
  BY <1>1, <1>2, <1>5, SinkOnly

LEMMA EmitEndsKeeps ==
  ASSUME KitInv, NEW h \in Handles, NEW e \in Events, EmitEnds(h, e) PROVE KitInv'
<1>1. /\ <<h, e>> \in writing /\ seen' = seen /\ writing' = writing \ {<<h, e>>}
      /\ records' \in {records, records \cup {<<h, e>>}}
      /\ UNCHANGED <<draining, leaseVars, taskVars, handler>>
  BY DEF EmitEnds
<1>2. /\ seen' \in SUBSET (Partitions \X Events)
      /\ writing' \in SUBSET (Handles \X Events) /\ records' \in SUBSET (Handles \X Events)
  BY <1>1 DEF KitInv, KitTypeOK
<1>3. /\ writing' \cup records' \subseteq writing \cup records
      /\ writing' \cap records' \subseteq writing \cap records
  BY <1>1
<1>4. SinkOK'
  BY <1>1, <1>3 DEF KitInv, SinkOK, RecordedOnce
<1> QED
  BY <1>1, <1>2, <1>4, SinkOnly

LEMMA NextKeeps == KitInv /\ [Next]_vars => KitInv'
<1> SUFFICES ASSUME KitInv, [Next]_vars PROVE KitInv'
  OBVIOUS
<1>1. ASSUME NEW D \in SUBSET Partitions, Reconcile(D) PROVE KitInv'
  <2>1. KitTypeOK'
    BY <1>1, ReconcileType DEF KitInv
  <2>2. LastOnly' /\ LiveLeaseServed' /\ HandlesOK' /\ StopSignalsReach'
    BY <1>1, ReconcileKeeps
  <2>3. SinkOK'
    BY <1>1 DEF Reconcile, KitInv, SinkOK, RecordedOnce, sinkVars
  <2> QED
    BY <2>1, <2>2, <2>3 DEF KitInv
<1>2. ASSUME NEW s \in 1..LeaseSeconds, Tick(s) PROVE KitInv'
  <2>1. KitTypeOK'
    BY <1>2, TickType DEF KitInv
  <2>2. LastOnly' /\ LiveLeaseServed' /\ HandlesOK' /\ StopSignalsReach'
    BY <1>2, TickKeeps
  <2>3. SinkOK'
    BY <1>2 DEF Tick, KitInv, SinkOK, RecordedOnce, sinkVars
  <2> QED
    BY <2>1, <2>2, <2>3 DEF KitInv
<1>3. CASE UNCHANGED vars
  <2>1. /\ UNCHANGED <<draining, leaseVars, taskVars, handler>>
        /\ UNCHANGED <<seen, writing, records>>
    BY <1>3 DEF vars, sinkVars
  <2>2. SinkOK'
    BY <2>1 DEF KitInv, SinkOK, RecordedOnce
  <2>3. /\ seen' \in SUBSET (Partitions \X Events)
        /\ writing' \in SUBSET (Handles \X Events) /\ records' \in SUBSET (Handles \X Events)
    BY <2>1 DEF KitInv, KitTypeOK
  <2> QED
    BY <2>1, <2>2, <2>3, SinkOnly
<1> QED
  BY <1>1, <1>2, <1>3, AdvanceKeeps, ExpireLeaseKeeps, DrainKeeps, HandlerEndsKeeps,
     EmitKeeps, EmitEndsKeeps DEF Next

-----------------------------------------------------------------------------
\* The inductive invariant: what a partition has of leases, handles and tasks
\* is its last, no handler runs under a lease that is only assigned, and the
\* sink has marked what it lets pass.
THEOREM KitInvHolds == Spec => []KitInv
  BY InitOK, NextKeeps, PTL DEF Spec

\* Every variable of the kit keeps its type.
THEOREM KitTypeCorrect == Spec => []KitTypeOK
<1>1. KitInv => KitTypeOK
  BY DEF KitInv
<1> QED
  BY <1>1, KitInvHolds, PTL

\* A live lease belongs to the partition that is assigned or running under it:
\* FakeLeaseManager.acquire never raises out of the middle of reconcile.
THEOREM NoAcquireRefused == Spec => []LiveLeaseServed
<1>1. KitInv => LiveLeaseServed
  BY DEF KitInv
<1> QED
  BY <1>1, KitInvHolds, PTL

\* Handlers whose partition has lost its lease or gone elsewhere have been
\* told to stop, and none is told to that holds a current lease.
THEOREM StrandedHandlersTold == Spec => []StopSignalsReach
<1>1. KitInv => StopSignalsReach
  BY DEF KitInv
<1> QED
  BY <1>1, KitInvHolds, PTL

\* No RecordingSink records a stable id of a partition twice.
THEOREM EventsRecordedOnce == Spec => []RecordedOnce
<1>1. KitInv => RecordedOnce
  BY DEF KitInv, SinkOK
<1> QED
  BY <1>1, KitInvHolds, PTL
=============================================================================
