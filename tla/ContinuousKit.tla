---------------------------- MODULE ContinuousKit ----------------------------
(***************************************************************************)
(* The local test kit of continuous workloads (testing/continuous.py): one *)
(* deployment, its partitions, the fake lease manager, the handlers it     *)
(* starts and the recording sinks they emit to.  A sink has a `seen' of    *)
(* its own; all append to one list.                                        *)
(*                                                                         *)
(* Everything between two awaits is one step: a test reconciles, ticks,    *)
(* expires leases and drains while handlers wait, emit and end.  A handle  *)
(* is named after its partition and its rank there; the kit counts tokens  *)
(* over all partitions, and compares them for equality only.               *)
(***************************************************************************)
EXTENDS Naturals

CONSTANTS
  Last,           \* partitions are numbered in the order of their ids
  LeaseSeconds,   \* ContinuousPolicy.lease_seconds
  Events,         \* stable ids of events, each at the sink it is emitted to
  MaxHandles      \* bound: leases granted for a partition

ASSUME KitAssumption ==
  Last \in Nat /\ LeaseSeconds \in Nat \ {0} /\ MaxHandles \in Nat

Partitions == 1..Last
Ranks == 0..MaxHandles   \* 0 is no lease, no handle, no task

\* A LeaseHandle, the scope made with it, and the task started under it.
Handles == Partitions \X (1..MaxHandles)
PartitionOf(h) == h[1]
Rank(h) == h[2]

VARIABLES
  draining,   \* the deployment is DRAINING, and its scope cancelled
  status,     \* of each partition, "absent" before it is discovered
  issued,     \* leases granted so far: the last one's scope is the partition's
  leased,     \* the lease the manager has
  left,       \* its seconds to go
  handle,     \* the partition's lease
  task,       \* the partition's task
  told,       \* scopes that are cancelled
  handler,    \* what has become of the task of each handle
  seen,       \* stable ids their sink lets pass no more
  writing,    \* emissions that wait for the delegate
  records     \* emissions recorded

leaseVars == <<issued, leased, left>>
taskVars == <<status, handle, task, told>>
sinkVars == <<seen, writing, records>>
vars == <<draining, leaseVars, taskVars, handler, sinkVars>>

Active == {"assigned", "running"}

KitTypeOK ==
  /\ draining \in BOOLEAN
  /\ status \in [Partitions -> Active \cup {"absent", "unassigned", "failed", "inactive"}]
  /\ issued \in [Partitions -> Ranks]
  /\ leased \in [Partitions -> Ranks]
  /\ left \in [Partitions -> 0..LeaseSeconds]
  /\ handle \in [Partitions -> Ranks]
  /\ task \in [Partitions -> Ranks]
  /\ told \in SUBSET Handles
  /\ handler \in [Handles -> {"none", "live", "over", "raised"}]
  /\ seen \in SUBSET (Partitions \X Events)
  /\ writing \in SUBSET (Handles \X Events)
  /\ records \in SUBSET (Handles \X Events)

Init ==
  /\ draining = FALSE
  /\ status = [p \in Partitions |-> "absent"]
  /\ issued = [p \in Partitions |-> 0]
  /\ leased = [p \in Partitions |-> 0]
  /\ left = [p \in Partitions |-> 0]
  /\ handle = [p \in Partitions |-> 0]
  /\ task = [p \in Partitions |-> 0]
  /\ told = {}
  /\ handler = [h \in Handles |-> "none"]
  /\ seen = {}
  /\ writing = {}
  /\ records = {}

-----------------------------------------------------------------------------
(* Leases *)

\* is_current: of partition p, when the lease in the manager has s seconds.
Valid(p, n, s) == n # 0 /\ leased[p] = n /\ s > 0

Current(h) == Valid(PartitionOf(h), Rank(h), left[PartitionOf(h)])

\* acquire would raise.
Refuses(p) == leased[p] # 0 /\ left[p] > 0

\* What the manager has once the partitions of S have released their leases.
Released(S) == [p \in Partitions |-> IF p \in S /\ leased[p] = handle[p] THEN 0 ELSE leased[p]]

\* The scopes the partitions of S have.
Scopes(S) == {h \in Handles : PartitionOf(h) \in S /\ Rank(h) = issued[PartitionOf(h)]}

-----------------------------------------------------------------------------
(* The deployment *)

\* Partitions that reconcile would assign, in the order it comes to them.
Takes(D, p) ==
  /\ p \in D /\ ~draining
  /\ ~(status[p] \in Active /\ Valid(p, handle[p], left[p]))

MutReassigned(D) == {}

\* Partitions whose scope is cancelled to give them another.
Reassigned(D) == {p \in D : Takes(D, p)}

\* D is what has just been discovered.  An acquire that is refused ends the
\* call and leaves the partitions behind alone.
Reconcile(D) ==
  LET out == {p \in Partitions \ D : status[p] \in Active}
      Reached(p) == \A q \in 1..(p - 1) : Takes(D, q) => ~Refuses(q)
      in == {p \in D : Takes(D, p) /\ Reached(p) /\ ~Refuses(p)}
  IN
  /\ \A p \in in : issued[p] < MaxHandles
  /\ told' = told \cup Scopes(out \cup {p \in Reassigned(D) : Reached(p)})
  /\ status' = [p \in Partitions |->
       IF p \in in THEN "assigned"
       ELSE IF p \in out THEN "inactive"
       ELSE IF p \in D /\ Reached(p) /\ status[p] \in {"absent", "inactive"} THEN "unassigned"
       ELSE status[p]]
  /\ issued' = [p \in Partitions |-> IF p \in in THEN issued[p] + 1 ELSE issued[p]]
  /\ leased' = [p \in Partitions |-> IF p \in in THEN issued[p] + 1 ELSE Released(out)[p]]
  /\ left' = [p \in Partitions |-> IF p \in in THEN LeaseSeconds
                                   ELSE IF Released(out)[p] = 0 THEN 0 ELSE left[p]]
  /\ handle' = [p \in Partitions |-> IF p \in in THEN issued[p] + 1
                                     ELSE IF p \in out THEN 0 ELSE handle[p]]
  /\ task' = [p \in Partitions |-> IF p \in in \cup out THEN 0 ELSE task[p]]
  /\ UNCHANGED <<draining, handler, sinkVars>>

Over(p) == task[p] # 0 /\ handler[<<p, task[p]>>] # "live"

MutHarvested == {}

\* Partitions that give their lease up because their task is done.
Harvested == {p \in Partitions : Over(p)}

\* One turn of run_for: the clock goes on, tasks that are done are harvested,
\* and of an active deployment leases are renewed, handlers started, and those
\* told to stop whose lease is lost.
Tick(seconds) ==
  LET rest == [p \in Partitions |-> IF seconds < left[p] THEN left[p] - seconds ELSE 0]
      done == {p \in Partitions : Over(p)}
      turn == IF draining THEN {} ELSE Partitions \ done
      start == {p \in turn : status[p] = "assigned" /\ task[p] = 0}
      runs == start \cup {p \in turn : status[p] = "running"}
      held == {p \in runs : Valid(p, handle[p], rest[p])}
  IN
  /\ leased' = Released(Harvested)
  /\ left' = [p \in Partitions |->
       IF p \in held \ start /\ task[p] # 0 THEN LeaseSeconds
       ELSE IF Released(Harvested)[p] = 0 THEN 0 ELSE rest[p]]
  /\ task' = [p \in Partitions |-> IF p \in done THEN 0
                                   ELSE IF p \in start THEN handle[p] ELSE task[p]]
  /\ handler' = [h \in Handles |->
       IF PartitionOf(h) \in start /\ Rank(h) = handle[PartitionOf(h)] THEN "live"
       ELSE handler[h]]
  /\ status' = [p \in Partitions |->
       IF p \in done
       THEN IF handler[<<p, task[p]>>] = "raised" THEN "failed" ELSE "unassigned"
       ELSE IF p \in held THEN "running"
       ELSE IF p \in runs THEN "unassigned" ELSE status[p]]
  /\ handle' = [p \in Partitions |-> IF p \in runs \ held THEN 0 ELSE handle[p]]
  /\ told' = told \cup Scopes(runs \ held)
  /\ UNCHANGED <<draining, issued, sinkVars>>

\* clock.advance without a turn of the kit.
Advance(seconds) ==
  /\ left' = [p \in Partitions |-> IF seconds < left[p] THEN left[p] - seconds ELSE 0]
  /\ UNCHANGED <<draining, issued, leased, taskVars, handler, sinkVars>>

ExpireLease(p) ==
  /\ status[p] # "absent"
  /\ left' = [left EXCEPT ![p] = 0]
  /\ told' = told \cup Scopes({p})
  /\ UNCHANGED <<draining, issued, leased, status, handle, task, handler, sinkVars>>

\* Every scope is a child of the deployment's.
Drain ==
  /\ draining' = TRUE
  /\ told' = told \cup Scopes({p \in Partitions : status[p] \in Active})
  /\ UNCHANGED <<leaseVars, status, handle, task, handler, sinkVars>>

Told(h) == h \in told \/ draining

-----------------------------------------------------------------------------
(* Handlers and the sink *)

HandlerEnds(h, how) ==
  /\ handler[h] = "live" /\ how \in {"over", "raised"}
  /\ handler' = [handler EXCEPT ![h] = how]
  /\ UNCHANGED <<draining, leaseVars, taskVars, sinkVars>>

MutMarked(p, e) == seen

\* Marked before the delegate is called.
Marked(p, e) == seen \cup {<<p, e>>}

Emit(h, e) ==
  /\ handler[h] # "none" /\ Current(h)
  /\ <<PartitionOf(h), e>> \notin seen
  /\ seen' = Marked(PartitionOf(h), e)
  /\ writing' = writing \cup {<<h, e>>}
  /\ UNCHANGED <<draining, leaseVars, taskVars, handler, records>>

\* The delegate returns, or raises and its event is gone.  The lease is not
\* looked at again.
EmitEnds(h, e) ==
  /\ <<h, e>> \in writing
  /\ writing' = writing \ {<<h, e>>}
  /\ records' \in {records, records \cup {<<h, e>>}}
  /\ UNCHANGED <<draining, leaseVars, taskVars, handler, seen>>

Next ==
  \/ \E D \in SUBSET Partitions : Reconcile(D)
  \/ \E s \in 1..LeaseSeconds : Tick(s) \/ Advance(s)
  \/ \E p \in Partitions : ExpireLease(p)
  \/ Drain
  \/ \E h \in Handles, how \in {"over", "raised"} : HandlerEnds(h, how)
  \/ \E h \in Handles, e \in Events : Emit(h, e) \/ EmitEnds(h, e)

Spec == Init /\ [][Next]_vars

-----------------------------------------------------------------------------
\* A lease that is alive belongs to a partition that is assigned or running
\* under it.  Otherwise reconcile's acquire would raise halfway, with a scope
\* cancelled and the partitions behind left alone.
LiveLeaseServed ==
  \A p \in Partitions :
    Refuses(p) => status[p] \in Active /\ handle[p] = leased[p]

\* A handler that still runs although its partition has lost its lease, gone
\* to another or is no longer wanted has been told to stop; one whose lease is
\* current has not, unless the deployment is draining.
StopSignalsReach ==
  \A h \in Handles :
    LET p == PartitionOf(h) IN
    handler[h] = "live" =>
      /\ ~(task[p] = Rank(h) /\ handle[p] = Rank(h)) => Told(h)
      /\ Current(h) /\ ~draining => ~Told(h)

\* A sink records a stable id once at most, whichever handles of its partition
\* emit it there, how often, and while an emission of it waits for the
\* delegate.  (Two sinks record the same stable id once each.)
RecordedOnce ==
  /\ writing \cap records = {}
  /\ \A a, b \in writing \cup records :
       PartitionOf(a[1]) = PartitionOf(b[1]) /\ a[2] = b[2] => a = b
=============================================================================
