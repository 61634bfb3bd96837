-------------------------- MODULE ContinuousRuntime --------------------------
(***************************************************************************)
(* One continuous deployment with everybody who works on its lease table   *)
(* (PartitionLease): the worker processes, each with a heartbeat and a     *)
(* supervisor (worker/continuous.py, deploy/service.py) whose tasks run    *)
(* the partitions, the reconcilers (control/reconciler.py) and the         *)
(* operators (control/admin.py).                                           *)
(*                                                                         *)
(* Every SQL statement is one action.  Between two of them a supervisor, a *)
(* reconciler or an operator goes on with what it read before.             *)
(***************************************************************************)
EXTENDS PartitionLease, FiniteSets, FiniteSetsExt

CONSTANTS
  Servers,         \* workers whose registry holds the deployment's workload
  Reconcilers,     \* reconcile passes that may overlap: control loop, job
  Admins,          \* operators at work
  Weight,          \* partition weights
  MaxSurprises,    \* bound: deadlines a live process misses
  MaxAborts,       \* bound: crashes and store errors
  MaxOrders,       \* bound: orders of the operators
  MaxDiscoveries,  \* bound: changes of what discovery finds
  MaxEvents,       \* bound: all of these together
  MaxUnnoticed     \* bound: leases of crashed processes that run out before
                   \* the heartbeat is stale, lease_seconds against
                   \* stale_worker_seconds

ASSUME RuntimeAssumption ==
  /\ Servers \subseteq Workers
  /\ Weight \in [Partitions -> Nat \ {0}]
  /\ MaxSurprises \in Nat /\ MaxAborts \in Nat
  /\ MaxOrders \in Nat /\ MaxDiscoveries \in Nat /\ MaxEvents \in Nat
  /\ MaxUnnoticed \in Nat

VARIABLES
  deployment,   \* continuous_deployments.status, "absent" before deploy
  discovered,   \* the partitions discover_partitions finds now
  up,           \* worker processes running
  wstatus,      \* worker_instances.status, "absent" before register
  fresh,        \* last_heartbeat_at is recent enough
  tasks,        \* run_partition tasks of each process
  sup,          \* where each supervisor loop is
  mine,         \* tokens of the partitions its tick found to be its own
  todo,         \* partitions it has still to start or to renew
  rec,          \* where each reconcile pass is
  desired,      \* partitions the pass was asked for
  seenActive,   \* the deployment was active when the pass looked
  snap,         \* the rows as sync_partitions returned them
  pending,      \* partitions it has still to assign
  live,         \* workers it found active
  given,        \* partitions it has assigned to each of them
  adm,          \* where each operator is
  goal,         \* the order the operator carries out
  toRelease,    \* tokens of the owned partitions a drain has still to release
  budget        \* what is left of the bounds

rtVars == <<deployment, discovered>>
workerVars == <<up, wstatus, fresh>>
supVars == <<tasks, sup, mine, todo>>
recVars == <<rec, desired, seenActive, snap, pending, live, given>>
admVars == <<adm, goal, toRelease>>
vars == <<leaseVars, rtVars, workerVars, supVars, recVars, admVars, budget>>

-----------------------------------------------------------------------------
\* A task is running, told to stop by its cancellation token ("told"),
\* cancelled and forgotten by the supervisor ("dropped"), or over and not yet
\* noticed ("done").
Task == [part : Partitions, token : Nat,
         state : {"running", "told", "dropped", "done"}]

Tracked(w) == {t \in tasks[w] : t.state # "dropped"}
TrackedParts(w) == {t.part : t \in Tracked(w)}

NoSnap == [p \in Partitions |->
             [status |-> "absent", owner |-> Nobody, lease |-> "none"]]
NoTokens == [p \in Partitions |-> 0]
NoGifts == [w \in Workers |-> {}]

Row == [status : PartitionStatus \cup {"absent"},
        owner : Workers \cup {Nobody},
        lease : {"none", "live", "lapsed"}]

Spend(kind) ==
  /\ budget[kind] > 0 /\ budget["event"] > 0
  /\ budget' = [budget EXCEPT ![kind] = @ - 1, !["event"] = @ - 1]

RuntimeTypeOK ==
  /\ LeaseTypeOK
  /\ deployment \in {"absent", "pending", "active", "draining", "stopped"}
  /\ discovered \in SUBSET Partitions
  /\ up \in [Workers -> BOOLEAN]
  /\ wstatus \in [Workers -> {"absent", "active", "dead"}]
  /\ fresh \in [Workers -> BOOLEAN]
  /\ tasks \in [Workers -> SUBSET Task]
  /\ sup \in [Workers -> {"idle", "tick", "start", "renew", "stopping"}]
  /\ mine \in [Workers -> [Partitions -> Nat]]
  /\ todo \in [Workers -> SUBSET Partitions]
  /\ rec \in [Reconcilers ->
                {"idle", "get", "mark", "sync", "workers", "assign"}]
  /\ desired \in [Reconcilers -> SUBSET Partitions]
  /\ seenActive \in [Reconcilers -> BOOLEAN]
  /\ snap \in [Reconcilers -> [Partitions -> Row]]
  /\ pending \in [Reconcilers -> SUBSET Partitions]
  /\ live \in [Reconcilers -> SUBSET Workers]
  /\ given \in [Reconcilers -> [Workers -> SUBSET Partitions]]
  /\ adm \in [Admins -> {"idle", "activate", "read", "release"}]
  /\ goal \in [Admins -> {"drain", "stop"}]
  /\ toRelease \in [Admins -> [Partitions -> Nat]]
  /\ budget \in [{"surprise", "abort", "order", "discovery", "event",
                  "unnoticed"} -> Nat]

Init ==
  /\ LeaseInit
  /\ deployment = "absent"
  /\ discovered = Partitions
  /\ up = [w \in Workers |-> FALSE]
  /\ wstatus = [w \in Workers |-> "absent"]
  /\ fresh = [w \in Workers |-> FALSE]
  /\ tasks = [w \in Workers |-> {}]
  /\ sup = [w \in Workers |-> "idle"]
  /\ mine = [w \in Workers |-> NoTokens]
  /\ todo = [w \in Workers |-> {}]
  /\ rec = [k \in Reconcilers |-> "idle"]
  /\ desired = [k \in Reconcilers |-> {}]
  /\ seenActive = [k \in Reconcilers |-> FALSE]
  /\ snap = [k \in Reconcilers |-> NoSnap]
  /\ pending = [k \in Reconcilers |-> {}]
  /\ live = [k \in Reconcilers |-> {}]
  /\ given = [k \in Reconcilers |-> NoGifts]
  /\ adm = [a \in Admins |-> "idle"]
  /\ goal = [a \in Admins |-> "drain"]
  /\ toRelease = [a \in Admins |-> NoTokens]
  /\ budget = [surprise |-> MaxSurprises, abort |-> MaxAborts,
               order |-> MaxOrders, discovery |-> MaxDiscoveries,
               event |-> MaxEvents, unnoticed |-> MaxUnnoticed]

-----------------------------------------------------------------------------
(* Worker processes and the passing of time *)

\* A process registers when it starts; its name survives it.
WorkerStarts(w) ==
  /\ ~up[w]
  /\ up' = [up EXCEPT ![w] = TRUE]
  /\ wstatus' = [wstatus EXCEPT ![w] = "active"]
  /\ fresh' = [fresh EXCEPT ![w] = TRUE]
  /\ UNCHANGED <<leaseVars, rtVars, supVars, recVars, admVars, budget>>

\* What the supervisor loop of a process forgets.
LoopIdle(w) ==
  /\ sup' = [sup EXCEPT ![w] = "idle"]
  /\ mine' = [mine EXCEPT ![w] = NoTokens]
  /\ todo' = [todo EXCEPT ![w] = {}]

WorkerCrashes(w) ==
  /\ up[w]
  /\ Spend("abort")
  /\ up' = [up EXCEPT ![w] = FALSE]
  /\ tasks' = [tasks EXCEPT ![w] = {}]
  /\ LoopIdle(w)
  /\ UNCHANGED <<leaseVars, rtVars, wstatus, fresh, recVars, admVars>>

\* A heartbeat revives a worker taken for dead.
Heartbeat(w) ==
  /\ up[w]
  /\ wstatus' = [wstatus EXCEPT ![w] = "active"]
  /\ fresh' = [fresh EXCEPT ![w] = TRUE]
  /\ UNCHANGED <<leaseVars, rtVars, up, supVars, recVars, admVars, budget>>

\* Heartbeats stop with the process, or are late once.
GoesStale(w) ==
  /\ fresh[w]
  /\ fresh' = [fresh EXCEPT ![w] = FALSE]
  /\ IF up[w] THEN Spend("surprise") ELSE UNCHANGED budget
  /\ UNCHANGED <<leaseVars, rtVars, up, wstatus, supVars, recVars, admVars>>

\* A process that ticks over the deployment renews in time, unless it is late.
Punctual(w) ==
  /\ w \in Servers
  /\ deployment \in {"active", "draining"}
  /\ up[w]

\* It has crashed, and a pass still takes it for alive.
Unnoticed(w) == ~up[w] /\ fresh[w]

LeaseRunsOut(p) ==
  /\ LeaseLapses(p)
  /\ \/ Punctual(owner[p]) /\ Spend("surprise")
     \/ /\ Unnoticed(owner[p]) /\ budget["unnoticed"] > 0
        /\ budget' = [budget EXCEPT !["unnoticed"] = @ - 1]
     \/ ~Punctual(owner[p]) /\ ~Unnoticed(owner[p]) /\ UNCHANGED budget
  /\ UNCHANGED <<rtVars, workerVars, supVars, recVars, admVars>>

DiscoveryChanges(D) ==
  /\ D # discovered
  /\ Spend("discovery")
  /\ discovered' = D
  /\ UNCHANGED <<leaseVars, deployment, workerVars, supVars, recVars, admVars>>

-----------------------------------------------------------------------------
(* The supervisor of a worker process *)

Told(t) == [t EXCEPT !.state = IF @ = "running" THEN "told" ELSE @]

MutListDeployments(w) ==
  /\ up[w] /\ w \in Servers /\ sup[w] = "idle"
  /\ \E p \in Partitions : owner[p] = w
  /\ deployment \in {"active", "draining"}
  /\ sup' = [sup EXCEPT ![w] = "tick"]
  /\ UNCHANGED <<leaseVars, rtVars, workerVars, tasks, mine, todo, recVars,
                 admVars, budget>>

MutTickAll(w) ==
  /\ up[w] /\ w \in Servers /\ sup[w] = "idle"
  /\ sup' = [sup EXCEPT ![w] = "tick"]
  /\ UNCHANGED <<leaseVars, rtVars, workerVars, tasks, mine, todo, recVars,
                 admVars, budget>>

\* supervise: a deployment neither active nor draining has its supervisor
\* stopped, if it has one; the others are ticked.
ListDeployments(w) ==
  /\ up[w] /\ w \in Servers /\ sup[w] = "idle"
  /\ \/ /\ deployment \in {"active", "draining"}
        /\ sup' = [sup EXCEPT ![w] = "tick"]
        /\ UNCHANGED tasks
     \/ /\ deployment \notin {"active", "draining"}
        /\ Tracked(w) # {}
        /\ sup' = [sup EXCEPT ![w] = "stopping"]
        /\ tasks' = [tasks EXCEPT ![w] = {Told(t) : t \in @}]
  /\ UNCHANGED <<leaseVars, rtVars, workerVars, mine, todo, recVars, admVars,
                 budget>>

\* stop_all returns when every task it waits for, cancelled by force after
\* the grace period, is over.
StopDone(w) ==
  /\ sup[w] = "stopping"
  /\ \A t \in Tracked(w) : t.state = "done"
  /\ tasks' = [tasks EXCEPT ![w] = @ \ Tracked(w)]
  /\ sup' = [sup EXCEPT ![w] = "idle"]
  /\ UNCHANGED <<leaseVars, rtVars, workerVars, mine, todo, recVars, admVars,
                 budget>>

MutKept(w, t) == t.state # "done" /\ MayEmit(t.part, w, t.token)

\* The task goes on: its partition is still the worker's, under its token.
Kept(w, t) == t.state # "done" /\ Holds(t.part, w, t.token)

MutReaped(w, t) == IF Kept(w, t) THEN t ELSE Told(t)

\* What becomes of a task when the tick has read the rows: an unfinished one
\* that lost its partition is cancelled and forgotten, not awaited.
Reaped(w, t) == IF Kept(w, t) THEN t ELSE [t EXCEPT !.state = "dropped"]

TickRead(w) ==
  /\ sup[w] = "tick"
  /\ LET own == {p \in Partitions : owner[p] = w /\ token[p] > 0} IN
     /\ tasks' = [tasks EXCEPT ![w] =
          {t \in @ : t.state = "dropped"} \cup
          {Reaped(w, t) : t \in {x \in Tracked(w) : x.state # "done"}}]
     /\ mine' = [mine EXCEPT ![w] =
          [p \in Partitions |-> IF p \in own THEN token[p] ELSE 0]]
     /\ todo' = [todo EXCEPT ![w] =
          own \ {t.part : t \in {x \in Tracked(w) : Kept(w, x)}}]
  /\ sup' = [sup EXCEPT ![w] = "start"]
  /\ UNCHANGED <<leaseVars, rtVars, workerVars, recVars, admVars, budget>>

NewTask(w, p) == [part |-> p, token |-> mine[w][p], state |-> "running"]

MutMarkRunning(p, w, t) ==
  /\ pstatus' = [pstatus EXCEPT ![p] = "running"]
  /\ UNCHANGED <<owner, token, lease, outbox>>

\* A row that has moved on since the tick read it keeps its status, and the
\* refusal goes unnoticed.
MarkRunning(p, w, t) ==
  IF Holds(p, w, t) THEN SetPartitionStatus(p, w, t, "running")
                    ELSE UNCHANGED leaseVars

\* The task exists before the row says "running".
StartPartition(w, p) ==
  /\ sup[w] = "start"
  /\ p \in todo[w]
  /\ tasks' = [tasks EXCEPT ![w] = @ \cup {NewTask(w, p)}]
  /\ todo' = [todo EXCEPT ![w] = @ \ {p}]
  /\ MarkRunning(p, w, mine[w][p])
  /\ UNCHANGED <<rtVars, workerVars, sup, mine, recVars, admVars, budget>>

\* The status update raises: the tick ends, its new task stays.
StartFails(w, p) ==
  /\ sup[w] = "start"
  /\ p \in todo[w]
  /\ Spend("abort")
  /\ tasks' = [tasks EXCEPT ![w] = @ \cup {NewTask(w, p)}]
  /\ LoopIdle(w)
  /\ UNCHANGED <<leaseVars, rtVars, workerVars, recVars, admVars>>

BeginRenewals(w) ==
  /\ sup[w] = "start"
  /\ todo[w] = {}
  /\ sup' = [sup EXCEPT ![w] = "renew"]
  /\ todo' = [todo EXCEPT ![w] = TrackedParts(w)]
  /\ UNCHANGED <<leaseVars, rtVars, workerVars, tasks, mine, recVars, admVars,
                 budget>>

\* A refused renewal tells the task to stop and keeps it until the next tick.
Renew(w, p) ==
  /\ sup[w] = "renew"
  /\ p \in todo[w]
  /\ todo' = [todo EXCEPT ![w] = @ \ {p}]
  /\ tasks' = [tasks EXCEPT ![w] =
       {IF /\ t.part = p /\ t.state # "dropped"
           /\ ~MayEmit(p, w, t.token) THEN Told(t) ELSE t : t \in @}]
  /\ UNCHANGED <<leaseVars, rtVars, workerVars, sup, mine, recVars, admVars,
                 budget>>

EndTick(w) ==
  /\ sup[w] = "renew"
  /\ todo[w] = {}
  /\ LoopIdle(w)
  /\ UNCHANGED <<leaseVars, rtVars, workerVars, tasks, recVars, admVars, budget>>

\* A store error ends the tick; the loop logs it and goes on.
TickAborts(w) ==
  /\ sup[w] \in {"tick", "start", "renew"}
  /\ Spend("abort")
  /\ LoopIdle(w)
  /\ UNCHANGED <<leaseVars, rtVars, workerVars, tasks, recVars, admVars>>

-----------------------------------------------------------------------------
(* The tasks: run_partition of the product *)

\* A task may end at any time, cancelled or not.  Nobody looks at the end of
\* a dropped one.
TaskEnds(w, t) ==
  /\ t \in tasks[w]
  /\ t.state # "done"
  /\ tasks' = [tasks EXCEPT ![w] =
       (@ \ {t}) \cup (IF t.state = "dropped" THEN {}
                        ELSE {[t EXCEPT !.state = "done"]})]
  /\ UNCHANGED <<leaseVars, rtVars, workerVars, sup, mine, todo, recVars,
                 admVars, budget>>

\* A cancelled task may still be emitting; only the fence stops it.
TaskEmits(w, t, k) ==
  /\ t \in tasks[w]
  /\ t.state # "done"
  /\ Emit(t.part, w, t.token, k)
  /\ UNCHANGED <<rtVars, workerVars, supVars, recVars, admVars, budget>>

-----------------------------------------------------------------------------
(* One pass of a reconciler *)

\* list_deployments and discover_partitions.
Discover(k) ==
  /\ rec[k] = "idle"
  /\ deployment = "active"
  /\ rec' = [rec EXCEPT ![k] = "get"]
  /\ desired' = [desired EXCEPT ![k] = discovered]
  /\ UNCHANGED <<leaseVars, rtVars, workerVars, supVars, seenActive, snap,
                 pending, live, given, admVars, budget>>

GetDeployment(k) ==
  /\ rec[k] = "get"
  /\ rec' = [rec EXCEPT ![k] = "mark"]
  /\ seenActive' = [seenActive EXCEPT ![k] = deployment = "active"]
  /\ UNCHANGED <<leaseVars, rtVars, workerVars, supVars, desired, snap,
                 pending, live, given, admVars, budget>>

MarkStaleDead(k) ==
  /\ rec[k] = "mark"
  /\ rec' = [rec EXCEPT ![k] = "sync"]
  /\ wstatus' = [w \in Workers |->
       IF wstatus[w] # "absent" /\ ~fresh[w] THEN "dead" ELSE wstatus[w]]
  /\ UNCHANGED <<leaseVars, rtVars, up, fresh, supVars, desired, seenActive,
                 snap, pending, live, given, admVars, budget>>

Sync(k) ==
  /\ rec[k] = "sync"
  /\ rec' = [rec EXCEPT ![k] = "workers"]
  /\ SyncPartitions(desired[k])
  /\ snap' = [snap EXCEPT ![k] = [p \in Partitions |->
       [status |-> pstatus'[p], owner |-> owner'[p], lease |-> lease'[p]]]]
  /\ UNCHANGED <<rtVars, workerVars, supVars, desired, seenActive, pending,
                 live, given, admVars, budget>>

\* What the pass forgets when it ends.
PassIdle(k) ==
  /\ rec' = [rec EXCEPT ![k] = "idle"]
  /\ desired' = [desired EXCEPT ![k] = {}]
  /\ seenActive' = [seenActive EXCEPT ![k] = FALSE]
  /\ snap' = [snap EXCEPT ![k] = NoSnap]
  /\ pending' = [pending EXCEPT ![k] = {}]
  /\ live' = [live EXCEPT ![k] = {}]
  /\ given' = [given EXCEPT ![k] = NoGifts]

MutNeedsOwner(k, p, active, late) ==
  /\ snap[k][p].status \notin {"absent", "inactive"}
  /\ \/ snap[k][p].status = "unassigned"
     \/ snap[k][p].owner \notin active \cup {Nobody}

\* The expiry was read with the rows, and is compared with the clock later;
\* "late" says for which leases it has passed in between.
NeedsOwner(k, p, active, late) ==
  /\ snap[k][p].status \notin {"absent", "inactive"}
  /\ \/ snap[k][p].status = "unassigned"
     \/ snap[k][p].lease = "lapsed"
     \/ snap[k][p].lease = "live" /\ (lease[p] = "lapsed" \/ p \in late)
     \/ snap[k][p].owner \notin active \cup {Nobody}

ListWorkers(k) ==
  /\ rec[k] = "workers"
  /\ LET active == {w \in Workers : wstatus[w] = "active"} IN
     \/ /\ seenActive[k] /\ active # {}
        /\ rec' = [rec EXCEPT ![k] = "assign"]
        /\ live' = [live EXCEPT ![k] = active]
        /\ \E late \in SUBSET {p \in Partitions : snap[k][p].lease = "live"} :
             /\ IF late # {} THEN Spend("surprise") ELSE UNCHANGED budget
             /\ pending' = [pending EXCEPT ![k] =
                  {p \in Partitions : NeedsOwner(k, p, active, late)}]
        /\ UNCHANGED <<desired, seenActive, snap, given>>
     \/ /\ ~(seenActive[k] /\ active # {})
        /\ PassIdle(k)
        /\ UNCHANGED budget
  /\ UNCHANGED <<leaseVars, rtVars, workerVars, supVars, admVars>>

\* The load of a worker: what the snapshot says it holds and what the pass
\* has given it.
Load(k, w) ==
  LET held == {p \in Partitions : /\ snap[k][p].owner = w
                                  /\ snap[k][p].status \in {"assigned", "running"}}
      sum(S) == MapThenSumSet(LAMBDA p : Weight[p], S)
  IN  sum(held) + sum(given[k][w])

LeastLoaded(k) ==
  {w \in live[k] : \A v \in live[k] : Load(k, w) <= Load(k, v)}

\* The lease goes to whoever the pass has chosen, whatever has become of the
\* deployment, the worker and the partition; only the row is asked again.
Assign(k, p) ==
  /\ rec[k] = "assign"
  /\ p \in pending[k]
  /\ pending' = [pending EXCEPT ![k] = @ \ {p}]
  /\ \E w \in LeastLoaded(k) :
       IF CanAcquire(p, w)
         THEN /\ token[p] < MaxToken
              /\ AcquireLease(p, w)
              /\ given' = [given EXCEPT ![k][w] = @ \cup {p}]
         ELSE UNCHANGED <<leaseVars, given>>
  /\ UNCHANGED <<rtVars, workerVars, supVars, rec, desired, seenActive, snap,
                 live, admVars, budget>>

EndPass(k) ==
  /\ rec[k] = "assign"
  /\ pending[k] = {}
  /\ PassIdle(k)
  /\ UNCHANGED <<leaseVars, rtVars, workerVars, supVars, admVars, budget>>

PassAborts(k) ==
  /\ rec[k] # "idle"
  /\ Spend("abort")
  /\ PassIdle(k)
  /\ UNCHANGED <<leaseVars, rtVars, workerVars, supVars, admVars>>

-----------------------------------------------------------------------------
(* The operators *)

Deploy(a) ==
  /\ adm[a] = "idle"
  /\ Spend("order")
  /\ deployment' = IF deployment = "absent" THEN "pending" ELSE deployment
  /\ adm' = [adm EXCEPT ![a] = "activate"]
  /\ UNCHANGED <<leaseVars, discovered, workerVars, supVars, recVars, goal,
                 toRelease>>

\* Whatever the status was: also of a deployment that had been stopped.
Activate(a) ==
  /\ adm[a] = "activate"
  /\ deployment' = "active"
  /\ adm' = [adm EXCEPT ![a] = "idle"]
  /\ UNCHANGED <<leaseVars, discovered, workerVars, supVars, recVars, goal,
                 toRelease, budget>>

Drain(a, g) ==
  /\ adm[a] = "idle"
  /\ deployment # "absent"
  /\ Spend("order")
  /\ deployment' = "draining"
  /\ adm' = [adm EXCEPT ![a] = "read"]
  /\ goal' = [goal EXCEPT ![a] = g]
  /\ UNCHANGED <<leaseVars, discovered, workerVars, supVars, recVars, toRelease>>

ReadOwned(a) ==
  /\ adm[a] = "read"
  /\ adm' = [adm EXCEPT ![a] = "release"]
  /\ toRelease' = [toRelease EXCEPT ![a] = [p \in Partitions |->
       IF owner[p] # Nobody THEN token[p] ELSE 0]]
  /\ UNCHANGED <<leaseVars, rtVars, workerVars, supVars, recVars, goal, budget>>

\* A partition that has been leased again since is left alone.
Release(a, p) ==
  /\ adm[a] = "release"
  /\ toRelease[a][p] > 0
  /\ toRelease' = [toRelease EXCEPT ![a][p] = 0]
  /\ IF token[p] = toRelease[a][p]
       THEN ReleasePartition(p, toRelease[a][p])
       ELSE UNCHANGED leaseVars
  /\ UNCHANGED <<rtVars, workerVars, supVars, recVars, adm, goal, budget>>

Released(a) ==
  /\ adm[a] = "release"
  /\ \A p \in Partitions : toRelease[a][p] = 0
  /\ deployment' = IF goal[a] = "stop" THEN "stopped" ELSE deployment
  /\ adm' = [adm EXCEPT ![a] = "idle"]
  /\ goal' = [goal EXCEPT ![a] = "drain"]
  /\ UNCHANGED <<leaseVars, discovered, workerVars, supVars, recVars, toRelease,
                 budget>>

\* The operator's process dies or meets a store error: what it has done so far
\* stays, and nobody carries on.
AdminAborts(a) ==
  /\ adm[a] # "idle"
  /\ Spend("abort")
  /\ adm' = [adm EXCEPT ![a] = "idle"]
  /\ goal' = [goal EXCEPT ![a] = "drain"]
  /\ toRelease' = [toRelease EXCEPT ![a] = NoTokens]
  /\ UNCHANGED <<leaseVars, rtVars, workerVars, supVars, recVars>>

-----------------------------------------------------------------------------
SupervisorStep(w) ==
  \/ ListDeployments(w) \/ StopDone(w) \/ TickRead(w) \/ BeginRenewals(w)
  \/ \E p \in Partitions : StartPartition(w, p) \/ Renew(w, p)
  \/ EndTick(w)

WorkerTrouble(w) ==
  \/ WorkerCrashes(w) \/ GoesStale(w) \/ TickAborts(w)
  \/ \E p \in Partitions : StartFails(w, p)

ReconcilerStep(k) ==
  \/ Discover(k) \/ GetDeployment(k) \/ MarkStaleDead(k) \/ Sync(k)
  \/ ListWorkers(k) \/ (\E p \in Partitions : Assign(k, p)) \/ EndPass(k)

AdminStep(a) ==
  Activate(a) \/ ReadOwned(a) \/ (\E p \in Partitions : Release(a, p)) \/ Released(a)

Order(a) == Deploy(a) \/ \E g \in {"drain", "stop"} : Drain(a, g)

Next ==
  \/ \E w \in Workers :
       \/ WorkerStarts(w) \/ Heartbeat(w) \/ SupervisorStep(w)
       \/ WorkerTrouble(w)
       \/ \E t \in tasks[w] : \/ TaskEnds(w, t)
                              \/ \E k \in Emissions : TaskEmits(w, t, k)
  \/ \E k \in Reconcilers : ReconcilerStep(k) \/ PassAborts(k)
  \/ \E a \in Admins : AdminStep(a) \/ AdminAborts(a) \/ Order(a)
  \/ \E p \in Partitions : LeaseRunsOut(p)
  \/ \E D \in SUBSET Partitions : DiscoveryChanges(D)

Spec == Init /\ [][Next]_vars

\* The loops of service.py run forever in every process, and an operator's
\* order goes through.  Every worker is started once; a crashed one may never
\* come back.  Tasks that were cancelled by force end; the others owe nothing.
\* A lease nobody renews runs out, a heartbeat nobody sends goes stale.
MustEnd(w, t) == t.state = "dropped" \/ sup[w] = "stopping"

Fairness ==
  /\ \A w \in Workers :
       /\ WF_vars(wstatus[w] = "absent" /\ WorkerStarts(w))
       /\ WF_vars(Heartbeat(w))
       /\ WF_vars(SupervisorStep(w))
       /\ WF_vars(\E t \in tasks[w] : MustEnd(w, t) /\ TaskEnds(w, t))
       /\ WF_vars(~up[w] /\ GoesStale(w))
  /\ \A k \in Reconcilers : WF_vars(ReconcilerStep(k))
  /\ \A a \in Admins : WF_vars(AdminStep(a))
  /\ \A p \in Partitions : WF_vars(~Punctual(owner[p]) /\ LeaseRunsOut(p))

FairSpec == Spec /\ Fairness
=============================================================================
