--------------------------- MODULE ContinuousProofs ---------------------------
(***************************************************************************)
(* Machine-checked proofs about ContinuousRuntime, for any partitions,     *)
(* workers, reconcilers, operators and bounds: whatever is done to the     *)
(* lease table is within LeaseSpec, so the results of LeaseProofs hold of  *)
(* the runtime, and at most one task of a partition may write.             *)
(***************************************************************************)
EXTENDS ContinuousProperties, LeaseProofs

\* Everybody who remembers a token remembers one that was handed out, and a
\* tick only starts partitions it found to be its own.
TokensHandedOut ==
  /\ \A p \in Partitions : token[p] <= MaxToken
  /\ \A w \in Workers : \A t \in tasks[w] : 0 < t.token /\ t.token <= token[t.part]
  /\ \A w \in Workers, p \in Partitions : mine[w][p] <= token[p]
  /\ \A w \in Workers : sup[w] = "start" => \A p \in todo[w] : mine[w][p] > 0
  /\ \A a \in Admins, p \in Partitions : toRelease[a][p] <= token[p]

\* A tick that is starting partitions has still to start those without a task.
NotYetStarted ==
  \A w \in Workers : sup[w] = "start" => TrackedParts(w) \cap todo[w] = {}

RuntimeInv ==
  /\ RuntimeTypeOK
  /\ TokensHandedOut
  /\ StatusTellsOwner
  /\ DroppedAreFenced
  /\ NotYetStarted
  /\ OneTrackedTask

-----------------------------------------------------------------------------
(* Tasks *)

LEMMA ToldTask ==
  ASSUME NEW t \in Task
  PROVE  /\ Told(t) \in Task
         /\ Told(t).part = t.part /\ Told(t).token = t.token
         /\ Told(t).state = "dropped" <=> t.state = "dropped"
  BY DEF Told, Task

LEMMA DroppedTask ==
  ASSUME NEW t \in Task
  PROVE  LET d == [t EXCEPT !.state = "dropped"] IN
         /\ d \in Task
         /\ d.part = t.part /\ d.token = t.token /\ d.state = "dropped"
  BY DEF Task

LEMMA DoneTask ==
  ASSUME NEW t \in Task
  PROVE  LET d == [t EXCEPT !.state = "done"] IN
         /\ d \in Task
         /\ d.part = t.part /\ d.token = t.token /\ d.state = "done"
  BY DEF Task

LEMMA FreshTask ==
  ASSUME NEW w \in Workers, NEW p \in Partitions, mine[w][p] \in Nat
  PROVE  /\ NewTask(w, p) \in Task
         /\ NewTask(w, p).part = p /\ NewTask(w, p).token = mine[w][p]
         /\ NewTask(w, p).state = "running"
  BY DEF NewTask, Task

-----------------------------------------------------------------------------
(* Everything done to the lease table is a statement of the store *)

\* The statements the runtime issues, with the arguments it issues them with.
Statement ==
  \/ \E D \in SUBSET Partitions : SyncPartitions(D)
  \/ \E p \in Partitions, w \in Workers :
       token[p] < MaxToken /\ AcquireLease(p, w)
  \/ \E p \in Partitions, w \in Workers, t \in 1..MaxToken :
       \/ SetPartitionStatus(p, w, t, "running")
       \/ \E k \in Emissions : Emit(p, w, t, k)
  \/ \E p \in Partitions, t \in 1..MaxToken : ReleasePartition(p, t)
  \/ \E p \in Partitions : LeaseLapses(p)

LEMMA StatementIsLeaseNext == [Statement]_leaseVars => [LeaseNext]_leaseVars
<1>1. "running" \in PartitionStatus
  BY DEF PartitionStatus
<1>2. 1..MaxToken \subseteq 0..MaxToken
  BY LeaseAssumption
<1> QED
  BY <1>1, <1>2 DEF Statement, LeaseNext

LEMMA RuntimeStatement ==
  ASSUME RuntimeTypeOK, TokensHandedOut, [Next]_vars
  PROVE  [Statement]_leaseVars
<1> USE LeaseAssumption DEF RuntimeTypeOK
<1>1. ASSUME NEW w \in Workers, NEW p \in Partitions, StartPartition(w, p)
      PROVE  [Statement]_leaseVars
  <2>1. mine[w][p] \in 1..MaxToken
    BY <1>1 DEF StartPartition, TokensHandedOut, LeaseTypeOK
  <2> QED
    BY <1>1, <2>1 DEF StartPartition, MarkRunning, Statement
<1>2. ASSUME NEW w \in Workers, NEW t \in tasks[w], NEW k \in Emissions,
             TaskEmits(w, t, k)
      PROVE  [Statement]_leaseVars
  <2>1. t \in Task
    OBVIOUS
  <2>2. t.part \in Partitions /\ t.token \in Nat
    BY <2>1 DEF Task
  <2>3. t.token \in 1..MaxToken
    BY <2>2 DEF TokensHandedOut, LeaseTypeOK
  <2> QED
    BY <1>2, <2>2, <2>3 DEF TaskEmits, Statement
<1>3. ASSUME NEW k \in Reconcilers, Sync(k) PROVE [Statement]_leaseVars
  BY <1>3 DEF Sync, Statement
<1>4. ASSUME NEW k \in Reconcilers, NEW p \in Partitions, Assign(k, p)
      PROVE  [Statement]_leaseVars
  <2>1. LeastLoaded(k) \subseteq Workers
    BY DEF LeastLoaded
  <2> QED
    BY <1>4, <2>1 DEF Assign, Statement
<1>5. ASSUME NEW a \in Admins, NEW p \in Partitions, Release(a, p)
      PROVE  [Statement]_leaseVars
  <2>1. toRelease[a][p] \in 1..MaxToken
    BY <1>5 DEF Release, TokensHandedOut, LeaseTypeOK
  <2> QED
    BY <1>5, <2>1 DEF Release, Statement
<1>6. ASSUME NEW p \in Partitions, LeaseRunsOut(p) PROVE [Statement]_leaseVars
  BY <1>6 DEF LeaseRunsOut, Statement
<1>7. ASSUME NEW w \in Workers, NEW p \in Partitions,
             Renew(w, p) \/ StartFails(w, p)
      PROVE  UNCHANGED leaseVars
  BY <1>7 DEF Renew, StartFails
<1>8. ASSUME NEW w \in Workers,
             \/ WorkerStarts(w) \/ Heartbeat(w)
             \/ ListDeployments(w) \/ StopDone(w) \/ TickRead(w)
             \/ BeginRenewals(w) \/ EndTick(w)
             \/ WorkerCrashes(w) \/ GoesStale(w) \/ TickAborts(w)
             \/ \E t \in tasks[w] : TaskEnds(w, t)
      PROVE  UNCHANGED leaseVars
  BY <1>8
  DEF WorkerStarts, Heartbeat, ListDeployments, StopDone, TickRead,
      BeginRenewals, EndTick, WorkerCrashes, GoesStale, TickAborts, TaskEnds
<1>9. ASSUME NEW k \in Reconcilers,
             \/ Discover(k) \/ GetDeployment(k) \/ MarkStaleDead(k)
             \/ ListWorkers(k) \/ EndPass(k) \/ PassAborts(k)
      PROVE  UNCHANGED leaseVars
  BY <1>9
  DEF Discover, GetDeployment, MarkStaleDead, ListWorkers, EndPass, PassAborts
<1>10. ASSUME NEW a \in Admins,
              \/ Activate(a) \/ ReadOwned(a) \/ Released(a) \/ AdminAborts(a)
              \/ Order(a)
       PROVE  UNCHANGED leaseVars
  BY <1>10
  DEF Activate, ReadOwned, Released, AdminAborts, Order, Deploy, Drain
<1>11. ASSUME NEW D \in SUBSET Partitions, DiscoveryChanges(D)
       PROVE  UNCHANGED leaseVars
  BY <1>11 DEF DiscoveryChanges
<1>12. CASE UNCHANGED vars
  BY <1>12 DEF vars
<1> QED
  BY <1>1, <1>2, <1>3, <1>4, <1>5, <1>6, <1>7, <1>8, <1>9, <1>10, <1>11, <1>12
  DEF Next, SupervisorStep, WorkerTrouble, ReconcilerStep, AdminStep

LEMMA NextLeaseInv ==
  ASSUME RuntimeTypeOK, TokensHandedOut, [Next]_vars
  PROVE  LeaseTypeOK' /\ \A p \in Partitions : token'[p] >= token[p]
<1>1. LeaseTypeOK /\ [LeaseNext]_leaseVars
  BY RuntimeStatement, StatementIsLeaseNext DEF RuntimeTypeOK
<1> QED
  BY <1>1, NextLeaseTypeOK, TokensGrow

-----------------------------------------------------------------------------
(* Types, one group of variables after the other *)

WorkerTypeOK ==
  /\ deployment \in {"absent", "pending", "active", "draining", "stopped"}
  /\ discovered \in SUBSET Partitions
  /\ up \in [Workers -> BOOLEAN]
  /\ wstatus \in [Workers -> {"absent", "active", "dead"}]
  /\ fresh \in [Workers -> BOOLEAN]

SupTypeOK ==
  /\ tasks \in [Workers -> SUBSET Task]
  /\ sup \in [Workers -> {"idle", "tick", "start", "renew", "stopping"}]
  /\ mine \in [Workers -> [Partitions -> Nat]]
  /\ todo \in [Workers -> SUBSET Partitions]

RecTypeOK ==
  /\ rec \in [Reconcilers ->
                {"idle", "get", "mark", "sync", "workers", "assign"}]
  /\ desired \in [Reconcilers -> SUBSET Partitions]
  /\ seenActive \in [Reconcilers -> BOOLEAN]
  /\ snap \in [Reconcilers -> [Partitions -> Row]]
  /\ pending \in [Reconcilers -> SUBSET Partitions]
  /\ live \in [Reconcilers -> SUBSET Workers]
  /\ given \in [Reconcilers -> [Workers -> SUBSET Partitions]]

AdmTypeOK ==
  /\ adm \in [Admins -> {"idle", "activate", "read", "release"}]
  /\ goal \in [Admins -> {"drain", "stop"}]
  /\ toRelease \in [Admins -> [Partitions -> Nat]]

BudgetTypeOK ==
  budget \in [{"surprise", "abort", "order", "discovery", "event",
               "unnoticed"} -> Nat]

LEMMA TypeGroups ==
  RuntimeTypeOK <=> /\ LeaseTypeOK /\ WorkerTypeOK /\ SupTypeOK /\ RecTypeOK
                    /\ AdmTypeOK /\ BudgetTypeOK
  BY DEF RuntimeTypeOK, WorkerTypeOK, SupTypeOK, RecTypeOK, AdmTypeOK,
         BudgetTypeOK

LEMMA SpendType ==
  ASSUME BudgetTypeOK, NEW kind \in {"surprise", "abort", "order", "discovery"},
         Spend(kind)
  PROVE  BudgetTypeOK'
  BY DEF Spend, BudgetTypeOK

LEMMA LoopIdleType ==
  ASSUME SupTypeOK, NEW w \in Workers, LoopIdle(w),
         tasks' \in [Workers -> SUBSET Task]
  PROVE  SupTypeOK'
  BY DEF LoopIdle, SupTypeOK, NoTokens

LEMMA PassIdleType ==
  ASSUME RecTypeOK, NEW k \in Reconcilers, PassIdle(k) PROVE RecTypeOK'
<1>1. NoSnap \in [Partitions -> Row]
  BY DEF NoSnap, Row
<1>2. NoGifts \in [Workers -> SUBSET Partitions]
  BY DEF NoGifts
<1> QED
  BY <1>1, <1>2 DEF PassIdle, RecTypeOK

LEMMA InitRuntimeTypeOK == Init => RuntimeTypeOK
<1> SUFFICES ASSUME Init PROVE RuntimeTypeOK
  OBVIOUS
<1>1. LeaseTypeOK
  BY InitLeaseTypeOK DEF Init
<1>2. WorkerTypeOK /\ SupTypeOK /\ AdmTypeOK
  BY DEF Init, WorkerTypeOK, SupTypeOK, AdmTypeOK, NoTokens
<1>3. RecTypeOK
  <2>1. NoSnap \in [Partitions -> Row]
    BY DEF NoSnap, Row
  <2> QED
    BY <2>1 DEF Init, RecTypeOK, NoGifts
<1>4. BudgetTypeOK
  BY RuntimeAssumption DEF Init, BudgetTypeOK
<1> QED
  BY <1>1, <1>2, <1>3, <1>4, TypeGroups

LEMMA NextSupType ==
  ASSUME LeaseTypeOK, SupTypeOK, [Next]_vars PROVE SupTypeOK'
<1>1. ASSUME NEW w \in Workers, WorkerCrashes(w) PROVE SupTypeOK'
  BY <1>1, LoopIdleType DEF WorkerCrashes, SupTypeOK
<1>2. ASSUME NEW w \in Workers, ListDeployments(w) PROVE SupTypeOK'
  <2>1. {Told(t) : t \in tasks[w]} \in SUBSET Task
    BY ToldTask DEF SupTypeOK
  <2> QED
    BY <1>2, <2>1 DEF ListDeployments, SupTypeOK
<1>3. ASSUME NEW w \in Workers, StopDone(w) PROVE SupTypeOK'
  BY <1>3 DEF StopDone, SupTypeOK
<1>4. ASSUME NEW w \in Workers, TickRead(w) PROVE SupTypeOK'
  <2> DEFINE kept == {t \in tasks[w] : t.state = "dropped"} \cup
                     {Reaped(w, t) : t \in {x \in Tracked(w) : x.state # "done"}}
  <2>1. kept \in SUBSET Task
    BY DroppedTask DEF Tracked, Reaped, SupTypeOK
  <2>2. tasks' = [tasks EXCEPT ![w] = kept]
    BY <1>4 DEF TickRead
  <2>3. tasks' \in [Workers -> SUBSET Task]
    BY <2>1, <2>2 DEF SupTypeOK
  <2>4. /\ mine' \in [Workers -> [Partitions -> Nat]]
        /\ todo' \in [Workers -> SUBSET Partitions]
        /\ sup' \in [Workers -> {"idle", "tick", "start", "renew", "stopping"}]
    BY <1>4 DEF TickRead, SupTypeOK, LeaseTypeOK
  <2> QED
    BY <2>3, <2>4 DEF SupTypeOK
<1>5. ASSUME NEW w \in Workers, NEW p \in Partitions,
             StartPartition(w, p) \/ StartFails(w, p)
      PROVE  SupTypeOK'
  <2>1. NewTask(w, p) \in Task
    BY FreshTask DEF SupTypeOK
  <2>2. tasks' \in [Workers -> SUBSET Task]
    BY <1>5, <2>1 DEF StartPartition, StartFails, SupTypeOK
  <2> QED
    BY <1>5, <2>2, LoopIdleType DEF StartPartition, StartFails, SupTypeOK
<1>6. ASSUME NEW w \in Workers, BeginRenewals(w) PROVE SupTypeOK'
  <2>1. TrackedParts(w) \subseteq Partitions
    BY DEF TrackedParts, Tracked, SupTypeOK, Task
  <2> QED
    BY <1>6, <2>1 DEF BeginRenewals, SupTypeOK
<1>7. ASSUME NEW w \in Workers, NEW p \in Partitions, Renew(w, p)
      PROVE  SupTypeOK'
  <2> DEFINE after == {IF t.part = p /\ t.state # "dropped" /\ ~MayEmit(p, w, t.token)
                       THEN Told(t) ELSE t : t \in tasks[w]}
  <2>1. after \in SUBSET Task
    BY ToldTask DEF SupTypeOK
  <2>2. tasks' = [tasks EXCEPT ![w] = after]
    BY <1>7 DEF Renew
  <2>3. tasks' \in [Workers -> SUBSET Task]
    BY <2>1, <2>2 DEF SupTypeOK
  <2> QED
    BY <1>7, <2>3 DEF Renew, SupTypeOK
<1>8. ASSUME NEW w \in Workers, EndTick(w) \/ TickAborts(w) PROVE SupTypeOK'
  BY <1>8, LoopIdleType DEF EndTick, TickAborts, SupTypeOK
<1>9. ASSUME NEW w \in Workers, NEW t \in tasks[w], TaskEnds(w, t)
      PROVE  SupTypeOK'
  <2>1. [t EXCEPT !.state = "done"] \in Task
    BY DoneTask DEF SupTypeOK
  <2> QED
    BY <1>9, <2>1 DEF TaskEnds, SupTypeOK
<1>10. CASE UNCHANGED supVars
  BY <1>10 DEF supVars, SupTypeOK
<1> QED
  BY <1>1, <1>2, <1>3, <1>4, <1>5, <1>6, <1>7, <1>8, <1>9, <1>10
  DEF Next, SupervisorStep, WorkerTrouble, WorkerStarts, Heartbeat, GoesStale,
      TaskEmits, ReconcilerStep, Discover, GetDeployment, MarkStaleDead, Sync,
      ListWorkers, Assign, EndPass, PassAborts, AdminStep, Activate, ReadOwned,
      Release, Released, AdminAborts, Order, Deploy, Drain, LeaseRunsOut,
      DiscoveryChanges, vars

LEMMA NextRecType ==
  ASSUME LeaseTypeOK, LeaseTypeOK', WorkerTypeOK, RecTypeOK, [Next]_vars
  PROVE  RecTypeOK'
<1>1. ASSUME NEW k \in Reconcilers,
             Discover(k) \/ GetDeployment(k) \/ MarkStaleDead(k)
      PROVE  RecTypeOK'
  BY <1>1
  DEF Discover, GetDeployment, MarkStaleDead, RecTypeOK, WorkerTypeOK
<1>2. ASSUME NEW k \in Reconcilers, Sync(k) PROVE RecTypeOK'
  <2> DEFINE rows == [p \in Partitions |->
                [status |-> pstatus'[p], owner |-> owner'[p], lease |-> lease'[p]]]
  <2>1. rows \in [Partitions -> Row]
    BY DEF LeaseTypeOK, Row
  <2>2. snap' = [snap EXCEPT ![k] = rows]
    BY <1>2 DEF Sync
  <2>3. snap' \in [Reconcilers -> [Partitions -> Row]]
    BY <2>1, <2>2 DEF RecTypeOK
  <2> QED
    BY <1>2, <2>3 DEF Sync, RecTypeOK
<1>3. ASSUME NEW k \in Reconcilers, ListWorkers(k) PROVE RecTypeOK'
  <2>1. CASE PassIdle(k)
    BY <2>1, PassIdleType
  <2>2. CASE /\ rec' = [rec EXCEPT ![k] = "assign"]
             /\ live' = [live EXCEPT ![k] = {w \in Workers : wstatus[w] = "active"}]
             /\ \E S \in SUBSET Partitions : pending' = [pending EXCEPT ![k] = S]
             /\ UNCHANGED <<desired, seenActive, snap, given>>
    BY <2>2 DEF RecTypeOK
  <2>3. \A late, active :
          {p \in Partitions : NeedsOwner(k, p, active, late)} \in SUBSET Partitions
    OBVIOUS
  <2> QED
    BY <1>3, <2>1, <2>2, <2>3, Zenon DEF ListWorkers
<1>4. ASSUME NEW k \in Reconcilers, NEW p \in Partitions, Assign(k, p)
      PROVE  RecTypeOK'
  <2>1. LeastLoaded(k) \subseteq Workers
    BY DEF LeastLoaded, RecTypeOK
  <2>2. pending' \in [Reconcilers -> SUBSET Partitions]
    BY <1>4 DEF Assign, RecTypeOK
  <2>3. ASSUME NEW w \in Workers, given' = [given EXCEPT ![k][w] = @ \cup {p}]
        PROVE  given' \in [Reconcilers -> [Workers -> SUBSET Partitions]]
    BY <2>3 DEF RecTypeOK
  <2>4. given' \in [Reconcilers -> [Workers -> SUBSET Partitions]]
    BY <1>4, <2>1, <2>3 DEF Assign, RecTypeOK
  <2> QED
    BY <1>4, <2>2, <2>4 DEF Assign, RecTypeOK
<1>5. ASSUME NEW k \in Reconcilers, EndPass(k) \/ PassAborts(k) PROVE RecTypeOK'
  BY <1>5, PassIdleType DEF EndPass, PassAborts
<1>6. CASE UNCHANGED recVars
  BY <1>6 DEF recVars, RecTypeOK
<1> QED
  BY <1>1, <1>2, <1>3, <1>4, <1>5, <1>6
  DEF Next, SupervisorStep, ListDeployments, StopDone, TickRead, BeginRenewals,
      StartPartition, Renew, EndTick, WorkerTrouble, WorkerCrashes, GoesStale,
      TickAborts, StartFails, WorkerStarts, Heartbeat, TaskEnds, TaskEmits,
      ReconcilerStep, AdminStep, Activate, ReadOwned, Release, Released,
      AdminAborts, Order, Deploy, Drain, LeaseRunsOut, DiscoveryChanges, vars

LEMMA NextAdmType ==
  ASSUME LeaseTypeOK, AdmTypeOK, [Next]_vars PROVE AdmTypeOK'
<1>1. ASSUME NEW a \in Admins,
             \/ Activate(a) \/ ReadOwned(a) \/ Released(a) \/ AdminAborts(a)
             \/ Order(a)
             \/ \E p \in Partitions : Release(a, p)
      PROVE  AdmTypeOK'
  <2>1. NoTokens \in [Partitions -> Nat]
    BY DEF NoTokens
  <2>2. CASE ReadOwned(a)
    BY <2>2 DEF ReadOwned, AdmTypeOK, LeaseTypeOK
  <2>3. CASE \E p \in Partitions : Release(a, p)
    BY <2>3 DEF Release, AdmTypeOK
  <2>4. CASE Activate(a) \/ Released(a) \/ Order(a)
    BY <2>4 DEF Activate, Released, Order, Deploy, Drain, AdmTypeOK
  <2>5. CASE AdminAborts(a)
    BY <2>1, <2>5 DEF AdminAborts, AdmTypeOK
  <2> QED
    BY <1>1, <2>2, <2>3, <2>4, <2>5
<1>2. CASE UNCHANGED admVars
  BY <1>2 DEF admVars, AdmTypeOK
<1> QED
  BY <1>1, <1>2
  DEF Next, SupervisorStep, ListDeployments, StopDone, TickRead, BeginRenewals,
      StartPartition, Renew, EndTick, WorkerTrouble, WorkerCrashes, GoesStale,
      TickAborts, StartFails, WorkerStarts, Heartbeat, TaskEnds, TaskEmits,
      ReconcilerStep, Discover, GetDeployment, MarkStaleDead, Sync,
      ListWorkers, Assign, EndPass, PassAborts, AdminStep, LeaseRunsOut,
      DiscoveryChanges, vars

LEMMA NextWorkerType ==
  ASSUME WorkerTypeOK, [Next]_vars PROVE WorkerTypeOK'
<1>1. ASSUME NEW w \in Workers,
             \/ WorkerStarts(w) \/ Heartbeat(w) \/ WorkerCrashes(w) \/ GoesStale(w)
      PROVE  WorkerTypeOK'
  BY <1>1
  DEF WorkerStarts, Heartbeat, WorkerCrashes, GoesStale, WorkerTypeOK, rtVars
<1>2. ASSUME NEW k \in Reconcilers, MarkStaleDead(k) PROVE WorkerTypeOK'
  BY <1>2 DEF MarkStaleDead, WorkerTypeOK, rtVars
<1>3. ASSUME NEW a \in Admins, Activate(a) \/ Released(a) \/ Order(a)
      PROVE  WorkerTypeOK'
  BY <1>3
  DEF Activate, Released, Order, Deploy, Drain, WorkerTypeOK, workerVars
<1>4. ASSUME NEW D \in SUBSET Partitions, DiscoveryChanges(D)
      PROVE  WorkerTypeOK'
  BY <1>4 DEF DiscoveryChanges, WorkerTypeOK, workerVars
<1>5. CASE UNCHANGED <<rtVars, workerVars>>
  BY <1>5 DEF rtVars, workerVars, WorkerTypeOK
<1> QED
  BY <1>1, <1>2, <1>3, <1>4, <1>5
  DEF Next, SupervisorStep, ListDeployments, StopDone, TickRead, BeginRenewals,
      StartPartition, Renew, EndTick, WorkerTrouble, TickAborts, StartFails,
      TaskEnds, TaskEmits, ReconcilerStep, Discover, GetDeployment, Sync,
      ListWorkers, Assign, EndPass, PassAborts, AdminStep, ReadOwned, Release,
      AdminAborts, LeaseRunsOut, vars

LEMMA NextBudgetType ==
  ASSUME BudgetTypeOK, [Next]_vars PROVE BudgetTypeOK'
<1>1. ASSUME \/ Spend("surprise") \/ Spend("abort") \/ Spend("order")
             \/ Spend("discovery")
      PROVE  BudgetTypeOK'
  BY <1>1, SpendType
<1>2. CASE UNCHANGED budget
  BY <1>2 DEF BudgetTypeOK
<1>3. ASSUME NEW p \in Partitions, LeaseRunsOut(p) PROVE BudgetTypeOK'
  BY <1>1, <1>2, <1>3 DEF LeaseRunsOut, BudgetTypeOK
<1> QED
  BY <1>1, <1>2, <1>3
  DEF Next, SupervisorStep, ListDeployments, StopDone, TickRead, BeginRenewals,
      StartPartition, Renew, EndTick, WorkerTrouble, WorkerCrashes, GoesStale,
      TickAborts, StartFails, WorkerStarts, Heartbeat, TaskEnds, TaskEmits,
      ReconcilerStep, Discover, GetDeployment, MarkStaleDead, Sync,
      ListWorkers, Assign, EndPass, PassAborts, AdminStep, Activate, ReadOwned,
      Release, Released, AdminAborts, Order, Deploy, Drain, LeaseRunsOut,
      DiscoveryChanges, vars

LEMMA NextRuntimeTypeOK ==
  ASSUME RuntimeTypeOK, TokensHandedOut, [Next]_vars PROVE RuntimeTypeOK'
<1>1. /\ LeaseTypeOK /\ LeaseTypeOK' /\ WorkerTypeOK /\ SupTypeOK /\ RecTypeOK
      /\ AdmTypeOK /\ BudgetTypeOK
  BY NextLeaseInv, TypeGroups
<1>2. WorkerTypeOK' /\ SupTypeOK' /\ RecTypeOK' /\ AdmTypeOK' /\ BudgetTypeOK'
  BY <1>1, NextWorkerType, NextSupType, NextRecType, NextAdmType, NextBudgetType
<1>3. (/\ LeaseTypeOK /\ WorkerTypeOK /\ SupTypeOK /\ RecTypeOK /\ AdmTypeOK
       /\ BudgetTypeOK)' => RuntimeTypeOK'
  BY DEF RuntimeTypeOK, WorkerTypeOK, SupTypeOK, RecTypeOK, AdmTypeOK,
         BudgetTypeOK
<1> QED
  BY <1>1, <1>2, <1>3

-----------------------------------------------------------------------------
(* Tokens and rows *)

\* The bound, which every grant respects.
LEMMA TokensBounded ==
  ASSUME RuntimeTypeOK, TokensHandedOut, [Next]_vars
  PROVE  \A p \in Partitions : token'[p] <= MaxToken
<1>1. [Statement]_leaseVars /\ LeaseTypeOK
  BY RuntimeStatement DEF RuntimeTypeOK
<1>2. \A p \in Partitions : token[p] \in Nat /\ token[p] <= MaxToken
  BY DEF TokensHandedOut, RuntimeTypeOK, LeaseTypeOK
<1>3. ASSUME NEW q \in Partitions, NEW w \in Workers, token[q] < MaxToken,
             AcquireLease(q, w)
      PROVE  \A p \in Partitions : token'[p] <= MaxToken
  BY <1>1, <1>2, <1>3, LeaseAssumption DEF AcquireLease, NextEpoch, LeaseTypeOK
<1>4. CASE UNCHANGED token
  BY <1>2, <1>4
<1> QED
  BY <1>1, <1>3, <1>4
  DEF Statement, SyncPartitions, SetPartitionStatus, Emit, Record,
      ReleasePartition, Unassign, LeaseLapses, leaseVars, rowVars

\* A tenure that is over is over for good: nobody comes to hold a partition
\* under a token handed out before.
LEMMA HoldIsOld ==
  ASSUME RuntimeTypeOK, TokensHandedOut, [Next]_vars,
         NEW p \in Partitions, NEW w \in Workers, NEW t \in Nat, t <= token[p],
         Holds(p, w, t)'
  PROVE  Holds(p, w, t)
<1>1. [Statement]_leaseVars /\ LeaseTypeOK
  BY RuntimeStatement DEF RuntimeTypeOK
<1>2. owner'[p] = w /\ token'[p] = t /\ w # Nobody
  BY LeaseAssumption DEF Holds
<1>3. ASSUME NEW q \in Partitions, NEW v \in Workers, AcquireLease(q, v)
      PROVE  Holds(p, w, t)
  BY <1>1, <1>2, <1>3 DEF AcquireLease, NextEpoch, LeaseTypeOK, Holds
<1>4. ASSUME NEW D \in SUBSET Partitions, SyncPartitions(D)
      PROVE  Holds(p, w, t)
  BY <1>1, <1>2, <1>4 DEF SyncPartitions, LeaseTypeOK, Holds
<1>5. ASSUME NEW q \in Partitions, Unassign(q) PROVE Holds(p, w, t)
  BY <1>1, <1>2, <1>5 DEF Unassign, LeaseTypeOK, Holds
<1>6. CASE UNCHANGED <<owner, token>>
  BY <1>2, <1>6 DEF Holds
<1> QED
  BY <1>1, <1>3, <1>4, <1>5, <1>6
  DEF Statement, SetPartitionStatus, Emit, Record, ReleasePartition,
      LeaseLapses, leaseVars, rowVars

LEMMA NextStatusTellsOwner ==
  ASSUME RuntimeTypeOK, TokensHandedOut, StatusTellsOwner, [Next]_vars
  PROVE  StatusTellsOwner'
<1>1. [Statement]_leaseVars /\ LeaseTypeOK
  BY RuntimeStatement DEF RuntimeTypeOK
<1> USE LeaseAssumption DEF StatusTellsOwner, LeaseTypeOK
<1>2. ASSUME NEW D \in SUBSET Partitions, SyncPartitions(D)
      PROVE  StatusTellsOwner'
  BY <1>1, <1>2 DEF SyncPartitions, Gone, PartitionStatus
<1>3. ASSUME NEW p \in Partitions, NEW w \in Workers, AcquireLease(p, w)
      PROVE  StatusTellsOwner'
  BY <1>1, <1>3 DEF AcquireLease
<1>4. ASSUME NEW p \in Partitions, NEW w \in Workers, NEW t,
             SetPartitionStatus(p, w, t, "running")
      PROVE  StatusTellsOwner'
  BY <1>1, <1>4 DEF SetPartitionStatus, Holds
<1>5. ASSUME NEW p \in Partitions, Unassign(p) PROVE StatusTellsOwner'
  BY <1>1, <1>5 DEF Unassign
<1>6. CASE UNCHANGED <<pstatus, owner>>
  BY <1>6
<1> QED
  BY <1>1, <1>2, <1>3, <1>4, <1>5, <1>6
  DEF Statement, Emit, Record, ReleasePartition, LeaseLapses, leaseVars, rowVars

-----------------------------------------------------------------------------
(* What a step does to the tasks of a process *)

\* Every task after a step is a task from before, under the same token and
\* perhaps forgotten for having lost its partition, or one that a tick starts.
LEMMA TaskOrigin ==
  ASSUME RuntimeTypeOK, [Next]_vars, NEW w \in Workers, NEW x \in tasks'[w]
  PROVE  \/ \E t \in tasks[w] :
              /\ t.part = x.part /\ t.token = x.token
              /\ t.state = "dropped" => x.state = "dropped"
              /\ x.state = "dropped"
                 => t.state = "dropped" \/ ~Holds(t.part, w, t.token)
         \/ \E p \in todo[w] : /\ sup[w] = "start" /\ x = NewTask(w, p)
                               /\ sup'[w] = "start" => p \notin todo'[w]
<1> DEFINE Old(v, y) == \E t \in tasks[v] :
              /\ t.part = y.part /\ t.token = y.token
              /\ t.state = "dropped" => y.state = "dropped"
              /\ y.state = "dropped"
                 => t.state = "dropped" \/ ~Holds(t.part, v, t.token)
           New(v, y) == \E p \in todo[v] :
              /\ sup[v] = "start" /\ y = NewTask(v, p)
              /\ sup'[v] = "start" => p \notin todo'[v]
           Goal == Old(w, x) \/ New(w, x)
<1>1. SupTypeOK
  BY TypeGroups
<1>2. CASE x \in tasks[w]
  BY <1>2
<1>3. ASSUME NEW v \in Workers, ListDeployments(v) PROVE Goal
  <2>1. \A t \in tasks[w] : Old(w, Told(t))
    BY <1>1, ToldTask DEF SupTypeOK
  <2> QED
    BY <1>1, <1>2, <1>3, <2>1 DEF ListDeployments, SupTypeOK
<1>4. ASSUME NEW v \in Workers, TickRead(v) PROVE Goal
  <2>1. ASSUME NEW t \in tasks[w], t.state # "done" PROVE Old(w, Reaped(w, t))
    <3>1. t \in Task
      BY <1>1 DEF SupTypeOK
    <3> QED
      BY <2>1, <3>1, DroppedTask DEF Reaped, Kept
  <2> QED
    BY <1>1, <1>2, <1>4, <2>1 DEF TickRead, SupTypeOK, Tracked
<1>5. ASSUME NEW v \in Workers, NEW p \in Partitions,
             StartPartition(v, p) \/ StartFails(v, p)
      PROVE  Goal
  BY <1>1, <1>2, <1>5 DEF StartPartition, StartFails, SupTypeOK, LoopIdle
<1>6. ASSUME NEW v \in Workers, NEW p \in Partitions, Renew(v, p) PROVE Goal
  <2>1. \A t \in tasks[w] : Old(w, Told(t)) /\ Old(w, t)
    BY <1>1, ToldTask DEF SupTypeOK
  <2>2. v = w => \E t \in tasks[w] : x = t \/ x = Told(t)
    BY <1>1, <1>6 DEF Renew, SupTypeOK
  <2>3. v # w => x \in tasks[w]
    BY <1>1, <1>6 DEF Renew, SupTypeOK
  <2>4. CASE v = w
    <3>1. PICK t \in tasks[w] : x = t \/ x = Told(t)
      BY <2>2, <2>4
    <3>2. Old(w, Told(t)) /\ Old(w, t)
      BY <2>1
    <3>3. Old(w, x)
      BY <3>1, <3>2
    <3> QED
      BY <3>3
  <2> QED
    BY <1>2, <2>3, <2>4
<1>7. ASSUME NEW v \in Workers, NEW t \in tasks[v], TaskEnds(v, t) PROVE Goal
  <2>1. v = w /\ t.state # "dropped" => Old(w, [t EXCEPT !.state = "done"])
    BY <1>1, DoneTask DEF SupTypeOK
  <2> QED
    BY <1>1, <1>2, <1>7, <2>1 DEF TaskEnds, SupTypeOK
<1>8. ASSUME NEW v \in Workers, StopDone(v) \/ WorkerCrashes(v) PROVE Goal
  BY <1>1, <1>2, <1>8 DEF StopDone, WorkerCrashes, SupTypeOK
<1>9. CASE UNCHANGED tasks
  BY <1>2, <1>9
<1> QED
  BY <1>3, <1>4, <1>5, <1>6, <1>7, <1>8, <1>9
  DEF Next, SupervisorStep, WorkerTrouble, BeginRenewals, EndTick, TickAborts,
      WorkerStarts, Heartbeat, GoesStale, TaskEmits, ReconcilerStep, Discover,
      GetDeployment, MarkStaleDead, Sync, ListWorkers, Assign, EndPass,
      PassAborts, AdminStep, Activate, ReadOwned, Release, Released,
      AdminAborts, Order, Deploy, Drain, LeaseRunsOut, DiscoveryChanges,
      recVars, admVars, supVars, vars

\* What a tick remembers, it has read from the rows.
LEMMA MineIsRead ==
  ASSUME RuntimeTypeOK, [Next]_vars, NEW w \in Workers
  PROVE  /\ \A p \in Partitions : mine'[w][p] \in {0, mine[w][p], token[p]}
         /\ sup'[w] = "start" =>
              \A p \in todo'[w] : \/ mine'[w][p] > 0
                                  \/ /\ sup[w] = "start" /\ p \in todo[w]
                                     /\ mine'[w][p] = mine[w][p]
<1> DEFINE Goal ==
      /\ \A p \in Partitions : mine'[w][p] \in {0, mine[w][p], token[p]}
      /\ sup'[w] = "start" =>
           \A p \in todo'[w] : \/ mine'[w][p] > 0
                               \/ /\ sup[w] = "start" /\ p \in todo[w]
                                  /\ mine'[w][p] = mine[w][p]
<1>1. SupTypeOK /\ LeaseTypeOK
  BY TypeGroups
<1>2. ASSUME NEW v \in Workers, LoopIdle(v) PROVE Goal
  BY <1>1, <1>2 DEF LoopIdle, SupTypeOK, NoTokens
<1>3. ASSUME NEW v \in Workers, TickRead(v) PROVE Goal
  <2>1. CASE v # w
    BY <1>1, <1>3, <2>1 DEF TickRead, SupTypeOK
  <2>2. CASE v = w
    BY <1>1, <1>3, <2>2 DEF TickRead, SupTypeOK, LeaseTypeOK
  <2> QED
    BY <2>1, <2>2
<1>4. ASSUME NEW v \in Workers, NEW p \in Partitions, StartPartition(v, p)
      PROVE  Goal
  BY <1>1, <1>4 DEF StartPartition, SupTypeOK
<1>5. ASSUME NEW v \in Workers, NEW p \in Partitions, Renew(v, p) PROVE Goal
  BY <1>1, <1>5 DEF Renew, SupTypeOK
<1>6. ASSUME NEW v \in Workers,
             ListDeployments(v) \/ StopDone(v) \/ BeginRenewals(v)
      PROVE  Goal
  BY <1>1, <1>6 DEF ListDeployments, StopDone, BeginRenewals, SupTypeOK
<1>7. CASE UNCHANGED <<sup, mine, todo>>
  BY <1>7
<1> QED
  BY <1>2, <1>3, <1>4, <1>5, <1>6, <1>7
  DEF Next, SupervisorStep, WorkerTrouble, EndTick, TickAborts, WorkerCrashes,
      StartFails, WorkerStarts, Heartbeat, GoesStale, TaskEnds, TaskEmits,
      ReconcilerStep, Discover, GetDeployment, MarkStaleDead, Sync,
      ListWorkers, Assign, EndPass, PassAborts, AdminStep, Activate, ReadOwned,
      Release, Released, AdminAborts, Order, Deploy, Drain, LeaseRunsOut,
      DiscoveryChanges, supVars, vars

\* What an operator has still to release, it has read from the rows.
LEMMA ToReleaseIsRead ==
  ASSUME RuntimeTypeOK, [Next]_vars, NEW a \in Admins, NEW p \in Partitions
  PROVE  toRelease'[a][p] \in {0, toRelease[a][p], token[p]}
<1>1. AdmTypeOK
  BY TypeGroups
<1>2. ASSUME NEW b \in Admins, AdminAborts(b) \/ ReadOwned(b)
      PROVE  toRelease'[a][p] \in {0, toRelease[a][p], token[p]}
  BY <1>1, <1>2 DEF AdminAborts, ReadOwned, AdmTypeOK, NoTokens
<1>3. ASSUME NEW b \in Admins, NEW q \in Partitions, Release(b, q)
      PROVE  toRelease'[a][p] \in {0, toRelease[a][p], token[p]}
  BY <1>1, <1>3 DEF Release, AdmTypeOK
<1>4. CASE UNCHANGED toRelease
  BY <1>4
<1> QED
  BY <1>2, <1>3, <1>4
  DEF Next, SupervisorStep, ListDeployments, StopDone, TickRead, BeginRenewals,
      StartPartition, Renew, EndTick, WorkerTrouble, WorkerCrashes, GoesStale,
      TickAborts, StartFails, WorkerStarts, Heartbeat, TaskEnds, TaskEmits,
      ReconcilerStep, Discover, GetDeployment, MarkStaleDead, Sync,
      ListWorkers, Assign, EndPass, PassAborts, AdminStep, Activate, Released,
      Order, Deploy, Drain, LeaseRunsOut, DiscoveryChanges, admVars, vars

LEMMA NextTokensHandedOut ==
  ASSUME RuntimeTypeOK, TokensHandedOut, [Next]_vars PROVE TokensHandedOut'
<1>1. /\ SupTypeOK /\ AdmTypeOK /\ LeaseTypeOK /\ LeaseTypeOK' /\ RuntimeTypeOK'
      /\ \A p \in Partitions : token'[p] >= token[p]
  BY TypeGroups, NextLeaseInv, NextRuntimeTypeOK
<1>2. \A p \in Partitions : token[p] \in Nat /\ token'[p] \in Nat
  BY <1>1 DEF LeaseTypeOK
<1>3. \A p \in Partitions : token'[p] <= MaxToken
  BY TokensBounded
<1>4. ASSUME NEW w \in Workers, NEW x \in tasks'[w]
      PROVE  0 < x.token /\ x.token <= token'[x.part]
  <2>1. CASE \E t \in tasks[w] : t.part = x.part /\ t.token = x.token
    <3>1. PICK t \in tasks[w] : t.part = x.part /\ t.token = x.token
      BY <2>1
    <3>2. t \in Task
      BY <1>1 DEF SupTypeOK
    <3>3. t.part \in Partitions /\ t.token \in Nat
      BY <3>2 DEF Task
    <3> QED
      BY <1>1, <1>2, <3>1, <3>3 DEF TokensHandedOut
  <2>2. CASE \E p \in todo[w] : sup[w] = "start" /\ x = NewTask(w, p)
    <3>1. PICK p \in todo[w] : sup[w] = "start" /\ x = NewTask(w, p)
      BY <2>2
    <3>2. p \in Partitions /\ mine[w][p] \in Nat
      BY <1>1 DEF SupTypeOK
    <3>3. x.part = p /\ x.token = mine[w][p]
      BY <3>1, <3>2, FreshTask
    <3> QED
      BY <1>1, <1>2, <3>1, <3>2, <3>3 DEF TokensHandedOut
  <2> QED
    BY <2>1, <2>2, TaskOrigin
<1>5. ASSUME NEW w \in Workers, NEW p \in Partitions
      PROVE  mine'[w][p] <= token'[p]
  <2>1. mine'[w][p] \in {0, mine[w][p], token[p]}
    BY MineIsRead
  <2>2. mine[w][p] \in Nat /\ mine[w][p] <= token[p]
    BY <1>1 DEF SupTypeOK, TokensHandedOut
  <2> QED
    BY <1>1, <1>2, <2>1, <2>2
<1>6. ASSUME NEW w \in Workers, sup'[w] = "start", NEW p \in todo'[w]
      PROVE  mine'[w][p] > 0
  BY <1>6, MineIsRead DEF TokensHandedOut
<1>7. ASSUME NEW a \in Admins, NEW p \in Partitions
      PROVE  toRelease'[a][p] <= token'[p]
  <2>1. toRelease'[a][p] \in {0, toRelease[a][p], token[p]}
    BY ToReleaseIsRead
  <2>2. toRelease[a][p] \in Nat /\ toRelease[a][p] <= token[p]
    BY <1>1 DEF AdmTypeOK, TokensHandedOut
  <2> QED
    BY <1>1, <1>2, <2>1, <2>2
<1> QED
  BY <1>3, <1>4, <1>5, <1>6, <1>7 DEF TokensHandedOut

LEMMA NextDroppedAreFenced ==
  ASSUME RuntimeTypeOK, TokensHandedOut, DroppedAreFenced, [Next]_vars
  PROVE  DroppedAreFenced'
<1> SUFFICES ASSUME NEW w \in Workers, NEW x \in tasks'[w], x.state = "dropped",
                    Holds(x.part, w, x.token)'
             PROVE  FALSE
  BY DEF DroppedAreFenced, Holds
<1>1. SupTypeOK
  BY TypeGroups
<1>2. CASE \E t \in tasks[w] :
             /\ t.part = x.part /\ t.token = x.token
             /\ t.state = "dropped" \/ ~Holds(t.part, w, t.token)
  <2>1. PICK t \in tasks[w] :
               /\ t.part = x.part /\ t.token = x.token
               /\ t.state = "dropped" \/ ~Holds(t.part, w, t.token)
    BY <1>2
  <2>2. ~Holds(t.part, w, t.token)
    BY <2>1 DEF DroppedAreFenced
  <2>3. t \in Task
    BY <1>1 DEF SupTypeOK
  <2>4. t.part \in Partitions /\ t.token \in Nat /\ t.token <= token[t.part]
    BY <2>3 DEF Task, TokensHandedOut
  <2>5. Holds(t.part, w, t.token)'
    BY <2>1 DEF Holds
  <2> QED
    BY <2>2, <2>4, <2>5, HoldIsOld
<1>3. CASE \E p \in todo[w] : x = NewTask(w, p)
  BY <1>1, <1>3, FreshTask DEF SupTypeOK
<1> QED
  BY <1>2, <1>3, TaskOrigin

-----------------------------------------------------------------------------
(* No partition is started twice *)

\* A process is starting partitions because its tick has just read the rows,
\* or it was already, with more of them to start.
LEMMA StartingStep ==
  ASSUME RuntimeTypeOK, [Next]_vars, NEW w \in Workers, sup'[w] = "start"
  PROVE  TickRead(w) \/ (sup[w] = "start" /\ todo'[w] \subseteq todo[w])
<1>1. SupTypeOK
  BY TypeGroups
<1> DEFINE Goal == TickRead(w) \/ (sup[w] = "start" /\ todo'[w] \subseteq todo[w])
<1>2. ASSUME NEW v \in Workers,
             \/ LoopIdle(v) \/ TickRead(v) \/ ListDeployments(v) \/ StopDone(v)
             \/ BeginRenewals(v)
             \/ \E p \in Partitions : StartPartition(v, p) \/ Renew(v, p)
      PROVE  Goal
  <2>1. sup' = [sup EXCEPT ![v] = sup'[v]] /\ todo' = [todo EXCEPT ![v] = todo'[v]]
    BY <1>1, <1>2
    DEF LoopIdle, TickRead, ListDeployments, StopDone, BeginRenewals,
        StartPartition, Renew, SupTypeOK
  <2>2. CASE v # w
    BY <1>1, <2>1, <2>2 DEF SupTypeOK
  <2>3. CASE v = w
    BY <1>1, <1>2, <2>3
    DEF LoopIdle, ListDeployments, StopDone, BeginRenewals, StartPartition,
        Renew, SupTypeOK
  <2> QED
    BY <2>2, <2>3
<1>3. CASE UNCHANGED <<sup, todo>>
  BY <1>3
<1> QED
  BY <1>2, <1>3
  DEF Next, SupervisorStep, WorkerTrouble, EndTick, TickAborts, WorkerCrashes,
      StartFails, WorkerStarts, Heartbeat, GoesStale, TaskEnds, TaskEmits,
      ReconcilerStep, Discover, GetDeployment, MarkStaleDead, Sync,
      ListWorkers, Assign, EndPass, PassAborts, AdminStep, Activate, ReadOwned,
      Release, Released, AdminAborts, Order, Deploy, Drain, LeaseRunsOut,
      DiscoveryChanges, supVars, vars

LEMMA NextNotYetStarted ==
  ASSUME RuntimeTypeOK, NotYetStarted, [Next]_vars PROVE NotYetStarted'
<1> SUFFICES ASSUME NEW w \in Workers, sup'[w] = "start", NEW x \in tasks'[w],
                    x.state # "dropped", x.part \in todo'[w]
             PROVE  FALSE
  BY DEF NotYetStarted, TrackedParts, Tracked
<1>1. SupTypeOK
  BY TypeGroups
<1>2. CASE TickRead(w)
  <2>1. \A t \in tasks[w] : \/ Reaped(w, t).state = "dropped"
                            \/ Reaped(w, t) = t /\ Kept(w, t)
    BY <1>1, DroppedTask DEF SupTypeOK, Reaped
  <2>2. x \in Tracked(w) /\ Kept(w, x)
    BY <1>1, <1>2, <2>1 DEF TickRead, SupTypeOK, Tracked
  <2> QED
    BY <1>1, <1>2, <2>2 DEF TickRead, SupTypeOK
<1>3. CASE sup[w] = "start" /\ todo'[w] \subseteq todo[w]
  <2>1. \A t \in tasks[w] : t.state # "dropped" => t.part \notin todo[w]
    BY <1>3 DEF NotYetStarted, TrackedParts, Tracked
  <2>2. ASSUME NEW p \in todo[w], x = NewTask(w, p), p \notin todo'[w]
        PROVE  FALSE
    BY <1>1, <2>2, FreshTask DEF SupTypeOK
  <2> QED
    BY <1>3, <2>1, <2>2, TaskOrigin
<1> QED
  BY <1>2, <1>3, StartingStep

\* A step that maps the tracked tasks of a process to tasks of the same
\* partitions leaves at most one of each.
LEMMA MappedTasks ==
  ASSUME OneTrackedTask, NEW w \in Workers, NEW f,
         \A x \in tasks'[w] : x.state # "dropped" =>
            \E t \in Tracked(w) : x = f[t] /\ x.part = t.part
  PROVE  \A x, y \in Tracked(w)' : x.part = y.part => x = y
  BY DEF OneTrackedTask, Tracked

LEMMA NextOneTrackedTask ==
  ASSUME RuntimeTypeOK, NotYetStarted, OneTrackedTask, [Next]_vars
  PROVE  OneTrackedTask'
<1> SUFFICES ASSUME NEW w \in Workers
             PROVE  \A x, y \in Tracked(w)' : x.part = y.part => x = y
  BY DEF OneTrackedTask
<1> DEFINE Goal == \A x, y \in Tracked(w)' : x.part = y.part => x = y
<1>1. SupTypeOK
  BY TypeGroups
<1>2. CASE \A x \in tasks'[w] : x.state # "dropped" => x \in tasks[w]
  BY <1>2 DEF OneTrackedTask, Tracked
<1>3. ASSUME NEW v \in Workers, ListDeployments(v) PROVE Goal
  <2> DEFINE f == [t \in tasks[w] |-> Told(t)]
  <2>1. CASE tasks'[w] = tasks[w]
    BY <1>2, <2>1
  <2>2. CASE v = w /\ tasks' = [tasks EXCEPT ![w] = {Told(t) : t \in @}]
    <3>1. \A t \in tasks[w] : /\ f[t].part = t.part
                              /\ f[t].state = "dropped" <=> t.state = "dropped"
      BY <1>1, ToldTask DEF SupTypeOK
    <3>2. \A x \in tasks'[w] : \E t \in tasks[w] : x = f[t]
      BY <1>1, <2>2 DEF SupTypeOK
    <3> HIDE DEF f
    <3>3. \A x \in tasks'[w] : x.state # "dropped" =>
             \E t \in Tracked(w) : x = f[t] /\ x.part = t.part
      BY <3>1, <3>2 DEF Tracked
    <3> QED
      BY <3>3, MappedTasks
  <2> QED
    BY <1>1, <1>3, <2>1, <2>2 DEF ListDeployments, SupTypeOK
<1>4. ASSUME NEW v \in Workers, TickRead(v) PROVE Goal
  <2>1. \A t \in tasks[w] : Reaped(w, t).state = "dropped" \/ Reaped(w, t) = t
    BY <1>1, DroppedTask DEF SupTypeOK, Reaped
  <2> QED
    BY <1>1, <1>2, <1>4, <2>1 DEF TickRead, SupTypeOK, Tracked
<1>5. ASSUME NEW v \in Workers, NEW p \in Partitions,
             StartPartition(v, p) \/ StartFails(v, p)
      PROVE  Goal
  <2>1. CASE v # w
    BY <1>1, <1>2, <1>5, <2>1 DEF StartPartition, StartFails, SupTypeOK
  <2>2. CASE v = w
    <3>1. NewTask(w, p).part = p
      BY <1>1, FreshTask DEF SupTypeOK
    <3>2. tasks'[w] = tasks[w] \cup {NewTask(w, p)}
      BY <1>1, <1>5, <2>2 DEF StartPartition, StartFails, SupTypeOK
    <3>3. \A t \in Tracked(w) : t.part # p
      BY <1>5, <2>2 DEF StartPartition, StartFails, NotYetStarted, TrackedParts
    <3> QED
      BY <3>1, <3>2, <3>3 DEF OneTrackedTask, Tracked
  <2> QED
    BY <2>1, <2>2
<1>6. ASSUME NEW v \in Workers, NEW p \in Partitions, Renew(v, p) PROVE Goal
  <2> DEFINE f == [t \in tasks[w] |->
                     IF /\ t.part = p /\ t.state # "dropped"
                        /\ ~MayEmit(p, w, t.token) THEN Told(t) ELSE t]
  <2>1. CASE v # w
    BY <1>1, <1>2, <1>6, <2>1 DEF Renew, SupTypeOK
  <2>2. CASE v = w
    <3>1. \A t \in tasks[w] : /\ f[t].part = t.part
                              /\ f[t].state = "dropped" <=> t.state = "dropped"
      BY <1>1, ToldTask DEF SupTypeOK
    <3>2. \A x \in tasks'[w] : \E t \in tasks[w] : x = f[t]
      BY <1>1, <1>6, <2>2 DEF Renew, SupTypeOK
    <3> HIDE DEF f
    <3>3. \A x \in tasks'[w] : x.state # "dropped" =>
             \E t \in Tracked(w) : x = f[t] /\ x.part = t.part
      BY <3>1, <3>2 DEF Tracked
    <3> QED
      BY <3>3, MappedTasks
  <2> QED
    BY <2>1, <2>2
<1>7. ASSUME NEW v \in Workers, NEW t \in tasks[v], TaskEnds(v, t) PROVE Goal
  <2> DEFINE f == [x \in tasks[w] |->
                     IF x = t THEN [t EXCEPT !.state = "done"] ELSE x]
  <2>1. CASE v # w
    BY <1>1, <1>2, <1>7, <2>1 DEF TaskEnds, SupTypeOK
  <2>2. CASE v = w
    <3>1. \A x \in tasks[w] : f[x].part = x.part
      BY <1>1, DoneTask DEF SupTypeOK
    <3>2. \A x \in tasks'[w] : x.state # "dropped" =>
             \E y \in tasks[w] : y.state # "dropped" /\ x = f[y]
      BY <1>1, <1>7, <2>2 DEF TaskEnds, SupTypeOK
    <3> HIDE DEF f
    <3>3. \A x \in tasks'[w] : x.state # "dropped" =>
             \E y \in Tracked(w) : x = f[y] /\ x.part = y.part
      BY <3>1, <3>2 DEF Tracked
    <3> QED
      BY <3>3, MappedTasks
  <2> QED
    BY <2>1, <2>2
<1>8. ASSUME NEW v \in Workers, StopDone(v) \/ WorkerCrashes(v) PROVE Goal
  BY <1>1, <1>2, <1>8 DEF StopDone, WorkerCrashes, SupTypeOK
<1>9. CASE UNCHANGED tasks
  BY <1>2, <1>9
<1> QED
  BY <1>3, <1>4, <1>5, <1>6, <1>7, <1>8, <1>9
  DEF Next, SupervisorStep, WorkerTrouble, BeginRenewals, EndTick, TickAborts,
      WorkerStarts, Heartbeat, GoesStale, TaskEmits, ReconcilerStep, Discover,
      GetDeployment, MarkStaleDead, Sync, ListWorkers, Assign, EndPass,
      PassAborts, AdminStep, Activate, ReadOwned, Release, Released,
      AdminAborts, Order, Deploy, Drain, LeaseRunsOut, DiscoveryChanges,
      recVars, admVars, supVars, vars

-----------------------------------------------------------------------------
(* Results *)

LEMMA InitRuntimeInv == Init => RuntimeInv
<1> SUFFICES ASSUME Init PROVE RuntimeInv
  OBVIOUS
<1>1. RuntimeTypeOK
  BY InitRuntimeTypeOK
<1>2. TokensHandedOut
  BY LeaseAssumption DEF Init, LeaseInit, TokensHandedOut, NoTokens
<1>3. StatusTellsOwner
  BY DEF Init, LeaseInit, StatusTellsOwner
<1>4. DroppedAreFenced /\ NotYetStarted /\ OneTrackedTask
  BY DEF Init, DroppedAreFenced, NotYetStarted, OneTrackedTask, Tracked
<1> QED
  BY <1>1, <1>2, <1>3, <1>4 DEF RuntimeInv

LEMMA NextRuntimeInv == RuntimeInv /\ [Next]_vars => RuntimeInv'
  BY NextRuntimeTypeOK, NextTokensHandedOut, NextStatusTellsOwner,
     NextDroppedAreFenced, NextNotYetStarted, NextOneTrackedTask
  DEF RuntimeInv

\* Rows, tasks, ticks and operators stay consistent with one another.
THEOREM RuntimeInvHolds == Spec => []RuntimeInv
  BY InitRuntimeInv, NextRuntimeInv, PTL DEF Spec

\* Every variable keeps its type, under any number of workers and failures.
THEOREM RuntimeTypeCorrect == Spec => []RuntimeTypeOK
<1>1. RuntimeInv => RuntimeTypeOK
  BY DEF RuntimeInv
<1> QED
  BY <1>1, RuntimeInvHolds, PTL

\* Supervisors, reconcilers and operators only do to the lease table what the
\* store is proved to withstand.
THEOREM LeaseStoreImplemented == Spec => ImplementsLeaseStore
<1>1. Init => LeaseInit
  BY DEF Init
<1>2. RuntimeInv /\ [Next]_vars => [LeaseNext]_leaseVars
  BY RuntimeStatement, StatementIsLeaseNext DEF RuntimeInv
<1> QED
  BY <1>1, <1>2, RuntimeInvHolds, PTL DEF Spec, ImplementsLeaseStore, LeaseSpec

\* The runtime keeps what the lease table promises the readers of the outbox.
THEOREM RuntimeImplementsLog == Spec => ImplementsFencedLog
  BY LeaseStoreImplemented, FencedLogImplemented, PTL DEF ImplementsLeaseStore

\* In the runtime as well, owner and token name one tenure, and the writes of
\* an earlier one never come after those of a later one.
THEOREM RuntimeIsFenced == Spec => TenuresDistinct /\ FencedWrites
  BY LeaseStoreImplemented, TenuresAreDistinct, WritesAreFenced, PTL
  DEF ImplementsLeaseStore

\* The status of a row says whether somebody owns it.
THEOREM StatusAlwaysTellsOwner == Spec => []StatusTellsOwner
<1>1. RuntimeInv => StatusTellsOwner
  BY DEF RuntimeInv
<1> QED
  BY <1>1, RuntimeInvHolds, PTL

\* A task that was cancelled and forgotten never writes again.
THEOREM DroppedStayFenced == Spec => []DroppedAreFenced
<1>1. RuntimeInv => DroppedAreFenced
  BY DEF RuntimeInv
<1> QED
  BY <1>1, RuntimeInvHolds, PTL

\* A supervisor tracks at most one task of a partition.
THEOREM TasksTrackedOnce == Spec => []OneTrackedTask
<1>1. RuntimeInv => OneTrackedTask
  BY DEF RuntimeInv
<1> QED
  BY <1>1, RuntimeInvHolds, PTL

\* At most one task of a partition, in all processes, may write: two of
\* different processes do not both hold it, and of one process all but one
\* are forgotten and fenced.
THEOREM OneWriterOnly == Spec => []OneWriter
<1>1. RuntimeInv => OneWriter
  <2> SUFFICES ASSUME RuntimeInv, NEW p \in Partitions,
                      NEW v \in Workers, NEW s \in Running(v),
                      NEW w \in Workers, NEW t \in Running(w),
                      s.part = p, Holds(p, v, s.token),
                      t.part = p, Holds(p, w, t.token)
               PROVE  <<v, s>> = <<w, t>>
    BY DEF OneWriter, Writers
  <2>1. v = w
    BY DEF Holds
  <2>2. s \in Tracked(w) /\ t \in Tracked(w)
    BY <2>1 DEF RuntimeInv, DroppedAreFenced, Running, Tracked
  <2>3. s = t
    BY <2>2 DEF RuntimeInv, OneTrackedTask
  <2> QED
    BY <2>1, <2>3
<1> QED
  BY <1>1, RuntimeInvHolds, PTL
=============================================================================
