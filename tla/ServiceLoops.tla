----------------------------- MODULE ServiceLoops -----------------------------
(***************************************************************************)
(* The loops of the control and worker roles over several runs and several *)
(* deployments (deploy/service.py): a pass takes what it listed one by one *)
(* and in order, an exception ends it, and _forever begins another.        *)
(*                                                                         *)
(* Planning loops run planners and store their plans; visiting loops are   *)
(* the reconciler's and the supervisor's, whose visits to one deployment   *)
(* are the subject of ContinuousRuntime.                                   *)
(***************************************************************************)
EXTENDS Integers, Sequences, FiniteSets

CONSTANTS
  Runs,          \* runs, numbered in the order of created_at and run_id
  Outputs,       \* sequences of <<unit_key, payload_sha256>> the planner of a
                 \* run may yield; one that always raises has none
  PageLimit,     \* runs one pass lists
  Deployments,   \* deployments, numbered in the order of their ids
  Broken,        \* those whose discovery and supervision always raise
  Planners,      \* planning loops
  Visitors,      \* visiting loops
  Listed,        \* the statuses each of them lists
  MaxFaults      \* bound: crashes and failures of the store

Loops == Planners \cup Visitors
Keys == {unit[1] : unit \in UNION {{P[i] : i \in DOMAIN P} : P \in UNION {Outputs[r] : r \in Runs}}}

ASSUME LoopsAssumption ==
  /\ Runs \subseteq Nat /\ Deployments \subseteq Nat /\ Broken \subseteq Deployments
  /\ Planners \cap Visitors = {}
  /\ PageLimit \in Nat \ {0} /\ MaxFaults \in Nat

VARIABLES
  run,         \* status of each run
  plan,        \* its finite_plan_units, by ordinal
  units,       \* its finite_units
  deployment,  \* status of each deployment, "idle" for those no loop lists
  todo,        \* what is left of the pass of each loop
  output,      \* the plan a planning loop holds for the first of its runs, if any
  faults       \* crashes and failures so far

storeVars == <<run, plan, units>>
loopVars == <<todo, output>>
vars == <<storeVars, deployment, loopVars, faults>>

Init ==
  /\ run = [r \in Runs |-> "absent"]
  /\ plan = [r \in Runs |-> <<>>]
  /\ units = [r \in Runs |-> {}]
  /\ deployment = [d \in Deployments |-> "idle"]
  /\ todo = [l \in Loops |-> {}]
  /\ output = [l \in Planners |-> {}]
  /\ faults = 0

-----------------------------------------------------------------------------
(* Passes *)

First(S) == CHOOSE x \in S : \A y \in S : x <= y

Page(S) == {x \in S : Cardinality({y \in S : y < x}) < PageLimit}

BeginPass(l, S) ==
  /\ todo[l] = {} /\ S # {}
  /\ todo' = [todo EXCEPT ![l] = S]

Done(l) == todo' = [todo EXCEPT ![l] = @ \ {First(@)}]

MutLeftOver(l) == todo[l]

\* What is left of a pass that an exception ends: the next one lists again.
LeftOver(l) == {}

Raise(l) == todo' = [todo EXCEPT ![l] = LeftOver(l)]

-----------------------------------------------------------------------------
(* Clients and operators *)

Submit(r) ==
  /\ run[r] = "absent"
  /\ run' = [run EXCEPT ![r] = "pending"]
  /\ UNCHANGED <<plan, units, deployment, loopVars, faults>>

Cancel(r) ==
  /\ run[r] \notin {"absent", "cancelled"}
  /\ run' = [run EXCEPT ![r] = "cancelled"]
  /\ UNCHANGED <<plan, units, deployment, loopVars, faults>>

\* No change of a deployment's status is refused.
Transition(d, s) ==
  /\ deployment[d] # s
  /\ deployment' = [deployment EXCEPT ![d] = s]
  /\ UNCHANGED <<storeVars, loopVars, faults>>

-----------------------------------------------------------------------------
(* Planning *)

ListPending(l) ==
  /\ BeginPass(l, Page({r \in Runs : run[r] = "pending"}))
  /\ UNCHANGED <<storeVars, deployment, output, faults>>

Distinct(P) == \A i, j \in DOMAIN P : P[i][1] = P[j][1] => i = j

\* validate_plan: no unit key comes twice, and what is stored is repeated.
Accepted(P, expected) == Distinct(P) /\ (expected = <<>> \/ P = expected)

\* The run is planned whatever its status has become since it was listed.
RunPlanner(l) ==
  LET r == First(todo[l]) IN
  /\ todo[l] # {} /\ output[l] = {}
  /\ \/ \E P \in Outputs[r] :
          /\ Accepted(P, plan[r])
          /\ output' = [output EXCEPT ![l] = {P}]
          /\ UNCHANGED todo
     \/ /\ Outputs[r] = {} \/ \E P \in Outputs[r] : ~Accepted(P, plan[r])
        /\ Raise(l)
        /\ UNCHANGED output
  /\ UNCHANGED <<storeVars, deployment, faults>>

MutConflict(r, P) == FALSE

\* A row of the run with the same ordinal is stored.
Conflict(r, P) == P # <<>> /\ plan[r] # <<>>

\* One transaction; that the run was not plannable is noticed after it.
Persist(l) ==
  LET r == First(todo[l]) IN
  /\ \E P \in output[l] :
       \/ /\ Conflict(r, P)
          /\ Raise(l)
          /\ UNCHANGED storeVars
       \/ /\ ~Conflict(r, P)
          /\ plan' = [plan EXCEPT ![r] = IF P = <<>> THEN @ ELSE P]
          /\ units' = [units EXCEPT ![r] = @ \cup {P[i][1] : i \in DOMAIN P}]
          /\ run' = [run EXCEPT ![r] = IF @ = "pending" THEN "running" ELSE @]
          /\ IF run[r] = "pending" THEN Done(l) ELSE Raise(l)
  /\ output' = [output EXCEPT ![l] = {}]
  /\ UNCHANGED <<deployment, faults>>

PlannerStep(l) == ListPending(l) \/ RunPlanner(l) \/ Persist(l)

-----------------------------------------------------------------------------
(* Visiting *)

ListDeployments(v) ==
  /\ BeginPass(v, {d \in Deployments : deployment[d] \in Listed[v]})
  /\ UNCHANGED <<storeVars, deployment, output, faults>>

Visit(v, d) ==
  /\ todo[v] # {} /\ d = First(todo[v])
  /\ IF d \in Broken THEN Raise(v) ELSE Done(v)
  /\ UNCHANGED <<storeVars, deployment, output, faults>>

VisitorStep(v) == ListDeployments(v) \/ \E d \in Deployments : Visit(v, d)

-----------------------------------------------------------------------------
\* The store fails, or the process dies and another takes its place.
Fault(l) ==
  /\ faults < MaxFaults
  /\ todo[l] # {}
  /\ faults' = faults + 1
  /\ todo' = [todo EXCEPT ![l] = {}]
  /\ output' = IF l \in Planners THEN [output EXCEPT ![l] = {}] ELSE output
  /\ UNCHANGED <<storeVars, deployment>>

Next ==
  \/ \E r \in Runs : Submit(r) \/ Cancel(r)
  \/ \E d \in Deployments, s \in {"idle", "active", "draining"} : Transition(d, s)
  \/ \E l \in Planners : PlannerStep(l)
  \/ \E v \in Visitors : VisitorStep(v)
  \/ \E l \in Loops : Fault(l)

\* _forever: every loop goes on, whatever a pass has met.
Fairness ==
  /\ \A l \in Planners : WF_vars(PlannerStep(l))
  /\ \A v \in Visitors : WF_vars(VisitorStep(v))

Spec == Init /\ [][Next]_vars /\ Fairness

-----------------------------------------------------------------------------
\* What is stored of a plan is all that one run of the planner yielded, rows
\* and units alike, although two control processes plan the same run at once
\* and their planners do not agree.
PlansWhole ==
  \A r \in Runs :
    /\ plan[r] \in Outputs[r] \cup {<<>>}
    /\ Distinct(plan[r])
    /\ units[r] = {plan[r][i][1] : i \in DOMAIN plan[r]}

Book == INSTANCE PlanBook WITH stage <- run

\* Planning passes that overlap, disagree and die plan a run as one process
\* would in one step: what is stored is one plan, whole, that no later planner
\* changes or adds to, and no run begins to run without.
ImplementsPlanBook == Book!BookSpec

\* No output of the planner will do.
Hopeless(r) == \A P \in Outputs[r] : ~Distinct(P)

\* A pending run does not stay so, unless a run that can never be planned is
\* pending ahead of it.
PlannableRunsPlanned ==
  \A r \in Runs :
    run[r] = "pending" /\ ~Hopeless(r)
      ~> run[r] # "pending" \/ \E q \in Runs : q < r /\ Hopeless(q) /\ run[q] = "pending"

InTheWay(v, d) ==
  {q \in Broken : q <= d /\ deployment[q] \in Listed[v]}

\* A loop visits a deployment again and again, unless it stops listing it or
\* lists one that raises ahead of it.
DeploymentsVisited ==
  \A v \in Visitors, d \in Deployments :
    \/ []<>(deployment[d] \notin Listed[v] \/ InTheWay(v, d) # {})
    \/ []<><<Visit(v, d)>>_vars
=============================================================================
