-------------------------- MODULE ServiceLoopsProofs --------------------------
(***************************************************************************)
(* For any runs, any planners however their outputs vary, and any number   *)
(* of control processes: what is stored of a plan is one output, whole, and *)
(* each run is planned as if in one step (PlanBook).                       *)
(***************************************************************************)
EXTENDS ServiceLoops, WellFoundedInduction, TLAPS

\* A plan in the hands of a planning loop is one its planner yielded for the
\* run the pass has come to, with no key twice.
HeldOK ==
  \A l \in Planners :
    \A P \in output[l] :
      todo[l] # {} /\ P \in Outputs[First(todo[l])] /\ Distinct(P)

Shapes ==
  /\ DOMAIN run = Runs /\ run = [r \in Runs |-> run[r]]
  /\ plan = [r \in Runs |-> plan[r]]
  /\ units = [r \in Runs |-> units[r]]
  /\ todo = [l \in Loops |-> todo[l]]
  /\ output = [l \in Planners |-> output[l]]

PlansInv == Shapes /\ HeldOK /\ PlansWhole

LEMMA InitOK == Init => PlansInv
<1> SUFFICES ASSUME Init PROVE PlansInv
  OBVIOUS
<1>1. Shapes /\ HeldOK
  BY DEF Init, Shapes, HeldOK
<1>2. PlansWhole
  <2>1. DOMAIN <<>> = {}
    OBVIOUS
  <2> QED
    BY <2>1 DEF Init, PlansWhole, Distinct
<1> QED
  BY <1>1, <1>2 DEF PlansInv

\* The loops of the two kinds do not meet, and a step of one leaves what the
\* others hold alone.
LEMMA OwnPass ==
  ASSUME PlansInv, NEW l \in Loops, NEW S,
         todo' = [todo EXCEPT ![l] = S],
         UNCHANGED storeVars,
         IF l \in Planners THEN output' = [output EXCEPT ![l] = {}]
         ELSE output' = output
  PROVE  PlansInv'
<1>0. run' = run /\ plan' = plan /\ units' = units
  BY DEF storeVars
<1>1. Shapes' /\ PlansWhole'
  <2>1. /\ todo = [k \in Loops |-> todo[k]] /\ output = [k \in Planners |-> output[k]]
        /\ DOMAIN run = Runs /\ run = [r \in Runs |-> run[r]]
        /\ plan = [r \in Runs |-> plan[r]] /\ units = [r \in Runs |-> units[r]]
    BY DEF PlansInv, Shapes
  <2>2. todo' = [k \in Loops |-> todo'[k]]
    BY <2>1
  <2>3. output' = [k \in Planners |-> output'[k]]
    <3>1. CASE l \in Planners
      BY <2>1, <3>1
    <3>2. CASE l \notin Planners
      BY <2>1, <3>2
    <3> QED
      BY <3>1, <3>2
  <2>4. Shapes'
    BY <1>0, <2>1, <2>2, <2>3 DEF Shapes
  <2>5. PlansWhole'
    BY <1>0 DEF PlansInv, PlansWhole
  <2> QED
    BY <2>4, <2>5
<1>2. HeldOK'
  <2> SUFFICES ASSUME NEW k \in Planners, NEW P \in output'[k]
               PROVE  todo'[k] # {} /\ P \in Outputs[First(todo'[k])] /\ Distinct(P)
    BY DEF HeldOK
  <2>1. k \in Loops
    BY DEF Loops
  <2>2. k # l /\ output'[k] = output[k]
    BY DEF PlansInv, Shapes
  <2>3. todo'[k] = todo[k]
    BY <2>1, <2>2 DEF PlansInv, Shapes
  <2> QED
    BY <2>2, <2>3 DEF PlansInv, HeldOK
<1> QED
  BY <1>1, <1>2 DEF PlansInv

LEMMA VisitorStepKeeps ==
  ASSUME PlansInv, NEW v \in Visitors, VisitorStep(v) PROVE PlansInv'
<1>1. v \in Loops /\ v \notin Planners
  BY LoopsAssumption DEF Loops
<1>2. PICK S : todo' = [todo EXCEPT ![v] = S]
  BY DEF VisitorStep, ListDeployments, BeginPass, Visit, Raise, Done
<1>3. UNCHANGED storeVars /\ output' = output
  BY DEF VisitorStep, ListDeployments, Visit
<1> QED
  BY <1>1, <1>2, <1>3, OwnPass

LEMMA FaultKeeps ==
  ASSUME PlansInv, NEW l \in Loops, Fault(l) PROVE PlansInv'
  BY OwnPass DEF Fault

LEMMA ListPendingKeeps ==
  ASSUME PlansInv, NEW l \in Planners, ListPending(l) PROVE PlansInv'
<1>1. l \in Loops /\ todo[l] = {} /\ output' = output /\ UNCHANGED storeVars
  BY DEF ListPending, BeginPass, Loops
<1>2. PICK S : todo' = [todo EXCEPT ![l] = S]
  BY DEF ListPending, BeginPass
<1>3. output[l] = {}
  BY <1>1 DEF PlansInv, HeldOK
<1>4. output' = [output EXCEPT ![l] = {}]
  BY <1>1, <1>3 DEF PlansInv, Shapes
<1> QED
  BY <1>1, <1>2, <1>4, OwnPass

LEMMA RunPlannerKeeps ==
  ASSUME PlansInv, NEW l \in Planners, RunPlanner(l) PROVE PlansInv'
<1>1. l \in Loops /\ UNCHANGED storeVars /\ output[l] = {} /\ todo[l] # {}
  BY DEF RunPlanner, Loops
<1>2. CASE Raise(l) /\ output' = output
  <2>1. output' = [output EXCEPT ![l] = {}]
    BY <1>1, <1>2 DEF PlansInv, Shapes
  <2> QED
    BY <1>1, <1>2, <2>1, OwnPass DEF Raise
<1>3. ASSUME NEW P \in Outputs[First(todo[l])], Accepted(P, plan[First(todo[l])]),
             output' = [output EXCEPT ![l] = {P}], todo' = todo
      PROVE  PlansInv'
  <2>1. run' = run /\ plan' = plan /\ units' = units
    BY <1>1 DEF storeVars
  <2>2. Shapes'
    BY <1>3, <2>1 DEF PlansInv, Shapes
  <2>3. PlansWhole'
    BY <2>1 DEF PlansInv, PlansWhole
  <2>4. HeldOK'
    BY <1>1, <1>3 DEF PlansInv, Shapes, HeldOK, Accepted
  <2> QED
    BY <2>2, <2>3, <2>4 DEF PlansInv
<1> QED
  BY <1>2, <1>3 DEF RunPlanner

\* Rows are inserted only where there are none, and all of one output's.
LEMMA PersistKeeps ==
  ASSUME PlansInv, NEW l \in Planners, Persist(l) PROVE PlansInv'
<1> DEFINE r == First(todo[l])
<1>1. PICK P \in output[l] :
        \/ /\ Conflict(r, P)
           /\ Raise(l)
           /\ UNCHANGED storeVars
        \/ /\ ~Conflict(r, P)
           /\ plan' = [plan EXCEPT ![r] = IF P = <<>> THEN @ ELSE P]
           /\ units' = [units EXCEPT ![r] = @ \cup {P[i][1] : i \in DOMAIN P}]
           /\ run' = [run EXCEPT ![r] = IF @ = "pending" THEN "running" ELSE @]
           /\ IF run[r] = "pending" THEN Done(l) ELSE Raise(l)
  BY DEF Persist
<1>2. output' = [output EXCEPT ![l] = {}] /\ l \in Loops
  BY DEF Persist, Loops
<1>3. P \in Outputs[r] /\ Distinct(P)
  BY DEF PlansInv, HeldOK
<1> HIDE DEF r
<1>4. CASE UNCHANGED storeVars /\ Raise(l)
  BY <1>2, <1>4, OwnPass DEF Raise
<1>5. CASE /\ ~Conflict(r, P)
           /\ plan' = [plan EXCEPT ![r] = IF P = <<>> THEN @ ELSE P]
           /\ units' = [units EXCEPT ![r] = @ \cup {P[i][1] : i \in DOMAIN P}]
           /\ run' = [run EXCEPT ![r] = IF @ = "pending" THEN "running" ELSE @]
           /\ Done(l) \/ Raise(l)
  <2>1. PICK S : todo' = [todo EXCEPT ![l] = S]
    BY <1>5 DEF Done, Raise
  <2>2. Shapes'
    BY <1>2, <1>5, <2>1 DEF PlansInv, Shapes
  <2>3. HeldOK'
    <3> SUFFICES ASSUME NEW k \in Planners, NEW Q \in output'[k]
                 PROVE  todo'[k] # {} /\ Q \in Outputs[First(todo'[k])] /\ Distinct(Q)
      BY DEF HeldOK
    <3>1. k # l /\ output'[k] = output[k] /\ k \in Loops
      BY <1>2 DEF PlansInv, Shapes, Loops
    <3>2. todo'[k] = todo[k]
      BY <2>1, <3>1 DEF PlansInv, Shapes
    <3> QED
      BY <3>1, <3>2 DEF PlansInv, HeldOK
  <2>4. PlansWhole'
    <3> SUFFICES ASSUME NEW q \in Runs
                 PROVE  /\ plan'[q] \in Outputs[q] \cup {<<>>}
                        /\ Distinct(plan'[q])
                        /\ units'[q] = {plan'[q][i][1] : i \in DOMAIN plan'[q]}
      BY DEF PlansWhole
    <3>1. /\ plan[q] \in Outputs[q] \cup {<<>>}
          /\ Distinct(plan[q])
          /\ units[q] = {plan[q][i][1] : i \in DOMAIN plan[q]}
      BY DEF PlansInv, PlansWhole
    <3>2. {(<<>>)[i][1] : i \in DOMAIN <<>>} = {}
      OBVIOUS
    <3>3. CASE q # r
      BY <1>5, <3>1, <3>3 DEF PlansInv, Shapes
    <3>4. CASE q = r /\ P = <<>>
      <4>1. plan'[q] = plan[q]
        BY <1>5, <3>4 DEF PlansInv, Shapes
      <4>2. units'[q] = units[q]
        BY <1>5, <3>2, <3>4 DEF PlansInv, Shapes
      <4> QED
        BY <3>1, <4>1, <4>2
    <3>5. CASE q = r /\ P # <<>>
      <4>1. plan[q] = <<>> /\ units[q] = {}
        BY <1>5, <3>1, <3>2, <3>5 DEF Conflict
      <4>2. plan'[q] = P
        BY <1>5, <3>5 DEF PlansInv, Shapes
      <4>3. units'[q] = {P[i][1] : i \in DOMAIN P}
        BY <1>5, <3>5, <4>1 DEF PlansInv, Shapes
      <4> QED
        BY <1>3, <3>5, <4>2, <4>3
    <3> QED
      BY <3>3, <3>4, <3>5
  <2> QED
    BY <2>2, <2>3, <2>4 DEF PlansInv
<1> QED
  BY <1>1, <1>4, <1>5

LEMMA NextKeeps == PlansInv /\ [Next]_vars => PlansInv'
<1> SUFFICES ASSUME PlansInv, [Next]_vars PROVE PlansInv'
  OBVIOUS
<1>1. ASSUME UNCHANGED <<plan, units, loopVars>>,
             run' = run \/ \E r \in Runs, s \in {"pending", "cancelled"} :
                             run' = [run EXCEPT ![r] = s]
      PROVE  PlansInv'
  <2>1. Shapes'
    BY <1>1 DEF PlansInv, Shapes, loopVars
  <2>2. HeldOK' /\ PlansWhole'
    BY <1>1 DEF PlansInv, HeldOK, PlansWhole, loopVars
  <2> QED
    BY <2>1, <2>2 DEF PlansInv
<1>2. CASE \E r \in Runs : Submit(r) \/ Cancel(r)
  BY <1>1, <1>2 DEF Submit, Cancel, loopVars
<1>3. CASE \E d \in Deployments, s \in {"idle", "active", "draining"} : Transition(d, s)
  BY <1>1, <1>3 DEF Transition, loopVars, storeVars
<1>4. CASE \E l \in Planners : PlannerStep(l)
  BY <1>4, ListPendingKeeps, RunPlannerKeeps, PersistKeeps DEF PlannerStep
<1>5. CASE \E v \in Visitors : VisitorStep(v)
  BY <1>5, VisitorStepKeeps
<1>6. CASE \E l \in Loops : Fault(l)
  BY <1>6, FaultKeeps
<1>7. CASE UNCHANGED vars
  BY <1>1, <1>7 DEF vars, storeVars
<1> QED
  BY <1>2, <1>3, <1>4, <1>5, <1>6, <1>7 DEF Next

-----------------------------------------------------------------------------
\* Whatever several control processes plan at once, and however their planners
\* disagree, crash and fail, the rows and the units of a run are all of one
\* output of its planner, without a repeated key.
THEOREM PlansStoredWhole == Spec => []PlansWhole
<1>1. PlansInv => PlansWhole
  BY DEF PlansInv
<1> QED
  BY <1>1, InitOK, NextKeeps, PTL DEF Spec
-----------------------------------------------------------------------------
(* Every step is a step of PlanBook, or none *)

\* A planning loop has only submitted runs before it, and never again is a
\* submitted run absent.
ListedOK ==
  \A l \in Planners : \A r \in todo[l] : r \in Runs /\ run[r] # "absent"

\* Whoever has stored a plan has let the run begin, unless it was cancelled.
BegunOK ==
  \A r \in Runs : plan[r] # <<>> => run[r] \notin {"absent", "pending"}

BookInv == PlansInv /\ ListedOK /\ BegunOK

BookStep == [Book!BookNext]_(Book!bookVars)

Submitted == {r \in Runs : run[r] # "absent"}

\* What a pass comes to first is one of those it has left.
LEMMA FirstIsLeft ==
  ASSUME NEW S \in SUBSET Nat, S # {}
  PROVE  First(S) \in S
<1>1. PICK x \in S : \A y \in S : ~ (<<y, x>> \in OpToRel(<, Nat))
  BY NatLessThanWellFounded, WFMin
<1>2. ASSUME NEW y \in S PROVE x <= y
  <2>1. ~(y < x)
    BY <1>1 DEF OpToRel
  <2> QED
    BY <2>1
<1> QED
  BY <1>2 DEF First

LEMMA FirstIsListed ==
  ASSUME ListedOK, NEW l \in Planners, todo[l] # {}
  PROVE  LET r == First(todo[l]) IN
         r \in todo[l] /\ r \in Runs /\ run[r] # "absent"
<1>1. todo[l] \in SUBSET Nat
  BY LoopsAssumption DEF ListedOK
<1>2. First(todo[l]) \in todo[l]
  BY <1>1, FirstIsLeft
<1> QED
  BY <1>2 DEF ListedOK

\* A step that leaves the runs alone, and gives no planning loop more than it
\* had.
LEMMA StoreSame ==
  ASSUME BookInv, UNCHANGED storeVars,
         \A l \in Planners : todo'[l] \subseteq todo[l] \cup Submitted
  PROVE  ListedOK' /\ BegunOK' /\ BookStep
<1>1. run' = run /\ plan' = plan /\ units' = units
  BY DEF storeVars
<1>2. ListedOK' /\ BegunOK'
  BY <1>1 DEF BookInv, ListedOK, BegunOK, Submitted
<1>3. BookStep
  BY <1>1 DEF BookStep, Book!bookVars
<1> QED
  BY <1>2, <1>3

LEMMA SubmitEnters ==
  ASSUME BookInv, NEW r \in Runs, Submit(r) \/ Cancel(r)
  PROVE  ListedOK' /\ BegunOK' /\ BookStep
<1>1. /\ plan' = plan /\ units' = units /\ todo' = todo
      /\ \/ run[r] = "absent" /\ run' = [run EXCEPT ![r] = "pending"]
         \/ run[r] # "absent" /\ run' = [run EXCEPT ![r] = "cancelled"]
  BY DEF Submit, Cancel, loopVars
<1>2. /\ run'[r] \in {"pending", "cancelled"}
      /\ run'[r] = "pending" => run[r] = "absent"
      /\ \A q \in Runs \ {r} : run'[q] = run[q]
  BY <1>1 DEF BookInv, PlansInv, Shapes
<1>3. ListedOK'
  BY <1>1, <1>2 DEF BookInv, ListedOK
<1>4. BegunOK'
  BY <1>1, <1>2 DEF BookInv, BegunOK
<1>5. Book!Enter(r) \/ Book!Withdraw(r)
  BY <1>1 DEF Book!Enter, Book!Withdraw
<1> QED
  BY <1>3, <1>4, <1>5 DEF BookStep, Book!BookNext

LEMMA ListPendingStutters ==
  ASSUME BookInv, NEW l \in Planners, ListPending(l)
  PROVE  ListedOK' /\ BegunOK' /\ BookStep
<1>1. UNCHANGED storeVars
  BY DEF ListPending
<1>2. \A k \in Planners \ {l} : todo'[k] = todo[k]
  BY DEF ListPending, BeginPass, BookInv, PlansInv, Shapes, Loops
<1>3. todo'[l] \subseteq Submitted
  BY DEF ListPending, BeginPass, Page, BookInv, PlansInv, Shapes, Loops, Submitted
<1>4. \A k \in Planners : todo'[k] \subseteq todo[k] \cup Submitted
  BY <1>2, <1>3
<1> QED
  BY <1>1, <1>4, StoreSame

\* What is stored is a plan of a run that had none, or nothing.
LEMMA PersistAdopts ==
  ASSUME BookInv, NEW l \in Planners, Persist(l)
  PROVE  ListedOK' /\ BegunOK' /\ BookStep
<1> DEFINE r == First(todo[l])
<1>1. PICK P \in output[l] :
        \/ /\ Conflict(r, P)
           /\ Raise(l)
           /\ UNCHANGED storeVars
        \/ /\ ~Conflict(r, P)
           /\ plan' = [plan EXCEPT ![r] = IF P = <<>> THEN @ ELSE P]
           /\ units' = [units EXCEPT ![r] = @ \cup {P[i][1] : i \in DOMAIN P}]
           /\ run' = [run EXCEPT ![r] = IF @ = "pending" THEN "running" ELSE @]
           /\ IF run[r] = "pending" THEN Done(l) ELSE Raise(l)
  BY DEF Persist
<1>2. P \in Outputs[r] /\ Distinct(P) /\ todo[l] # {}
  BY DEF BookInv, PlansInv, HeldOK
<1>3. r \in Runs /\ run[r] # "absent"
  BY <1>2, FirstIsListed DEF BookInv
<1> HIDE DEF r
<1>4. ASSUME NEW k \in Planners PROVE todo'[k] \subseteq todo[k]
  <2>1. todo = [j \in Loops |-> todo[j]] /\ DOMAIN todo = Loops /\ k \in Loops
    BY DEF BookInv, PlansInv, Shapes, Loops
  <2>2. Done(l) \/ Raise(l)
    BY <1>1
  <2> QED
    BY <2>1, <2>2 DEF Raise, Done, LeftOver
<1>5. CASE UNCHANGED storeVars
  <2>1. \A k \in Planners : todo'[k] \subseteq todo[k] \cup Submitted
    BY <1>4
  <2> QED
    BY <1>5, <2>1, StoreSame
<1>6. CASE /\ ~Conflict(r, P)
           /\ plan' = [plan EXCEPT ![r] = IF P = <<>> THEN @ ELSE P]
           /\ units' = [units EXCEPT ![r] = @ \cup {P[i][1] : i \in DOMAIN P}]
           /\ run' = [run EXCEPT ![r] = IF @ = "pending" THEN "running" ELSE @]
  <2>1. /\ run'[r] = IF run[r] = "pending" THEN "running" ELSE run[r]
        /\ plan'[r] = IF P = <<>> THEN plan[r] ELSE P
        /\ \A q \in Runs \ {r} : run'[q] = run[q] /\ plan'[q] = plan[q]
    BY <1>3, <1>6 DEF BookInv, PlansInv, Shapes
  <2>2. ListedOK'
    BY <1>3, <1>4, <2>1 DEF BookInv, ListedOK
  <2>3. BegunOK'
    BY <1>3, <2>1 DEF BookInv, BegunOK
  <2>4. BookStep
    <3>1. /\ DOMAIN plan = Runs /\ plan = [q \in Runs |-> plan[q]]
          /\ DOMAIN units = Runs /\ units = [q \in Runs |-> units[q]]
          /\ DOMAIN run = Runs /\ run = [q \in Runs |-> run[q]]
      BY DEF BookInv, PlansInv, Shapes
    <3>2. units[r] = {plan[r][i][1] : i \in DOMAIN plan[r]}
      BY <1>3 DEF BookInv, PlansInv, PlansWhole
    <3>3. {(<<>>)[i][1] : i \in DOMAIN <<>>} = {}
      OBVIOUS
    <3>4. CASE plan[r] = <<>>
      <4>1. plan' = [plan EXCEPT ![r] = P]
        BY <1>6, <3>4
      <4>2. units' = [units EXCEPT ![r] = Book!UnitKeys(P)]
        BY <1>6, <3>2, <3>3, <3>4 DEF Book!UnitKeys
      <4>3. Book!NoneTwice(P)
        BY <1>2 DEF Book!NoneTwice, Distinct
      <4>4. Book!Adopt(r, P)
        BY <1>3, <1>6, <3>4, <4>1, <4>2, <4>3 DEF Book!Adopt
      <4> QED
        BY <1>2, <1>3, <4>4 DEF BookStep, Book!BookNext
    <3>5. CASE plan[r] # <<>>
      <4>1. P = <<>> /\ run[r] # "pending"
        BY <1>3, <1>6, <3>5 DEF Conflict, BookInv, BegunOK
      <4>2. plan' = plan /\ run' = run
        BY <1>6, <3>1, <4>1
      <4>3. units' = units
        <5>1. {P[i][1] : i \in DOMAIN P} = {}
          BY <3>3, <4>1
        <5>2. units' = [units EXCEPT ![r] = units[r]]
          BY <1>6, <5>1
        <5> QED
          BY <3>1, <5>2
      <4> QED
        BY <4>2, <4>3 DEF BookStep, Book!bookVars
    <3> QED
      BY <3>4, <3>5
  <2> QED
    BY <2>2, <2>3, <2>4
<1> QED
  BY <1>1, <1>5, <1>6

LEMMA OtherLoopsStutter ==
  ASSUME BookInv, NEW l \in Loops,
         \/ l \in Planners /\ RunPlanner(l)
         \/ l \in Visitors /\ VisitorStep(l)
         \/ Fault(l)
  PROVE  ListedOK' /\ BegunOK' /\ BookStep
<1>1. UNCHANGED storeVars
  BY DEF RunPlanner, VisitorStep, ListDeployments, Visit, Fault
<1>2. /\ todo = [k \in Loops |-> todo[k]] /\ DOMAIN todo = Loops
      /\ Planners \subseteq Loops /\ Planners \cap Visitors = {}
  BY LoopsAssumption DEF BookInv, PlansInv, Shapes, Loops
<1>3. ASSUME NEW k \in Planners PROVE todo'[k] \subseteq todo[k]
  <2>1. CASE l \in Planners /\ RunPlanner(l)
    BY <1>2, <2>1 DEF RunPlanner, Raise, LeftOver
  <2>2. CASE l \in Visitors /\ VisitorStep(l)
    <3>1. PICK S : todo' = [todo EXCEPT ![l] = S]
      BY <2>2 DEF VisitorStep, ListDeployments, BeginPass, Visit, Raise, Done
    <3> QED
      BY <1>2, <2>2, <3>1
  <2>3. CASE Fault(l)
    BY <1>2, <2>3 DEF Fault
  <2> QED
    BY <2>1, <2>2, <2>3
<1>4. \A k \in Planners : todo'[k] \subseteq todo[k] \cup Submitted
  BY <1>3
<1> QED
  BY <1>1, <1>4, StoreSame

LEMMA NextBook == BookInv /\ [Next]_vars => BookInv' /\ BookStep
<1> SUFFICES ASSUME BookInv, [Next]_vars PROVE BookInv' /\ BookStep
  OBVIOUS
<1>1. PlansInv'
  BY NextKeeps DEF BookInv
<1>2. ListedOK' /\ BegunOK' /\ BookStep
  <2>1. CASE \E r \in Runs : Submit(r) \/ Cancel(r)
    BY <2>1, SubmitEnters
  <2>2. CASE \E d \in Deployments, s \in {"idle", "active", "draining"} : Transition(d, s)
    <3>1. UNCHANGED storeVars /\ todo' = todo
      BY <2>2 DEF Transition, loopVars
    <3>2. \A k \in Planners : todo'[k] \subseteq todo[k] \cup Submitted
      BY <3>1
    <3> QED
      BY <3>1, <3>2, StoreSame
  <2>3. CASE \E l \in Planners : PlannerStep(l)
    BY <2>3, ListPendingStutters, OtherLoopsStutter, PersistAdopts
    DEF PlannerStep, Loops
  <2>4. CASE \E v \in Visitors : VisitorStep(v)
    BY <2>4, OtherLoopsStutter DEF Loops
  <2>5. CASE \E l \in Loops : Fault(l)
    BY <2>5, OtherLoopsStutter
  <2>6. CASE UNCHANGED vars
    <3>1. UNCHANGED storeVars /\ todo' = todo
      BY <2>6 DEF vars, loopVars
    <3>2. \A k \in Planners : todo'[k] \subseteq todo[k] \cup Submitted
      BY <3>1
    <3> QED
      BY <3>1, <3>2, StoreSame
  <2> QED
    BY <2>1, <2>2, <2>3, <2>4, <2>5, <2>6 DEF Next
<1> QED
  BY <1>1, <1>2 DEF BookInv

LEMMA InitBook == Init => BookInv /\ Book!BookInit
<1> SUFFICES ASSUME Init PROVE BookInv /\ Book!BookInit
  OBVIOUS
<1>1. ListedOK /\ BegunOK
  BY DEF Init, ListedOK, BegunOK, Loops
<1> QED
  BY <1>1, InitOK DEF Init, BookInv, Book!BookInit

\* Planning passes that overlap keep the promise of PlanBook
\* (control/planner.py): a run is planned at most once, in one step; no later
\* planner changes what is stored, and the run begins with it or not at all.
THEOREM PlanBookImplemented == Spec => ImplementsPlanBook
<1>1. BookInv /\ [Next]_vars => [Book!BookNext]_(Book!bookVars)
  BY NextBook DEF BookStep
<1>2. BookInv /\ [Next]_vars => BookInv'
  BY NextBook
<1> QED
  BY <1>1, <1>2, InitBook, PTL DEF Spec, ImplementsPlanBook, Book!BookSpec
=============================================================================
