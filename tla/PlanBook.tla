------------------------------- MODULE PlanBook -------------------------------
(***************************************************************************)
(* What planning promises, without passes, control processes and crashes:  *)
(* a run is planned at most once, in one step that stores the rows and the *)
(* units of one thing its planner yielded and lets the run begin.  Nothing *)
(* else lets it begin, and nothing changes its plan.  Planning nothing     *)
(* stores nothing, so another plan may still follow; and a client may      *)
(* cancel before, after or, as runs are planned all the same, meanwhile.   *)
(***************************************************************************)
EXTENDS Naturals, Sequences

CONSTANTS Runs, Outputs

VARIABLES
  stage,   \* how far each run has come
  plan,    \* its plan, <<>> without one
  units    \* the keys of its units

bookVars == <<stage, plan, units>>

BookInit ==
  /\ stage = [r \in Runs |-> "absent"]
  /\ plan = [r \in Runs |-> <<>>]
  /\ units = [r \in Runs |-> {}]

UnitKeys(P) == {P[i][1] : i \in DOMAIN P}

NoneTwice(P) == \A i, j \in DOMAIN P : P[i][1] = P[j][1] => i = j

Enter(r) ==
  /\ stage[r] = "absent"
  /\ stage' = [stage EXCEPT ![r] = "pending"]
  /\ UNCHANGED <<plan, units>>

Withdraw(r) ==
  /\ stage[r] # "absent"
  /\ stage' = [stage EXCEPT ![r] = "cancelled"]
  /\ UNCHANGED <<plan, units>>

Adopt(r, P) ==
  /\ stage[r] # "absent"
  /\ plan[r] = <<>>
  /\ NoneTwice(P)
  /\ plan' = [plan EXCEPT ![r] = P]
  /\ units' = [units EXCEPT ![r] = UnitKeys(P)]
  /\ stage' = [stage EXCEPT ![r] = IF @ = "pending" THEN "running" ELSE @]

BookNext ==
  \E r \in Runs : Enter(r) \/ Withdraw(r) \/ \E P \in Outputs[r] : Adopt(r, P)

BookSpec == BookInit /\ [][BookNext]_bookVars
=============================================================================
