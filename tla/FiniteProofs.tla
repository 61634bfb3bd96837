----------------------------- MODULE FiniteProofs -----------------------------
(***************************************************************************)
(* Machine-checked proofs about FiniteExecution, for any runs, units,      *)
(* executors and bounds: FiniteInv is inductive, the safety properties     *)
(* follow from it, and the specification implements RunLedger.             *)
(***************************************************************************)
EXTENDS FiniteProperties, TLAPS

\* The types of all variables are preserved by every step.
LEMMA InitTypeOK == Init => TypeOK
  BY PlanAssumption, ProcessAssumption
  DEF Init, TypeOK, Executors, Outcomes

LEMMA NextTypeOK == TypeOK /\ [Next]_vars => TypeOK'
<1> SUFFICES ASSUME TypeOK, [Next]_vars PROVE TypeOK'
  OBVIOUS
<1> USE PlanAssumption, ProcessAssumption, BoundAssumption
<1>1. ASSUME NEW r \in Runs, SubmitRun(r) PROVE TypeOK'
  BY <1>1 DEF TypeOK, SubmitRun, unitVars, execVars, boundVars
<1>2. ASSUME NEW r \in Runs, CancelRun(r) PROVE TypeOK'
  BY <1>2 DEF TypeOK, CancelRun, unitVars, execVars, boundVars, RunFinal
<1>3. ASSUME NEW p \in Planners, NEW r \in Runs, ListPending(p, r) PROVE TypeOK'
  BY <1>3 DEF TypeOK, ListPending, unitVars, execVars, boundVars
<1>4. ASSUME NEW p \in Planners, PlanRefused(p) PROVE TypeOK'
  BY <1>4 DEF TypeOK, PlanRefused, unitVars, execVars, boundVars
<1>5. ASSUME NEW p \in Planners, PersistPlan(p) PROVE TypeOK'
  BY <1>5 DEF TypeOK, PersistPlan, execVars, boundVars
<1>6. ASSUME NEW p \in Planners, PlannerAborts(p) PROVE TypeOK'
  BY <1>6 DEF TypeOK, PlannerAborts, unitVars, execVars
<1>7. ASSUME NEW u \in Units, ClaimLapses(u) PROVE TypeOK'
  BY <1>7 DEF TypeOK, ClaimLapses, execVars, boundVars
<1>8. ASSUME NEW u \in Units, RetryFallsDue(u) PROVE TypeOK'
  BY <1>8 DEF TypeOK, RetryFallsDue, execVars, boundVars
<1>9. ASSUME NEW u \in Units, Requeue(u) PROVE TypeOK'
  BY <1>9 DEF TypeOK, Requeue, execVars
<1>10. ASSUME NEW e \in Executors, NEW S \in SUBSET Units, Take(e, S)
       PROVE TypeOK'
  <2>1. {NewClaim(u) : u \in S} \in SUBSET Claim
    BY DEF TypeOK, NewClaim, NextToken, Claim
  <2>2. QED
    BY <1>10, <2>1 DEF TypeOK, Take, NextToken, boundVars
<1>11. ASSUME NEW e \in Executors, StartHandler(e) PROVE TypeOK'
  BY <1>11 DEF TypeOK, StartHandler, unitVars, boundVars
<1>12. ASSUME NEW e \in Executors, HandlerEnds(e) PROVE TypeOK'
  BY <1>12 DEF TypeOK, HandlerEnds, Recorded, Outcomes, unitVars, boundVars
<1>13. ASSUME NEW e \in Executors, CompleteAttempt(e) PROVE TypeOK'
  <2>1. cur[e] \in Claim
    BY <1>13 DEF CompleteAttempt, TypeOK
  <2>2. rows' \in [Units -> SUBSET [attempt : Nat, outcome : Outcomes]]
    BY <1>13, <2>1 DEF CompleteAttempt, AddRow, TypeOK, Claim
  <2>3. StatusFor(outcome[e]) \in {"succeeded", "failed", "retry_scheduled",
                                  "cancelled"}
    BY DEF TypeOK, Outcomes, StatusFor
  <2>4. status' \in [Units -> {"absent", "ready", "running", "retry_scheduled",
                              "failed"} \cup Final]
    BY <1>13, <2>1, <2>3 DEF CompleteAttempt, TypeOK, Final
  <2>5. QED
    BY <1>13, <2>1, <2>2, <2>4 DEF TypeOK, CompleteAttempt, boundVars
<1>14. ASSUME NEW e \in Executors, CompleteRejected(e) PROVE TypeOK'
  BY <1>14 DEF TypeOK, CompleteRejected, Drop, unitVars, boundVars
<1>15. ASSUME NEW e \in Executors, DeadLetter(e) PROVE TypeOK'
  BY <1>15 DEF TypeOK, DeadLetter, Drop, Final, boundVars
<1>16. ASSUME NEW e \in Executors, CountUnits(e) PROVE TypeOK'
  BY <1>16 DEF TypeOK, CountUnits, Resume, unitVars, boundVars
<1>17. ASSUME NEW e \in Executors, WriteVerdict(e) PROVE TypeOK'
  BY <1>17 DEF TypeOK, WriteVerdict, Verdict, Resume, RunFinal, unitVars,
               boundVars
<1>18. ASSUME NEW e \in Executors, ExecutorAborts(e) PROVE TypeOK'
  BY <1>18 DEF TypeOK, ExecutorAborts, Drop, unitVars
<1>19. CASE UNCHANGED vars
  BY <1>19 DEF TypeOK, vars, unitVars, execVars, boundVars
<1> QED
  BY <1>1, <1>2, <1>3, <1>4, <1>5, <1>6, <1>7, <1>8, <1>9, <1>10, <1>11,
     <1>12, <1>13, <1>14, <1>15, <1>16, <1>17, <1>18, <1>19
  DEF Next, PlannerStep, Work, ClaimUnits, ClaimUnit, Executors

THEOREM TypeCorrect == Spec => []TypeOK
  BY InitTypeOK, NextTypeOK, PTL DEF Spec

-----------------------------------------------------------------------------
(* Who holds which claim *)

LEMMA InitClaimInv == Init => ClaimInv
  BY PlanAssumption, ProcessAssumption
  DEF Init, ClaimInv, ClaimsIssued, ClaimedByHolder, BatchDistinct, FenceOpen,
      BurialOwned, Held, Uncommitted

\* The variables ClaimInv talks about.
claimVars == <<status, token, attempts, claimedBy, pc, batch, cur>>

LEMMA ClaimInvUnchanged == ClaimInv /\ UNCHANGED claimVars => ClaimInv'
  BY DEF claimVars, ClaimInv, ClaimsIssued, ClaimedByHolder, BatchDistinct,
         FenceOpen, BurialOwned, Held, Uncommitted, HoldsToken

LEMMA ClaimInvTake ==
  ASSUME TypeOK, ClaimInv, NEW e \in Executors, NEW S \in SUBSET Units,
         Take(e, S)
  PROVE  ClaimInv'
<1> USE DEF ClaimInv
<1>1. ClaimsIssued'
  BY DEF Take, ClaimsIssued, Held, TypeOK, NewClaim, NextToken, Claim, Claimable
<1>2. ClaimedByHolder'
  BY DEF Take, ClaimsIssued, ClaimedByHolder, Held, Uncommitted, TypeOK,
         NewClaim, NextToken, Claim
<1>3. BatchDistinct'
  BY DEF Take, BatchDistinct, TypeOK, NewClaim, NextToken, Claim
<1>4. FenceOpen'
  BY DEF Take, ClaimsIssued, FenceOpen, Held, Uncommitted, TypeOK, NewClaim,
         NextToken, Claim
<1>5. BurialOwned'
  <2>1. ASSUME NEW f \in Executors, pc'[f] = "bury"
        PROVE  /\ pc[f] = "bury" /\ cur'[f] = cur[f] /\ cur[f] \in Claim
               /\ status[cur[f].unit] = "failed"
               /\ status'[cur[f].unit] = "failed"
               /\ token'[cur[f].unit] = token[cur[f].unit]
    BY <2>1 DEF Take, BurialOwned, TypeOK, Claimable, Claim
  <2>2. \A u \in Units : status'[u] = "failed" => claimedBy'[u] = Nobody
    BY DEF Take, BurialOwned, TypeOK
  <2>3. QED
    BY <2>1, <2>2 DEF BurialOwned, HoldsToken
<1> QED
  BY <1>1, <1>2, <1>3, <1>4, <1>5

LEMMA ClaimInvPersistPlan ==
  ASSUME TypeOK, ClaimInv, NEW p \in Planners, PersistPlan(p)
  PROVE  ClaimInv'
<1> USE PlanAssumption DEF ClaimInv, PersistPlan, execVars
<1>1. ClaimsIssued'
  BY DEF ClaimsIssued, Held, TypeOK, Claim, UnitsOf
<1>2. ClaimedByHolder'
  BY DEF ClaimedByHolder, Uncommitted
<1>3. BatchDistinct'
  BY DEF BatchDistinct
<1>4. FenceOpen'
  BY DEF FenceOpen, Uncommitted, TypeOK, Claim
<1>5. BurialOwned'
  BY DEF BurialOwned, HoldsToken, TypeOK, Claim, UnitsOf
<1> QED
  BY <1>1, <1>2, <1>3, <1>4, <1>5

LEMMA ClaimInvRequeue ==
  ASSUME TypeOK, ClaimInv, NEW u \in Units, Requeue(u)
  PROVE  ClaimInv'
<1> USE DEF ClaimInv, Requeue, execVars
<1>1. ClaimsIssued'
  BY DEF ClaimsIssued, Held, TypeOK, Claim
<1>2. ClaimedByHolder'
  BY DEF ClaimedByHolder, Uncommitted
<1>3. BatchDistinct'
  BY DEF BatchDistinct
<1>4. FenceOpen'
  BY DEF FenceOpen, Uncommitted, TypeOK, Claim
<1>5. BurialOwned'
  BY DEF BurialOwned, HoldsToken, TypeOK, Claim
<1> QED
  BY <1>1, <1>2, <1>3, <1>4, <1>5

\* Steps that only drop claims, or move one from the batch to the hand.
LEMMA ClaimInvDrop ==
  ASSUME TypeOK, ClaimInv, NEW e \in Executors, Drop(e),
         UNCHANGED <<status, token, attempts, claimedBy>>
  PROVE  ClaimInv'
<1> USE DEF ClaimInv, Drop
<1>1. ClaimsIssued'
  BY DEF ClaimsIssued, Held, TypeOK
<1>2. ClaimedByHolder'
  BY DEF ClaimedByHolder, Uncommitted, TypeOK
<1>3. BatchDistinct'
  BY DEF BatchDistinct, TypeOK
<1>4. FenceOpen'
  BY DEF FenceOpen, Uncommitted, TypeOK
<1>5. BurialOwned'
  BY DEF BurialOwned, HoldsToken, TypeOK
<1> QED
  BY <1>1, <1>2, <1>3, <1>4, <1>5

LEMMA ClaimInvStartHandler ==
  ASSUME TypeOK, ClaimInv, NEW e \in Executors, StartHandler(e)
  PROVE  ClaimInv'
<1> USE DEF ClaimInv, StartHandler, unitVars
<1>1. ClaimsIssued'
  BY DEF ClaimsIssued, Held, TypeOK
<1>2. ClaimedByHolder'
  BY DEF ClaimedByHolder, Uncommitted, TypeOK
<1>3. BatchDistinct'
  BY DEF BatchDistinct, TypeOK
<1>4. FenceOpen'
  BY DEF FenceOpen, Uncommitted, TypeOK
<1>5. BurialOwned'
  BY DEF BurialOwned, HoldsToken, TypeOK
<1> QED
  BY <1>1, <1>2, <1>3, <1>4, <1>5

LEMMA ClaimInvHandlerEnds ==
  ASSUME TypeOK, ClaimInv, NEW e \in Executors, HandlerEnds(e)
  PROVE  ClaimInv'
<1> USE DEF ClaimInv, HandlerEnds, unitVars
<1>1. ClaimsIssued'
  BY DEF ClaimsIssued, Held, TypeOK
<1>2. ClaimedByHolder'
  BY DEF ClaimedByHolder, Uncommitted, TypeOK
<1>3. BatchDistinct'
  BY DEF BatchDistinct, TypeOK
<1>4. FenceOpen'
  BY DEF FenceOpen, Uncommitted, TypeOK
<1>5. BurialOwned'
  BY DEF BurialOwned, HoldsToken, TypeOK
<1> QED
  BY <1>1, <1>2, <1>3, <1>4, <1>5

\* When an attempt commits, no other executor holds the unit's current token.
LEMMA ClaimInvCompleteAttempt ==
  ASSUME TypeOK, ClaimInv, NEW e \in Executors, CompleteAttempt(e)
  PROVE  ClaimInv'
<1> USE DEF ClaimInv
<1> DEFINE c == cur[e]
<1>1. /\ c \in Claim /\ token[c.unit] = c.token /\ claimedBy[c.unit] = e
      /\ c \in Uncommitted(e) /\ c \in Held(e)
  BY DEF CompleteAttempt, HoldsToken, TypeOK, ClaimedByHolder, Uncommitted, Held
<1>2. ASSUME NEW f \in Executors, NEW d \in Uncommitted(f)',
             token[d.unit] = d.token
      PROVE  d \in Uncommitted(f) /\ d.unit # c.unit
  BY <1>1, <1>2 DEF CompleteAttempt, Uncommitted, TypeOK, ClaimedByHolder,
                    BatchDistinct
<1>3. ClaimsIssued'
  BY <1>1 DEF CompleteAttempt, ClaimsIssued, Held, TypeOK, StatusFor, Outcomes,
              Claim
<1>4. ClaimedByHolder'
  BY <1>1, <1>2 DEF CompleteAttempt, ClaimedByHolder, TypeOK
<1>5. BatchDistinct'
  BY DEF CompleteAttempt, BatchDistinct, TypeOK
<1>6. FenceOpen'
  BY <1>1, <1>2 DEF CompleteAttempt, FenceOpen, TypeOK
<1>7. BurialOwned'
  <2>1. ASSUME NEW f \in Executors, f # e, pc'[f] = "bury"
        PROVE  /\ pc[f] = "bury" /\ cur'[f] = cur[f] /\ cur[f] \in Claim
               /\ cur[f].unit # c.unit
    BY <1>1, <2>1, ProcessAssumption
    DEF CompleteAttempt, BurialOwned, TypeOK, Claim
  <2>2. ASSUME pc'[e] = "bury"
        PROVE  status'[c.unit] = "failed" /\ cur'[e] = c
    BY <1>1, <2>2
    DEF CompleteAttempt, TypeOK, Claim, StatusFor, Outcomes
  <2>3. \A u \in Units : status'[u] = "failed" => claimedBy'[u] = Nobody
    BY <1>1 DEF CompleteAttempt, BurialOwned, TypeOK, Claim
  <2>4. QED
    BY <1>1, <2>1, <2>2, <2>3
    DEF CompleteAttempt, BurialOwned, HoldsToken, TypeOK, Claim
<1> QED
  BY <1>3, <1>4, <1>5, <1>6, <1>7

LEMMA ClaimInvDeadLetter ==
  ASSUME TypeOK, ClaimInv, NEW e \in Executors, DeadLetter(e)
  PROVE  ClaimInv'
<1> USE DEF ClaimInv
<1>1. /\ HoldsToken(cur[e]) /\ cur[e] \in Claim
      /\ status[cur[e].unit] = "failed"
  BY DEF DeadLetter, BurialOwned, TypeOK
<1>2. ClaimsIssued'
  BY <1>1 DEF DeadLetter, ClaimsIssued, Held, TypeOK, Claim
<1>3. ClaimedByHolder'
  BY <1>1 DEF DeadLetter, ClaimedByHolder, Uncommitted, TypeOK
<1>4. BatchDistinct'
  BY <1>1 DEF DeadLetter, BatchDistinct, TypeOK
<1>5. FenceOpen'
  BY <1>1 DEF DeadLetter, FenceOpen, Uncommitted, TypeOK, Claim
<1>6. BurialOwned'
  BY <1>1 DEF DeadLetter, BurialOwned, HoldsToken, TypeOK, Claim
<1> QED
  BY <1>2, <1>3, <1>4, <1>5, <1>6

\* The finalizer changes no unit and lets go of a committed claim.
LEMMA ClaimInvFinalize ==
  ASSUME TypeOK, ClaimInv, NEW e \in Executors, CountUnits(e) \/ WriteVerdict(e)
  PROVE  ClaimInv'
<1> USE DEF ClaimInv, CountUnits, WriteVerdict, Resume, unitVars
<1>1. ClaimsIssued'
  BY DEF ClaimsIssued, Held, TypeOK
<1>2. ClaimedByHolder'
  BY DEF ClaimedByHolder, Uncommitted, TypeOK
<1>3. BatchDistinct'
  BY DEF BatchDistinct, TypeOK
<1>4. FenceOpen'
  BY DEF FenceOpen, Uncommitted, TypeOK
<1>5. BurialOwned'
  BY DEF BurialOwned, HoldsToken, TypeOK
<1> QED
  BY <1>1, <1>2, <1>3, <1>4, <1>5

LEMMA NextClaimInv == TypeOK /\ ClaimInv /\ [Next]_vars => ClaimInv'
<1> SUFFICES ASSUME TypeOK, ClaimInv, [Next]_vars PROVE ClaimInv'
  OBVIOUS
<1>1. ASSUME NEW e \in Executors, Work(e) \/ ExecutorAborts(e) PROVE ClaimInv'
  <2>1. CASE CompleteRejected(e) \/ ExecutorAborts(e)
    BY <2>1, ClaimInvDrop DEF CompleteRejected, ExecutorAborts, unitVars
  <2> QED
    BY <1>1, <2>1, ClaimInvStartHandler, ClaimInvHandlerEnds,
       ClaimInvCompleteAttempt, ClaimInvDeadLetter, ClaimInvFinalize DEF Work
<1>2. ASSUME NEW e \in Executors, ClaimUnits(e) \/ ClaimUnit(e) PROVE ClaimInv'
  BY <1>2, ClaimInvTake DEF ClaimUnits, ClaimUnit
<1>3. ASSUME NEW p \in Planners, PlannerStep(p) \/ PlannerAborts(p)
      PROVE ClaimInv'
  BY <1>3, ClaimInvPersistPlan, ClaimInvUnchanged
  DEF PlannerStep, ListPending, PlanRefused, PlannerAborts, claimVars, unitVars,
      execVars
<1>4. ASSUME NEW u \in Units, ClaimLapses(u) \/ RetryFallsDue(u) \/ Requeue(u)
      PROVE ClaimInv'
  BY <1>4, ClaimInvRequeue, ClaimInvUnchanged
  DEF ClaimLapses, RetryFallsDue, claimVars, execVars
<1>5. ASSUME NEW r \in Runs, SubmitRun(r) \/ CancelRun(r) PROVE ClaimInv'
  BY <1>5, ClaimInvUnchanged
  DEF SubmitRun, CancelRun, claimVars, unitVars, execVars
<1>6. CASE UNCHANGED vars
  BY <1>6, ClaimInvUnchanged DEF vars, claimVars, unitVars, execVars
<1> QED
  BY <1>1, <1>2, <1>3, <1>4, <1>5, <1>6 DEF Next, Executors

-----------------------------------------------------------------------------
(* Settled units *)

\* The attempt an executor may commit is of a unit that is not settled.
LEMMA CommitOpensUnsettled ==
  ASSUME TypeOK, ClaimInv, NEW e \in Executors, CompleteAttempt(e)
  PROVE  /\ cur[e] \in Claim /\ cur[e] \in Uncommitted(e)
         /\ status[cur[e].unit] \in {"running", "ready"}
         /\ token[cur[e].unit] = cur[e].token
         /\ attempts[cur[e].unit] = cur[e].attempt
  BY DEF CompleteAttempt, HoldsToken, TypeOK, ClaimInv, FenceOpen, Uncommitted,
         ClaimsIssued, Held, Claim

LEMMA SettledStep ==
  ASSUME TypeOK, ClaimInv, [Next]_vars, NEW u \in Units, Settled(u)
  PROVE  status'[u] = status[u] /\ rows'[u] = rows[u]
<1> USE DEF Settled, Final
<1>1. ASSUME NEW e \in Executors, Work(e) \/ ExecutorAborts(e)
      PROVE  status'[u] = status[u] /\ rows'[u] = rows[u]
  <2>1. CASE CompleteAttempt(e)
    BY <2>1, CommitOpensUnsettled DEF CompleteAttempt, TypeOK
  <2>2. CASE DeadLetter(e)
    BY <2>2 DEF DeadLetter, TypeOK, ClaimInv, BurialOwned
  <2> QED
    BY <1>1, <2>1, <2>2
    DEF Work, StartHandler, HandlerEnds, CompleteRejected, CountUnits,
        WriteVerdict, ExecutorAborts, unitVars
<1>2. ASSUME NEW e \in Executors, ClaimUnits(e) \/ ClaimUnit(e)
      PROVE  status'[u] = status[u] /\ rows'[u] = rows[u]
  <2>1. PICK S \in SUBSET Units : Take(e, S)
    BY <1>2 DEF ClaimUnits, ClaimUnit
  <2>2. u \notin S
    BY <2>1 DEF Take, Claimable
  <2> QED
    BY <2>1, <2>2 DEF Take
<1>3. ASSUME NEW p \in Planners, PlannerStep(p) \/ PlannerAborts(p)
      PROVE  status'[u] = status[u] /\ rows'[u] = rows[u]
  BY <1>3
  DEF PlannerStep, PersistPlan, ListPending, PlanRefused, PlannerAborts,
      UnitsOf, unitVars
<1>4. ASSUME NEW v \in Units, ClaimLapses(v) \/ RetryFallsDue(v) \/ Requeue(v)
      PROVE  status'[u] = status[u] /\ rows'[u] = rows[u]
  BY <1>4 DEF ClaimLapses, RetryFallsDue, Requeue, TypeOK
<1>5. ASSUME NEW r \in Runs, SubmitRun(r) \/ CancelRun(r)
      PROVE  status'[u] = status[u] /\ rows'[u] = rows[u]
  BY <1>5 DEF SubmitRun, CancelRun, unitVars
<1>6. CASE UNCHANGED vars
  BY <1>6 DEF vars, unitVars
<1> QED
  BY <1>1, <1>2, <1>3, <1>4, <1>5, <1>6 DEF Next, Executors

\* A unit whose outcome is final keeps it, and its history, for ever: no stale
\* or duplicate execution gets past the fence.
THEOREM SettledForeverHolds == Spec => SettledForever
<1>1. TypeOK /\ ClaimInv /\ [Next]_vars
      => [\A u \in Units :
            Settled(u) => status'[u] = status[u] /\ rows'[u] = rows[u]]_vars
  BY SettledStep
<1> QED
  BY <1>1, InitTypeOK, NextTypeOK, InitClaimInv, NextClaimInv, PTL
  DEF Spec, SettledForever

-----------------------------------------------------------------------------
(* The attempt history *)

LEMMA InitHistoryInv == Init => HistoryInv
  BY DEF Init, HistoryInv, AttemptsAgree, Uncommitted

\* Steps that hand out no claim and touch no unit row keep the history.
LEMMA HistoryInvFewerClaims ==
  ASSUME HistoryInv, UNCHANGED <<rows, attempts, token>>,
         \A u \in Units : (status[u] = "succeeded") <=> (status'[u] = "succeeded"),
         \A e \in Executors : Uncommitted(e)' \subseteq Uncommitted(e)
  PROVE  HistoryInv'
  BY DEF HistoryInv, AttemptsAgree

LEMMA HistoryInvTake ==
  ASSUME TypeOK, ClaimInv, HistoryInv, NEW e \in Executors,
         NEW S \in SUBSET Units, Take(e, S)
  PROVE  HistoryInv'
<1>1. \A u \in S : status[u] # "succeeded"
  BY DEF Take, Claimable
<1>2. AttemptsAgree'
  BY <1>1 DEF Take, HistoryInv, AttemptsAgree, TypeOK
<1>3. \A u \in Units : \A w \in rows'[u] : w.attempt <= attempts'[u]
  BY DEF Take, HistoryInv, TypeOK
<1>4. ASSUME NEW f \in Executors, NEW c \in Uncommitted(f)',
             token'[c.unit] = c.token, NEW w \in rows'[c.unit]
      PROVE  w.attempt < c.attempt
  <2>1. CASE f = e
    BY <1>4, <2>1
    DEF Take, Uncommitted, NewClaim, NextToken, HistoryInv, TypeOK
  <2>2. CASE f # e
    <3>1. c \in Uncommitted(f) /\ c \in Held(f) /\ c \in Claim
      BY <1>4, <2>2 DEF Take, Uncommitted, Held, TypeOK
    <3>2. c.unit \notin S
      BY <1>4, <3>1 DEF Take, ClaimInv, ClaimsIssued, TypeOK, NextToken, Claim
    <3> QED
      BY <1>4, <3>1, <3>2 DEF Take, HistoryInv, Claim
  <2> QED
    BY <2>1, <2>2
<1> QED
  BY <1>2, <1>3, <1>4 DEF HistoryInv

LEMMA HistoryInvCompleteAttempt ==
  ASSUME TypeOK, ClaimInv, HistoryInv, NEW e \in Executors, CompleteAttempt(e)
  PROVE  HistoryInv'
<1> DEFINE c == cur[e]
           row == [attempt |-> c.attempt, outcome |-> outcome[e]]
<1>1. /\ c \in Claim /\ c \in Uncommitted(e)
      /\ status[c.unit] \in {"running", "ready"}
      /\ token[c.unit] = c.token /\ attempts[c.unit] = c.attempt
  BY CommitOpensUnsettled
<1>2. \A w \in rows[c.unit] : w.attempt < c.attempt /\ w.attempt \in Nat
  BY <1>1 DEF HistoryInv, TypeOK, Claim
<1>3. rows' = [rows EXCEPT ![c.unit] = rows[c.unit] \cup {row}]
  <2>1. c.attempt \in Nat
    BY <1>1 DEF Claim
  <2>2. ~ \E w \in rows[c.unit] : w.attempt = c.attempt
    BY <1>2, <2>1
  <2>3. AddRow(c, outcome[e]) = rows[c.unit] \cup {row}
    BY <2>2 DEF AddRow
  <2> QED
    BY <2>3 DEF CompleteAttempt
<1>4. /\ status' = [status EXCEPT ![c.unit] = StatusFor(outcome[e])]
      /\ (StatusFor(outcome[e]) = "succeeded") <=> (outcome[e] = "succeeded")
  BY DEF CompleteAttempt, StatusFor, TypeOK, Outcomes
<1>5. UNCHANGED <<attempts, token>>
  BY DEF CompleteAttempt
<1>6. AttemptsAgree'
  <2>1. ASSUME NEW u \in Units, u # c.unit
        PROVE  rows'[u] = rows[u] /\ status'[u] = status[u]
    BY <1>1, <1>3, <1>4, <2>1 DEF TypeOK, Claim
  <2>2. rows'[c.unit] = rows[c.unit] \cup {row}
    BY <1>1, <1>3 DEF TypeOK, Claim
  <2>3. status'[c.unit] = StatusFor(outcome[e])
    BY <1>1, <1>4 DEF TypeOK, Claim
  <2>4. \A w \in rows[c.unit] : w.outcome # "succeeded"
    BY <1>1 DEF HistoryInv, AttemptsAgree, Claim
  <2>5. \A v, w \in rows'[c.unit] : v.attempt = w.attempt => v = w
    BY <1>1, <1>2, <2>2 DEF HistoryInv, AttemptsAgree, Claim
  <2>6. \A w \in rows'[c.unit] :
          w.outcome = "succeeded" => /\ status'[c.unit] = "succeeded"
                                     /\ w.attempt = attempts'[c.unit]
    BY <1>1, <1>4, <1>5, <2>2, <2>3, <2>4
  <2>7. status'[c.unit] = "succeeded"
        => \E w \in rows'[c.unit] : w.outcome = "succeeded"
    <3>1. row \in rows'[c.unit] /\ row.outcome = outcome[e]
      BY <2>2
    <3> QED
      BY <1>4, <2>3, <3>1
  <2>8. ASSUME NEW u \in Units, u # c.unit
        PROVE  /\ \A v, w \in rows'[u] : v.attempt = w.attempt => v = w
               /\ \A w \in rows'[u] :
                    w.outcome = "succeeded" => /\ status'[u] = "succeeded"
                                               /\ w.attempt = attempts'[u]
               /\ status'[u] = "succeeded"
                  => \E w \in rows'[u] : w.outcome = "succeeded"
    BY <1>5, <2>1, <2>8 DEF HistoryInv, AttemptsAgree
  <2> QED
    BY <2>5, <2>6, <2>7, <2>8 DEF AttemptsAgree
<1>7. \A u \in Units : \A w \in rows'[u] : w.attempt <= attempts'[u]
  BY <1>1, <1>2, <1>3, <1>5 DEF HistoryInv, TypeOK, Claim
<1>8. ASSUME NEW f \in Executors, NEW d \in Uncommitted(f)',
             token'[d.unit] = d.token
      PROVE  d \in Uncommitted(f) /\ d.unit # c.unit
  BY <1>1, <1>8
  DEF CompleteAttempt, Uncommitted, TypeOK, ClaimInv, ClaimedByHolder,
      BatchDistinct
<1>9. ASSUME NEW f \in Executors, NEW d \in Uncommitted(f)',
             token'[d.unit] = d.token, NEW w \in rows'[d.unit]
      PROVE  w.attempt < d.attempt
  <2>1. d \in Uncommitted(f) /\ d.unit # c.unit
    BY <1>8, <1>9
  <2>2. d \in Claim
    BY <2>1 DEF Uncommitted, TypeOK
  <2>3. rows'[d.unit] = rows[d.unit]
    BY <1>1, <1>3, <2>1, <2>2 DEF TypeOK, Claim
  <2> QED
    BY <1>5, <1>9, <2>1, <2>3 DEF HistoryInv
<1> QED
  BY <1>6, <1>7, <1>9 DEF HistoryInv

LEMMA NextHistoryInv ==
  TypeOK /\ ClaimInv /\ HistoryInv /\ [Next]_vars => HistoryInv'
<1> SUFFICES ASSUME TypeOK, ClaimInv, HistoryInv, [Next]_vars PROVE HistoryInv'
  OBVIOUS
<1>1. ASSUME NEW e \in Executors, Work(e) \/ ExecutorAborts(e)
      PROVE  HistoryInv'
  <2>1. CASE CompleteAttempt(e)
    BY <2>1, HistoryInvCompleteAttempt
  <2>2. CASE DeadLetter(e)
    <3>1. \A u \in Units :
            (status[u] = "succeeded") <=> (status'[u] = "succeeded")
      BY <2>2 DEF DeadLetter, ClaimInv, BurialOwned, TypeOK
    <3>2. \A f \in Executors : Uncommitted(f)' \subseteq Uncommitted(f)
      BY <2>2 DEF DeadLetter, Drop, Uncommitted, TypeOK
    <3> QED
      BY <2>2, <3>1, <3>2, HistoryInvFewerClaims DEF DeadLetter
  <2>3. CASE CompleteRejected(e) \/ ExecutorAborts(e)
    <3>1. \A f \in Executors : Uncommitted(f)' \subseteq Uncommitted(f)
      BY <2>3 DEF CompleteRejected, ExecutorAborts, Drop, Uncommitted, TypeOK
    <3> QED
      BY <2>3, <3>1, HistoryInvFewerClaims
      DEF CompleteRejected, ExecutorAborts, unitVars
  <2>4. CASE StartHandler(e) \/ HandlerEnds(e)
    <3>1. \A f \in Executors : Uncommitted(f)' \subseteq Uncommitted(f)
      BY <2>4 DEF StartHandler, HandlerEnds, Uncommitted, TypeOK
    <3> QED
      BY <2>4, <3>1, HistoryInvFewerClaims
      DEF StartHandler, HandlerEnds, unitVars
  <2>5. CASE CountUnits(e) \/ WriteVerdict(e)
    <3>1. \A f \in Executors : Uncommitted(f)' \subseteq Uncommitted(f)
      BY <2>5 DEF CountUnits, WriteVerdict, Resume, Uncommitted, TypeOK
    <3> QED
      BY <2>5, <3>1, HistoryInvFewerClaims
      DEF CountUnits, WriteVerdict, unitVars
  <2> QED
    BY <1>1, <2>1, <2>2, <2>3, <2>4, <2>5 DEF Work
<1>2. ASSUME NEW e \in Executors, ClaimUnits(e) \/ ClaimUnit(e)
      PROVE  HistoryInv'
  BY <1>2, HistoryInvTake DEF ClaimUnits, ClaimUnit
<1>3. ASSUME UNCHANGED <<rows, attempts, token, pc, batch, cur>>,
             \A u \in Units :
               (status[u] = "succeeded") <=> (status'[u] = "succeeded")
      PROVE  HistoryInv'
  BY <1>3, HistoryInvFewerClaims DEF Uncommitted
<1>4. ASSUME NEW p \in Planners, PlannerStep(p) \/ PlannerAborts(p)
      PROVE  HistoryInv'
  BY <1>3, <1>4
  DEF PlannerStep, PersistPlan, ListPending, PlanRefused, PlannerAborts,
      UnitsOf, unitVars, execVars
<1>5. ASSUME NEW u \in Units, ClaimLapses(u) \/ RetryFallsDue(u) \/ Requeue(u)
      PROVE  HistoryInv'
  BY <1>3, <1>5 DEF ClaimLapses, RetryFallsDue, Requeue, execVars, TypeOK
<1>6. ASSUME NEW r \in Runs, SubmitRun(r) \/ CancelRun(r) PROVE HistoryInv'
  BY <1>3, <1>6 DEF SubmitRun, CancelRun, unitVars, execVars
<1>7. CASE UNCHANGED vars
  BY <1>3, <1>7 DEF vars, unitVars, execVars
<1> QED
  BY <1>1, <1>2, <1>4, <1>5, <1>6, <1>7 DEF Next, Executors

-----------------------------------------------------------------------------
(* Verdicts *)

LEMMA InitVerdictInv == Init => VerdictInv
  BY PlanAssumption DEF Init, VerdictInv, VerdictIsJust

\* The unit of a claim in hand is stored, and only PersistPlan stores units.
LEMMA CurrentUnitStored ==
  ASSUME TypeOK, ClaimInv, NEW e \in Executors, pc[e] \notin {"idle", "next"}
  PROVE  cur[e] \in Claim /\ status[cur[e].unit] # "absent"
  BY DEF TypeOK, ClaimInv, ClaimsIssued, Held, Claim

LEMMA StoredStep ==
  ASSUME TypeOK, ClaimInv, [Next]_vars, NEW u \in Units
  PROVE  \/ (status'[u] = "absent") <=> (status[u] = "absent")
         \/ \E p \in Planners : PersistPlan(p)
<1> DEFINE Same == (status'[u] = "absent") <=> (status[u] = "absent")
<1>1. ASSUME NEW e \in Executors, Work(e) \/ ExecutorAborts(e) PROVE Same
  <2>1. CASE CompleteAttempt(e)
    <3>1. StatusFor(outcome[e]) # "absent"
      BY DEF StatusFor, TypeOK, Outcomes
    <3> QED
      BY <2>1, <3>1, CommitOpensUnsettled DEF CompleteAttempt, TypeOK
  <2>2. CASE DeadLetter(e)
    BY <2>2 DEF DeadLetter, TypeOK, ClaimInv, BurialOwned
  <2> QED
    BY <1>1, <2>1, <2>2
    DEF Work, StartHandler, HandlerEnds, CompleteRejected, CountUnits,
        WriteVerdict, ExecutorAborts, unitVars
<1>2. ASSUME NEW e \in Executors, ClaimUnits(e) \/ ClaimUnit(e) PROVE Same
  BY <1>2 DEF ClaimUnits, ClaimUnit, Take, Claimable, TypeOK
<1>3. ASSUME NEW p \in Planners, PlannerStep(p) \/ PlannerAborts(p),
             ~PersistPlan(p)
      PROVE  Same
  BY <1>3 DEF PlannerStep, ListPending, PlanRefused, PlannerAborts, unitVars
<1>4. ASSUME NEW v \in Units, ClaimLapses(v) \/ RetryFallsDue(v) \/ Requeue(v)
      PROVE  Same
  BY <1>4 DEF ClaimLapses, RetryFallsDue, Requeue, TypeOK
<1>5. ASSUME NEW r \in Runs, SubmitRun(r) \/ CancelRun(r) PROVE Same
  BY <1>5 DEF SubmitRun, CancelRun, unitVars
<1>6. CASE UNCHANGED vars
  BY <1>6 DEF vars, unitVars
<1> QED
  BY <1>1, <1>2, <1>3, <1>4, <1>5, <1>6 DEF Next, Executors

\* Units of one run are stored by one transaction.
LEMMA PlanWhole ==
  ASSUME TypeOK, ClaimInv, VerdictInv, [Next]_vars
  PROVE  \A u, v \in Units : RunOf[u] = RunOf[v] /\ status'[u] = "absent"
                             => status'[v] = "absent"
<1>1. CASE \E p \in Planners : PersistPlan(p)
  BY <1>1, PlanAssumption DEF PersistPlan, UnitsOf, VerdictInv, TypeOK
<1>2. CASE ~ \E p \in Planners : PersistPlan(p)
  BY <1>2, StoredStep DEF VerdictInv
<1> QED
  BY <1>1, <1>2

\* An executor about to write a verdict has counted a run whose units are all
\* settled; they stay as they are, so the count cannot go stale.
LEMMA CountStaysTrue ==
  ASSUME TypeOK, ClaimInv, VerdictInv, [Next]_vars, NEW e \in Executors,
         pc'[e] = "verdict"
  PROVE  /\ (\A u \in UnitsOf(RunOf[cur[e].unit]) : Settled(u))'
         /\ (deadSeen[e] <=> Dead(RunOf[cur[e].unit]) # {})'
<1>1. \/ pc[e] = "verdict" /\ cur'[e] = cur[e] /\ deadSeen'[e] = deadSeen[e]
      \/ CountUnits(e)
  <2>1. ASSUME NEW f \in Executors, Work(f) \/ ExecutorAborts(f), ~CountUnits(e)
        PROVE  pc[e] = "verdict" /\ cur'[e] = cur[e] /\ deadSeen'[e] = deadSeen[e]
    <3>1. CASE StartHandler(f)
      BY <3>1 DEF StartHandler, TypeOK
    <3>2. CASE HandlerEnds(f)
      BY <3>2 DEF HandlerEnds, TypeOK
    <3>3. CASE CompleteAttempt(f)
      BY <3>3 DEF CompleteAttempt, TypeOK
    <3>4. CASE CompleteRejected(f) \/ ExecutorAborts(f)
      BY <3>4 DEF CompleteRejected, ExecutorAborts, Drop, TypeOK
    <3>5. CASE DeadLetter(f)
      BY <3>5 DEF DeadLetter, Drop, TypeOK
    <3>6. CASE CountUnits(f)
      BY <2>1, <3>6 DEF CountUnits, Resume, TypeOK
    <3>7. CASE WriteVerdict(f)
      BY <3>7 DEF WriteVerdict, Resume, TypeOK
    <3> QED
      BY <2>1, <3>1, <3>2, <3>3, <3>4, <3>5, <3>6, <3>7 DEF Work
  <2>2. ASSUME NEW f \in Executors, ClaimUnits(f) \/ ClaimUnit(f)
        PROVE  pc[e] = "verdict" /\ cur'[e] = cur[e] /\ deadSeen'[e] = deadSeen[e]
    BY <2>2 DEF ClaimUnits, ClaimUnit, Take, TypeOK
  <2>3. CASE UNCHANGED execVars
    BY <2>3 DEF execVars
  <2> QED
    BY <2>1, <2>2, <2>3
    DEF Next, Executors, PlannerStep, ListPending, PlanRefused, PersistPlan,
        PlannerAborts, ClaimLapses, RetryFallsDue, Requeue, SubmitRun,
        CancelRun, vars
<1>2. /\ \A u \in UnitsOf(RunOf[cur'[e].unit]) : Settled(u)
      /\ deadSeen'[e] <=> (Dead(RunOf[cur'[e].unit]) # {})
  <2>1. CASE pc[e] = "verdict" /\ cur'[e] = cur[e] /\ deadSeen'[e] = deadSeen[e]
    BY <2>1 DEF VerdictInv
  <2>2. CASE CountUnits(e)
    <3>1. /\ cur'[e] = cur[e] /\ Open(RunOf[cur[e].unit]) = {}
          /\ deadSeen'[e] = (Dead(RunOf[cur[e].unit]) # {})
      BY <2>2 DEF CountUnits, Resume, TypeOK
    <3>2. cur[e] \in Claim /\ status[cur[e].unit] # "absent"
      BY <2>2, CurrentUnitStored DEF CountUnits
    <3>3. \A u \in UnitsOf(RunOf[cur[e].unit]) : status[u] # "absent"
      BY <3>2 DEF VerdictInv, UnitsOf, Claim
    <3> QED
      BY <3>1, <3>3 DEF Open
  <2> QED
    BY <1>1, <2>1, <2>2
<1> DEFINE r == RunOf[cur'[e].unit]
<1>3. \A u \in UnitsOf(r) : status'[u] = status[u]
  BY <1>2, SettledStep DEF UnitsOf
<1>4. (\A u \in UnitsOf(RunOf[cur[e].unit]) : Settled(u))'
  BY <1>2, <1>3 DEF Settled, UnitsOf
<1>5. {u \in UnitsOf(r) : status'[u] = "dead_lettered"} = Dead(r)
  BY <1>3 DEF Dead, UnitsOf
<1>6. Dead(RunOf[cur[e].unit])' = Dead(r)
  BY <1>5 DEF Dead, UnitsOf
<1>7. deadSeen'[e] <=> Dead(r) # {}
  BY <1>2
<1> QED
  BY <1>4, <1>6, <1>7

\* A verdict is only ever written by a finalizer, or overruled by a cancel.
LEMMA VerdictWritten ==
  ASSUME TypeOK, [Next]_vars, NEW r \in Runs, run'[r] # run[r],
         run'[r] \in {"succeeded", "failed"}
  PROVE  \E e \in Executors :
           /\ WriteVerdict(e) /\ r = RunOf[cur[e].unit] /\ run[r] = "running"
           /\ run'[r] = IF deadSeen[e] THEN "failed" ELSE "succeeded"
<1>1. ASSUME NEW e \in Executors, Work(e), ~WriteVerdict(e)
      PROVE  run'[r] = run[r]
  BY <1>1
  DEF Work, StartHandler, HandlerEnds, CompleteAttempt, CompleteRejected,
      DeadLetter, CountUnits
<1>2. ASSUME NEW e \in Executors, WriteVerdict(e)
      PROVE  /\ r = RunOf[cur[e].unit] /\ run[r] = "running"
             /\ run'[r] = IF deadSeen[e] THEN "failed" ELSE "succeeded"
  BY <1>2 DEF WriteVerdict, Verdict, TypeOK
<1>3. ASSUME NEW e \in Executors, ExecutorAborts(e) \/ ClaimUnits(e) \/ ClaimUnit(e)
      PROVE  run'[r] = run[r]
  BY <1>3 DEF ExecutorAborts, ClaimUnits, ClaimUnit, Take
<1>4. ASSUME NEW p \in Planners, PlannerStep(p) \/ PlannerAborts(p)
      PROVE  run'[r] = run[r] \/ run'[r] = "running"
  BY <1>4
  DEF PlannerStep, PersistPlan, ListPending, PlanRefused, PlannerAborts, TypeOK
<1>5. ASSUME NEW u \in Units, ClaimLapses(u) \/ RetryFallsDue(u) \/ Requeue(u)
      PROVE  run'[r] = run[r]
  BY <1>5 DEF ClaimLapses, RetryFallsDue, Requeue
<1>6. ASSUME NEW q \in Runs, SubmitRun(q) \/ CancelRun(q)
      PROVE  run'[r] \in {run[r], "pending", "cancelled"}
  BY <1>6 DEF SubmitRun, CancelRun, TypeOK
<1>7. CASE UNCHANGED vars
  BY <1>7 DEF vars
<1>8. \A e \in Executors : ~ ExecutorAborts(e) /\ (Work(e) => WriteVerdict(e))
  BY <1>1, <1>3
<1>9. /\ \A p \in Planners : ~ (PlannerStep(p) \/ PlannerAborts(p))
      /\ \A q \in Runs : ~ (SubmitRun(q) \/ CancelRun(q))
  BY <1>4, <1>6
<1>10. \E e \in Executors : WriteVerdict(e)
  BY <1>3, <1>5, <1>7, <1>8, <1>9 DEF Next, Executors
<1> QED
  BY <1>2, <1>10

LEMMA NextVerdictInv ==
  TypeOK /\ ClaimInv /\ VerdictInv /\ [Next]_vars => VerdictInv'
<1> SUFFICES ASSUME TypeOK, ClaimInv, VerdictInv, [Next]_vars PROVE VerdictInv'
  OBVIOUS
<1>1. ASSUME NEW r \in Runs, run'[r] \in {"succeeded", "failed"}
      PROVE  /\ \A u \in UnitsOf(r) : Settled(u) /\ status'[u] = status[u]
             /\ (run'[r] = "failed") <=> (Dead(r) # {})
  <2>1. CASE run'[r] = run[r]
    <3>1. /\ \A u \in UnitsOf(r) : Settled(u)
          /\ (run[r] = "failed") <=> (Dead(r) # {})
      BY <1>1, <2>1 DEF VerdictInv, VerdictIsJust, Settled, Final, Dead
    <3> QED
      BY <2>1, <3>1, SettledStep DEF UnitsOf
  <2>2. CASE run'[r] # run[r]
    <3>1. PICK e \in Executors :
            /\ WriteVerdict(e) /\ r = RunOf[cur[e].unit]
            /\ run'[r] = IF deadSeen[e] THEN "failed" ELSE "succeeded"
      BY <1>1, <2>2, VerdictWritten
    <3>2. /\ \A u \in UnitsOf(r) : Settled(u)
          /\ deadSeen[e] <=> (Dead(r) # {})
      BY <3>1 DEF WriteVerdict, VerdictInv
    <3> QED
      BY <3>1, <3>2, SettledStep DEF UnitsOf
  <2> QED
    BY <2>1, <2>2
<1>2. VerdictIsJust'
  <2>1. ASSUME NEW r \in Runs, run'[r] = "succeeded"
        PROVE  \A u \in UnitsOf(r) : status'[u] \in {"succeeded", "cancelled"}
    BY <1>1, <2>1 DEF Settled, Final, Dead
  <2>2. ASSUME NEW r \in Runs, run'[r] = "failed"
        PROVE  /\ \A u \in UnitsOf(r) : Settled(u)'
               /\ Dead(r)' # {}
    BY <1>1, <2>2 DEF Settled, Dead
  <2> QED
    BY <2>1, <2>2 DEF VerdictIsJust
<1>3. ASSUME NEW e \in Executors, pc'[e] = "verdict"
      PROVE  /\ (\A u \in UnitsOf(RunOf[cur[e].unit]) : Settled(u))'
             /\ (deadSeen[e] <=> Dead(RunOf[cur[e].unit]) # {})'
  BY <1>3, CountStaysTrue
<1> QED
  BY <1>2, <1>3, PlanWhole DEF VerdictInv

-----------------------------------------------------------------------------
(* Attempts *)

LEMMA InitBoundInv == Init => BoundInv
<1> SUFFICES ASSUME Init PROVE BoundInv
  OBVIOUS
<1>1. \A u \in Units : MaxAttempts[u] \in Nat /\ MaxAttempts[u] > 0
  BY PlanAssumption
<1>2. \A u \in Units : attempts[u] = 0 /\ status[u] = "absent"
  BY DEF Init
<1>3. requeues = 0 /\ \A e \in Executors : pc[e] = "idle"
  BY DEF Init
<1> QED
  BY <1>1, <1>2, <1>3 DEF BoundInv, AttemptsBounded

LEMMA NextBoundInv ==
  TypeOK /\ ClaimInv /\ BoundInv /\ [Next]_vars => BoundInv'
<1> SUFFICES ASSUME TypeOK, ClaimInv, BoundInv, [Next]_vars PROVE BoundInv'
  OBVIOUS
<1> USE PlanAssumption DEF BoundInv, AttemptsBounded
<1>1. ASSUME NEW e \in Executors, CompleteAttempt(e) PROVE BoundInv'
  <2>1. /\ cur[e] \in Claim /\ attempts[cur[e].unit] = cur[e].attempt
        /\ status[cur[e].unit] \in {"running", "ready"}
    BY <1>1, CommitOpensUnsettled
  <2>2. StatusFor(outcome[e]) \notin {"absent", "ready"}
    BY DEF StatusFor, TypeOK, Outcomes
  <2>3. StatusFor(outcome[e]) = "retry_scheduled" => outcome[e] = "retryable"
    BY DEF StatusFor, TypeOK, Outcomes
  <2>4. /\ attempts' = attempts /\ requeues' = requeues
        /\ outcome' = outcome /\ cur' = cur /\ pc[e] = "commit"
        /\ \A u \in Units : u # cur[e].unit => status'[u] = status[u]
        /\ status'[cur[e].unit] = StatusFor(outcome[e])
        /\ \A f \in Executors : pc'[f] = "commit" => pc[f] = "commit"
    BY <1>1, <2>1 DEF CompleteAttempt, TypeOK, Claim, boundVars
  <2>5. \A u \in Units : status'[u] = "retry_scheduled"
                         => attempts[u] < MaxAttempts[u]
    BY <2>1, <2>3, <2>4
  <2>6. \A u \in Units : status'[u] \in {"absent", "ready"}
                         => status'[u] = status[u]
    BY <2>2, <2>4
  <2> QED
    BY <2>4, <2>5, <2>6
<1>2. ASSUME NEW e \in Executors, HandlerEnds(e) PROVE BoundInv'
  BY <1>2
  DEF HandlerEnds, Recorded, RetriesExhausted, TypeOK, Claim, unitVars,
      boundVars
<1>3. ASSUME NEW e \in Executors, DeadLetter(e) PROVE BoundInv'
  BY <1>3 DEF DeadLetter, Drop, TypeOK, Claim, boundVars
<1>4. ASSUME NEW e \in Executors,
             \/ StartHandler(e) \/ CompleteRejected(e) \/ CountUnits(e)
             \/ WriteVerdict(e) \/ ExecutorAborts(e)
      PROVE  BoundInv'
  BY <1>4
  DEF StartHandler, CompleteRejected, CountUnits, WriteVerdict, ExecutorAborts,
      Drop, Resume, TypeOK, unitVars, boundVars
<1>5. ASSUME NEW e \in Executors, ClaimUnits(e) \/ ClaimUnit(e) PROVE BoundInv'
  <2>1. PICK S \in SUBSET Units : Take(e, S)
    BY <1>5 DEF ClaimUnits, ClaimUnit
  <2>2. \A u \in S : attempts[u] < MaxAttempts[u] + requeues
    BY <2>1 DEF Take, Claimable, TypeOK
  <2> QED
    BY <2>1, <2>2 DEF Take, TypeOK, boundVars
<1>6. ASSUME NEW p \in Planners, PersistPlan(p) PROVE BoundInv'
  BY <1>6 DEF PersistPlan, TypeOK, UnitsOf, execVars, boundVars
<1>7. ASSUME NEW u \in Units, Requeue(u) PROVE BoundInv'
  BY <1>7 DEF Requeue, TypeOK, execVars
<1>8. ASSUME UNCHANGED <<status, attempts, requeues, execVars>> PROVE BoundInv'
  BY <1>8 DEF execVars
<1>9. ASSUME NEW p \in Planners, PlannerStep(p) \/ PlannerAborts(p)
      PROVE  BoundInv'
  BY <1>6, <1>8, <1>9
  DEF PlannerStep, ListPending, PlanRefused, PlannerAborts, unitVars, boundVars
<1>10. ASSUME NEW u \in Units, ClaimLapses(u) \/ RetryFallsDue(u) PROVE BoundInv'
  BY <1>8, <1>10 DEF ClaimLapses, RetryFallsDue, boundVars
<1>11. ASSUME NEW r \in Runs, SubmitRun(r) \/ CancelRun(r) PROVE BoundInv'
  BY <1>8, <1>11 DEF SubmitRun, CancelRun, unitVars, boundVars
<1>12. CASE UNCHANGED vars
  BY <1>8, <1>12 DEF vars, unitVars, boundVars
<1> QED
  BY <1>1, <1>2, <1>3, <1>4, <1>5, <1>7, <1>9, <1>10, <1>11, <1>12
  DEF Next, Work, Executors

-----------------------------------------------------------------------------
(* Nothing is left behind *)

LEMMA InitStrandInv == Init => StrandInv
  BY DEF Init, StrandInv, NothingStranded, Uncommitted

\* What has failed is counted, and so is what was done by hand.
LEMMA CountersGrow ==
  ASSUME TypeOK, [Next]_vars
  PROVE  /\ aborts' = 0 => aborts = 0 /\ \A e \in Executors : ~ExecutorAborts(e)
         /\ requeues' = 0 => requeues = 0 /\ \A u \in Units : ~Requeue(u)
<1>1. /\ \A e \in Executors : ExecutorAborts(e) =>
           aborts' = aborts + 1 /\ requeues' = requeues
      /\ \A p \in Planners : PlannerAborts(p) =>
           aborts' = aborts + 1 /\ requeues' = requeues
      /\ \A u \in Units : Requeue(u) =>
           aborts' = aborts /\ requeues' = requeues + 1
  BY DEF ExecutorAborts, PlannerAborts, Requeue
<1>2. \/ aborts' = aborts /\ requeues' = requeues
      \/ \E e \in Executors : ExecutorAborts(e)
      \/ \E p \in Planners : PlannerAborts(p)
      \/ \E u \in Units : Requeue(u)
  <2>1. ASSUME NEW e \in Executors, Work(e)
        PROVE  aborts' = aborts /\ requeues' = requeues
    BY <2>1
    DEF Work, StartHandler, HandlerEnds, CompleteAttempt, CompleteRejected,
        DeadLetter, CountUnits, WriteVerdict, boundVars
  <2>2. ASSUME NEW e \in Executors, ClaimUnits(e) \/ ClaimUnit(e)
        PROVE  aborts' = aborts /\ requeues' = requeues
    BY <2>2 DEF ClaimUnits, ClaimUnit, Take, boundVars
  <2>3. ASSUME NEW p \in Planners, PlannerStep(p)
        PROVE  aborts' = aborts /\ requeues' = requeues
    BY <2>3 DEF PlannerStep, ListPending, PlanRefused, PersistPlan, boundVars
  <2>4. ASSUME NEW u \in Units, ClaimLapses(u) \/ RetryFallsDue(u)
        PROVE  aborts' = aborts /\ requeues' = requeues
    BY <2>4 DEF ClaimLapses, RetryFallsDue, boundVars
  <2>5. ASSUME NEW r \in Runs, SubmitRun(r) \/ CancelRun(r)
        PROVE  aborts' = aborts /\ requeues' = requeues
    BY <2>5 DEF SubmitRun, CancelRun, boundVars
  <2>6. CASE UNCHANGED vars
    BY <2>6 DEF vars, boundVars
  <2> QED
    BY <2>1, <2>2, <2>3, <2>4, <2>5, <2>6 DEF Next, Executors
<1>3. aborts \in Nat /\ requeues \in Nat
  BY DEF TypeOK
<1>4. \A e \in Executors : ExecutorAborts(e) => aborts' # 0
  BY <1>1, <1>3
<1>5. \A u \in Units : Requeue(u) => requeues' # 0
  BY <1>1, <1>3
<1> QED
  BY <1>1, <1>2, <1>3, <1>4, <1>5

\* An executor moves by what it does itself, never by what others do.
LEMMA OthersApart ==
  ASSUME TypeOK, [Next]_vars, NEW e \in Executors, ~Work(e), ~ExecutorAborts(e),
         ~ \E S \in SUBSET Units : Take(e, S)
  PROVE  pc'[e] = pc[e] /\ batch'[e] = batch[e] /\ cur'[e] = cur[e]
<1> DEFINE Same == pc'[e] = pc[e] /\ batch'[e] = batch[e] /\ cur'[e] = cur[e]
<1>1. ASSUME NEW f \in Executors \ {e}, Work(f) PROVE Same
  <2>1. CASE StartHandler(f) \/ HandlerEnds(f)
    BY <2>1 DEF StartHandler, HandlerEnds, TypeOK
  <2>2. CASE CompleteAttempt(f) \/ CompleteRejected(f)
    BY <2>2 DEF CompleteAttempt, CompleteRejected, Drop, TypeOK
  <2>3. CASE DeadLetter(f)
    BY <2>3 DEF DeadLetter, Drop, TypeOK
  <2>4. CASE CountUnits(f)
    BY <2>4 DEF CountUnits, TypeOK
  <2>5. CASE WriteVerdict(f)
    BY <2>5 DEF WriteVerdict, TypeOK
  <2> QED
    BY <1>1, <2>1, <2>2, <2>3, <2>4, <2>5 DEF Work
<1>2. ASSUME NEW f \in Executors \ {e}, ExecutorAborts(f) PROVE Same
  BY <1>2 DEF ExecutorAborts, Drop, TypeOK
<1>3. ASSUME NEW f \in Executors, ClaimUnits(f) \/ ClaimUnit(f) PROVE Same
  <2>1. PICK S \in SUBSET Units : Take(f, S)
    BY <1>3 DEF ClaimUnits, ClaimUnit
  <2> QED
    BY <2>1 DEF Take, TypeOK
<1>4. CASE UNCHANGED execVars
  BY <1>4 DEF execVars
<1> QED
  BY <1>1, <1>2, <1>3, <1>4
  DEF Next, Executors, PlannerStep, ListPending, PlanRefused, PersistPlan,
      PlannerAborts, ClaimLapses, RetryFallsDue, Requeue, SubmitRun, CancelRun, vars

\* What changes the status of a unit.
LEMMA StatusStep ==
  ASSUME TypeOK, ClaimInv, [Next]_vars, NEW u \in Units, status'[u] # status[u]
  PROVE  \/ \E p \in Planners :
              PersistPlan(p) /\ status[u] = "absent" /\ status'[u] = "ready"
         \/ \E e \in Executors : \E S \in SUBSET Units : Take(e, S) /\ u \in S
         \/ \E e \in Executors : CompleteAttempt(e) /\ cur[e].unit = u
         \/ \E e \in Executors : DeadLetter(e) /\ cur[e].unit = u
         \/ Requeue(u)
<1>1. ASSUME NEW e \in Executors, Work(e)
      PROVE  (CompleteAttempt(e) \/ DeadLetter(e)) /\ cur[e].unit = u
  <2>1. CompleteAttempt(e) \/ DeadLetter(e)
    BY <1>1
    DEF Work, StartHandler, HandlerEnds, CompleteRejected, CountUnits,
        WriteVerdict, unitVars
  <2>2. cur[e] \in Claim
    BY <2>1 DEF CompleteAttempt, DeadLetter, TypeOK
  <2> QED
    BY <2>1, <2>2 DEF CompleteAttempt, DeadLetter, TypeOK
<1>2. ASSUME NEW e \in Executors, ClaimUnits(e) \/ ClaimUnit(e)
      PROVE  \E S \in SUBSET Units : Take(e, S) /\ u \in S
  <2>1. PICK S \in SUBSET Units : Take(e, S)
    BY <1>2 DEF ClaimUnits, ClaimUnit
  <2> QED
    BY <2>1 DEF Take
<1>3. ASSUME NEW p \in Planners, PlannerStep(p) \/ PlannerAborts(p)
      PROVE  PersistPlan(p) /\ status[u] = "absent" /\ status'[u] = "ready"
  BY <1>3
  DEF PlannerStep, ListPending, PlanRefused, PersistPlan, PlannerAborts, UnitsOf,
      unitVars
<1>4. ASSUME NEW v \in Units, ClaimLapses(v) \/ RetryFallsDue(v) \/ Requeue(v)
      PROVE  Requeue(u)
  BY <1>4 DEF ClaimLapses, RetryFallsDue, Requeue, TypeOK
<1>5. ASSUME NEW e \in Executors PROVE ~ExecutorAborts(e)
  BY DEF ExecutorAborts, unitVars
<1>6. ASSUME NEW r \in Runs PROVE ~ (SubmitRun(r) \/ CancelRun(r))
  BY DEF SubmitRun, CancelRun, unitVars
<1>7. ~UNCHANGED vars
  BY DEF vars, unitVars
<1> QED
  BY <1>1, <1>2, <1>3, <1>4, <1>5, <1>6, <1>7 DEF Next, Executors

\* What changes the token of a unit.
LEMMA TokenStep ==
  ASSUME TypeOK, [Next]_vars, NEW u \in Units, token'[u] # token[u]
  PROVE  \E e \in Executors : \E S \in SUBSET Units : Take(e, S) /\ u \in S
<1>1. ASSUME NEW e \in Executors PROVE ~Work(e) /\ ~ExecutorAborts(e)
  BY DEF Work, StartHandler, HandlerEnds, CompleteAttempt, CompleteRejected,
         DeadLetter, CountUnits, WriteVerdict, ExecutorAborts, unitVars
<1>2. ASSUME NEW e \in Executors, ClaimUnits(e) \/ ClaimUnit(e)
      PROVE  \E S \in SUBSET Units : Take(e, S) /\ u \in S
  <2>1. PICK S \in SUBSET Units : Take(e, S)
    BY <1>2 DEF ClaimUnits, ClaimUnit
  <2> QED
    BY <2>1 DEF Take
<1>3. ASSUME NEW p \in Planners PROVE ~ (PlannerStep(p) \/ PlannerAborts(p))
  BY DEF PlannerStep, ListPending, PlanRefused, PersistPlan, PlannerAborts,
         unitVars
<1>4. ASSUME NEW v \in Units
      PROVE  ~ (ClaimLapses(v) \/ RetryFallsDue(v) \/ Requeue(v))
  BY DEF ClaimLapses, RetryFallsDue, Requeue
<1>5. ASSUME NEW r \in Runs PROVE ~ (SubmitRun(r) \/ CancelRun(r))
  BY DEF SubmitRun, CancelRun, unitVars
<1>6. ~UNCHANGED vars
  BY DEF vars, unitVars
<1> QED
  BY <1>1, <1>2, <1>3, <1>4, <1>5, <1>6 DEF Next, Executors

\* A failed unit keeps its executor until it is dead-lettered.
LEMMA BuryingStep ==
  ASSUME TypeOK, ClaimInv, [Next]_vars, aborts' = 0,
         NEW u \in Units, status'[u] = "failed",
         status[u] = "failed" => Burying(u)
  PROVE  Burying(u)'
<1>1. CASE status[u] = "failed"
  <2>1. PICK e \in Executors : pc[e] = "bury" /\ cur[e].unit = u
    BY <1>1 DEF Burying
  <2>2. ~DeadLetter(e)
    <3>1. SUFFICES ASSUME DeadLetter(e) PROVE FALSE
      OBVIOUS
    <3>2. cur[e] \in Claim /\ HoldsToken(cur[e])
      BY <2>1 DEF TypeOK, ClaimInv, BurialOwned
    <3>3. status'[u] = "dead_lettered"
      BY <2>1, <3>1, <3>2 DEF DeadLetter, TypeOK
    <3> QED
      BY <3>3
  <2>3. /\ ~Work(e) /\ ~ExecutorAborts(e)
        /\ ~ \E S \in SUBSET Units : Take(e, S)
    BY <2>1, <2>2, CountersGrow
    DEF Work, StartHandler, HandlerEnds, CompleteAttempt, CompleteRejected,
        CountUnits, WriteVerdict, Take
  <2>4. pc'[e] = pc[e] /\ cur'[e] = cur[e]
    BY <2>3, OthersApart
  <2> QED
    BY <2>1, <2>4 DEF Burying
<1>2. CASE status[u] # "failed"
  <2>1. PICK e \in Executors : CompleteAttempt(e) /\ cur[e].unit = u
    <3>1. ASSUME NEW e \in Executors, NEW S \in SUBSET Units, Take(e, S), u \in S
          PROVE  FALSE
      BY <3>1 DEF Take
    <3>2. ASSUME NEW e \in Executors, DeadLetter(e), cur[e].unit = u PROVE FALSE
      BY <1>2, <3>2 DEF DeadLetter, ClaimInv, BurialOwned
    <3>3. ~Requeue(u)
      BY DEF Requeue, TypeOK
    <3> QED
      BY <1>2, <3>1, <3>2, <3>3, StatusStep
  <2>2. cur[e] \in Claim /\ status'[u] = StatusFor(outcome[e])
    BY <2>1 DEF CompleteAttempt, TypeOK
  <2>3. outcome[e] = "permanent"
    BY <2>2 DEF StatusFor, TypeOK, Outcomes
  <2>4. pc'[e] = "bury" /\ cur'[e] = cur[e]
    BY <2>1, <2>3 DEF CompleteAttempt, TypeOK
  <2> QED
    BY <2>1, <2>4 DEF Burying
<1> QED
  BY <1>1, <1>2

\* The last executor to settle a unit of a run counts the units, and goes on to
\* the verdict.
LEMMA CountingStep ==
  ASSUME TypeOK, ClaimInv, [Next]_vars, aborts' = 0,
         NEW r \in Runs, run'[r] = "running", UnitsOf(r) # {},
         \A u \in UnitsOf(r) : Settled(u)',
         run[r] = "running" /\ (\A u \in UnitsOf(r) : Settled(u)) => Counting(r)
  PROVE  Counting(r)'
<1>1. ASSUME NEW p \in Planners, PersistPlan(p) PROVE run'[r] = run[r]
  <2>1. planning[p] # r
    <3>1. SUFFICES ASSUME planning[p] = r PROVE FALSE
      OBVIOUS
    <3>2. PICK u \in UnitsOf(r) : TRUE
      OBVIOUS
    <3>3. status'[u] = "ready"
      BY <1>1, <3>1, <3>2 DEF PersistPlan, UnitsOf
    <3> QED
      BY <3>2, <3>3 DEF Settled, Final
  <2> QED
    BY <1>1, <2>1 DEF PersistPlan, TypeOK
<1>2. run[r] = "running"
  <2>1. ASSUME NEW e \in Executors, Work(e), ~WriteVerdict(e) PROVE run'[r] = run[r]
    BY <2>1
    DEF Work, StartHandler, HandlerEnds, CompleteAttempt, CompleteRejected,
        DeadLetter, CountUnits
  <2>2. ASSUME NEW e \in Executors, WriteVerdict(e) PROVE run[r] = "running"
    BY <2>2 DEF WriteVerdict, Verdict, TypeOK
  <2>3. ASSUME NEW e \in Executors, ExecutorAborts(e) \/ ClaimUnits(e) \/ ClaimUnit(e)
        PROVE  run'[r] = run[r]
    BY <2>3 DEF ExecutorAborts, ClaimUnits, ClaimUnit, Take
  <2>4. ASSUME NEW p \in Planners, PlannerStep(p) \/ PlannerAborts(p)
        PROVE  run'[r] = run[r]
    BY <1>1, <2>4 DEF PlannerStep, ListPending, PlanRefused, PlannerAborts
  <2>5. ASSUME NEW u \in Units, ClaimLapses(u) \/ RetryFallsDue(u) \/ Requeue(u)
        PROVE  run'[r] = run[r]
    BY <2>5 DEF ClaimLapses, RetryFallsDue, Requeue
  <2>6. ASSUME NEW q \in Runs, SubmitRun(q) \/ CancelRun(q) PROVE run'[r] = run[r]
    BY <2>6 DEF SubmitRun, CancelRun, TypeOK
  <2>7. CASE UNCHANGED vars
    BY <2>7 DEF vars
  <2> QED
    BY <2>1, <2>2, <2>3, <2>4, <2>5, <2>6, <2>7 DEF Next, Executors
<1>3. CASE \A u \in UnitsOf(r) : Settled(u)
  <2>1. PICK e \in Executors :
          pc[e] \in {"count", "verdict"} /\ RunOf[cur[e].unit] = r
    BY <1>2, <1>3 DEF Counting
  <2>2. ~WriteVerdict(e)
    BY <1>2, <2>1 DEF WriteVerdict, Verdict, TypeOK
  <2>3. CASE CountUnits(e)
    <3>1. Open(r) = {}
      BY <1>3 DEF Open
    <3>2. pc'[e] = "verdict" /\ cur'[e] = cur[e]
      BY <2>1, <2>3, <3>1 DEF CountUnits, TypeOK
    <3> QED
      BY <2>1, <3>2 DEF Counting
  <2>4. CASE ~CountUnits(e)
    <3>1. /\ ~Work(e) /\ ~ExecutorAborts(e)
          /\ ~ \E S \in SUBSET Units : Take(e, S)
      BY <2>1, <2>2, <2>4, CountersGrow
      DEF Work, StartHandler, HandlerEnds, CompleteAttempt, CompleteRejected,
          DeadLetter, Take
    <3>2. pc'[e] = pc[e] /\ cur'[e] = cur[e]
      BY <3>1, OthersApart
    <3> QED
      BY <2>1, <3>2 DEF Counting
  <2> QED
    BY <2>3, <2>4
<1>4. CASE \E u \in UnitsOf(r) : ~Settled(u)
  <2>1. PICK u \in UnitsOf(r) : ~Settled(u) /\ Settled(u)'
    BY <1>4
  <2>2. u \in Units /\ status'[u] # status[u] /\ status'[u] \in Final
    BY <2>1 DEF UnitsOf, Settled
  <2>3. PICK e \in Executors :
          (CompleteAttempt(e) \/ DeadLetter(e)) /\ cur[e].unit = u
    <3>1. ASSUME NEW e \in Executors, NEW S \in SUBSET Units, Take(e, S), u \in S
          PROVE  FALSE
      BY <2>2, <3>1 DEF Take, Final
    <3>2. ~Requeue(u)
      BY <2>2 DEF Requeue, TypeOK, Final
    <3> QED
      BY <2>2, <3>1, <3>2, StatusStep DEF Final
  <2>4. CASE CompleteAttempt(e)
    <3>1. cur[e] \in Claim /\ status'[u] = StatusFor(outcome[e])
      BY <2>2, <2>3, <2>4 DEF CompleteAttempt, TypeOK
    <3>2. outcome[e] # "permanent"
      BY <2>2, <3>1 DEF StatusFor, TypeOK, Outcomes, Final
    <3>3. pc'[e] = "count" /\ cur'[e] = cur[e]
      BY <2>4, <3>2 DEF CompleteAttempt, TypeOK
    <3> QED
      BY <2>1, <2>3, <3>3 DEF Counting, UnitsOf
  <2>5. CASE DeadLetter(e)
    <3>1. HoldsToken(cur[e])
      BY <2>5 DEF DeadLetter, ClaimInv, BurialOwned
    <3>2. pc'[e] = "count" /\ cur'[e] = cur[e]
      BY <2>5, <3>1 DEF DeadLetter, TypeOK
    <3> QED
      BY <2>1, <2>3, <3>2 DEF Counting, UnitsOf
  <2> QED
    BY <2>3, <2>4, <2>5
<1> QED
  BY <1>3, <1>4

\* Without a requeue the fence refuses nobody, so no loop drops its batch.
LEMMA AttemptingStep ==
  ASSUME TypeOK, ClaimInv, StrandInv, [Next]_vars, aborts' = 0, requeues' = 0,
         NEW u \in Units, status'[u] = "running"
  PROVE  Attempting(u)'
<1>0. /\ aborts = 0 /\ requeues = 0 /\ ~Requeue(u)
      /\ \A e \in Executors : ~ExecutorAborts(e)
  BY CountersGrow
<1>1. CASE status[u] = "running"
  <2>0. PICK e \in Executors : \E c \in Uncommitted(e) : c.unit = u /\ HoldsToken(c)
    BY <1>0, <1>1 DEF StrandInv, NothingStranded, Attempting
  <2>1. PICK c \in Uncommitted(e) : c.unit = u /\ HoldsToken(c)
    BY <2>0
  <2>2. token'[u] = token[u]
    BY <1>1, TokenStep DEF Take, Claimable
  <2>3. c \in Uncommitted(e)'
    <3>1. CASE StartHandler(e)
      BY <2>1, <3>1 DEF StartHandler, Uncommitted, TypeOK
    <3>2. CASE HandlerEnds(e)
      BY <2>1, <3>2 DEF HandlerEnds, Uncommitted, TypeOK
    <3>3. CASE CompleteAttempt(e)
      <4>1. c # cur[e]
        <5>1. SUFFICES ASSUME c = cur[e] PROVE FALSE
          OBVIOUS
        <5>2. status'[u] = StatusFor(outcome[e])
          BY <2>1, <3>3, <5>1 DEF CompleteAttempt, TypeOK
        <5> QED
          BY <5>2 DEF StatusFor, TypeOK, Outcomes
      <4> QED
        BY <2>1, <3>3, <4>1 DEF CompleteAttempt, Uncommitted, TypeOK
    <3>4. ~CompleteRejected(e)
      BY <1>0 DEF CompleteRejected, StrandInv, Uncommitted
    <3>5. CASE DeadLetter(e)
      <4>1. HoldsToken(cur[e]) /\ pc[e] = "bury"
        BY <3>5 DEF DeadLetter, ClaimInv, BurialOwned
      <4>2. batch' = batch /\ c \in batch[e]
        BY <2>1, <3>5, <4>1 DEF DeadLetter, Uncommitted
      <4> QED
        BY <4>2 DEF Uncommitted
    <3>6. CASE CountUnits(e) \/ WriteVerdict(e)
      BY <2>1, <3>6 DEF CountUnits, WriteVerdict, Uncommitted
    <3>7. ~ \E S \in SUBSET Units : Take(e, S)
      BY <2>1 DEF Take, StrandInv, Uncommitted
    <3>8. CASE ~Work(e)
      <4>1. pc'[e] = pc[e] /\ batch'[e] = batch[e] /\ cur'[e] = cur[e]
        BY <1>0, <3>7, <3>8, OthersApart
      <4> QED
        BY <2>1, <4>1 DEF Uncommitted
    <3> QED
      BY <3>1, <3>2, <3>3, <3>4, <3>5, <3>6, <3>8 DEF Work
  <2>4. HoldsToken(c)'
    BY <2>1, <2>2 DEF HoldsToken
  <2> QED
    BY <2>1, <2>3, <2>4 DEF Attempting
<1>2. CASE status[u] # "running"
  <2>1. \E e \in Executors : \E S \in SUBSET Units : Take(e, S) /\ u \in S
    <3>1. ASSUME NEW e \in Executors, CompleteAttempt(e), cur[e].unit = u
          PROVE  FALSE
      <4>1. cur[e] \in Claim /\ status'[u] = StatusFor(outcome[e])
        BY <3>1 DEF CompleteAttempt, TypeOK
      <4> QED
        BY <4>1 DEF StatusFor, TypeOK, Outcomes
    <3>2. ASSUME NEW e \in Executors, DeadLetter(e), cur[e].unit = u
          PROVE  FALSE
      BY <1>2, <3>2 DEF DeadLetter, TypeOK
    <3> QED
      BY <1>0, <1>2, <3>1, <3>2, StatusStep
  <2>2. PICK e \in Executors : \E S \in SUBSET Units : Take(e, S) /\ u \in S
    BY <2>1
  <2>3. PICK c \in batch'[e] : c.unit = u /\ token'[u] = c.token
    <3>1. /\ NewClaim(u) \in batch'[e]
          /\ NewClaim(u).unit = u /\ token'[u] = NewClaim(u).token
      BY <2>2 DEF Take, NewClaim, TypeOK
    <3> QED
      BY <3>1
  <2>4. c \in Uncommitted(e)' /\ HoldsToken(c)'
    BY <2>3 DEF Uncommitted, HoldsToken
  <2> QED
    BY <2>3, <2>4 DEF Attempting
<1> QED
  BY <1>1, <1>2

\* Claims are handed out by Take alone.
LEMMA UncommittedStep ==
  ASSUME TypeOK, [Next]_vars, NEW e \in Executors,
         ~ \E S \in SUBSET Units : Take(e, S)
  PROVE  Uncommitted(e)' \subseteq Uncommitted(e)
<1>1. CASE StartHandler(e) \/ HandlerEnds(e)
  BY <1>1 DEF StartHandler, HandlerEnds, Uncommitted, TypeOK
<1>2. CASE CompleteAttempt(e)
  BY <1>2 DEF CompleteAttempt, Uncommitted, TypeOK
<1>3. CASE CompleteRejected(e) \/ ExecutorAborts(e)
  BY <1>3 DEF CompleteRejected, ExecutorAborts, Drop, Uncommitted, TypeOK
<1>4. CASE DeadLetter(e)
  BY <1>4 DEF DeadLetter, Drop, Uncommitted, TypeOK
<1>5. CASE CountUnits(e) \/ WriteVerdict(e)
  BY <1>5 DEF CountUnits, WriteVerdict, Resume, Uncommitted, TypeOK
<1>6. CASE ~Work(e) /\ ~ExecutorAborts(e)
  BY <1>6, OthersApart DEF Uncommitted
<1> QED
  BY <1>1, <1>2, <1>3, <1>4, <1>5, <1>6 DEF Work

\* Without a requeue every claim that is held is current and its unit running.
LEMMA HeldStaysCurrent ==
  ASSUME TypeOK, ClaimInv, StrandInv, [Next]_vars, requeues' = 0,
         NEW e \in Executors, NEW c \in Uncommitted(e)'
  PROVE  HoldsToken(c)' /\ status'[c.unit] = "running"
<1>0. requeues = 0 /\ \A u \in Units : ~Requeue(u)
  BY CountersGrow
<1>1. CASE \E S \in SUBSET Units : Take(e, S)
  <2>1. PICK S \in SUBSET Units : Take(e, S)
    BY <1>1
  <2>2. PICK u \in S : c = NewClaim(u)
    BY <2>1 DEF Take, Uncommitted, TypeOK
  <2>3. c.unit = u /\ c.token = token'[u] /\ status'[u] = "running"
    BY <2>1, <2>2 DEF Take, NewClaim
  <2> QED
    BY <2>3 DEF HoldsToken
<1>2. CASE ~ \E S \in SUBSET Units : Take(e, S)
  <2>1. c \in Uncommitted(e)
    BY <1>2, UncommittedStep
  <2>2. HoldsToken(c) /\ status[c.unit] = "running"
    BY <1>0, <2>1 DEF StrandInv
  <2>3. c.unit \in Units
    BY <2>1 DEF Uncommitted, TypeOK, Claim
  <2>4. token'[c.unit] = token[c.unit]
    BY <2>2, <2>3, TokenStep DEF Take, Claimable
  <2>5. status'[c.unit] = status[c.unit]
    <3>1. SUFFICES ASSUME status'[c.unit] # status[c.unit] PROVE FALSE
      OBVIOUS
    <3>2. ASSUME NEW f \in Executors, NEW S \in SUBSET Units, Take(f, S),
                 c.unit \in S
          PROVE  FALSE
      BY <2>2, <3>2 DEF Take, Claimable
    <3>3. ASSUME NEW f \in Executors, DeadLetter(f), cur[f].unit = c.unit
          PROVE  FALSE
      BY <2>2, <3>3 DEF DeadLetter, ClaimInv, BurialOwned
    <3>4. PICK f \in Executors : CompleteAttempt(f) /\ cur[f].unit = c.unit
      BY <1>0, <2>2, <2>3, <3>1, <3>2, <3>3, StatusStep
    <3>5. /\ cur[f] \in Uncommitted(f) /\ HoldsToken(cur[f])
          /\ pc[f] = "commit"
      BY <3>4 DEF CompleteAttempt, Uncommitted
    <3>6. claimedBy[c.unit] = f /\ claimedBy[c.unit] = e
      BY <2>1, <2>2, <3>4, <3>5 DEF ClaimInv, ClaimedByHolder, HoldsToken
    <3>7. pc'[e] \in {"bury", "count"} /\ batch'[e] = batch[e]
      BY <3>4, <3>6 DEF CompleteAttempt, TypeOK
    <3>8. c \in batch[e]
      BY <3>7 DEF Uncommitted
    <3> QED
      BY <3>4, <3>5, <3>6, <3>8 DEF ClaimInv, BatchDistinct
  <2>6. HoldsToken(c)'
    BY <2>2, <2>4 DEF HoldsToken
  <2> QED
    BY <2>2, <2>5, <2>6
<1> QED
  BY <1>1, <1>2

\* A loop is idle only when its batch is done or dropped.
LEMMA IdleStep ==
  ASSUME TypeOK, StrandInv, [Next]_vars, NEW e \in Executors, pc'[e] = "idle"
  PROVE  batch'[e] = {}
<1>1. CASE StartHandler(e) \/ HandlerEnds(e) \/ CompleteAttempt(e)
  BY <1>1 DEF StartHandler, HandlerEnds, CompleteAttempt, TypeOK
<1>2. CASE CompleteRejected(e) \/ ExecutorAborts(e)
  BY <1>2 DEF CompleteRejected, ExecutorAborts, Drop, TypeOK
<1>3. CASE DeadLetter(e)
  BY <1>3 DEF DeadLetter, Drop, TypeOK
<1>4. CASE CountUnits(e) \/ WriteVerdict(e)
  BY <1>4 DEF CountUnits, WriteVerdict, Resume, TypeOK
<1>5. ~ \E S \in SUBSET Units : Take(e, S)
  BY DEF Take, TypeOK
<1>6. CASE ~Work(e) /\ ~ExecutorAborts(e)
  BY <1>5, <1>6, OthersApart DEF StrandInv
<1> QED
  BY <1>1, <1>2, <1>3, <1>4, <1>6 DEF Work

LEMMA NextStrandInv == TypeOK /\ ClaimInv /\ StrandInv /\ [Next]_vars => StrandInv'
<1> SUFFICES ASSUME TypeOK, ClaimInv, StrandInv, [Next]_vars PROVE StrandInv'
  OBVIOUS
<1>1. NothingStranded'
  <2> SUFFICES ASSUME aborts' = 0
               PROVE  /\ \A u \in Units : status'[u] = "failed" => Burying(u)'
                      /\ \A r \in Runs :
                           /\ run'[r] = "running"
                           /\ UnitsOf(r) # {} /\ \A u \in UnitsOf(r) : Settled(u)'
                           => Counting(r)'
                      /\ requeues' = 0 =>
                           \A u \in Units : status'[u] = "running" => Attempting(u)'
    BY DEF NothingStranded, UnitsOf
  <2>1. aborts = 0
    BY CountersGrow
  <2>2. ASSUME NEW u \in Units, status'[u] = "failed" PROVE Burying(u)'
    BY <2>1, <2>2, BuryingStep DEF StrandInv, NothingStranded
  <2>3. ASSUME NEW r \in Runs, run'[r] = "running", UnitsOf(r) # {},
               \A u \in UnitsOf(r) : Settled(u)'
        PROVE  Counting(r)'
    BY <2>1, <2>3, CountingStep DEF StrandInv, NothingStranded
  <2>4. ASSUME requeues' = 0, NEW u \in Units, status'[u] = "running"
        PROVE  Attempting(u)'
    BY <2>4, AttemptingStep
  <2> QED
    BY <2>2, <2>3, <2>4
<1>2. ASSUME requeues' = 0, NEW e \in Executors, NEW c \in Uncommitted(e)'
      PROVE  HoldsToken(c)' /\ status'[c.unit] = "running"
  BY <1>2, HeldStaysCurrent
<1>3. \A e \in Executors : pc'[e] = "idle" => batch'[e] = {}
  BY IdleStep
<1> QED
  BY <1>1, <1>2, <1>3 DEF StrandInv

-----------------------------------------------------------------------------
(* The safety properties *)

\* The conjunction of all parts is inductive, so it always holds.
THEOREM FiniteInvHolds == Spec => []FiniteInv
<1>1. Init => FiniteInv
  BY InitTypeOK, InitClaimInv, InitHistoryInv, InitVerdictInv, InitBoundInv,
     InitStrandInv
  DEF FiniteInv
<1>2. FiniteInv /\ [Next]_vars => FiniteInv'
  BY NextTypeOK, NextClaimInv, NextHistoryInv, NextVerdictInv, NextBoundInv,
     NextStrandInv
  DEF FiniteInv
<1> QED
  BY <1>1, <1>2, PTL DEF Spec

\* At most one executor can commit an attempt of a unit at any time.
THEOREM ClaimsExclusive == Spec => []ClaimedByHolder
<1>1. FiniteInv => ClaimedByHolder
  BY DEF FiniteInv, ClaimInv
<1> QED
  BY <1>1, FiniteInvHolds, PTL

\* The attempt history and the unit rows never disagree about a success.
THEOREM HistoryAgrees == Spec => []AttemptsAgree
<1>1. FiniteInv => AttemptsAgree
  BY DEF FiniteInv, HistoryInv
<1> QED
  BY <1>1, FiniteInvHolds, PTL

\* Finalized runs carry the verdict their units call for.
THEOREM VerdictsJust == Spec => []VerdictIsJust
<1>1. FiniteInv => VerdictIsJust
  BY DEF FiniteInv, VerdictInv
<1> QED
  BY <1>1, FiniteInvHolds, PTL

\* No unit is executed more often than max_attempts and requeues allow.
THEOREM AttemptsStayBounded == Spec => []AttemptsBounded
<1>1. FiniteInv => AttemptsBounded
  BY DEF FiniteInv, BoundInv
<1> QED
  BY <1>1, FiniteInvHolds, PTL

\* Without crashes no unit and no run is left to nobody: whatever retries,
\* duplicate wake-ups and cancellations interleave, somebody has the next step of
\* each in hand (worker/finite.py, state/finite.py).
THEOREM NothingIsStranded == Spec => []NothingStranded
<1>1. FiniteInv => NothingStranded
  BY DEF FiniteInv, StrandInv
<1> QED
  BY <1>1, FiniteInvHolds, PTL

-----------------------------------------------------------------------------
(* Refinement: every step of the runtime, seen through the mapping of       *)
(* FiniteProperties, is a step of RunLedger or leaves the ledger as it is.  *)

\* The mapping, named for the proof.
Ending(u) == IF Settled(u) THEN status[u] ELSE "open"
Concluded(r) == IF run[r] \in RunFinal THEN run[r] ELSE "none"

LedgerStep == [Ledger!LedgerNext]_(Ledger!ledgerVars)

LEMMA InitLedger == Init => Ledger!LedgerInit
  BY DEF Init, Ledger!LedgerInit, Settled, Final, RunFinal

\* A step that keeps the attempt counts, and moves units and runs only
\* between statuses that are not final, is invisible.
LEMMA Invisible ==
  ASSUME attempts' = attempts,
         \A u \in Units : Ending(u)' = Ending(u),
         \A r \in Runs : Concluded(r)' = Concluded(r)
  PROVE  LedgerStep
  BY DEF LedgerStep, Ledger!ledgerVars, Ending, Concluded, Settled

\* A claim opens the try of every unit it takes.
LEMMA TakeIsTry ==
  ASSUME TypeOK, NEW e \in Executors, NEW S \in SUBSET Units, Take(e, S)
  PROVE  LedgerStep
<1>1. \A u \in S : ~Settled(u)
  BY DEF Take, Claimable, Settled, Final
<1>2. \A u \in Units : Ending(u)' = Ending(u)
  BY <1>1 DEF Take, Ending, Settled, Final, TypeOK
<1>3. Ledger!Try(S)
  BY <1>1, <1>2 DEF Ledger!Try, Take, Ending, Settled
<1> QED
  BY <1>3 DEF LedgerStep, Ledger!LedgerNext

\* Putting a final status on an open unit that was tried settles it.
LEMMA FinalStatusSettles ==
  ASSUME TypeOK, NEW u \in Units, NEW how \in Final,
         ~Settled(u), attempts[u] > 0,
         status' = [status EXCEPT ![u] = how],
         attempts' = attempts, run' = run
  PROVE  LedgerStep
<1>1. /\ Ending(u)' = how
      /\ \A v \in Units : v # u => Ending(v)' = Ending(v)
  BY DEF Ending, Settled, TypeOK
<1>2. [v \in Units |-> Ending(v)'] = [[v \in Units |-> Ending(v)] EXCEPT ![u] = how]
  BY <1>1
<1>3. Ledger!Settle(u, how)
  BY <1>2 DEF Ledger!Settle, Ending, Settled
<1> QED
  BY <1>3 DEF LedgerStep, Ledger!LedgerNext, Ledger!Endings, Final

LEMMA CompleteAttemptLedger ==
  ASSUME FiniteInv, NEW e \in Executors, CompleteAttempt(e)
  PROVE  LedgerStep
<1> DEFINE c == cur[e]
<1> USE DEF FiniteInv
<1>1. /\ c \in Claim /\ attempts[c.unit] = c.attempt
      /\ status[c.unit] \in {"running", "ready"}
  BY CommitOpensUnsettled
<1>2. attempts[c.unit] > 0
  BY <1>1 DEF CompleteAttempt, ClaimInv, ClaimsIssued, Held, Claim, TypeOK
<1>3. ~Settled(c.unit) /\ c.unit \in Units
  BY <1>1 DEF Settled, Final, Claim
<1>4. /\ status' = [status EXCEPT ![c.unit] = StatusFor(outcome[e])]
      /\ attempts' = attempts /\ run' = run
  BY DEF CompleteAttempt
<1>5. CASE StatusFor(outcome[e]) \in Final
  BY <1>2, <1>3, <1>4, <1>5, FinalStatusSettles
<1>6. CASE StatusFor(outcome[e]) \notin Final
  <2>1. \A u \in Units : Ending(u)' = Ending(u)
    BY <1>3, <1>4, <1>6 DEF Ending, Settled, TypeOK
  <2> QED
    BY <1>4, <2>1, Invisible DEF Concluded
<1> QED
  BY <1>5, <1>6

LEMMA DeadLetterLedger ==
  ASSUME FiniteInv, NEW e \in Executors, DeadLetter(e)
  PROVE  LedgerStep
<1> DEFINE c == cur[e]
<1> USE DEF FiniteInv
<1>1. c \in Claim /\ status[c.unit] = "failed"
  BY DEF DeadLetter, ClaimInv, BurialOwned, TypeOK
<1>2. attempts[c.unit] > 0
  BY <1>1 DEF DeadLetter, ClaimInv, ClaimsIssued, Held, Claim, TypeOK
<1>3. ~Settled(c.unit) /\ c.unit \in Units
  BY <1>1 DEF Settled, Final, Claim
<1>4. /\ status' = [status EXCEPT ![c.unit] = "dead_lettered"]
      /\ attempts' = attempts /\ run' = run
  BY DEF DeadLetter, ClaimInv, BurialOwned
<1> QED
  BY <1>2, <1>3, <1>4, FinalStatusSettles DEF Final

\* Writing the verdict its settled units call for concludes a run.
LEMMA JustVerdictConcludes ==
  ASSUME TypeOK, NEW r \in Runs, run[r] = "running",
         \A u \in UnitsOf(r) : Settled(u),
         NEW v \in {"failed", "succeeded"},
         (v = "failed") <=> (Dead(r) # {}),
         run' = [run EXCEPT ![r] = v], attempts' = attempts, status' = status
  PROVE  LedgerStep
<1>1. /\ run[r] \notin RunFinal /\ v \in RunFinal
      /\ run'[r] = v /\ \A q \in Runs : q # r => run'[q] = run[q]
  BY DEF RunFinal, TypeOK
<1>2. /\ Concluded(r) = "none"
      /\ Concluded(r)' = v
      /\ \A q \in Runs : q # r => Concluded(q)' = Concluded(q)
  BY <1>1 DEF Concluded
<1>3. [q \in Runs |-> Concluded(q)'] =
        [[q \in Runs |-> Concluded(q)] EXCEPT ![r] = v]
  BY <1>2
<1>4. UnitsOf(r) = Ledger!Members(r) /\ UnitsOf(r) \subseteq Units
  BY DEF Ledger!Members, UnitsOf
<1>5. \A u \in UnitsOf(r) : /\ Ending(u) # "open"
                            /\ Ending(u) = status[u]
  BY DEF Ending, Settled, Final
<1>6. \A u \in UnitsOf(r) : [w \in Units |-> Ending(w)][u] = Ending(u)
  BY <1>4
<1>7. v = IF \E u \in UnitsOf(r) :
               [w \in Units |-> Ending(w)][u] = "dead_lettered"
            THEN "failed" ELSE "succeeded"
  BY <1>5, <1>6 DEF Dead
<1>8. [w \in Units |-> Ending(w)'] = [w \in Units |-> Ending(w)]
  BY DEF Ending, Settled
<1>9. [q \in Runs |-> Concluded(q)][r] = "none"
  BY <1>2
<1>10. Ledger!Conclude(r)
  BY <1>3, <1>4, <1>5, <1>6, <1>7, <1>8, <1>9
  DEF Ledger!Conclude, Ending, Concluded, Settled
<1> QED
  BY <1>10 DEF LedgerStep, Ledger!LedgerNext

\* The verdict an executor writes is the one the ledger would conclude.
LEMMA WriteVerdictLedger ==
  ASSUME FiniteInv, NEW e \in Executors, WriteVerdict(e)
  PROVE  LedgerStep
<1> USE DEF FiniteInv
<1>1. PICK r \in Runs : r = RunOf[cur[e].unit]
  BY PlanAssumption DEF WriteVerdict, TypeOK, Claim
<1>2. /\ \A u \in UnitsOf(r) : Settled(u)
      /\ deadSeen[e] <=> Dead(r) # {}
  BY <1>1 DEF WriteVerdict, VerdictInv
<1>3. /\ run' = [run EXCEPT ![r] = Verdict(r, deadSeen[e])]
      /\ attempts' = attempts /\ status' = status
  BY <1>1 DEF WriteVerdict, unitVars
<1>4. CASE run[r] # "running"
  <2>1. run' = run
    BY <1>3, <1>4 DEF Verdict, TypeOK
  <2> QED
    BY <1>3, <2>1, Invisible DEF Ending, Settled, Concluded
<1>5. CASE run[r] = "running"
  <2>1. PICK v \in {"failed", "succeeded"} : v = Verdict(r, deadSeen[e])
    BY <1>5 DEF Verdict
  <2>2. (v = "failed") <=> (Dead(r) # {})
    BY <1>2, <1>5, <2>1 DEF Verdict
  <2> QED
    BY <1>2, <1>3, <1>5, <2>1, <2>2, JustVerdictConcludes
<1> QED
  BY <1>4, <1>5

LEMMA NextLedger == FiniteInv /\ [Next]_vars => LedgerStep
<1> SUFFICES ASSUME FiniteInv, [Next]_vars PROVE LedgerStep
  OBVIOUS
<1>1. ASSUME UNCHANGED <<attempts, status, run>> PROVE LedgerStep
  BY <1>1, Invisible DEF Ending, Settled, Concluded
<1>2. ASSUME NEW e \in Executors, Work(e) \/ ExecutorAborts(e) PROVE LedgerStep
  BY <1>1, <1>2, CompleteAttemptLedger, DeadLetterLedger, WriteVerdictLedger
  DEF Work, StartHandler, HandlerEnds, CompleteRejected, CountUnits,
      ExecutorAborts, unitVars
<1>3. ASSUME NEW e \in Executors, ClaimUnits(e) \/ ClaimUnit(e) PROVE LedgerStep
  BY <1>3, TakeIsTry DEF ClaimUnits, ClaimUnit, FiniteInv
<1>4. ASSUME NEW p \in Planners, PersistPlan(p) PROVE LedgerStep
  <2>1. \A u \in Units : Ending(u)' = Ending(u)
    BY <1>4 DEF PersistPlan, UnitsOf, Ending, Settled, Final, FiniteInv, TypeOK
  <2>2. \A r \in Runs : Concluded(r)' = Concluded(r)
    BY <1>4 DEF PersistPlan, Concluded, RunFinal, FiniteInv, TypeOK
  <2> QED
    BY <1>4, <2>1, <2>2, Invisible DEF PersistPlan
<1>5. ASSUME NEW p \in Planners, PlannerStep(p) \/ PlannerAborts(p)
      PROVE  LedgerStep
  BY <1>1, <1>4, <1>5
  DEF PlannerStep, ListPending, PlanRefused, PlannerAborts, unitVars
<1>6. ASSUME NEW u \in Units, ClaimLapses(u) \/ RetryFallsDue(u) \/ Requeue(u)
      PROVE  LedgerStep
  <2>1. \A v \in Units : Ending(v)' = Ending(v)
    BY <1>6
    DEF ClaimLapses, RetryFallsDue, Requeue, Ending, Settled, Final, FiniteInv,
        TypeOK
  <2> QED
    BY <1>6, <2>1, Invisible
    DEF ClaimLapses, RetryFallsDue, Requeue, Concluded
<1>7. ASSUME NEW r \in Runs, SubmitRun(r) PROVE LedgerStep
  <2>1. \A q \in Runs : Concluded(q)' = Concluded(q)
    BY <1>7 DEF SubmitRun, Concluded, RunFinal, FiniteInv, TypeOK
  <2> QED
    BY <1>7, <2>1, Invisible DEF SubmitRun, unitVars, Ending, Settled
<1>8. ASSUME NEW r \in Runs, CancelRun(r) PROVE LedgerStep
  <2>1. [q \in Runs |-> Concluded(q)'] =
          [[q \in Runs |-> Concluded(q)] EXCEPT ![r] = "cancelled"]
    BY <1>8 DEF CancelRun, Concluded, RunFinal, FiniteInv, TypeOK
  <2>2. Ledger!Overrule(r)
    BY <1>8, <2>1
    DEF CancelRun, Ledger!Overrule, unitVars, Concluded, Settled
  <2> QED
    BY <2>2 DEF LedgerStep, Ledger!LedgerNext
<1>9. CASE UNCHANGED vars
  BY <1>1, <1>9 DEF vars, unitVars
<1> QED
  BY <1>2, <1>3, <1>5, <1>6, <1>7, <1>8, <1>9 DEF Next, Executors

\* The claim protocol, with its retries, stale executors, crashes and split
\* transactions, keeps the promise of the ledger: units settle once and for
\* good, and only after a try; runs conclude once, with the right verdict.
THEOREM LedgerImplemented == Spec => ImplementsLedger
<1>1. Spec => [][LedgerStep]_vars
  BY FiniteInvHolds, NextLedger, PTL DEF Spec
<1> QED
  BY InitLedger, FiniteInvHolds, NextLedger, PTL
  DEF Spec, ImplementsLedger, Ledger!LedgerSpec, LedgerStep
=============================================================================
