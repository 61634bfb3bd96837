--------------------------- MODULE FiniteExecution ---------------------------
(***************************************************************************)
(* The finite side of the runtime: runs, their units and the executors     *)
(* that claim, run and settle the units through the finite_* tables        *)
(* (state/finite.py), with the planner (control/planner.py), the client    *)
(* (control/client.py) and the worker (worker/finite.py).                  *)
(*                                                                         *)
(* Every SQL transaction is one action.  What a process does between two   *)
(* transactions is its program counter: an executor that has committed an  *)
(* attempt has not yet dead-lettered the unit, nor counted the open units  *)
(* of the run, nor written the verdict it counted.                         *)
(*                                                                         *)
(* Time is abstracted to what the guards can see of it: a claim is absent, *)
(* live or lapsed; a retry is unscheduled, later or due.                   *)
(***************************************************************************)
EXTENDS Naturals, FiniteSets

CONSTANTS
  Runs,          \* run identifiers a client may submit
  Units,         \* unit keys the planners yield, over all runs
  RunOf,         \* the run whose plan holds the unit
  MaxAttempts,   \* the unit's max_attempts
  Pollers,       \* finite poll loops, one per worker process
  Consumers,     \* Pub/Sub consumer loops, one per worker process
  Serves,        \* per executor: the runs pinned to its pool's revision
  Planners,      \* control-plane planning loops
  PollLimit,     \* units one poll may claim
  MaxAborts,     \* bound: crashes and store errors
  MaxRequeues,   \* bound: claims put back to ready by hand
  Nobody         \* no executor, no run

Executors == Pollers \cup Consumers

ASSUME PlanAssumption ==
  /\ RunOf \in [Units -> Runs]
  /\ MaxAttempts \in [Units -> Nat \ {0}]

ASSUME ProcessAssumption ==
  /\ Nobody \notin Executors
  /\ Nobody \notin Runs
  /\ Serves \in [Executors -> SUBSET Runs]
  /\ PollLimit \in Nat \ {0}

ASSUME BoundAssumption == MaxAborts \in Nat /\ MaxRequeues \in Nat

VARIABLES
  run,        \* finite_runs.status, "absent" before the submission
  status,     \* finite_units.status, "absent" before the plan is stored
  token,      \* finite_units.claim_token
  attempts,   \* finite_units.attempt_count
  claimedBy,  \* finite_units.claimed_by
  expiry,     \* finite_units.claim_expires_at: "none", "live", "lapsed"
  nextAt,     \* finite_units.next_attempt_at: "none", "later", "due"
  rows,       \* finite_attempts: the rows of each unit
  pc,         \* where each executor is
  batch,      \* claims an executor holds and has not started
  cur,        \* the claim it is working on
  outcome,    \* the outcome it is about to record
  deadSeen,   \* what its count of dead-lettered units said
  planning,   \* the run a planner listed as pending and is planning
  aborts,     \* crashes and store errors so far
  requeues    \* claims put back to ready by hand so far

unitVars == <<status, token, attempts, claimedBy, expiry, nextAt, rows>>
execVars == <<pc, batch, cur, outcome, deadSeen>>
boundVars == <<aborts, requeues>>
vars == <<run, unitVars, execVars, planning, boundVars>>

-----------------------------------------------------------------------------
Final == {"succeeded", "dead_lettered", "cancelled"}
RunFinal == {"succeeded", "failed", "cancelled"}

\* rate_limited differs from retryable only in the length of the delay.
Outcomes == {"succeeded", "permanent", "retryable", "cancelled"}

Claim == [unit : Units, attempt : Nat, token : Nat]

UnitsOf(r) == {u \in Units : RunOf[u] = r}
Settled(u) == status[u] \in Final

\* Operators named Mut... are plausible bugs, used by no definition: each is
\* the mutated form of the operator that follows it.
MutOpenFailed(r) == {u \in UnitsOf(r) :
                       status[u] \notin {"absent", "failed"} \cup Final}
MutOpenCancelled(r) == {u \in UnitsOf(r) :
                  status[u] \notin {"absent", "succeeded", "dead_lettered"}}

\* finite_units rows of the run that the finalizer counts as open, and as
\* dead-lettered.
Open(r) == {u \in UnitsOf(r) : status[u] # "absent" /\ ~Settled(u)}
Dead(r) == {u \in UnitsOf(r) : status[u] = "dead_lettered"}

MutClaimable(u) ==
  /\ status[u] \in {"ready", "retry_scheduled"}
  /\ nextAt[u] = "none"
  /\ expiry[u] \in {"none", "lapsed"}

Claimable(u) ==
  /\ status[u] \in {"ready", "retry_scheduled"}
  /\ nextAt[u] \in {"none", "due"}
  /\ expiry[u] \in {"none", "lapsed"}

MutStatusFor(o) == o

\* The unit status an outcome is recorded as.
StatusFor(o) == [succeeded |-> "succeeded", permanent |-> "failed",
                 retryable |-> "retry_scheduled", cancelled |-> "cancelled"][o]

MutRetriesExhausted(c) == c.attempt > MaxAttempts[c.unit]

RetriesExhausted(c) == c.attempt >= MaxAttempts[c.unit]

\* What _record_failure turns the handler's outcome into.
Recorded(c, o) ==
  IF o = "retryable" /\ RetriesExhausted(c) THEN "permanent" ELSE o

MutResume(e) == "idle"

\* Where the executor goes when it is done with its current claim.
Resume(e) == IF batch[e] = {} THEN "idle" ELSE "next"

TypeOK ==
  /\ run \in [Runs -> {"absent", "pending", "running"} \cup RunFinal]
  /\ status \in [Units -> {"absent", "ready", "running", "retry_scheduled",
                           "failed"} \cup Final]
  /\ token \in [Units -> Nat]
  /\ attempts \in [Units -> Nat]
  /\ claimedBy \in [Units -> Executors \cup {Nobody}]
  /\ expiry \in [Units -> {"none", "live", "lapsed"}]
  /\ nextAt \in [Units -> {"none", "later", "due"}]
  /\ rows \in [Units -> SUBSET [attempt : Nat, outcome : Outcomes]]
  /\ pc \in [Executors ->
       {"idle", "next", "handler", "commit", "bury", "count", "verdict"}]
  /\ batch \in [Executors -> SUBSET Claim]
  /\ cur \in [Executors -> Claim \cup {Nobody}]
  /\ \A e \in Executors : pc[e] \notin {"idle", "next"} => cur[e] \in Claim
  /\ outcome \in [Executors -> Outcomes]
  /\ deadSeen \in [Executors -> BOOLEAN]
  /\ planning \in [Planners -> Runs \cup {Nobody}]
  /\ aborts \in Nat
  /\ requeues \in Nat

Init ==
  /\ run = [r \in Runs |-> "absent"]
  /\ status = [u \in Units |-> "absent"]
  /\ token = [u \in Units |-> 0]
  /\ attempts = [u \in Units |-> 0]
  /\ claimedBy = [u \in Units |-> Nobody]
  /\ expiry = [u \in Units |-> "none"]
  /\ nextAt = [u \in Units |-> "none"]
  /\ rows = [u \in Units |-> {}]
  /\ pc = [e \in Executors |-> "idle"]
  /\ batch = [e \in Executors |-> {}]
  /\ cur = [e \in Executors |-> Nobody]
  /\ outcome = [e \in Executors |-> "succeeded"]
  /\ deadSeen = [e \in Executors |-> FALSE]
  /\ planning = [p \in Planners |-> Nobody]
  /\ aborts = 0
  /\ requeues = 0

-----------------------------------------------------------------------------
(* The client and the planner *)

\* Submitting a run that is already stored returns its row unchanged.
SubmitRun(r) ==
  /\ run[r] = "absent"
  /\ run' = [run EXCEPT ![r] = "pending"]
  /\ UNCHANGED <<unitVars, execVars, planning, boundVars>>

\* transition_run has no condition on the status it overwrites.
CancelRun(r) ==
  /\ run[r] # "absent"
  /\ run' = [run EXCEPT ![r] = "cancelled"]
  /\ UNCHANGED <<unitVars, execVars, planning, boundVars>>

ListPending(p, r) ==
  /\ planning[p] = Nobody
  /\ run[r] = "pending"
  /\ planning' = [planning EXCEPT ![p] = r]
  /\ UNCHANGED <<run, unitVars, execVars, boundVars>>

\* A plan row of the run exists already: the insert violates the primary
\* key, the transaction rolls back and the planner raises.
PlanRefused(p) ==
  /\ planning[p] # Nobody
  /\ \E u \in UnitsOf(planning[p]) : status[u] # "absent"
  /\ planning' = [planning EXCEPT ![p] = Nobody]
  /\ UNCHANGED <<run, unitVars, execVars, boundVars>>

\* The unit rows commit whatever the run's status has become: the "not
\* plannable" error is raised only after the transaction.
PersistPlan(p) ==
  LET r == planning[p] IN
  /\ r # Nobody
  /\ \A u \in UnitsOf(r) : status[u] = "absent"
  /\ status' = [u \in Units |-> IF RunOf[u] = r THEN "ready" ELSE status[u]]
  /\ run' = [run EXCEPT ![r] = IF @ = "pending" THEN "running" ELSE @]
  /\ planning' = [planning EXCEPT ![p] = Nobody]
  /\ UNCHANGED <<token, attempts, claimedBy, expiry, nextAt, rows, execVars,
                 boundVars>>

-----------------------------------------------------------------------------
(* Claims *)

MutNextToken(u) == token[u]

NextToken(u) == token[u] + 1

NewClaim(u) ==
  [unit |-> u, attempt |-> attempts[u] + 1, token |-> NextToken(u)]

Take(e, S) ==
  /\ pc[e] = "idle"
  /\ \A u \in S : Claimable(u) /\ RunOf[u] \in Serves[e]
  /\ status' = [u \in Units |-> IF u \in S THEN "running" ELSE status[u]]
  /\ token' = [u \in Units |-> IF u \in S THEN NextToken(u) ELSE token[u]]
  /\ attempts' = [u \in Units |->
                    IF u \in S THEN attempts[u] + 1 ELSE attempts[u]]
  /\ claimedBy' = [u \in Units |-> IF u \in S THEN e ELSE claimedBy[u]]
  /\ expiry' = [u \in Units |-> IF u \in S THEN "live" ELSE expiry[u]]
  /\ nextAt' = [u \in Units |-> IF u \in S THEN "none" ELSE nextAt[u]]
  /\ batch' = [batch EXCEPT ![e] = {NewClaim(u) : u \in S}]
  /\ pc' = [pc EXCEPT ![e] = "next"]
  /\ UNCHANGED <<run, rows, cur, outcome, deadSeen, planning, boundVars>>

\* The poll claims up to its limit of the due units it finds unlocked
\* (SKIP LOCKED), in one statement.
ClaimUnits(e) ==
  \E S \in SUBSET Units :
    /\ S # {}
    /\ Cardinality(S) <= PollLimit
    /\ Take(e, S)

\* A wake-up names one unit.  Wake-ups are delivered at least once, so one
\* may arrive whenever the unit is stored.  This claim does not look at the
\* revision: Serves stands for the filter of the consumer's subscription.
ClaimUnit(e) == \E u \in Units : Take(e, {u})

ClaimLapses(u) ==
  /\ expiry[u] = "live"
  /\ expiry' = [expiry EXCEPT ![u] = "lapsed"]
  /\ UNCHANGED <<run, status, token, attempts, claimedBy, nextAt, rows,
                 execVars, planning, boundVars>>

RetryFallsDue(u) ==
  /\ nextAt[u] = "later"
  /\ nextAt' = [nextAt EXCEPT ![u] = "due"]
  /\ UNCHANGED <<run, status, token, attempts, claimedBy, expiry, rows,
                 execVars, planning, boundVars>>

\* Nothing in the runtime moves a running unit back.  The integration tests
\* do, by hand, to stand for the recovery of a crashed worker's unit.
Requeue(u) ==
  /\ requeues < MaxRequeues
  /\ status[u] = "running"
  /\ status' = [status EXCEPT ![u] = "ready"]
  /\ expiry' = [expiry EXCEPT ![u] = "lapsed"]
  /\ requeues' = requeues + 1
  /\ UNCHANGED <<run, token, attempts, claimedBy, nextAt, rows, execVars,
                 planning, aborts>>

-----------------------------------------------------------------------------
(* Executing a claimed unit *)

\* Claims of one batch are executed one after the other.
StartHandler(e) ==
  /\ pc[e] = "next"
  /\ \E c \in batch[e] :
       /\ cur' = [cur EXCEPT ![e] = c]
       /\ batch' = [batch EXCEPT ![e] = @ \ {c}]
  /\ pc' = [pc EXCEPT ![e] = "handler"]
  /\ UNCHANGED <<run, unitVars, outcome, deadSeen, planning, boundVars>>

HandlerEnds(e) ==
  /\ pc[e] = "handler"
  /\ \E o \in Outcomes :
       outcome' = [outcome EXCEPT ![e] = Recorded(cur[e], o)]
  /\ pc' = [pc EXCEPT ![e] = "commit"]
  /\ UNCHANGED <<run, unitVars, batch, cur, deadSeen, planning, boundVars>>

MutHoldsToken(c) == TRUE

\* The update's only condition besides the key.
HoldsToken(c) == token[c.unit] = c.token

\* INSERT ... ON CONFLICT DO NOTHING: the first row of an attempt stays.
AddRow(c, o) ==
  IF \E w \in rows[c.unit] : w.attempt = c.attempt
    THEN rows[c.unit]
    ELSE rows[c.unit] \cup {[attempt |-> c.attempt, outcome |-> o]}

CompleteAttempt(e) ==
  LET c == cur[e]
      o == outcome[e] IN
  /\ pc[e] = "commit"
  /\ HoldsToken(c)
  /\ rows' = [rows EXCEPT ![c.unit] = AddRow(c, o)]
  /\ status' = [status EXCEPT ![c.unit] = StatusFor(o)]
  /\ claimedBy' = [claimedBy EXCEPT ![c.unit] = Nobody]
  /\ expiry' = [expiry EXCEPT ![c.unit] = "none"]
  /\ nextAt' = [nextAt EXCEPT ![c.unit] =
                  IF o = "retryable" THEN "later" ELSE "none"]
  /\ pc' = [pc EXCEPT ![e] = IF o = "permanent" THEN "bury" ELSE "count"]
  /\ UNCHANGED <<run, token, attempts, batch, cur, outcome, deadSeen,
                 planning, boundVars>>

\* Forget everything a loop holds: the exception leaves poll_once or the
\* consumer's callback, and the claims not yet executed are dropped with it.
Drop(e) ==
  /\ pc' = [pc EXCEPT ![e] = "idle"]
  /\ batch' = [batch EXCEPT ![e] = {}]
  /\ cur' = [cur EXCEPT ![e] = Nobody]

MutCompleteRejected(e) ==
  LET c == cur[e] IN
  /\ pc[e] = "commit"
  /\ ~HoldsToken(c)
  /\ rows' = [rows EXCEPT ![c.unit] = AddRow(c, outcome[e])]
  /\ Drop(e)
  /\ UNCHANGED <<run, status, token, attempts, claimedBy, expiry, nextAt,
                 outcome, deadSeen, planning, boundVars>>

\* The claim was taken over: the attempt row is rolled back with the update.
CompleteRejected(e) ==
  /\ pc[e] = "commit"
  /\ ~HoldsToken(cur[e])
  /\ Drop(e)
  /\ UNCHANGED <<run, unitVars, outcome, deadSeen, planning, boundVars>>

\* A transaction of its own, fenced by the token like the attempt was.
DeadLetter(e) ==
  LET c == cur[e] IN
  /\ pc[e] = "bury"
  /\ IF HoldsToken(c)
       THEN /\ status' = [status EXCEPT ![c.unit] = "dead_lettered"]
            /\ pc' = [pc EXCEPT ![e] = "count"]
            /\ UNCHANGED <<batch, cur>>
       ELSE Drop(e) /\ UNCHANGED status
  /\ UNCHANGED <<run, token, attempts, claimedBy, expiry, nextAt, rows,
                 outcome, deadSeen, planning, boundVars>>

-----------------------------------------------------------------------------
(* finalize_run_if_done: the count and the update are two statements of a
   READ COMMITTED transaction, so other transactions commit in between. *)

CountUnits(e) ==
  LET r == RunOf[cur[e].unit] IN
  /\ pc[e] = "count"
  /\ IF Open(r) # {}
       THEN /\ pc' = [pc EXCEPT ![e] = Resume(e)]
            /\ cur' = [cur EXCEPT ![e] = Nobody]
            /\ UNCHANGED deadSeen
       ELSE /\ pc' = [pc EXCEPT ![e] = "verdict"]
            /\ deadSeen' = [deadSeen EXCEPT ![e] = Dead(r) # {}]
            /\ UNCHANGED cur
  /\ UNCHANGED <<run, unitVars, batch, outcome, planning, boundVars>>

MutVerdict(r, dead) == IF dead THEN "failed" ELSE "succeeded"

\* The update has status = 'running' in its condition.
Verdict(r, dead) ==
  IF run[r] # "running" THEN run[r]
  ELSE IF dead THEN "failed" ELSE "succeeded"

WriteVerdict(e) ==
  LET r == RunOf[cur[e].unit] IN
  /\ pc[e] = "verdict"
  /\ run' = [run EXCEPT ![r] = Verdict(r, deadSeen[e])]
  /\ pc' = [pc EXCEPT ![e] = Resume(e)]
  /\ cur' = [cur EXCEPT ![e] = Nobody]
  /\ UNCHANGED <<unitVars, batch, outcome, deadSeen, planning, boundVars>>

-----------------------------------------------------------------------------
(* Failures *)

\* A worker process dies and restarts, or a store call of the loop raises:
\* what the loop held in memory is gone, the rows stay as they are.
ExecutorAborts(e) ==
  /\ aborts < MaxAborts
  /\ pc[e] # "idle"
  /\ aborts' = aborts + 1
  /\ Drop(e)
  /\ UNCHANGED <<run, unitVars, outcome, deadSeen, planning, requeues>>

PlannerAborts(p) ==
  /\ aborts < MaxAborts
  /\ planning[p] # Nobody
  /\ aborts' = aborts + 1
  /\ planning' = [planning EXCEPT ![p] = Nobody]
  /\ UNCHANGED <<run, unitVars, execVars, requeues>>

-----------------------------------------------------------------------------
PlannerStep(p) ==
  (\E r \in Runs : ListPending(p, r)) \/ PlanRefused(p) \/ PersistPlan(p)

\* Steps an executor takes with a claim in hand.
Work(e) ==
  \/ StartHandler(e) \/ HandlerEnds(e) \/ CompleteAttempt(e)
  \/ CompleteRejected(e) \/ DeadLetter(e) \/ CountUnits(e) \/ WriteVerdict(e)

Next ==
  \/ \E r \in Runs : SubmitRun(r) \/ CancelRun(r)
  \/ \E p \in Planners : PlannerStep(p) \/ PlannerAborts(p)
  \/ \E u \in Units : ClaimLapses(u) \/ RetryFallsDue(u) \/ Requeue(u)
  \/ \E e \in Pollers : ClaimUnits(e)
  \/ \E e \in Consumers : ClaimUnit(e)
  \/ \E e \in Executors : Work(e) \/ ExecutorAborts(e)

Spec == Init /\ [][Next]_vars

\* The loops of service.py run forever, so a planner with a pending run
\* plans, a poller with due units claims and an executor goes on with what
\* it holds.  Handlers end: asyncio.wait_for cuts them at timeout_seconds.
\* Time passes.  Clients, wake-ups, failures and operators owe nothing.
Fairness ==
  /\ \A p \in Planners : WF_vars(PlannerStep(p))
  /\ \A e \in Pollers : WF_vars(ClaimUnits(e))
  /\ \A e \in Executors : WF_vars(Work(e))
  /\ \A u \in Units : WF_vars(ClaimLapses(u)) /\ WF_vars(RetryFallsDue(u))

FairSpec == Spec /\ Fairness
=============================================================================
