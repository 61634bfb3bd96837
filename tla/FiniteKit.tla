------------------------------ MODULE FiniteKit ------------------------------
(***************************************************************************)
(* The local test kit of finite workloads (testing/finite.py), with the    *)
(* scopes and the clock of Lifecycle it hands to the product's code.       *)
(*                                                                         *)
(* The kit does nothing of itself: a test submits runs, steps through      *)
(* them, redelivers, cancels and moves the clock, and all of that while    *)
(* handlers it has started are waiting.  Planners are represented by their *)
(* plans; replan() compares and changes nothing.                           *)
(***************************************************************************)
EXTENDS Lifecycle

CONSTANTS
  Runs,          \* runs, and their scopes
  Size,          \* the number of units of each
  MaxAttempts,   \* ExecutionUnit.max_attempts
  RetryBase,     \* FinitePolicy.retry_base_seconds
  RetryCap,      \* FinitePolicy.retry_cap_seconds
  RetryAfter,    \* waits a handler may ask for when its rate is limited
  Graces,        \* grace windows of a shutdown
  OwnScopes,     \* scopes the product's code makes for itself
  MaxCalls       \* bound: invocations of a unit

Units == UNION {{r} \X (1..Size[r]) : r \in Runs}
RunOf(u) == u[1]
UnitsOf(r) == {u \in Units : RunOf(u) = r}

\* The n-th invocation of a unit, and its scope.
Calls == Units \X (1..MaxCalls)
UnitOf(c) == c[1]
Number(c) == c[2]

ASSUME KitAssumption ==
  /\ Size \in [Runs -> Nat]
  /\ MaxAttempts \in Nat \ {0}
  /\ RetryBase \in Nat \ {0} /\ RetryCap \in Nat /\ RetryBase <= RetryCap
  /\ RetryAfter \subseteq Nat /\ Graces \subseteq Nat
  /\ MaxCalls \in Nat
  /\ Runs \cup Calls \cup OwnScopes \subseteq Scopes \ {Shutdown}
  /\ Runs \cap Calls = {} /\ (Runs \cup Calls) \cap OwnScopes = {}

VARIABLES
  status,      \* of each unit
  attempts,    \* its invocations so far, redeliveries included
  notBefore,   \* next_attempt_at
  open,        \* invocations whose handler has not ended
  duplicate,   \* invocations that are redeliveries
  record,      \* what AttemptRecord says of each invocation
  lost         \* invocations whose task was cancelled from outside

unitVars == <<status, attempts, notBefore>>
callVars == <<open, duplicate, record, lost>>
kitVars == <<unitVars, callVars>>
vars == <<lifeVars, kitVars>>

Final == {"succeeded", "failed", "dead_lettered"}
Terminal == Final \cup {"cancelled"}
Open == {"ready", "retry_scheduled"}

KitTypeOK ==
  /\ LifeTypeOK
  /\ status \in [Units -> Terminal \cup Open \cup {"absent", "running"}]
  /\ attempts \in [Units -> 0..MaxCalls]
  /\ notBefore \in [Units -> Moments]
  /\ open \in SUBSET Calls
  /\ duplicate \in SUBSET Calls
  /\ record \in [Calls -> Terminal \cup {"none", "retry_scheduled"}]
  /\ lost \in SUBSET Calls

Init ==
  /\ LifeInit
  /\ status = [u \in Units |-> "absent"]
  /\ attempts = [u \in Units |-> 0]
  /\ notBefore = [u \in Units |-> 0]
  /\ open = {}
  /\ duplicate = {}
  /\ record = [c \in Calls |-> "none"]
  /\ lost = {}

-----------------------------------------------------------------------------
(* Runs *)

Submit(r) ==
  /\ NewSource(r, Never)
  /\ status' = [u \in Units |-> IF RunOf(u) = r THEN "ready" ELSE status[u]]
  /\ UNCHANGED <<attempts, notBefore, callVars>>

\* Units that are not finished are cancelled, even those with a handler at
\* work.
CancelRun(r) ==
  /\ CancelScope(r)
  /\ status' = [u \in Units |-> IF RunOf(u) = r /\ status[u] \notin Terminal
                                THEN "cancelled" ELSE status[u]]
  /\ UNCHANGED <<attempts, notBefore, callVars>>

MutVerdict(r) ==
  LET statuses == {status[u] : u \in UnitsOf(r)} IN
  CASE statuses \subseteq {"succeeded"} -> "succeeded"
    [] statuses \cap {"failed", "dead_lettered"} # {} -> "failed"
    [] "cancelled" \in statuses -> "cancelled"
    [] OTHER -> "running"

\* FiniteRuntimeTestKit.run
Verdict(r) ==
  LET statuses == {status[u] : u \in UnitsOf(r)} IN
  IF statuses \subseteq {"succeeded"} THEN "succeeded"
  ELSE IF statuses \cap {"failed", "dead_lettered"} # {} THEN "failed"
  ELSE IF IsCancelled(r) \/ "cancelled" \in statuses THEN "cancelled"
  ELSE "running"

-----------------------------------------------------------------------------
(* Invocations *)

Due(u) == status[u] \in Open /\ notBefore[u] <= now

\* _invoke up to the handler: the invocation has its number and a scope under
\* that of the run, and is over at once if that one is cancelled.
Invoke(u, again) ==
  \E n \in 1..MaxCalls :
    LET c == <<u, n>>
        Begun(s) == IF again THEN status ELSE [status EXCEPT ![u] = s]
    IN
    /\ n = attempts[u] + 1
    /\ attempts' = [attempts EXCEPT ![u] = n]
    /\ Child(c, RunOf(u), Never)
    /\ duplicate' = IF again THEN duplicate \cup {c} ELSE duplicate
    /\ \/ /\ ~IsCancelled(c)'
          /\ open' = open \cup {c}
          /\ status' = Begun("running")
          /\ UNCHANGED record
       \/ /\ IsCancelled(c)'
          /\ record' = [record EXCEPT ![c] = "cancelled"]
          /\ status' = Begun("cancelled")
          /\ UNCHANGED open
    /\ UNCHANGED <<notBefore, lost>>

\* The first unit of the plan that is due; step() without a run takes it of
\* the first run that has one.
Step(u) ==
  /\ Due(u)
  /\ \A v \in UnitsOf(RunOf(u)) : v[2] < u[2] => ~Due(v)
  /\ Invoke(u, FALSE)

Redeliver(u) ==
  /\ status[u] \in Terminal
  /\ Invoke(u, TRUE)

MutRecorded(c) == <<UnitOf(c), attempts[UnitOf(c)]>>

\* The invocation a record is about.
Recorded(c) == c

MutKeeps(c) == FALSE

\* A redelivery leaves no trace but its record.
Keeps(c) == c \in duplicate

Settle(c, s) ==
  /\ c \in open
  /\ open' = open \ {c}
  /\ record' = [record EXCEPT ![Recorded(c)] = s]
  /\ status' = IF Keeps(c) THEN status ELSE [status EXCEPT ![UnitOf(c)] = s]
  /\ UNCHANGED <<attempts, duplicate, lost, lifeVars>>

\* The handler returns, or raises an error that is final.
HandlerEnds(c, s) ==
  /\ s \in {"succeeded", "failed", "cancelled"}
  /\ Settle(c, s)
  /\ UNCHANGED notBefore

Backoff(n) ==
  LET s == RetryBase * 2^(n - 1) IN IF s \in 0..RetryCap THEN s ELSE RetryCap

\* It raises any other error; only a rate limit says itself how long to wait.
HandlerFails(c, wait) ==
  /\ \/ /\ Number(c) >= MaxAttempts
        /\ Settle(c, "dead_lettered")
        /\ UNCHANGED notBefore
     \/ /\ Number(c) < MaxAttempts
        /\ Settle(c, "retry_scheduled")
        /\ notBefore' = IF Keeps(c) THEN notBefore
                        ELSE [notBefore EXCEPT ![UnitOf(c)] = After(wait)]

\* The task that runs the step is cancelled: no handler of the kit catches it.
StepCancelled(c) ==
  /\ c \in open
  /\ open' = open \ {c}
  /\ lost' = lost \cup {c}
  /\ UNCHANGED <<unitVars, duplicate, record, lifeVars>>

-----------------------------------------------------------------------------
(* What the product's code does with the clock and with the token it has *)

ProductStep ==
  \/ \E s \in OwnScopes :
       \/ \E c \in open, e \in {After(1), Never} : NewSourceUnder(s, c, e)
       \/ CancelScope(s)
  \/ \E t \in Moments : Tick(t)
  \/ \E g \in Graces : Begin(g)
  \/ PollShutdown
  \/ Stop

Next ==
  \/ \E r \in Runs : Submit(r) \/ CancelRun(r)
  \/ \E u \in Units : Step(u) \/ Redeliver(u)
  \/ \E c \in Calls :
       \/ \E s \in Terminal : HandlerEnds(c, s)
       \/ \E w \in RetryAfter \cup {Backoff(Number(c))} : HandlerFails(c, w)
       \/ StepCancelled(c)
  \/ ProductStep /\ UNCHANGED kitVars

Spec == Init /\ [][Next]_vars

-----------------------------------------------------------------------------
\* An invocation is cancelled when its run is, and not before, whatever scopes
\* its handler and those of other runs make and cancel; and with it every
\* scope the handler has made.
CallsHearTheirRun ==
  /\ \A c \in Calls :
       Made(c) => (IsCancelled(c) <=> IsCancelled(RunOf(UnitOf(c))))
  /\ \A s \in OwnScopes : \A c \in line[s] \cap Calls :
       IsCancelled(RunOf(UnitOf(c))) => IsCancelled(s)

\* Every invocation that has been counted is under way, recorded, or was lost
\* with its task, whatever ends in which order.
AttemptsAccounted ==
  \A u \in Units : \A n \in 1..MaxCalls :
    LET c == <<u, n>> IN
      /\ n <= attempts[u] <=> c \in open \cup lost \/ record[c] # "none"
      /\ c \in open \cup lost => record[c] = "none"

\* A unit that has an outcome keeps it through redeliveries and cancellation;
\* and a verdict on the run is never withdrawn, though the handler a
\* cancellation did not wait for may ask for a retry.
OutcomesStand ==
  [][/\ \A u \in Units : status[u] \in Final => status'[u] = status[u]
     /\ \A r \in Runs : Made(r) /\ Verdict(r) # "running"
                          => Verdict(r)' # "running"]_vars

\* A cancelled unit leaves that status by one answer only, that of the
\* invocation that was under way when its run was cancelled; and no handler of
\* a run begins once the run is cancelled, so there is no second answer,
\* whatever is redelivered or asks to be retried.
CancellationStands ==
  [][/\ \A u \in Units :
          status[u] = "cancelled" /\ status'[u] # "cancelled" =>
            \E c \in open \ duplicate :
              UnitOf(c) = u /\ c \notin open' /\ IsCancelled(RunOf(u))
     /\ \A c \in open' \ open : ~IsCancelled(RunOf(UnitOf(c)))]_vars

-----------------------------------------------------------------------------
(* The kit keeps the promise of TrialLog. *)

Result(u) == IF status[u] \in Final THEN status[u] ELSE "none"

Log == INSTANCE TrialLog WITH
  MaxTrials <- MaxCalls,
  live <- open,
  gone <- lost,
  again <- duplicate,
  report <- record,
  outcome <- [u \in Units |-> Result(u)]

\* Whatever a test overlaps, each invocation is written down once and as what
\* it came to; those that count for a unit never overlap, and none of them
\* begins or ends once the unit has its outcome.
ImplementsTrials == Log!TrialSpec
=============================================================================
