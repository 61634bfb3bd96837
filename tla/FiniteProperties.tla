--------------------------- MODULE FiniteProperties ---------------------------
(***************************************************************************)
(* What must hold of the finite side (FiniteExecution), beyond the types   *)
(* of its variables, and how it implements RunLedger.                      *)
(***************************************************************************)
EXTENDS FiniteExecution

\* The claims an executor holds whose attempt it has not committed.
Uncommitted(e) ==
  batch[e] \cup (IF pc[e] \in {"handler", "commit"} THEN {cur[e]} ELSE {})

\* The claim_token of finite_units singles out one executor: whoever holds
\* the current token of a unit is the one the row names as its owner, so two
\* executors never both hold a claim the fence would let through, however
\* units are requeued while their old executor is still running.
ClaimedByHolder ==
  \A e \in Executors : \A c \in Uncommitted(e) :
    token[c.unit] = c.token => claimedBy[c.unit] = e

\* finite_attempts agrees with finite_units although a stale executor writes
\* its attempt row before the fence looks at the token: at most one row per
\* attempt, and a success row exactly for the last attempt of the units that
\* have succeeded.
AttemptsAgree ==
  \A u \in Units :
    /\ \A v, w \in rows[u] : v.attempt = w.attempt => v = w
    /\ \A w \in rows[u] : w.outcome = "succeeded"
                          => /\ status[u] = "succeeded"
                             /\ w.attempt = attempts[u]
    /\ status[u] = "succeeded" => \E w \in rows[u] : w.outcome = "succeeded"

\* A run is finalized with the verdict its units call for, although units are
\* counted in one statement and the verdict is written in another, and a
\* failed attempt and its dead-lettering are two transactions: a succeeded
\* run has no dead-lettered unit, a failed run has one, neither has an open
\* unit.  (A client's cancel may overrule both.)
VerdictIsJust ==
  \A r \in Runs :
    /\ run[r] = "succeeded" => \A u \in UnitsOf(r) :
                                 status[u] \in {"succeeded", "cancelled"}
    /\ run[r] = "failed" => /\ \A u \in UnitsOf(r) : Settled(u)
                            /\ Dead(r) # {}

\* max_attempts bounds the executions of a unit: only a requeue by hand buys
\* another one, and a unit waiting for a retry always has one left.
AttemptsBounded ==
  \A u \in Units :
    /\ attempts[u] <= MaxAttempts[u] + requeues
    /\ status[u] = "retry_scheduled" => attempts[u] < MaxAttempts[u]

\* Once a unit has succeeded, was dead-lettered or cancelled, no late or
\* duplicate execution changes its status or adds to its history (the result
\* of the first success stays, state-schema.md 3.3).
SettledForever ==
  [][\A u \in Units :
       Settled(u) => status'[u] = status[u] /\ rows'[u] = rows[u]]_vars

\* Somebody is about to dead-letter the unit, to count the units of the run or
\* write its verdict, to complete the unit's current attempt.
Burying(u) == \E e \in Executors : pc[e] = "bury" /\ cur[e].unit = u
Counting(r) ==
  \E e \in Executors : pc[e] \in {"count", "verdict"} /\ RunOf[cur[e].unit] = r
Attempting(u) ==
  \E e \in Executors : \E c \in Uncommitted(e) : c.unit = u /\ HoldsToken(c)

\* As long as no process has died and no store call has raised, nothing waits
\* for nobody: a failed unit has the executor that will dead-letter it, a run
\* whose units are all settled has one that will count them, and, unless a unit
\* was requeued by hand, a running unit has one whose attempt the fence will let
\* through.  (After a requeue the late completion of the old executor raises and
\* takes the rest of its batch along.)
NothingStranded ==
  aborts = 0 =>
    /\ \A u \in Units : status[u] = "failed" => Burying(u)
    /\ \A r \in Runs :
         /\ run[r] = "running"
         /\ UnitsOf(r) # {} /\ \A u \in UnitsOf(r) : Settled(u)
         => Counting(r)
    /\ requeues = 0 => \A u \in Units : status[u] = "running" => Attempting(u)

\* Without crashes every stored unit is settled, by retries if need be: no
\* order of polls, wake-ups and finalizers leaves one waiting forever.
UnitsSettle == \A u \in Units : status[u] = "ready" ~> Settled(u)

\* Without crashes every submitted run that has units reaches a verdict: the
\* last executor to settle a unit of the run sees all of them settled.
RunsConclude ==
  \A r \in Runs : (run[r] = "pending" /\ UnitsOf(r) # {}) ~> run[r] \in RunFinal

-----------------------------------------------------------------------------
(* The inductive invariant behind the safety properties, in parts. *)

\* Every claim an executor still works with, committed or not.
Held(e) ==
  batch[e] \cup
    (IF pc[e] \in {"idle", "next"} THEN {} ELSE {cur[e]})

\* Tokens and attempt numbers move together, and a held claim carries values
\* that were handed out.
ClaimsIssued ==
  /\ \A u \in Units : attempts[u] = token[u]
  /\ \A e \in Executors : \A c \in Held(e) :
       /\ 1 <= c.token /\ c.token <= token[c.unit]
       /\ c.attempt = c.token
  /\ \A u \in Units : status[u] = "absent" => token[u] = 0

\* An executor holds at most one claim on a unit.
BatchDistinct ==
  \A e \in Executors :
    /\ \A c, d \in batch[e] : c.unit = d.unit => c = d
    /\ pc[e] \in {"handler", "commit"} => \A c \in batch[e] :
                                            c.unit # cur[e].unit

\* The fence lets an attempt through only while its unit is unsettled.
FenceOpen ==
  \A e \in Executors : \A c \in Uncommitted(e) :
    token[c.unit] = c.token => status[c.unit] \in {"running", "ready"}

\* Between the two transactions of a permanent failure nobody else touches
\* the unit.
BurialOwned ==
  /\ \A u \in Units : status[u] = "failed" => claimedBy[u] = Nobody
  /\ \A e \in Executors : pc[e] = "bury" => /\ HoldsToken(cur[e])
                                            /\ status[cur[e].unit] = "failed"
  /\ \A e, f \in Executors :
       (pc[e] = "bury" /\ pc[f] = "bury" /\ cur[e].unit = cur[f].unit) => e = f

ClaimInv == /\ ClaimsIssued
            /\ ClaimedByHolder
            /\ BatchDistinct
            /\ FenceOpen
            /\ BurialOwned

\* No row is ahead of the attempt count, and the attempt of a claim the fence
\* lets through has no row yet.
HistoryInv ==
  /\ AttemptsAgree
  /\ \A u \in Units : \A w \in rows[u] : w.attempt <= attempts[u]
  /\ \A e \in Executors : \A c \in Uncommitted(e) :
       token[c.unit] = c.token => \A w \in rows[c.unit] : w.attempt < c.attempt

\* A plan is stored whole, and an executor about to write a verdict has seen
\* what still holds.
VerdictInv ==
  /\ VerdictIsJust
  /\ \A u, v \in Units : RunOf[u] = RunOf[v] /\ status[u] = "absent"
                         => status[v] = "absent"
  /\ \A e \in Executors : pc[e] = "verdict" =>
       /\ \A u \in UnitsOf(RunOf[cur[e].unit]) : Settled(u)
       /\ deadSeen[e] <=> Dead(RunOf[cur[e].unit]) # {}

BoundInv ==
  /\ AttemptsBounded
  /\ \A u \in Units : status[u] \in {"absent", "ready"}
                      => attempts[u] < MaxAttempts[u] + requeues
  /\ \A e \in Executors : pc[e] = "commit" /\ outcome[e] = "retryable"
                          => cur[e].attempt < MaxAttempts[cur[e].unit]

\* Without a requeue every claim that is held may still be completed, and a loop
\* only asks for claims when it has none left.
StrandInv ==
  /\ NothingStranded
  /\ requeues = 0 => \A e \in Executors : \A c \in Uncommitted(e) :
                       HoldsToken(c) /\ status[c.unit] = "running"
  /\ \A e \in Executors : pc[e] = "idle" => batch[e] = {}

\* The conjunction is inductive: each property above rests on who may still
\* hold a claim, what the fence will say of it and what is left to be written.
FiniteInv ==
  /\ TypeOK
  /\ ClaimInv
  /\ HistoryInv
  /\ VerdictInv
  /\ BoundInv
  /\ StrandInv

-----------------------------------------------------------------------------
(* FiniteExecution implements RunLedger: an attempt counts as a try, a unit
   is open until its status is final, a run until its status is. *)

Ledger == INSTANCE RunLedger WITH
  tries   <- attempts,
  settled <- [u \in Units |-> IF Settled(u) THEN status[u] ELSE "open"],
  verdict <- [r \in Runs |-> IF run[r] \in RunFinal THEN run[r] ELSE "none"]

\* Every step of the runtime is a try, a settlement, a conclusion, an
\* overruling by the client, or invisible to the ledger.
ImplementsLedger == Ledger!LedgerSpec

-----------------------------------------------------------------------------
(* What the documentation says and the code does not do. *)

\* runbooks/finite-operations.md: a claim past its expiry is picked up by
\* another worker, no manual intervention needed.
LapsedClaimsRecovered ==
  \A u \in Units : (status[u] = "running" /\ expiry[u] = "lapsed")
                   ~> (status[u] # "running" \/ expiry[u] # "lapsed")
=============================================================================
