------------------------------ MODULE RunLedger ------------------------------
(***************************************************************************)
(* What the finite side promises, without claims, tokens or executors: a   *)
(* unit is tried some number of times and settles once, for good; a run is *)
(* concluded when all of its units have settled, with the verdict they     *)
(* call for; a client may overrule the verdict by cancelling.              *)
(***************************************************************************)
EXTENDS Naturals

CONSTANTS Runs, Units, RunOf

VARIABLES
  tries,     \* how often each unit was started
  settled,   \* how each unit ended, "open" until it has
  verdict    \* how each run ended, "none" until it has

ledgerVars == <<tries, settled, verdict>>

Endings == {"succeeded", "dead_lettered", "cancelled"}
Members(r) == {u \in Units : RunOf[u] = r}

LedgerTypeOK ==
  /\ tries \in [Units -> Nat]
  /\ settled \in [Units -> {"open"} \cup Endings]
  /\ verdict \in [Runs -> {"none", "succeeded", "failed", "cancelled"}]

LedgerInit ==
  /\ tries = [u \in Units |-> 0]
  /\ settled = [u \in Units |-> "open"]
  /\ verdict = [r \in Runs |-> "none"]

Try(S) ==
  /\ \A u \in S : settled[u] = "open"
  /\ tries' = [u \in Units |-> IF u \in S THEN tries[u] + 1 ELSE tries[u]]
  /\ UNCHANGED <<settled, verdict>>

Settle(u, how) ==
  /\ settled[u] = "open"
  /\ tries[u] > 0
  /\ settled' = [settled EXCEPT ![u] = how]
  /\ UNCHANGED <<tries, verdict>>

Conclude(r) ==
  /\ verdict[r] = "none"
  /\ \A u \in Members(r) : settled[u] # "open"
  /\ verdict' = [verdict EXCEPT ![r] =
       IF \E u \in Members(r) : settled[u] = "dead_lettered"
         THEN "failed" ELSE "succeeded"]
  /\ UNCHANGED <<tries, settled>>

Overrule(r) ==
  /\ verdict' = [verdict EXCEPT ![r] = "cancelled"]
  /\ UNCHANGED <<tries, settled>>

LedgerNext ==
  \/ \E S \in SUBSET Units : Try(S)
  \/ \E u \in Units, how \in Endings : Settle(u, how)
  \/ \E r \in Runs : Conclude(r) \/ Overrule(r)

LedgerSpec == LedgerInit /\ [][LedgerNext]_ledgerVars
=============================================================================
