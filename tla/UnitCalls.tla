------------------------------ MODULE UnitCalls ------------------------------
(***************************************************************************)
(* What outbox, dispatchers and Pub/Sub promise the units, without rows,   *)
(* copies, batches or acknowledgements: a unit that waits to be claimed    *)
(* has one call.  The call of a plan is on the list at once, that of a     *)
(* retry is put there when it has fallen due; it is made, or given up, and *)
(* may be made all the same after that; and once it is made it stays under *)
(* way until the unit is claimed.  Whoever claims the unit ends its call.  *)
(***************************************************************************)
EXTENDS Naturals

CONSTANTS Units, Tries

VARIABLES
  turn,    \* how often each unit was claimed
  call     \* its call, "none" while it does not wait

callsVars == <<turn, call>>

CallsInit ==
  /\ turn = [u \in Units |-> 0]
  /\ call = [u \in Units |-> "none"]

\* The calls of some units become something else.
Become(S, what) ==
  /\ call' = [u \in Units |-> IF u \in S THEN what ELSE call[u]]
  /\ UNCHANGED turn

Announce(S) ==
  /\ \A u \in S : call[u] = "none" /\ turn[u] = 0
  /\ Become(S, "pending")

FallDue(u) ==
  /\ call[u] = "none"
  /\ turn[u] \in 1..(Tries[u] - 1)
  /\ Become({u}, "absent")

Enlist(S) ==
  /\ \A u \in S : call[u] = "absent"
  /\ Become(S, "pending")

Make(u) ==
  /\ call[u] \in {"pending", "failed"}
  /\ Become({u}, "underway")

GiveUp(u) ==
  /\ call[u] = "pending"
  /\ Become({u}, "failed")

Answer(u) ==
  /\ call[u] # "none"
  /\ call' = [call EXCEPT ![u] = "none"]
  /\ turn' = [turn EXCEPT ![u] = @ + 1]

CallsNext ==
  \/ \E S \in SUBSET Units : Announce(S) \/ Enlist(S)
  \/ \E u \in Units : FallDue(u) \/ Make(u) \/ GiveUp(u) \/ Answer(u)

CallsSpec == CallsInit /\ [][CallsNext]_callsVars
=============================================================================
