------------------------------ MODULE FencedLog ------------------------------
(***************************************************************************)
(* What the lease table promises to whoever consumes the outbox: every     *)
(* partition goes through epochs, each with one owner; only the holder of  *)
(* the latest epoch adds or confirms a message, under that epoch; and no   *)
(* epoch starts while somebody else still holds the one before.            *)
(***************************************************************************)
EXTENDS Naturals

CONSTANTS Partitions, Workers, Messages, Notes, Nobody

VARIABLES
  epoch,    \* epochs begun
  holder,   \* who may add messages now, Nobody if nobody may
  mark      \* the last epoch that wrote each message or note, 0 if none did

logVars == <<epoch, holder, mark>>

LogInit ==
  /\ epoch = [p \in Partitions |-> 0]
  /\ holder = [p \in Partitions |-> Nobody]
  /\ mark = [p \in Partitions |-> [k \in Messages \cup Notes |-> 0]]

Grant(p, w) ==
  /\ holder[p] \in {Nobody, w}
  /\ epoch' = [epoch EXCEPT ![p] = @ + 1]
  /\ holder' = [holder EXCEPT ![p] = w]
  /\ UNCHANGED mark

\* Leases run out, are given back or taken away, several at a time.
Lose(S) ==
  /\ holder' = [p \in Partitions |-> IF p \in S THEN Nobody ELSE holder[p]]
  /\ UNCHANGED <<epoch, mark>>

Write(p, k) ==
  /\ holder[p] # Nobody
  /\ mark' = [mark EXCEPT ![p][k] = epoch[p]]
  /\ UNCHANGED <<epoch, holder>>

\* Notes (checkpoints) may come late, but never from an earlier epoch.
Note(p, k) ==
  /\ epoch[p] > 0
  /\ mark' = [mark EXCEPT ![p][k] = epoch[p]]
  /\ UNCHANGED <<epoch, holder>>

LogNext ==
  \/ \E p \in Partitions, w \in Workers : Grant(p, w)
  \/ \E S \in SUBSET Partitions : Lose(S)
  \/ \E p \in Partitions, k \in Messages : Write(p, k)
  \/ \E p \in Partitions, k \in Notes : Note(p, k)

LogSpec == LogInit /\ [][LogNext]_logVars
=============================================================================
