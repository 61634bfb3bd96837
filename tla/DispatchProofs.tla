---------------------------- MODULE DispatchProofs ----------------------------
(***************************************************************************)
(* Machine-checked proofs about UnitDispatch, for any units, messages,     *)
(* dispatchers and workers: rows, sends and units agree, no wake-up is     *)
(* used up while its unit waits, and all of it comes to one call of each   *)
(* waiting unit (UnitCalls); for finitely many dispatchers, duplicates are *)
(* bounded.                                                                *)
(***************************************************************************)
EXTENDS UnitDispatch, FiniteSetTheorems, TLAPS

\* A dispatcher only handles rows that were stored, and goes to mark a message
\* published only after Pub/Sub has accepted it.
RowsKnown ==
  /\ \A m \in Messages : sent[m] > 0 => row[m] # "absent"
  /\ \A d \in Dispatchers : \A m \in batch[d] : row[m] # "absent"
  /\ \A d \in Dispatchers : dpc[d] \in {"sent", "failed"} =>
       hand[d] \in Messages /\ row[hand[d]] # "absent"
  /\ \A d \in Dispatchers : dpc[d] = "sent" => sent[hand[d]] > 0

\* What runs is running for one executor, and what waits may still be tried.
ClaimsExclusive ==
  /\ \A u \in Units :
       /\ status[u] = "absent" => attempts[u] = 0
       /\ status[u] \in {"ready", "retry_scheduled"} => attempts[u] < MaxAttempts[u]
  /\ \A e \in Executors : epc[e] = "claim" => held[e] \in Wakeups
  /\ \A e \in Executors : epc[e] = "run" => cur[e] \in Units /\ status[cur[e]] = "running"
  /\ \A e, f \in Executors :
       epc[e] = "run" /\ epc[f] = "run" /\ cur[e] = cur[f] => e = f

\* Nothing comes out of Pub/Sub that did not go in.
WireKnown ==
  /\ \A m \in Wakeups : wire[m] > 0 => sent[m] > 0
  /\ \A e \in Executors : held[e] \in Wakeups => sent[held[e]] > 0

\* A unit runs, waits for a retry or is settled only after a claim.
TriedBefore ==
  \A u \in Units :
    status[u] \in {"running", "retry_scheduled", "settled"} => attempts[u] > 0

DispatchInv ==
  /\ TypeOK
  /\ ClaimsExclusive
  /\ RowsKnown
  /\ PublishedWasSent
  /\ RowsTellState
  /\ NoWakeupWasted
  /\ WireKnown
  /\ TriedBefore

-----------------------------------------------------------------------------
LEMMA WakeupOf ==
  ASSUME NEW m \in Wakeups
  PROVE  /\ m \in Messages /\ m[1] \in Units
         /\ \E n \in 0..(MaxAttempts[m[1]] - 1) : m = <<m[1], n>>
  BY DEF Wakeups, Messages

LEMMA UnitWakeup ==
  ASSUME NEW u \in Units, NEW n \in 0..(MaxAttempts[u] - 1)
  PROVE  <<u, n>> \in Wakeups /\ <<u, n>> \in Messages
  BY DEF Wakeups, Messages

LEMMA InsertType ==
  ASSUME TypeOK, NEW S, Insert(S)
  PROVE  /\ row' \in [Messages -> {"absent", "pending", "published", "failed"}]
         /\ place' \in [Messages -> Nat] /\ nextPlace' \in Nat
  BY DEF TypeOK, Insert, Place

\* Rows are only added.
LEMMA InsertAdds ==
  ASSUME TypeOK, NEW S, Insert(S)
  PROVE  \A m \in Messages :
           /\ row[m] # "absent" => row'[m] = row[m]
           /\ row[m] = "absent" => row'[m] = IF m \in S THEN "pending" ELSE "absent"
  BY DEF TypeOK, Insert, New

LEMMA AcceptType ==
  ASSUME TypeOK, NEW m \in Messages, Accept(m)
  PROVE  /\ sent' \in [Messages -> Nat] /\ wire' \in [Wakeups -> Nat]
         /\ \A n \in Messages : sent'[n] = IF n = m THEN sent[n] + 1 ELSE sent[n]
         /\ \A n \in Wakeups : wire'[n] = IF n = m THEN wire[n] + 1 ELSE wire[n]
  BY DEF TypeOK, Accept

-----------------------------------------------------------------------------
(* Types *)

LEMMA InitTypeOK == Init => TypeOK
  BY DEF Init, TypeOK, Nothing

LEMMA NextTypeOK == TypeOK /\ ClaimsExclusive /\ [Next]_vars => TypeOK'
<1> SUFFICES ASSUME TypeOK, ClaimsExclusive, [Next]_vars PROVE TypeOK'
  OBVIOUS
<1> USE DispatchAssumption
<1>1. ASSUME NEW S \in SUBSET Units, StorePlan(S) PROVE TypeOK'
  BY <1>1, InsertType
  DEF StorePlan, TypeOK, wireVars, dispVars, execVars
<1>2. ASSUME NEW m \in Emissions, Emit(m) PROVE TypeOK'
  BY <1>2, InsertType
  DEF Emit, TypeOK, unitVars, wireVars, dispVars, execVars
<1>3. ASSUME NEW d \in Dispatchers, EnqueueDueRetries(d) PROVE TypeOK'
  BY <1>3, InsertType
  DEF EnqueueDueRetries, TypeOK, unitVars, wireVars, execVars
<1>4. ASSUME NEW d \in Dispatchers, ReadPending(d) PROVE TypeOK'
  BY <1>4
  DEF ReadPending, Batches, Pending, TypeOK, unitVars, rowVars, wireVars,
      execVars
<1>5. ASSUME NEW d \in Dispatchers, NEW m \in Messages,
             Send(d, m) \/ SendFails(d, m)
      PROVE  TypeOK'
  <2>1. sent' \in [Messages -> Nat] /\ wire' \in [Wakeups -> Nat]
    BY <1>5, AcceptType DEF Send, SendFails, wireVars, TypeOK
  <2>2. troubles' \in Nat
    BY <1>5 DEF Send, SendFails, Trouble, TypeOK
  <2> QED
    BY <1>5, <2>1, <2>2
    DEF Send, SendFails, Take, TypeOK, unitVars, rowVars, execVars
<1>6. ASSUME NEW d \in Dispatchers, MarkPublished(d) \/ MarkFailed(d)
      PROVE  TypeOK'
  BY <1>6
  DEF MarkPublished, MarkFailed, AfterFailure, Dealt, TypeOK, unitVars,
      wireVars, execVars
<1>7. ASSUME NEW d \in Dispatchers, DispatcherAborts(d) PROVE TypeOK'
  BY <1>7
  DEF DispatcherAborts, Trouble, TypeOK, unitVars, rowVars, wireVars, execVars
<1>8. ASSUME NEW c \in Consumers, NEW m \in Wakeups, Receive(c, m) PROVE TypeOK'
  BY <1>8 DEF Receive, Executors, TypeOK, unitVars, rowVars, dispVars
<1>9. ASSUME NEW e \in Executors, NEW u \in Units, Claim(e, u),
             UNCHANGED <<rowVars, wireVars, dispVars, held, troubles>>
      PROVE  TypeOK'
  BY <1>9 DEF Claim, TypeOK, rowVars, wireVars, dispVars
<1>10. ASSUME NEW c \in Consumers, HandleWakeup(c) PROVE TypeOK'
  <2>1. held[c][1] \in Units /\ c \in Executors
    BY <1>10, WakeupOf DEF Executors, HandleWakeup, ClaimsExclusive
  <2> QED
    BY <1>9, <1>10, <2>1
    DEF HandleWakeup, TypeOK, unitVars, rowVars, wireVars, dispVars
<1>11. ASSUME NEW p \in Pollers, NEW u \in Units, Poll(p, u) PROVE TypeOK'
  <2>1. p \in Executors
    BY DEF Executors
  <2> QED
    BY <1>9, <1>11, <2>1 DEF Poll
<1>12. ASSUME NEW e \in Executors, Complete(e) PROVE TypeOK'
  <2>1. cur[e] \in Units
    BY <1>12 DEF Complete, ClaimsExclusive
  <2>2. status' \in [Units -> {"absent", "ready", "running", "retry_scheduled",
                               "settled"}] /\ due' \in [Units -> BOOLEAN]
    BY <1>12, <2>1 DEF Complete, TypeOK
  <2> QED
    BY <1>12, <2>1, <2>2 DEF Complete, TypeOK, rowVars, wireVars, dispVars
<1>13. ASSUME NEW c \in Consumers, Ack(c) PROVE TypeOK'
  BY <1>13
  DEF Ack, Executors, TypeOK, unitVars, rowVars, wireVars, dispVars
<1>14. ASSUME NEW e \in Executors, Returned(e) = wire' PROVE wire' \in [Wakeups -> Nat]
  BY <1>14 DEF Returned, TypeOK
<1>15. ASSUME NEW e \in Executors, ExecutorAborts(e) PROVE TypeOK'
  BY <1>14, <1>15
  DEF ExecutorAborts, Trouble, TypeOK, unitVars, rowVars, dispVars
<1>16. ASSUME NEW c \in Consumers, Redelivered(c) PROVE TypeOK'
  BY <1>14, <1>16
  DEF Redelivered, Trouble, Executors, TypeOK, unitVars, rowVars, dispVars,
      execVars
<1>17. ASSUME NEW u \in Units, RetryFallsDue(u) PROVE TypeOK'
  BY <1>17
  DEF RetryFallsDue, TypeOK, rowVars, wireVars, dispVars, execVars
<1>18. CASE UNCHANGED vars
  BY <1>18
  DEF vars, TypeOK, unitVars, rowVars, wireVars, dispVars, execVars
<1> QED
  BY <1>1, <1>2, <1>3, <1>4, <1>5, <1>6, <1>7, <1>8, <1>10, <1>11, <1>12, <1>13,
     <1>15, <1>16, <1>17, <1>18
  DEF Next, DispatcherStep, ConsumerStep, Executors

-----------------------------------------------------------------------------
(* Claims *)

LEMMA InitClaimsExclusive == Init => ClaimsExclusive
  BY DispatchAssumption DEF Init, ClaimsExclusive

LEMMA NextClaimsExclusive ==
  TypeOK /\ ClaimsExclusive /\ [Next]_vars => ClaimsExclusive'
<1> SUFFICES ASSUME TypeOK, ClaimsExclusive, [Next]_vars PROVE ClaimsExclusive'
  OBVIOUS
<1> USE DispatchAssumption
<1>1. ASSUME UNCHANGED <<unitVars, execVars>> PROVE ClaimsExclusive'
  BY <1>1 DEF ClaimsExclusive, unitVars, execVars
<1>2. ASSUME NEW S \in SUBSET Units, StorePlan(S) PROVE ClaimsExclusive'
  <2>1. /\ \A u \in S : status[u] = "absent" /\ status'[u] = "ready"
        /\ \A u \in Units \ S : status'[u] = status[u]
        /\ UNCHANGED <<attempts, epc, held, cur>>
    BY <1>2 DEF StorePlan, execVars, TypeOK
  <2>2. \A u \in S : attempts[u] < MaxAttempts[u]
    BY <2>1 DEF ClaimsExclusive
  <2> QED
    BY <2>1, <2>2 DEF ClaimsExclusive
<1>3. ASSUME NEW e \in Executors, UNCHANGED <<unitVars, cur>>,
             epc' = [epc EXCEPT ![e] = epc'[e]],
             epc'[e] # "run",
             held' = [held EXCEPT ![e] = held'[e]],
             epc'[e] = "claim" => held'[e] \in Wakeups
      PROVE  ClaimsExclusive'
  BY <1>3 DEF ClaimsExclusive, unitVars, TypeOK
<1>4. ASSUME NEW c \in Consumers, NEW m \in Wakeups, Receive(c, m)
      PROVE  ClaimsExclusive'
  BY <1>3, <1>4 DEF Receive, Executors, TypeOK
<1>5. ASSUME NEW e \in Executors, NEW u \in Units, Claimable(u), Claim(e, u),
             UNCHANGED held
      PROVE  ClaimsExclusive'
  BY <1>5 DEF Claim, Claimable, ClaimsExclusive, TypeOK
<1>6. ASSUME NEW c \in Consumers, HandleWakeup(c) PROVE ClaimsExclusive'
  <2>1. held[c][1] \in Units /\ c \in Executors
    BY <1>6, WakeupOf DEF Executors, HandleWakeup, ClaimsExclusive
  <2>2. CASE Claimable(held[c][1])
    BY <1>5, <1>6, <2>1, <2>2 DEF HandleWakeup
  <2>3. CASE ~Claimable(held[c][1])
    BY <1>3, <1>6, <2>1, <2>3 DEF HandleWakeup, TypeOK
  <2> QED
    BY <2>2, <2>3
<1>7. ASSUME NEW p \in Pollers, NEW u \in Units, Poll(p, u)
      PROVE  ClaimsExclusive'
  BY <1>5, <1>7 DEF Poll, Executors
<1>8. ASSUME NEW e \in Executors, Complete(e) PROVE ClaimsExclusive'
  <2>1. cur[e] \in Units /\ status[cur[e]] = "running"
    BY <1>8 DEF Complete, ClaimsExclusive
  <2>2. /\ \A u \in Units \ {cur[e]} : status'[u] = status[u]
        /\ \/ status'[cur[e]] = "settled"
           \/ /\ status'[cur[e]] = "retry_scheduled"
              /\ attempts[cur[e]] < MaxAttempts[cur[e]]
        /\ attempts' = attempts /\ held' = held
    <3>1. \/ status' = [status EXCEPT ![cur[e]] = "settled"]
          \/ /\ status' = [status EXCEPT ![cur[e]] = "retry_scheduled"]
             /\ attempts[cur[e]] < MaxAttempts[cur[e]]
      BY <1>8 DEF Complete
    <3>2. attempts' = attempts /\ held' = held
      BY <1>8 DEF Complete
    <3> QED
      BY <2>1, <3>1, <3>2 DEF TypeOK
  <2>3. /\ epc'[e] \in {"ack", "idle"}
        /\ \A f \in Executors \ {e} : epc'[f] = epc[f] /\ cur'[f] = cur[f]
    <3>1. /\ epc' = [epc EXCEPT ![e] = IF e \in Consumers THEN "ack" ELSE "idle"]
          /\ cur' = [cur EXCEPT ![e] = Nothing]
      BY <1>8 DEF Complete
    <3> QED
      BY <3>1 DEF TypeOK
  <2>4. \A f \in Executors \ {e} : epc[f] = "run" => cur[f] # cur[e]
    BY <1>8 DEF Complete, ClaimsExclusive
  <2> QED
    BY <2>1, <2>2, <2>3, <2>4 DEF ClaimsExclusive
<1>9. ASSUME NEW c \in Consumers, Ack(c) PROVE ClaimsExclusive'
  BY <1>3, <1>9 DEF Ack, Executors, TypeOK
<1>10. ASSUME NEW e \in Executors, ExecutorAborts(e) PROVE ClaimsExclusive'
  BY <1>10 DEF ExecutorAborts, ClaimsExclusive, TypeOK, unitVars
<1>11. ASSUME NEW u \in Units, RetryFallsDue(u) PROVE ClaimsExclusive'
  BY <1>11 DEF RetryFallsDue, ClaimsExclusive, execVars
<1>12. ASSUME NEW d \in Dispatchers, DispatcherStep(d) \/ DispatcherAborts(d)
       PROVE  UNCHANGED <<unitVars, execVars>>
  BY <1>12
  DEF DispatcherStep, DispatcherAborts, EnqueueDueRetries, ReadPending, Send,
      SendFails, MarkPublished, MarkFailed, unitVars, execVars
<1>13. ASSUME NEW m \in Emissions, Emit(m) PROVE UNCHANGED <<unitVars, execVars>>
  BY <1>13 DEF Emit, unitVars, execVars
<1>14. ASSUME NEW c \in Consumers, Redelivered(c)
       PROVE  UNCHANGED <<unitVars, execVars>>
  BY <1>14 DEF Redelivered, unitVars, execVars
<1>15. CASE UNCHANGED vars
  BY <1>1, <1>15 DEF vars
<1> QED
  BY <1>1, <1>2, <1>4, <1>6, <1>7, <1>8, <1>9, <1>10, <1>11, <1>12, <1>13, <1>14,
     <1>15
  DEF Next, ConsumerStep, Executors

-----------------------------------------------------------------------------
(* Rows *)

LEMMA InitRows == Init => RowsKnown /\ PublishedWasSent
  BY DEF Init, RowsKnown, PublishedWasSent

\* What the workers do leaves the dispatchers alone.
LEMMA WorkersApart ==
  ASSUME [Next]_vars, DispatchAssumption,
         ~ \E S \in SUBSET Units : StorePlan(S),
         ~ \E m \in Emissions : Emit(m),
         ~ \E d \in Dispatchers : DispatcherStep(d) \/ DispatcherAborts(d)
  PROVE  UNCHANGED <<rowVars, sent, dispVars>>
<1>1. ASSUME NEW c \in Consumers, ConsumerStep(c) \/ Redelivered(c)
      PROVE  UNCHANGED <<rowVars, sent, dispVars>>
  BY <1>1
  DEF ConsumerStep, Receive, HandleWakeup, Complete, Ack, Redelivered, rowVars,
      dispVars, wireVars
<1>2. ASSUME NEW p \in Pollers, Complete(p) \/ \E u \in Units : Poll(p, u)
      PROVE  UNCHANGED <<rowVars, sent, dispVars>>
  BY <1>2 DEF Complete, Poll, rowVars, dispVars, wireVars
<1>3. ASSUME NEW e \in Executors, ExecutorAborts(e)
      PROVE  UNCHANGED <<rowVars, sent, dispVars>>
  BY <1>3 DEF ExecutorAborts, rowVars, dispVars
<1>4. ASSUME NEW u \in Units, RetryFallsDue(u)
      PROVE  UNCHANGED <<rowVars, sent, dispVars>>
  BY <1>4 DEF RetryFallsDue, rowVars, dispVars, wireVars
<1>5. CASE UNCHANGED vars
  BY <1>5 DEF vars, rowVars, dispVars, wireVars
<1> QED
  BY <1>1, <1>2, <1>3, <1>4, <1>5 DEF Next

LEMMA NextRows ==
  TypeOK /\ RowsKnown /\ PublishedWasSent /\ [Next]_vars
    => (RowsKnown /\ PublishedWasSent)'
<1> SUFFICES ASSUME TypeOK, RowsKnown, PublishedWasSent, [Next]_vars
             PROVE  RowsKnown' /\ PublishedWasSent'
  OBVIOUS
<1> USE DispatchAssumption
<1>1. ASSUME NEW S, Insert(S), UNCHANGED <<sent, batch, hand>>,
             \A d \in Dispatchers : dpc'[d] = dpc[d] \/ dpc'[d] = "read"
      PROVE  RowsKnown' /\ PublishedWasSent'
  <2>1. /\ \A m \in Messages : row[m] # "absent" => row'[m] = row[m]
        /\ \A m \in Messages : row[m] = "absent" => row'[m] # "published"
    BY <1>1, InsertAdds
  <2> QED
    BY <1>1, <2>1 DEF RowsKnown, PublishedWasSent, TypeOK
<1>2. ASSUME NEW S \in SUBSET Units, StorePlan(S)
      PROVE  RowsKnown' /\ PublishedWasSent'
  BY <1>1, <1>2 DEF StorePlan, wireVars, dispVars
<1>3. ASSUME NEW m \in Emissions, Emit(m) PROVE RowsKnown' /\ PublishedWasSent'
  BY <1>1, <1>3 DEF Emit, wireVars, dispVars
<1>4. ASSUME NEW d \in Dispatchers, EnqueueDueRetries(d)
      PROVE  RowsKnown' /\ PublishedWasSent'
  BY <1>1, <1>4 DEF EnqueueDueRetries, wireVars, TypeOK
<1>5. ASSUME NEW d \in Dispatchers, ReadPending(d)
      PROVE  RowsKnown' /\ PublishedWasSent'
  <2>1. /\ batch'[d] \subseteq Pending /\ dpc'[d] \in {"idle", "send"}
        /\ \A e \in Dispatchers \ {d} : batch'[e] = batch[e] /\ dpc'[e] = dpc[e]
        /\ UNCHANGED <<row, sent, hand>>
    <3>1. PICK S \in Batches : batch' = [batch EXCEPT ![d] = S]
      BY <1>5 DEF ReadPending
    <3>2. S \subseteq Pending
      BY DEF Batches
    <3>3. dpc' = [dpc EXCEPT ![d] = IF Pending = {} THEN "idle" ELSE "send"]
      BY <1>5 DEF ReadPending
    <3>4. UNCHANGED <<row, sent, hand>>
      BY <1>5 DEF ReadPending, rowVars, wireVars
    <3> QED
      BY <3>1, <3>2, <3>3, <3>4 DEF TypeOK
  <2> QED
    BY <2>1 DEF Pending, RowsKnown, PublishedWasSent
<1>6. ASSUME NEW d \in Dispatchers, NEW m \in Messages,
             Send(d, m) \/ SendFails(d, m)
      PROVE  RowsKnown' /\ PublishedWasSent'
  <2>1. row[m] # "absent" /\ row' = row
    BY <1>6 DEF Send, SendFails, InTurn, RowsKnown, rowVars
  <2>2. /\ batch'[d] \subseteq batch[d] /\ hand'[d] = m
        /\ dpc'[d] \in {"sent", "failed"}
        /\ \A e \in Dispatchers \ {d} :
             batch'[e] = batch[e] /\ dpc'[e] = dpc[e] /\ hand'[e] = hand[e]
    BY <1>6 DEF Send, SendFails, Take, TypeOK
  <2>3. /\ \A n \in Messages \ {m} : sent'[n] = sent[n]
        /\ \A n \in Messages : sent[n] > 0 => sent'[n] > 0
        /\ dpc'[d] = "sent" => sent'[m] > 0
    <3>1. \/ UNCHANGED sent /\ dpc'[d] # "sent"
          \/ Accept(m)
      BY <1>6 DEF Send, SendFails, Take, wireVars, TypeOK
    <3> QED
      BY <3>1, AcceptType DEF TypeOK
  <2>4. RowsKnown'
    <3>1. \A n \in Messages : sent'[n] > 0 => row'[n] # "absent"
      BY <2>1, <2>3 DEF RowsKnown
    <3>2. \A e \in Dispatchers : \A n \in batch'[e] : row'[n] # "absent"
      BY <2>1, <2>2 DEF RowsKnown
    <3>3. /\ hand'[d] \in Messages /\ row'[hand'[d]] # "absent"
          /\ dpc'[d] = "sent" => sent'[hand'[d]] > 0
      BY <2>1, <2>2, <2>3
    <3>4. \A e \in Dispatchers \ {d} : dpc'[e] \in {"sent", "failed"} =>
            /\ hand'[e] \in Messages /\ row'[hand'[e]] # "absent"
            /\ dpc'[e] = "sent" => sent'[hand'[e]] > 0
      BY <2>1, <2>2, <2>3 DEF RowsKnown
    <3> QED
      BY <3>1, <3>2, <3>3, <3>4 DEF RowsKnown
  <2>5. PublishedWasSent'
    BY <2>1, <2>3 DEF PublishedWasSent, TypeOK
  <2> QED
    BY <2>4, <2>5
<1>7. ASSUME NEW d \in Dispatchers, MarkPublished(d) \/ MarkFailed(d)
      PROVE  RowsKnown' /\ PublishedWasSent'
  <2>1. /\ hand[d] \in Messages /\ row[hand[d]] # "absent"
        /\ dpc[d] = "sent" => sent[hand[d]] > 0
    BY <1>7 DEF MarkPublished, MarkFailed, RowsKnown
  <2>2. /\ \A m \in Messages \ {hand[d]} : row'[m] = row[m]
        /\ row'[hand[d]] \in {"published", "failed"}
        /\ row'[hand[d]] = "published" => dpc[d] = "sent"
    BY <1>7, <2>1 DEF MarkPublished, MarkFailed, AfterFailure, TypeOK
  <2>3. /\ dpc'[d] \in {"idle", "send"}
        /\ \A e \in Dispatchers \ {d} : dpc'[e] = dpc[e] /\ hand'[e] = hand[e]
        /\ UNCHANGED <<batch, sent>>
    BY <1>7 DEF MarkPublished, MarkFailed, Dealt, wireVars, TypeOK
  <2> QED
    <3>1. \A n \in Messages : row[n] # "absent" => row'[n] # "absent"
      BY <2>2
    <3>2. \A e \in Dispatchers : dpc'[e] \in {"sent", "failed"} =>
            /\ hand'[e] \in Messages /\ row'[hand'[e]] # "absent"
            /\ dpc'[e] = "sent" => sent'[hand'[e]] > 0
      BY <2>3, <3>1 DEF RowsKnown
    <3>3. RowsKnown'
      BY <2>3, <3>1, <3>2 DEF RowsKnown, TypeOK
    <3> QED
      BY <2>1, <2>2, <2>3, <3>3 DEF PublishedWasSent
<1>8. ASSUME NEW d \in Dispatchers, DispatcherAborts(d)
      PROVE  RowsKnown' /\ PublishedWasSent'
  BY <1>8
  DEF DispatcherAborts, RowsKnown, PublishedWasSent, TypeOK, rowVars, wireVars
<1>9. ASSUME UNCHANGED <<rowVars, sent, dispVars>>
      PROVE  RowsKnown' /\ PublishedWasSent'
  BY <1>9 DEF RowsKnown, PublishedWasSent, rowVars, dispVars
<1> QED
  BY <1>2, <1>3, <1>4, <1>5, <1>6, <1>7, <1>8, <1>9, WorkersApart DEF DispatcherStep

-----------------------------------------------------------------------------
(* Units and rows *)

LEMMA InitUnits == Init => RowsTellState /\ NoWakeupWasted
<1>1. ASSUME Init, NEW u \in Units PROVE ~Claimable(u) /\ status[u] = "absent"
  BY <1>1 DEF Init, Claimable
<1>2. ASSUME Init, NEW m \in Messages PROVE row[m] = "absent"
  BY <1>2 DEF Init
<1> QED
  BY <1>1, <1>2, UnitWakeup DEF RowsTellState, NoWakeupWasted

\* RowsTellState of one unit.
Told(u) ==
  /\ status[u] # "absent" => row[<<u, 0>>] # "absent"
  /\ \A n \in 0..(MaxAttempts[u] - 1) : row[<<u, n>>] # "absent" =>
       \/ attempts[u] > n
       \/ attempts[u] = n /\ Claimable(u)

\* A unit is told as before when neither it nor its rows change.
LEMMA ToldStays ==
  ASSUME NEW u \in Units, DispatchAssumption, Told(u), status'[u] = status[u],
         due'[u] = due[u], attempts'[u] = attempts[u],
         \A n \in 0..(MaxAttempts[u] - 1) :
           row'[<<u, n>>] # "absent" <=> row[<<u, n>>] # "absent"
  PROVE  Told(u)'
<1>1. 0 \in 0..(MaxAttempts[u] - 1)
  BY DEF DispatchAssumption
<1> QED
  BY <1>1 DEF Told, Claimable

LEMMA NextRowsTellState ==
  TypeOK /\ ClaimsExclusive /\ RowsKnown /\ RowsTellState /\ [Next]_vars
    => RowsTellState'
<1> SUFFICES ASSUME TypeOK, ClaimsExclusive, RowsKnown, [Next]_vars,
                    \A u \in Units : Told(u)
             PROVE  \A u \in Units : Told(u)'
  BY Zenon DEF RowsTellState, Told, Claimable
<1> USE DispatchAssumption
<1>1. \A u \in Units : 0 \in 0..(MaxAttempts[u] - 1)
  BY DEF TypeOK
<1>2. ASSUME UNCHANGED unitVars,
             \A m \in Wakeups : row'[m] # "absent" <=> row[m] # "absent"
      PROVE  \A u \in Units : Told(u)'
  BY <1>2, UnitWakeup, ToldStays DEF unitVars
<1>3. ASSUME UNCHANGED <<unitVars, row>> PROVE \A u \in Units : Told(u)'
  BY <1>2, <1>3
<1>4. ASSUME NEW S \in SUBSET Units, StorePlan(S) PROVE \A u \in Units : Told(u)'
  <2>1. /\ \A u \in S : status[u] = "absent"
        /\ \A u \in S : status'[u] = "ready" /\ due'[u]
        /\ \A u \in Units \ S : status'[u] = status[u] /\ due'[u] = due[u]
        /\ attempts' = attempts
    BY <1>4 DEF StorePlan, TypeOK
  <2>2. \A m \in Messages :
          row'[m] # "absent" <=> row[m] # "absent" \/ m \in {<<u, 0>> : u \in S}
    BY <1>4, InsertAdds DEF StorePlan
  <2>3. ASSUME NEW u \in S PROVE Told(u)'
    <3>1. attempts[u] = 0 /\ ~Claimable(u) /\ Claimable(u)'
      BY <2>1 DEF ClaimsExclusive, Claimable
    <3>2. ASSUME NEW n \in 0..(MaxAttempts[u] - 1), row'[<<u, n>>] # "absent"
          PROVE  n = 0
      <4>1. row[<<u, n>>] = "absent"
        <5>1. Told(u)
          OBVIOUS
        <5> QED
          BY <3>1, <5>1 DEF Told
      <4>2. <<u, n>> \in {<<v, 0>> : v \in S}
        BY <2>2, <3>2, <4>1, UnitWakeup
      <4> QED
        BY <4>2
    <3>3. row'[<<u, 0>>] # "absent"
      BY <1>1, <2>2, UnitWakeup
    <3> QED
      BY <2>1, <3>1, <3>2, <3>3 DEF Told
  <2>4. ASSUME NEW u \in Units \ S PROVE Told(u)'
    <3>1. \A n \in 0..(MaxAttempts[u] - 1) : <<u, n>> \notin {<<v, 0>> : v \in S}
      OBVIOUS
    <3> QED
      BY <2>1, <2>2, <3>1, UnitWakeup, ToldStays
  <2> QED
    BY <2>3, <2>4
<1>5. ASSUME NEW e \in Emissions, Emit(e) PROVE \A u \in Units : Told(u)'
  <2>1. \A m \in Wakeups : m # e /\ m \in Messages
    BY DEF Messages
  <2>2. \A m \in Wakeups : row'[m] # "absent" <=> row[m] # "absent"
    BY <1>5, <2>1, InsertAdds DEF Emit
  <2> QED
    BY <1>2, <1>5, <2>2 DEF Emit
<1>6. ASSUME NEW d \in Dispatchers, EnqueueDueRetries(d)
      PROVE  \A u \in Units : Told(u)'
  <2>1. \A m \in Messages :
          row'[m] # "absent" <=>
            row[m] # "absent" \/ m \in {WakeupFor(v) : v \in DueRetries}
    BY <1>6, InsertAdds DEF EnqueueDueRetries
  <2>2. ASSUME NEW u \in Units, NEW n \in 0..(MaxAttempts[u] - 1),
               <<u, n>> \in {WakeupFor(v) : v \in DueRetries}
        PROVE  attempts[u] = n /\ Claimable(u)
    BY <2>2 DEF WakeupFor, DueRetries, Claimable
  <2>3. UNCHANGED unitVars
    BY <1>6 DEF EnqueueDueRetries
  <2>4. \A u \in Units : Claimable(u)' <=> Claimable(u)
    BY <2>3 DEF unitVars, Claimable
  <2> QED
    BY <1>1, <2>1, <2>2, <2>3, <2>4, UnitWakeup DEF Told, unitVars
<1>7. ASSUME NEW d \in Dispatchers, MarkPublished(d) \/ MarkFailed(d)
      PROVE  \A u \in Units : Told(u)'
  <2>1. \A m \in Messages : row'[m] # "absent" <=> row[m] # "absent"
    BY <1>7 DEF MarkPublished, MarkFailed, AfterFailure, RowsKnown, TypeOK
  <2> QED
    BY <1>2, <1>7, <2>1, WakeupOf DEF MarkPublished, MarkFailed
<1>8. ASSUME NEW d \in Dispatchers, DispatcherStep(d) \/ DispatcherAborts(d)
      PROVE  \A u \in Units : Told(u)'
  <2>1. CASE ReadPending(d) \/ DispatcherAborts(d)
    BY <1>3, <2>1 DEF ReadPending, DispatcherAborts, rowVars
  <2>2. CASE \E m \in Messages : Send(d, m) \/ SendFails(d, m)
    BY <1>3, <2>2 DEF Send, SendFails, rowVars
  <2> QED
    BY <1>6, <1>7, <1>8, <2>1, <2>2 DEF DispatcherStep
<1>9. ASSUME NEW u \in Units, NEW e, Claimable(u), Claim(e, u), UNCHANGED row
      PROVE  \A v \in Units : Told(v)'
  <2>1. /\ attempts'[u] = attempts[u] + 1
        /\ \A v \in Units \ {u} : /\ attempts'[v] = attempts[v]
                                 /\ status'[v] = status[v]
                                 /\ due'[v] = due[v]
    BY <1>9 DEF Claim, TypeOK
  <2>2. Told(u)
    OBVIOUS
  <2>3. Told(u)'
    BY <1>1, <1>9, <2>1, <2>2 DEF Told, Claimable, TypeOK
  <2>4. ASSUME NEW v \in Units \ {u} PROVE Told(v)'
    BY <1>9, <2>1, ToldStays
  <2> QED
    BY <2>3, <2>4
<1>10. ASSUME NEW e \in Executors, Complete(e) PROVE \A v \in Units : Told(v)'
  <2>1. PICK u \in Units : u = cur[e] /\ status[u] = "running"
    BY <1>10 DEF Complete, ClaimsExclusive
  <2>2. UNCHANGED <<attempts, row>>
    BY <1>10 DEF Complete, rowVars
  <2>3. \A v \in Units \ {u} : status'[v] = status[v] /\ due'[v] = due[v]
    BY <1>10, <2>1 DEF Complete, TypeOK
  <2>4. Told(u)'
    <3>1. Told(u)
      BY <2>1
    <3> QED
      BY <2>1, <2>2, <3>1 DEF Told, Claimable
  <2>5. ASSUME NEW v \in Units \ {u} PROVE Told(v)'
    BY <2>2, <2>3, ToldStays
  <2> QED
    BY <2>4, <2>5
<1>11. ASSUME NEW c \in Consumers, ConsumerStep(c) \/ Redelivered(c)
       PROVE  \A u \in Units : Told(u)'
  <2>1. CASE HandleWakeup(c)
    <3>1. held[c][1] \in Units
      BY <2>1, WakeupOf DEF Executors, HandleWakeup, ClaimsExclusive
    <3> QED
      BY <1>3, <1>9, <2>1, <3>1 DEF HandleWakeup, rowVars
  <2>2. CASE Complete(c)
    BY <1>10, <2>2 DEF Executors
  <2>3. CASE (\E m \in Wakeups : Receive(c, m)) \/ Ack(c) \/ Redelivered(c)
    BY <1>3, <2>3 DEF Receive, Ack, Redelivered, rowVars
  <2> QED
    BY <1>11, <2>1, <2>2, <2>3 DEF ConsumerStep
<1>12. ASSUME NEW p \in Pollers, NEW u \in Units, Poll(p, u)
       PROVE  \A v \in Units : Told(v)'
  BY <1>9, <1>12 DEF Poll, rowVars
<1>13. ASSUME NEW e \in Executors, ExecutorAborts(e)
       PROVE  \A u \in Units : Told(u)'
  BY <1>3, <1>13 DEF ExecutorAborts, rowVars
<1>14. ASSUME NEW u \in Units, RetryFallsDue(u) PROVE \A v \in Units : Told(v)'
  <2>1. /\ ~Claimable(u)
        /\ UNCHANGED <<status, attempts, row>>
        /\ \A v \in Units \ {u} : due'[v] = due[v]
    BY <1>14 DEF RetryFallsDue, Claimable, rowVars, TypeOK
  <2>2. Told(u)'
    BY <2>1 DEF Told
  <2>3. ASSUME NEW v \in Units \ {u} PROVE Told(v)'
    BY <2>1, ToldStays
  <2> QED
    BY <2>2, <2>3
<1>15. CASE UNCHANGED vars
  BY <1>3, <1>15 DEF vars, rowVars
<1> QED
  BY <1>4, <1>5, <1>8, <1>10, <1>11, <1>12, <1>13, <1>14, <1>15 DEF Next, Executors

-----------------------------------------------------------------------------
(* Wake-ups *)

\* NoWakeupWasted of one unit.
Awaited(u) ==
  Claimable(u) /\ sent[WakeupFor(u)] > 0 => Underway(WakeupFor(u))

\* A unit that waits has a wake-up among the messages.
LEMMA WakeupForType ==
  ASSUME TypeOK, ClaimsExclusive, DispatchAssumption, NEW u \in Units,
         Claimable(u)
  PROVE  WakeupFor(u) \in Wakeups /\ WakeupFor(u) \in Messages
<1>1. attempts[u] \in 0..(MaxAttempts[u] - 1)
  BY DEF TypeOK, ClaimsExclusive, Claimable
<1> QED
  BY <1>1, UnitWakeup DEF WakeupFor

\* A unit stays awaited when it and its message do not change and nothing
\* underway is lost.
LEMMA AwaitedStays ==
  ASSUME TypeOK, ClaimsExclusive, DispatchAssumption,
         NEW u \in Units, Awaited(u), UNCHANGED sent,
         status'[u] = status[u], due'[u] = due[u], attempts'[u] = attempts[u],
         WakeupFor(u) \in Wakeups /\ Underway(WakeupFor(u)) =>
           Underway(WakeupFor(u))'
  PROVE  Awaited(u)'
  BY WakeupForType DEF Awaited, Claimable, WakeupFor

\* What was not sent needs no answer: a unit that begins to wait.
LEMMA NotSentBefore ==
  ASSUME TypeOK, RowsKnown, RowsTellState, DispatchAssumption, NEW u \in Units,
         ~Claimable(u), attempts[u] < MaxAttempts[u]
  PROVE  sent[<<u, attempts[u]>>] = 0
<1>1. attempts[u] \in 0..(MaxAttempts[u] - 1)
  BY DEF TypeOK
<1>2. <<u, attempts[u]>> \in Messages
  BY <1>1, UnitWakeup
<1>3. Told(u)
  BY DEF RowsTellState, Told
<1>4. row[<<u, attempts[u]>>] = "absent"
  BY <1>1, <1>3 DEF Told, TypeOK
<1> QED
  BY <1>2, <1>4 DEF RowsKnown, TypeOK

LEMMA NextNoWakeupWasted ==
  TypeOK /\ ClaimsExclusive /\ RowsKnown /\ RowsTellState /\ NoWakeupWasted
    /\ [Next]_vars => NoWakeupWasted'
<1> SUFFICES ASSUME TypeOK, ClaimsExclusive, RowsKnown, RowsTellState, [Next]_vars,
                    \A u \in Units : Awaited(u)
             PROVE  \A u \in Units : Awaited(u)'
  BY Zenon DEF NoWakeupWasted, Awaited, Underway, WakeupFor, Claimable
<1> USE DispatchAssumption
<1>1. ASSUME UNCHANGED <<unitVars, sent>>, NEW u \in Units,
             WakeupFor(u) \in Wakeups /\ Underway(WakeupFor(u)) =>
               Underway(WakeupFor(u))'
      PROVE  Awaited(u)'
  BY <1>1, AwaitedStays DEF unitVars
<1>2. ASSUME UNCHANGED <<unitVars, sent, wire, epc, held>>
      PROVE  \A u \in Units : Awaited(u)'
  BY <1>1, <1>2 DEF Underway, WakeupFor, unitVars
<1>3. ASSUME NEW S \in SUBSET Units, StorePlan(S)
      PROVE  \A u \in Units : Awaited(u)'
  <2>1. /\ \A u \in S : status[u] = "absent"
        /\ \A u \in Units \ S : status'[u] = status[u] /\ due'[u] = due[u]
        /\ UNCHANGED <<attempts, sent, wire, epc, held>>
    BY <1>3 DEF StorePlan, TypeOK, wireVars, execVars
  <2>2. ASSUME NEW u \in S PROVE Awaited(u)'
    <3>1. ~Claimable(u) /\ attempts[u] < MaxAttempts[u]
      BY <2>1 DEF Claimable, ClaimsExclusive
    <3>2. sent'[<<u, attempts'[u]>>] = 0
      BY <2>1, <3>1, NotSentBefore
    <3> QED
      BY <3>2 DEF Awaited, WakeupFor
  <2>3. ASSUME NEW u \in Units \ S PROVE Awaited(u)'
    <3>1. Underway(WakeupFor(u)) => Underway(WakeupFor(u))'
      BY <2>1 DEF Underway, WakeupFor
    <3> QED
      BY <2>1, <3>1, AwaitedStays
  <2> QED
    BY <2>2, <2>3
<1>4. ASSUME NEW m \in Emissions, Emit(m) PROVE \A u \in Units : Awaited(u)'
  BY <1>2, <1>4 DEF Emit, wireVars, execVars
<1>5. ASSUME NEW d \in Dispatchers,
             \/ EnqueueDueRetries(d) \/ ReadPending(d) \/ MarkPublished(d)
             \/ MarkFailed(d) \/ DispatcherAborts(d)
      PROVE  \A u \in Units : Awaited(u)'
  BY <1>2, <1>5
  DEF EnqueueDueRetries, ReadPending, MarkPublished, MarkFailed,
      DispatcherAborts, wireVars, execVars
<1>6. ASSUME NEW d \in Dispatchers, NEW m \in Messages,
             Send(d, m) \/ SendFails(d, m)
      PROVE  \A u \in Units : Awaited(u)'
  <2>1. UNCHANGED <<unitVars, epc, held>>
    BY <1>6 DEF Send, SendFails, execVars
  <2>2. CASE UNCHANGED wireVars
    BY <1>2, <2>1, <2>2 DEF wireVars
  <2>3. CASE Accept(m)
    <3>1. ASSUME NEW u \in Units PROVE Awaited(u)'
      <4>1. Claimable(u)' <=> Claimable(u)
        BY <2>1 DEF Claimable, unitVars
      <4>2. WakeupFor(u)' = WakeupFor(u)
        BY <2>1 DEF WakeupFor, unitVars
      <4>3. CASE WakeupFor(u) = m /\ Claimable(u)
        <5>1. wire'[m] = wire[m] + 1 /\ wire[m] \in Nat
          BY <2>3, <4>3, WakeupForType, AcceptType DEF TypeOK
        <5> QED
          BY <4>2, <4>3, <5>1 DEF Awaited, Underway
      <4>4. CASE WakeupFor(u) # m /\ Claimable(u)
        <5>1. /\ wire'[WakeupFor(u)] = wire[WakeupFor(u)]
              /\ sent'[WakeupFor(u)] = sent[WakeupFor(u)]
          BY <2>3, <4>4, WakeupForType, AcceptType
        <5>2. Awaited(u)
          OBVIOUS
        <5> QED
          BY <2>1, <4>1, <4>2, <4>4, <5>1, <5>2 DEF Awaited, Underway
      <4>5. CASE ~Claimable(u)
        BY <4>1, <4>5 DEF Awaited
      <4> QED
        BY <4>3, <4>4, <4>5
    <3> QED
      BY <3>1
  <2> QED
    BY <1>6, <2>2, <2>3 DEF Send, SendFails
<1>7. ASSUME NEW c \in Consumers, NEW m \in Wakeups, Receive(c, m)
      PROVE  \A u \in Units : Awaited(u)'
  <2>1. /\ epc[c] = "idle" /\ epc'[c] = "claim" /\ held'[c] = m
        /\ \A f \in Consumers \ {c} : epc'[f] = epc[f] /\ held'[f] = held[f]
        /\ \A n \in Wakeups \ {m} : wire'[n] = wire[n]
        /\ UNCHANGED <<unitVars, sent>>
    BY <1>7 DEF Receive, TypeOK, Executors
  <2>2. ASSUME NEW n \in Wakeups, Underway(n) PROVE Underway(n)'
    <3>1. CASE n = m
      BY <2>1, <3>1 DEF Underway
    <3>2. CASE n # m /\ wire[n] > 0
      BY <2>1, <3>2 DEF Underway
    <3>3. CASE \E f \in Consumers : epc[f] = "claim" /\ held[f] = n
      <4>1. PICK f \in Consumers : epc[f] = "claim" /\ held[f] = n
        BY <3>3
      <4>2. f # c
        BY <2>1, <4>1
      <4> QED
        BY <2>1, <4>1, <4>2 DEF Underway
    <3> QED
      BY <2>2, <3>1, <3>2, <3>3 DEF Underway
  <2>3. \A u \in Units : WakeupFor(u)' = WakeupFor(u)
    BY <2>1 DEF WakeupFor, unitVars
  <2> QED
    BY <1>1, <2>1, <2>2, <2>3 DEF Underway
\* A consumer that is done with a wake-up has found its unit claimed.
<1>8. ASSUME NEW e \in Executors, NEW u \in Units,
             epc[e] = "claim" => held[e][1] = u,
             UNCHANGED <<sent, wire, held>>,
             \A f \in Executors \ {e} : epc'[f] = epc[f],
             \A v \in Units \ {u} : /\ status'[v] = status[v]
                                  /\ due'[v] = due[v]
                                  /\ attempts'[v] = attempts[v],
             ~Claimable(u)'
      PROVE  \A v \in Units : Awaited(v)'
  <2>1. ASSUME NEW v \in Units \ {u}, Underway(WakeupFor(v))
        PROVE  Underway(WakeupFor(v))'
    <3>1. WakeupFor(v)' = WakeupFor(v) /\ WakeupFor(v)[1] # u
      BY <1>8 DEF WakeupFor
    <3>2. CASE wire[WakeupFor(v)] > 0
      BY <1>8, <3>1, <3>2 DEF Underway
    <3>3. CASE \E f \in Consumers : epc[f] = "claim" /\ held[f] = WakeupFor(v)
      <4>1. PICK f \in Consumers : epc[f] = "claim" /\ held[f] = WakeupFor(v)
        BY <3>3
      <4>2. f # e /\ f \in Executors
        BY <1>8, <3>1, <4>1 DEF Executors
      <4> QED
        BY <1>8, <3>1, <4>1, <4>2 DEF Underway
    <3> QED
      BY <2>1, <3>2, <3>3 DEF Underway
  <2>2. ASSUME NEW v \in Units \ {u} PROVE Awaited(v)'
    BY <1>8, <2>1, AwaitedStays
  <2>3. Awaited(u)'
    BY <1>8 DEF Awaited
  <2> QED
    BY <2>2, <2>3
<1>9. ASSUME NEW e \in Executors, NEW u \in Units, Claim(e, u),
             epc[e] = "claim" => held[e][1] = u,
             UNCHANGED <<wireVars, held>>
      PROVE  \A v \in Units : Awaited(v)'
  BY <1>8, <1>9 DEF Claim, Claimable, wireVars, TypeOK
<1>10. ASSUME NEW c \in Consumers, HandleWakeup(c)
       PROVE  \A u \in Units : Awaited(u)'
  <2>1. PICK u \in Units : u = held[c][1]
    BY <1>10, WakeupOf DEF Executors, HandleWakeup, ClaimsExclusive
  <2>2. CASE Claimable(u)
    BY <1>9, <1>10, <2>1, <2>2 DEF HandleWakeup, Executors
  <2>3. CASE ~Claimable(u)
    <3>1. UNCHANGED unitVars /\ UNCHANGED wireVars /\ UNCHANGED held
          /\ \A f \in Executors \ {c} : epc'[f] = epc[f]
      BY <1>10, <2>1, <2>3 DEF HandleWakeup, TypeOK
    <3>2. ~Claimable(u)'
      BY <2>3, <3>1 DEF unitVars, Claimable
    <3> QED
      BY <1>8, <2>1, <3>1, <3>2 DEF Executors, unitVars, wireVars
  <2> QED
    BY <2>2, <2>3
<1>11. ASSUME NEW e \in Executors, Complete(e) PROVE \A v \in Units : Awaited(v)'
  <2>1. PICK u \in Units : u = cur[e]
    BY <1>11 DEF Complete, ClaimsExclusive
  <2>2. /\ \A v \in Units \ {u} : status'[v] = status[v] /\ due'[v] = due[v]
        /\ ~Claimable(u)'
    BY <1>11, <2>1 DEF Complete, Claimable, TypeOK
  <2>3. /\ epc[e] # "claim" /\ UNCHANGED <<attempts, sent, wire, held>>
        /\ \A f \in Executors \ {e} : epc'[f] = epc[f]
    BY <1>11 DEF Complete, wireVars, TypeOK
  <2> QED
    BY <1>8, <2>2, <2>3
<1>12. ASSUME NEW c \in Consumers, Ack(c) PROVE \A u \in Units : Awaited(u)'
  <2>1. /\ epc[c] = "ack" /\ UNCHANGED <<unitVars, sent, wire>>
        /\ \A f \in Executors \ {c} : epc'[f] = epc[f] /\ held'[f] = held[f]
    BY <1>12 DEF Ack, wireVars, TypeOK
  <2>2. \A m : Underway(m) => Underway(m)'
    BY <2>1 DEF Underway, Executors
  <2>3. \A u \in Units : WakeupFor(u)' = WakeupFor(u)
    BY <2>1 DEF WakeupFor, unitVars
  <2> QED
    BY <1>1, <2>1, <2>2, <2>3 DEF Underway
<1>13. ASSUME NEW e \in Executors, wire' = Returned(e),
              UNCHANGED <<unitVars, sent>>,
              \A f \in Executors \ {e} : epc'[f] = epc[f] /\ held'[f] = held[f]
       PROVE  \A u \in Units : Awaited(u)'
  <2>1. ASSUME NEW m \in Wakeups, Underway(m) PROVE Underway(m)'
    <3>1. wire[m] \in Nat /\ wire'[m] = IF m = held[e] THEN wire[m] + 1 ELSE wire[m]
      BY <1>13 DEF Returned, TypeOK
    <3>2. CASE wire[m] > 0
      BY <3>1, <3>2 DEF Underway
    <3>3. CASE \E f \in Consumers : epc[f] = "claim" /\ held[f] = m
      <4>1. PICK f \in Consumers : epc[f] = "claim" /\ held[f] = m
        BY <3>3
      <4>2. CASE f = e
        BY <3>1, <4>1, <4>2 DEF Underway
      <4>3. CASE f # e
        BY <1>13, <4>1, <4>3 DEF Underway, Executors
      <4> QED
        BY <4>2, <4>3
    <3> QED
      BY <2>1, <3>2, <3>3 DEF Underway
  <2>2. \A u \in Units : WakeupFor(u)' = WakeupFor(u)
    BY <1>13 DEF WakeupFor, unitVars
  <2> QED
    BY <1>1, <1>13, <2>1, <2>2 DEF Underway
<1>14. ASSUME NEW e \in Executors, ExecutorAborts(e)
       PROVE  \A u \in Units : Awaited(u)'
  BY <1>13, <1>14 DEF ExecutorAborts, TypeOK
<1>15. ASSUME NEW c \in Consumers, Redelivered(c)
       PROVE  \A u \in Units : Awaited(u)'
  BY <1>13, <1>15 DEF Redelivered, execVars, Executors
<1>16. ASSUME NEW p \in Pollers, NEW u \in Units, Poll(p, u)
       PROVE  \A v \in Units : Awaited(v)'
  BY <1>9, <1>16 DEF Poll, Executors
<1>17. ASSUME NEW u \in Units, RetryFallsDue(u)
       PROVE  \A v \in Units : Awaited(v)'
  <2>1. /\ status[u] = "retry_scheduled" /\ ~Claimable(u)
        /\ UNCHANGED <<status, attempts, sent, wire, epc, held>>
        /\ \A v \in Units \ {u} : due'[v] = due[v]
    BY <1>17 DEF RetryFallsDue, Claimable, wireVars, execVars, TypeOK
  <2>2. Awaited(u)'
    <3>1. sent'[<<u, attempts'[u]>>] = 0
      BY <2>1, NotSentBefore DEF ClaimsExclusive
    <3> QED
      BY <3>1 DEF Awaited, WakeupFor
  <2>3. ASSUME NEW v \in Units \ {u} PROVE Awaited(v)'
    <3>1. Underway(WakeupFor(v)) => Underway(WakeupFor(v))'
      BY <2>1 DEF Underway, WakeupFor
    <3> QED
      BY <2>1, <3>1, AwaitedStays
  <2> QED
    BY <2>2, <2>3
<1>18. CASE UNCHANGED vars
  BY <1>2, <1>18 DEF vars, wireVars, execVars
<1> QED
  BY <1>3, <1>4, <1>5, <1>6, <1>7, <1>10, <1>11, <1>12, <1>14, <1>15, <1>16, <1>17,
     <1>18
  DEF Next, DispatcherStep, ConsumerStep, Executors

-----------------------------------------------------------------------------
(* How often a message is sent *)

\* The dispatchers that have tried the message and not marked its row yet, and
\* those that still have the row before them.
Handling(m) == {d \in Dispatchers : dpc[d] \in {"sent", "failed"} /\ hand[d] = m}
Holding(m) == {d \in Dispatchers : m \in batch[d]}

\* Until its row is decided each dispatcher that is about to decide it accounts
\* for one sending.  Once it is decided nobody reads it again, and each
\* dispatcher that holds it is owed one.
Accounted(m) ==
  /\ row[m] \in {"absent", "pending"} =>
       sent[m] <= Cardinality(Handling(m)) + troubles
  /\ row[m] \in {"published", "failed"} =>
       sent[m] + Cardinality(Holding(m)) <= Cardinality(Dispatchers) + troubles

\* A dispatcher puts a row aside before it sends it.
PutAside ==
  \A d \in Dispatchers : dpc[d] \in {"sent", "failed"} => hand[d] \notin batch[d]

SendsAccounted == PutAside /\ \A m \in Messages : Accounted(m)

\* Parts of the dispatchers can be counted.
LEMMA CountType ==
  ASSUME DispatchersFinite, NEW S \in SUBSET Dispatchers
  PROVE  IsFiniteSet(S) /\ Cardinality(S) \in Nat
  BY FS_Subset, FS_CardinalityType DEF DispatchersFinite

LEMMA CountAdded ==
  ASSUME DispatchersFinite, NEW S \in SUBSET Dispatchers, NEW d \in Dispatchers,
         d \notin S
  PROVE  Cardinality(S \cup {d}) = Cardinality(S) + 1
  BY CountType, FS_AddElement

LEMMA CountRemoved ==
  ASSUME DispatchersFinite, NEW S \in SUBSET Dispatchers, NEW d \in S
  PROVE  Cardinality(S \ {d}) = Cardinality(S) - 1
  BY CountType, FS_RemoveElement

LEMMA CountSmaller ==
  ASSUME DispatchersFinite, NEW S \in SUBSET Dispatchers, NEW T \in SUBSET S
  PROVE  Cardinality(T) <= Cardinality(S)
  BY CountType, FS_Subset

\* Nobody handles a message and holds it.
LEMMA CountApart ==
  ASSUME DispatchersFinite, PutAside, NEW m \in Messages
  PROVE  Cardinality(Handling(m)) + Cardinality(Holding(m))
           <= Cardinality(Dispatchers)
<1> DEFINE H == Handling(m)
           B == Holding(m)
<1>1. H \in SUBSET Dispatchers /\ B \in SUBSET Dispatchers
  BY DEF Handling, Holding
<1>2. H \cap B = {}
  BY DEF PutAside, Handling, Holding
<1>3. Cardinality(H \cup B) = Cardinality(H) + Cardinality(B) - Cardinality(H \cap B)
  BY <1>1, CountType, FS_Union
<1>4. Cardinality(H \cup B) <= Cardinality(Dispatchers)
  <2>1. H \cup B \in SUBSET Dispatchers
    BY <1>1
  <2> QED
    BY <2>1, FS_Subset DEF DispatchersFinite
<1>5. Cardinality(H \cap B) = 0
  BY <1>2, FS_EmptySet
<1>6. Cardinality(H) \in Nat /\ Cardinality(B) \in Nat
  BY <1>1, CountType
<1>7. Cardinality(Dispatchers) \in Nat /\ Cardinality(H \cup B) \in Nat
  BY <1>1, CountType
<1> QED
  BY <1>3, <1>4, <1>5, <1>6, <1>7

\* The sizes that Accounted compares.
LEMMA AccountType ==
  ASSUME DispatchersFinite, TypeOK, NEW m \in Messages
  PROVE  /\ Handling(m) \in SUBSET Dispatchers /\ Holding(m) \in SUBSET Dispatchers
         /\ Cardinality(Handling(m)) \in Nat /\ Cardinality(Holding(m)) \in Nat
         /\ Cardinality(Dispatchers) \in Nat
         /\ sent[m] \in Nat /\ troubles \in Nat
<1>1. Handling(m) \in SUBSET Dispatchers /\ Holding(m) \in SUBSET Dispatchers
  BY DEF Handling, Holding
<1>2. Cardinality(Handling(m)) \in Nat /\ Cardinality(Holding(m)) \in Nat
      /\ Cardinality(Dispatchers) \in Nat
  BY <1>1, CountType
<1> QED
  BY <1>1, <1>2 DEF TypeOK

\* A message stays accounted for when nobody sends it, its row is as decided as
\* before, nobody begins to hold it after that, and nobody gives up handling it
\* before.
LEMMA AccountedStays ==
  ASSUME DispatchersFinite, TypeOK, TypeOK', NEW m \in Messages, Accounted(m),
         sent'[m] = sent[m], troubles <= troubles',
         row'[m] = row[m] \/ (row[m] = "absent" /\ row'[m] = "pending"),
         row[m] \in {"absent", "pending"} => Handling(m) \subseteq Handling(m)',
         row[m] \in {"published", "failed"} => Holding(m)' \subseteq Holding(m)
  PROVE  Accounted(m)'
<1>1. /\ Cardinality(Handling(m)) \in Nat /\ Cardinality(Holding(m)) \in Nat
      /\ Cardinality(Dispatchers) \in Nat /\ sent[m] \in Nat /\ troubles \in Nat
  BY AccountType
<1>2. /\ Handling(m)' \in SUBSET Dispatchers /\ Holding(m)' \in SUBSET Dispatchers
      /\ troubles' \in Nat
  BY DEF Handling, Holding, TypeOK
<1>3. Cardinality(Handling(m)') \in Nat /\ Cardinality(Holding(m)') \in Nat
  BY <1>2, CountType
<1>4. CASE row[m] \in {"absent", "pending"}
  <2>1. Cardinality(Handling(m)) <= Cardinality(Handling(m)')
    BY <1>2, <1>4, CountSmaller
  <2> QED
    BY <1>1, <1>2, <1>3, <1>4, <2>1 DEF Accounted
<1>5. CASE row[m] \in {"published", "failed"}
  <2>1. Cardinality(Holding(m)') <= Cardinality(Holding(m))
    BY <1>5, CountSmaller, AccountType
  <2> QED
    BY <1>1, <1>2, <1>3, <1>5, <2>1 DEF Accounted
<1> QED
  BY <1>4, <1>5 DEF TypeOK

LEMMA InitSendsAccounted == Init /\ DispatchersFinite => SendsAccounted
<1> SUFFICES ASSUME Init, DispatchersFinite PROVE SendsAccounted
  OBVIOUS
<1>1. PutAside
  BY DEF Init, PutAside
<1>2. ASSUME NEW m \in Messages PROVE Accounted(m)
  BY AccountType, InitTypeOK DEF Init, Accounted
<1> QED
  BY <1>1, <1>2 DEF SendsAccounted

\* What has gone wrong is never forgotten.
LEMMA TroublesGrow == TypeOK /\ [Next]_vars => troubles <= troubles'
<1> SUFFICES ASSUME TypeOK, [Next]_vars PROVE troubles <= troubles'
  OBVIOUS
<1>1. troubles <= troubles /\ troubles <= troubles + 1
  BY DEF TypeOK
<1>2. ASSUME NEW d \in Dispatchers, DispatcherStep(d) \/ DispatcherAborts(d)
      PROVE  troubles' = troubles \/ troubles' = troubles + 1
  BY <1>2
  DEF DispatcherStep, DispatcherAborts, EnqueueDueRetries, ReadPending,
      MarkPublished, MarkFailed, Send, SendFails, Trouble
<1>3. ASSUME NEW c \in Consumers, ConsumerStep(c) \/ Redelivered(c)
      PROVE  troubles' = troubles \/ troubles' = troubles + 1
  BY <1>3
  DEF ConsumerStep, Receive, HandleWakeup, Complete, Ack, Redelivered, Trouble
<1>4. ASSUME NEW p \in Pollers, Complete(p) \/ \E u \in Units : Poll(p, u)
      PROVE  troubles' = troubles
  BY <1>4 DEF Complete, Poll
<1>5. ASSUME NEW e \in Executors, ExecutorAborts(e)
      PROVE  troubles' = troubles + 1
  BY <1>5 DEF ExecutorAborts, Trouble
<1>6. ASSUME \/ \E S \in SUBSET Units : StorePlan(S)
             \/ \E m \in Emissions : Emit(m)
             \/ \E u \in Units : RetryFallsDue(u)
             \/ UNCHANGED vars
      PROVE  troubles' = troubles
  BY <1>6 DEF StorePlan, Emit, RetryFallsDue, vars
<1> QED
  BY <1>1, <1>2, <1>3, <1>4, <1>5, <1>6 DEF Next

LEMMA NextSendsAccounted ==
  TypeOK /\ RowsKnown /\ SendsAccounted /\ [Next]_vars /\ TypeOK' /\ DispatchersFinite
    => SendsAccounted'
<1> SUFFICES ASSUME TypeOK, TypeOK', RowsKnown, PutAside, [Next]_vars,
                    DispatchersFinite, \A m \in Messages : Accounted(m)
             PROVE  PutAside' /\ \A m \in Messages : Accounted(m)'
  BY DEF SendsAccounted
<1>0. troubles <= troubles'
  BY TroublesGrow
<1> USE DispatchAssumption
<1>1. ASSUME NEW S, Insert(S), UNCHANGED <<sent, batch, hand, troubles>>,
             NEW D \in SUBSET {d \in Dispatchers : dpc[d] = "idle"},
             dpc' = [d \in Dispatchers |-> IF d \in D THEN "read" ELSE dpc[d]]
      PROVE  PutAside' /\ \A m \in Messages : Accounted(m)'
  <2>1. PutAside'
    BY <1>1 DEF PutAside
  <2>2. ASSUME NEW m \in Messages PROVE Accounted(m)'
    <3>1. row'[m] = row[m] \/ (row[m] = "absent" /\ row'[m] = "pending")
      BY <1>1, InsertAdds DEF TypeOK
    <3>2. Handling(m) \subseteq Handling(m)' /\ Holding(m)' \subseteq Holding(m)
      BY <1>1 DEF Handling, Holding
    <3> QED
      BY <1>1, <3>1, <3>2, <1>0, AccountedStays
  <2> QED
    BY <2>1, <2>2
<1>2. ASSUME NEW S \in SUBSET Units, StorePlan(S)
      PROVE  PutAside' /\ \A m \in Messages : Accounted(m)'
  <2>1. dpc' = [d \in Dispatchers |-> IF d \in {} THEN "read" ELSE dpc[d]]
    BY <1>2 DEF StorePlan, dispVars, TypeOK
  <2> QED
    BY <1>1, <1>2, <2>1 DEF StorePlan, wireVars, dispVars
<1>3. ASSUME NEW m \in Emissions, Emit(m)
      PROVE  PutAside' /\ \A n \in Messages : Accounted(n)'
  <2>1. dpc' = [d \in Dispatchers |-> IF d \in {} THEN "read" ELSE dpc[d]]
    BY <1>3 DEF Emit, dispVars, TypeOK
  <2> QED
    BY <1>1, <1>3, <2>1 DEF Emit, wireVars, dispVars
<1>4. ASSUME NEW d \in Dispatchers, EnqueueDueRetries(d)
      PROVE  PutAside' /\ \A m \in Messages : Accounted(m)'
  <2>1. dpc' = [e \in Dispatchers |-> IF e \in {d} THEN "read" ELSE dpc[e]]
    BY <1>4 DEF EnqueueDueRetries, TypeOK
  <2>2. {d} \in SUBSET {e \in Dispatchers : dpc[e] = "idle"}
    BY <1>4 DEF EnqueueDueRetries
  <2> QED
    BY <1>1, <1>4, <2>1, <2>2 DEF EnqueueDueRetries, wireVars
<1>5. ASSUME NEW d \in Dispatchers, ReadPending(d)
      PROVE  PutAside' /\ \A m \in Messages : Accounted(m)'
  <2>1. /\ dpc[d] = "read" /\ dpc'[d] \in {"idle", "send"}
        /\ batch'[d] \subseteq Pending
        /\ \A e \in Dispatchers \ {d} : batch'[e] = batch[e] /\ dpc'[e] = dpc[e]
        /\ UNCHANGED <<row, sent, hand, troubles>>
    <3>1. PICK S \in Batches : batch' = [batch EXCEPT ![d] = S]
      BY <1>5 DEF ReadPending
    <3>2. S \subseteq Pending
      BY DEF Batches
    <3>3. /\ dpc[d] = "read"
          /\ dpc' = [dpc EXCEPT ![d] = IF Pending = {} THEN "idle" ELSE "send"]
      BY <1>5 DEF ReadPending
    <3>4. UNCHANGED <<row, sent, hand, troubles>>
      BY <1>5 DEF ReadPending, rowVars, wireVars
    <3> QED
      BY <3>1, <3>2, <3>3, <3>4 DEF TypeOK
  <2>2. PutAside'
    BY <2>1 DEF PutAside
  <2>3. ASSUME NEW m \in Messages PROVE Accounted(m)'
    <3>1. Handling(m) \subseteq Handling(m)'
      BY <2>1 DEF Handling
    <3>2. row[m] \in {"published", "failed"} => Holding(m)' \subseteq Holding(m)
      BY <2>1 DEF Holding, Pending
    <3> QED
      BY <2>1, <3>1, <3>2, <1>0, AccountedStays
  <2> QED
    BY <2>2, <2>3
\* The message may be sent once more than before: the dispatcher now handles it
\* and holds it no longer.
<1>6. ASSUME NEW d \in Dispatchers, NEW m \in Messages,
             Send(d, m) \/ SendFails(d, m)
      PROVE  PutAside' /\ \A n \in Messages : Accounted(n)'
  <2>1. /\ dpc[d] = "send" /\ m \in batch[d]
        /\ batch'[d] = batch[d] \ {m} /\ hand'[d] = m
        /\ dpc'[d] \in {"sent", "failed"}
        /\ \A e \in Dispatchers \ {d} :
             batch'[e] = batch[e] /\ dpc'[e] = dpc[e] /\ hand'[e] = hand[e]
    BY <1>6 DEF Send, SendFails, InTurn, Take, TypeOK
  <2>2. row' = row /\ troubles <= troubles'
    BY <1>6 DEF Send, SendFails, Trouble, rowVars, TypeOK
  <2>3. /\ sent'[m] \in {sent[m], sent[m] + 1}
        /\ \A n \in Messages \ {m} : sent'[n] = sent[n]
    <3>1. UNCHANGED sent \/ Accept(m)
      BY <1>6 DEF Send, SendFails, wireVars
    <3> QED
      BY <3>1, AcceptType
  <2>4. PutAside'
    BY <2>1 DEF PutAside
  <2>5. ASSUME NEW n \in Messages \ {m} PROVE Accounted(n)'
    <3>1. Handling(n) \subseteq Handling(n)' /\ Holding(n)' \subseteq Holding(n)
      BY <2>1 DEF Handling, Holding
    <3> QED
      BY <2>2, <2>3, <3>1, <1>0, AccountedStays
  <2>6. Accounted(m)'
    <3>1. /\ d \notin Handling(m) /\ Handling(m)' = Handling(m) \cup {d}
          /\ d \in Holding(m) /\ Holding(m)' = Holding(m) \ {d}
      BY <2>1 DEF Handling, Holding
    <3>2. /\ Handling(m) \in SUBSET Dispatchers /\ Holding(m) \in SUBSET Dispatchers
          /\ Cardinality(Handling(m)) \in Nat /\ Cardinality(Holding(m)) \in Nat
          /\ Cardinality(Dispatchers) \in Nat /\ sent[m] \in Nat
          /\ troubles \in Nat
      BY AccountType
    <3>3. /\ Cardinality(Handling(m)') = Cardinality(Handling(m)) + 1
          /\ Cardinality(Holding(m)') = Cardinality(Holding(m)) - 1
      BY <3>1, <3>2, CountAdded, CountRemoved
    <3>4. troubles' \in Nat
      BY DEF TypeOK
    <3>5. Accounted(m)
      OBVIOUS
    <3> QED
      BY <2>2, <2>3, <3>2, <3>3, <3>4, <3>5 DEF Accounted
  <2> QED
    BY <2>4, <2>5, <2>6
\* The row is decided: what was sent was sent by those who handled it, and those
\* who still hold the row are others.
<1>7. ASSUME NEW d \in Dispatchers, MarkPublished(d) \/ MarkFailed(d)
      PROVE  PutAside' /\ \A m \in Messages : Accounted(m)'
  <2>1. PICK m \in Messages : m = hand[d]
    BY <1>7 DEF MarkPublished, MarkFailed, RowsKnown
  <2>2. /\ \A n \in Messages \ {m} : row'[n] = row[n]
        /\ row'[m] \in {"published", "failed"}
    BY <1>7, <2>1 DEF MarkPublished, MarkFailed, AfterFailure, TypeOK
  <2>3. /\ dpc'[d] \in {"idle", "send"}
        /\ \A e \in Dispatchers \ {d} : dpc'[e] = dpc[e] /\ hand'[e] = hand[e]
        /\ UNCHANGED <<batch, sent, troubles>>
    BY <1>7 DEF MarkPublished, MarkFailed, Dealt, wireVars, TypeOK
  <2>4. PutAside'
    BY <2>3 DEF PutAside
  <2>5. ASSUME NEW n \in Messages \ {m} PROVE Accounted(n)'
    <3>1. Handling(n) \subseteq Handling(n)' /\ Holding(n)' \subseteq Holding(n)
      BY <2>1, <2>3 DEF Handling, Holding
    <3> QED
      BY <2>2, <2>3, <3>1, <1>0, AccountedStays
  <2>6. Accounted(m)'
    <3>1. sent[m] + Cardinality(Holding(m)) <= Cardinality(Dispatchers) + troubles
      <4>1. Accounted(m)
        OBVIOUS
      <4>2. Cardinality(Handling(m)) + Cardinality(Holding(m))
              <= Cardinality(Dispatchers)
        BY CountApart
      <4>3. /\ Cardinality(Handling(m)) \in Nat /\ Cardinality(Holding(m)) \in Nat
            /\ Cardinality(Dispatchers) \in Nat /\ sent[m] \in Nat
            /\ troubles \in Nat
        BY AccountType
      <4>4. row[m] \in {"absent", "pending", "published", "failed"}
        BY DEF TypeOK
      <4> QED
        BY <4>1, <4>2, <4>3, <4>4 DEF Accounted
    <3>2. Holding(m)' = Holding(m)
      BY <2>3 DEF Holding
    <3> QED
      BY <2>2, <2>3, <3>1, <3>2 DEF Accounted
  <2> QED
    BY <2>4, <2>5, <2>6
<1>8. ASSUME NEW d \in Dispatchers, DispatcherAborts(d)
      PROVE  PutAside' /\ \A m \in Messages : Accounted(m)'
  <2>1. /\ dpc'[d] = "idle" /\ batch'[d] = {} /\ troubles' = troubles + 1
        /\ \A e \in Dispatchers \ {d} :
             batch'[e] = batch[e] /\ dpc'[e] = dpc[e] /\ hand'[e] = hand[e]
        /\ UNCHANGED <<row, sent>>
    BY <1>8 DEF DispatcherAborts, Trouble, rowVars, wireVars, TypeOK
  <2>2. PutAside'
    BY <2>1 DEF PutAside
  <2>3. ASSUME NEW m \in Messages PROVE Accounted(m)'
    <3>1. /\ Handling(m)' = Handling(m) \ {d} /\ Holding(m)' \in SUBSET Holding(m)
      BY <2>1 DEF Handling, Holding
    <3>2. /\ Handling(m) \in SUBSET Dispatchers /\ Holding(m) \in SUBSET Dispatchers
          /\ Cardinality(Handling(m)) \in Nat /\ Cardinality(Holding(m)) \in Nat
          /\ Cardinality(Dispatchers) \in Nat /\ sent[m] \in Nat
          /\ troubles \in Nat
      BY AccountType
    <3>3. Cardinality(Handling(m)') >= Cardinality(Handling(m)) - 1
      <4>1. CASE d \in Handling(m)
        BY <3>1, <3>2, <4>1, CountRemoved
      <4>2. CASE d \notin Handling(m)
        <5>1. Handling(m)' = Handling(m)
          BY <3>1, <4>2
        <5> QED
          BY <3>2, <5>1
      <4> QED
        BY <4>1, <4>2
    <3>4. Cardinality(Holding(m)') <= Cardinality(Holding(m))
      BY <3>1, <3>2, CountSmaller
    <3>5. Cardinality(Handling(m)') \in Nat /\ Cardinality(Holding(m)') \in Nat
      BY <3>1, <3>2, CountType
    <3>6. Accounted(m)
      OBVIOUS
    <3> QED
      BY <2>1, <3>2, <3>3, <3>4, <3>5, <3>6 DEF Accounted
  <2> QED
    BY <2>2, <2>3
<1>9. ASSUME UNCHANGED <<rowVars, sent, dispVars>>
      PROVE  PutAside' /\ \A m \in Messages : Accounted(m)'
  <2>1. PutAside'
    BY <1>9 DEF PutAside, dispVars
  <2>2. ASSUME NEW m \in Messages PROVE Accounted(m)'
    <3>1. Handling(m)' = Handling(m) /\ Holding(m)' = Holding(m)
      BY <1>9 DEF Handling, Holding, dispVars
    <3> QED
      BY <1>9, <3>1, <1>0, AccountedStays DEF rowVars
  <2> QED
    BY <2>1, <2>2
<1> QED
  BY <1>2, <1>3, <1>4, <1>5, <1>6, <1>7, <1>8, <1>9, WorkersApart DEF DispatcherStep

-----------------------------------------------------------------------------
(* The wire *)

LEMMA InitWireKnown == Init => WireKnown
<1> SUFFICES ASSUME Init PROVE WireKnown
  OBVIOUS
<1>1. \A m \in Wakeups : wire[m] = 0
  BY DEF Init
<1>2. \A e \in Executors : held[e] \notin Wakeups
  BY DEF Init, Wakeups, Nothing
<1> QED
  BY <1>1, <1>2 DEF WireKnown

LEMMA NextWireKnown == TypeOK /\ WireKnown /\ [Next]_vars => WireKnown'
<1> SUFFICES ASSUME TypeOK, WireKnown, [Next]_vars PROVE WireKnown'
  OBVIOUS
<1> USE DispatchAssumption
<1>1. ASSUME UNCHANGED <<wireVars, held>> PROVE WireKnown'
  BY <1>1 DEF WireKnown, wireVars
<1>2. ASSUME NEW d \in Dispatchers, NEW m \in Messages,
             Send(d, m) \/ SendFails(d, m)
      PROVE  WireKnown'
  <2>1. UNCHANGED held
    BY <1>2 DEF Send, SendFails, execVars
  <2>2. CASE Accept(m)
    <3>1. \A n \in Messages : sent[n] > 0 \/ n = m => sent'[n] > 0
      BY <2>2, AcceptType DEF TypeOK
    <3>2. \A n \in Wakeups : wire'[n] > 0 => wire[n] > 0 \/ n = m
      BY <2>2, AcceptType
    <3>3. Wakeups \subseteq Messages
      BY DEF Messages
    <3> QED
      BY <2>1, <3>1, <3>2, <3>3 DEF WireKnown
  <2> QED
    BY <1>1, <1>2, <2>1, <2>2 DEF Send, SendFails
<1>3. ASSUME NEW c \in Consumers, NEW m \in Wakeups, Receive(c, m)
      PROVE  WireKnown'
  <2>1. /\ wire[m] > 0 /\ held'[c] = m
        /\ \A n \in Wakeups : wire'[n] > 0 => wire[n] > 0
        /\ \A f \in Executors \ {c} : held'[f] = held[f]
        /\ sent' = sent
    BY <1>3 DEF Receive, TypeOK, Executors
  <2> QED
    BY <2>1 DEF WireKnown
<1>4. ASSUME NEW e \in Executors, wire' = Returned(e), UNCHANGED sent,
             \A f \in Executors : held'[f] = held[f] \/ held'[f] = Nothing
      PROVE  WireKnown'
  <2>1. \A n \in Wakeups : wire'[n] > 0 => wire[n] > 0 \/ n = held[e]
    BY <1>4 DEF Returned
  <2>2. Nothing \notin Wakeups
    BY DEF Wakeups, Nothing
  <2> QED
    BY <1>4, <2>1, <2>2 DEF WireKnown
<1>5. ASSUME NEW e \in Executors, ExecutorAborts(e) PROVE WireKnown'
  <2>1. \A f \in Executors : held'[f] = held[f] \/ held'[f] = Nothing
    BY <1>5 DEF ExecutorAborts, TypeOK
  <2> QED
    BY <1>4, <1>5, <2>1 DEF ExecutorAborts
<1>6. ASSUME NEW c \in Consumers, Redelivered(c) PROVE WireKnown'
  BY <1>4, <1>6 DEF Redelivered, execVars, Executors
<1>7. ASSUME NEW c \in Consumers, Ack(c) PROVE WireKnown'
  <2>1. \A f \in Executors : held'[f] = held[f] \/ held'[f] = Nothing
    BY <1>7 DEF Ack, TypeOK
  <2>2. Nothing \notin Wakeups
    BY DEF Wakeups, Nothing
  <2> QED
    BY <1>7, <2>1, <2>2 DEF Ack, WireKnown, wireVars
<1>8. ASSUME NEW d \in Dispatchers,
             \/ EnqueueDueRetries(d) \/ ReadPending(d) \/ MarkPublished(d)
             \/ MarkFailed(d) \/ DispatcherAborts(d)
      PROVE  WireKnown'
  BY <1>1, <1>8
  DEF EnqueueDueRetries, ReadPending, MarkPublished, MarkFailed,
      DispatcherAborts, execVars
<1>9. ASSUME NEW e \in Executors,
             \/ HandleWakeup(e) \/ Complete(e)
             \/ \E u \in Units : Poll(e, u)
      PROVE  WireKnown'
  BY <1>1, <1>9 DEF HandleWakeup, Complete, Poll
<1>10. ASSUME \/ \E S \in SUBSET Units : StorePlan(S)
              \/ \E m \in Emissions : Emit(m)
              \/ \E u \in Units : RetryFallsDue(u)
       PROVE  WireKnown'
  BY <1>1, <1>10 DEF StorePlan, Emit, RetryFallsDue, execVars
<1>11. CASE UNCHANGED vars
  BY <1>1, <1>11 DEF vars, execVars
<1> QED
  BY <1>2, <1>3, <1>5, <1>6, <1>7, <1>8, <1>9, <1>10, <1>11
  DEF Next, DispatcherStep, ConsumerStep, Executors

-----------------------------------------------------------------------------
(* Attempts *)

LEMMA InitTriedBefore == Init => TriedBefore
  BY DEF Init, TriedBefore

LEMMA NextTriedBefore ==
  TypeOK /\ ClaimsExclusive /\ TriedBefore /\ [Next]_vars => TriedBefore'
<1> SUFFICES ASSUME TypeOK, ClaimsExclusive, TriedBefore, [Next]_vars
             PROVE  TriedBefore'
  OBVIOUS
<1> USE DispatchAssumption
<1>1. ASSUME UNCHANGED <<status, attempts>> PROVE TriedBefore'
  BY <1>1 DEF TriedBefore
<1>2. ASSUME NEW S \in SUBSET Units, StorePlan(S) PROVE TriedBefore'
  BY <1>2 DEF StorePlan, TriedBefore, TypeOK
<1>3. ASSUME NEW e \in Executors, NEW u \in Units, Claim(e, u) PROVE TriedBefore'
  BY <1>3 DEF Claim, TriedBefore, TypeOK
<1>4. ASSUME NEW e \in Executors, Complete(e) PROVE TriedBefore'
  <2>1. cur[e] \in Units /\ status[cur[e]] = "running"
    BY <1>4 DEF Complete, ClaimsExclusive
  <2>2. /\ \A u \in Units : u # cur[e] => status'[u] = status[u]
        /\ attempts' = attempts
    BY <1>4 DEF Complete, TypeOK
  <2> QED
    BY <2>1, <2>2 DEF TriedBefore
<1>5. ASSUME NEW c \in Consumers, HandleWakeup(c) PROVE TriedBefore'
  <2>1. held[c][1] \in Units /\ c \in Executors
    BY <1>5, WakeupOf DEF Executors, HandleWakeup, ClaimsExclusive
  <2> QED
    BY <1>1, <1>3, <1>5, <2>1 DEF HandleWakeup, unitVars
<1>6. ASSUME NEW p \in Pollers, NEW u \in Units, Poll(p, u) PROVE TriedBefore'
  BY <1>3, <1>6 DEF Poll, Executors
<1>7. ASSUME NEW c \in Consumers,
             \/ \E m \in Wakeups : Receive(c, m)
             \/ Ack(c) \/ Redelivered(c)
      PROVE  TriedBefore'
  BY <1>1, <1>7 DEF Receive, Ack, Redelivered, unitVars
<1>8. ASSUME NEW d \in Dispatchers, DispatcherStep(d) \/ DispatcherAborts(d)
      PROVE  UNCHANGED <<status, attempts>>
  BY <1>8
  DEF DispatcherStep, DispatcherAborts, EnqueueDueRetries, ReadPending, Send,
      SendFails, MarkPublished, MarkFailed, unitVars
<1>9. ASSUME \/ \E m \in Emissions : Emit(m)
             \/ \E e \in Executors : ExecutorAborts(e)
             \/ \E u \in Units : RetryFallsDue(u)
      PROVE  TriedBefore'
  BY <1>1, <1>9 DEF Emit, ExecutorAborts, RetryFallsDue, unitVars
<1>10. CASE UNCHANGED vars
  BY <1>1, <1>10 DEF vars, unitVars
<1> QED
  BY <1>1, <1>2, <1>4, <1>5, <1>6, <1>7, <1>8, <1>9, <1>10
  DEF Next, ConsumerStep, Executors

-----------------------------------------------------------------------------
\* DispatchInv holds in every state, whatever the units, their attempts, the
\* dispatchers, the workers and what goes wrong.
THEOREM DispatchInvHolds == Spec => []DispatchInv
<1>1. Init => DispatchInv
  BY InitTypeOK, InitClaimsExclusive, InitRows, InitUnits, InitWireKnown,
     InitTriedBefore
  DEF DispatchInv
<1>2. DispatchInv /\ [Next]_vars => DispatchInv'
  BY NextTypeOK, NextClaimsExclusive, NextRows, NextRowsTellState,
     NextNoWakeupWasted, NextWireKnown, NextTriedBefore
  DEF DispatchInv
<1> QED
  BY <1>1, <1>2, PTL DEF Spec

\* Type correctness of outbox, dispatchers and workers.
THEOREM DispatchTypeCorrect == Spec => []TypeOK
<1>1. DispatchInv => TypeOK
  BY DEF DispatchInv
<1> QED
  BY <1>1, DispatchInvHolds, PTL

\* No row says "published" of a message that was not sent (state/outbox.py).
THEOREM NeverPublishedUnsent == Spec => []PublishedWasSent
<1>1. DispatchInv => PublishedWasSent
  BY DEF DispatchInv
<1> QED
  BY <1>1, DispatchInvHolds, PTL

\* Units and the rows of their wake-ups agree (control/planner.py,
\* control/dispatcher.py).
THEOREM RowsAgreeWithUnits == Spec => []RowsTellState
<1>1. DispatchInv => RowsTellState
  BY DEF DispatchInv
<1> QED
  BY <1>1, DispatchInvHolds, PTL

\* A sent wake-up is not used up while its unit waits (deploy/service.py,
\* worker/finite.py), whatever is redelivered, refused or claimed by pollers.
THEOREM WakeupsReachUnits == Spec => []NoWakeupWasted
<1>1. DispatchInv => NoWakeupWasted
  BY DEF DispatchInv
<1> QED
  BY <1>1, DispatchInvHolds, PTL
\* Duplicates are bounded: a message is sent at most once by each dispatcher and
\* once more for each thing that goes wrong (state/outbox.py,
\* control/dispatcher.py).
THEOREM DuplicatesBounded == Spec => []SentSparingly
<1>1. Init => SendsAccounted
  BY InitSendsAccounted, DispatchersFinite
<1>2. DispatchInv /\ DispatchInv' /\ SendsAccounted /\ [Next]_vars => SendsAccounted'
  BY NextSendsAccounted, DispatchersFinite DEF DispatchInv
<1>3. DispatchInv /\ SendsAccounted => SentSparingly
  <2> SUFFICES ASSUME TypeOK, NEW m \in Messages, Accounted(m)
               PROVE  sent[m] <= Cardinality(Dispatchers) + troubles
    BY DEF DispatchInv, SendsAccounted, SentSparingly
  <2>1. /\ Cardinality(Handling(m)) \in Nat /\ Cardinality(Holding(m)) \in Nat
        /\ Cardinality(Dispatchers) \in Nat /\ sent[m] \in Nat /\ troubles \in Nat
    BY AccountType, DispatchersFinite
  <2>2. Cardinality(Handling(m)) <= Cardinality(Dispatchers)
    BY AccountType, CountSmaller, DispatchersFinite
  <2>3. row[m] \in {"absent", "pending", "published", "failed"}
    BY DEF TypeOK
  <2> QED
    BY <2>1, <2>2, <2>3 DEF Accounted
<1> QED
  BY <1>1, <1>2, <1>3, DispatchInvHolds, PTL DEF Spec
-----------------------------------------------------------------------------
(* Refinement: every step moves the calls of the units as UnitCalls says or *)
(* leaves them as they are.                                                 *)

CallStep == [Calls!CallsNext]_(Calls!callsVars)

LEMMA InitCalls == Init => Calls!CallsInit
<1> SUFFICES ASSUME Init PROVE Calls!CallsInit
  OBVIOUS
<1>1. \A u \in Units : Call(u) = "none"
  BY DEF Init, Call, Claimable
<1> QED
  BY <1>1 DEF Init, Calls!CallsInit

LEMMA CallsStay ==
  ASSUME attempts' = attempts, \A u \in Units : Call(u)' = Call(u)
  PROVE  CallStep
  BY DEF CallStep, Calls!callsVars

LEMMA CallsBecome ==
  ASSUME attempts' = attempts, NEW S \in SUBSET Units, NEW what,
         \A u \in S : Call(u)' = what,
         \A u \in Units \ S : Call(u)' = Call(u)
  PROVE  Calls!Become(S, what)
  BY DEF Calls!Become

\* What a unit that waits can be waiting with: "published" is not among it.
LEMMA CallType ==
  ASSUME DispatchInv, NEW u \in Units, Claimable(u), ~Underway(WakeupFor(u))
  PROVE  /\ Call(u) = row[WakeupFor(u)]
         /\ Call(u) \in {"absent", "pending", "failed"}
<1> USE DEF DispatchInv
<1>1. WakeupFor(u) \in Messages
  BY WakeupForType, DispatchAssumption
<1>2. sent[WakeupFor(u)] = 0
  BY <1>1 DEF NoWakeupWasted, TypeOK
<1>3. row[WakeupFor(u)] \in {"absent", "pending", "failed"}
  BY <1>1, <1>2 DEF PublishedWasSent, TypeOK
<1> QED
  BY <1>3 DEF Call

\* The call of a unit stays when the unit does, and its row or its wake-up.
LEMMA CallSame ==
  ASSUME NEW u \in Units,
         status'[u] = status[u], due'[u] = due[u], attempts'[u] = attempts[u],
         NEW m, m = WakeupFor(u),
         Claimable(u) => \/ Underway(m) /\ Underway(m)'
                         \/ /\ ~Underway(m) /\ ~Underway(m)'
                            /\ row'[m] = row[m]
  PROVE  Call(u)' = Call(u)
<1>1. Claimable(u)' <=> Claimable(u)
  BY DEF Claimable
<1>2. WakeupFor(u)' = m
  BY DEF WakeupFor
<1>3. CASE ~Claimable(u)
  BY <1>1, <1>3 DEF Call
<1>4. CASE Claimable(u)
  BY <1>1, <1>2, <1>4 DEF Call, Underway
<1> QED
  BY <1>3, <1>4

\* A unit that begins to wait has no row yet and nothing under way.
LEMMA NotCalledBefore ==
  ASSUME DispatchInv, NEW u \in Units, ~Claimable(u), attempts[u] < MaxAttempts[u],
         NEW m, m = <<u, attempts[u]>>
  PROVE  m \in Wakeups /\ m \in Messages /\ row[m] = "absent" /\ ~Underway(m)
<1> USE DispatchAssumption DEF DispatchInv
<1>1. attempts[u] \in 0..(MaxAttempts[u] - 1)
  BY DEF TypeOK
<1>2. m \in Wakeups /\ m \in Messages
  BY <1>1, UnitWakeup
<1>3. row[m] = "absent"
  <2>1. Told(u)
    BY DEF RowsTellState, Told
  <2> QED
    BY <1>1, <2>1 DEF Told, TypeOK
<1>4. sent[m] = 0
  BY NotSentBefore
<1>5. ~Underway(m)
  BY <1>2, <1>4 DEF Underway, WireKnown, TypeOK, Executors
<1> QED
  BY <1>2, <1>3, <1>5

LEMMA StorePlanCalls ==
  ASSUME DispatchInv, NEW S \in SUBSET Units, StorePlan(S)
  PROVE  CallStep
<1> USE DispatchAssumption DEF DispatchInv
<1>1. /\ \A u \in S : status[u] = "absent"
      /\ \A u \in S : status'[u] = "ready" /\ due'[u]
      /\ \A u \in Units \ S : status'[u] = status[u] /\ due'[u] = due[u]
      /\ UNCHANGED <<attempts, wire, epc, held>>
  BY DEF StorePlan, TypeOK, wireVars, execVars
<1>2. \A m \in Messages :
        /\ row[m] # "absent" => row'[m] = row[m]
        /\ row[m] = "absent" =>
             row'[m] = IF m \in {<<v, 0>> : v \in S} THEN "pending" ELSE "absent"
  BY InsertAdds DEF StorePlan
<1>3. ASSUME NEW u \in S
      PROVE  Call(u) = "none" /\ attempts[u] = 0 /\ Call(u)' = "pending"
  <2>1. ~Claimable(u) /\ Claimable(u)' /\ attempts[u] = 0
    BY <1>1 DEF Claimable, ClaimsExclusive
  <2>2. attempts[u] < MaxAttempts[u]
    BY <2>1
  <2>3. PICK m : m = <<u, attempts[u]>>
    OBVIOUS
  <2>4. m \in Messages /\ row[m] = "absent" /\ ~Underway(m)
    BY <2>1, <2>2, <2>3, NotCalledBefore
  <2>5. row'[m] = "pending"
    BY <1>2, <2>1, <2>3, <2>4
  <2>6. WakeupFor(u)' = m
    BY <1>1, <2>3 DEF WakeupFor
  <2>7. ~Underway(m)'
    BY <1>1, <2>4 DEF Underway
  <2>8. Call(u)' = "pending"
    BY <2>1, <2>5, <2>6, <2>7 DEF Call, Underway
  <2> QED
    BY <2>1, <2>8 DEF Call
<1>4. ASSUME NEW u \in Units \ S PROVE Call(u)' = Call(u)
  <2>1. PICK m : m = WakeupFor(u)
    OBVIOUS
  <2>2. Underway(m)' <=> Underway(m)
    BY <1>1 DEF Underway
  <2>3. ASSUME Claimable(u) PROVE row'[m] = row[m]
    <3>1. m \in Messages
      BY <2>1, <2>3, WakeupForType
    <3>2. m \notin {<<v, 0>> : v \in S}
      BY <2>1 DEF WakeupFor
    <3> QED
      BY <1>2, <3>1, <3>2
  <2> QED
    BY <1>1, <2>1, <2>2, <2>3, CallSame
<1>5. Calls!Become(S, "pending")
  BY <1>1, <1>3, <1>4, CallsBecome
<1>6. Calls!Announce(S)
  BY <1>3, <1>5 DEF Calls!Announce
<1> QED
  BY <1>6 DEF CallStep, Calls!CallsNext

LEMMA EnqueueCalls ==
  ASSUME DispatchInv, NEW d \in Dispatchers, EnqueueDueRetries(d)
  PROVE  CallStep
<1> USE DispatchAssumption DEF DispatchInv
<1>1. UNCHANGED <<status, due, attempts, wire, epc, held>>
  BY DEF EnqueueDueRetries, unitVars, wireVars, execVars
<1>2. \A m \in Messages :
        /\ row[m] # "absent" => row'[m] = row[m]
        /\ row[m] = "absent" =>
             row'[m] = IF m \in {WakeupFor(v) : v \in DueRetries}
                       THEN "pending" ELSE "absent"
  BY InsertAdds DEF EnqueueDueRetries
<1>3. PICK S \in SUBSET Units : S = {u \in DueRetries : Call(u) = "absent"}
  BY DEF DueRetries
<1>4. ASSUME NEW u \in S PROVE Call(u) = "absent" /\ Call(u)' = "pending"
  <2>1. u \in Units /\ u \in DueRetries /\ Call(u) = "absent"
    BY <1>3
  <2>2. PICK m : m = WakeupFor(u)
    OBVIOUS
  <2>3. Claimable(u) /\ ~Underway(m)
    BY <2>1, <2>2 DEF Call
  <2>4. m \in Messages /\ row[m] = "absent"
    BY <2>1, <2>2, <2>3, WakeupForType DEF Call
  <2>5. row'[m] = "pending"
    BY <1>2, <2>1, <2>2, <2>4
  <2>6. Claimable(u)' /\ WakeupFor(u)' = m /\ ~Underway(m)'
    BY <1>1, <2>2, <2>3 DEF Claimable, WakeupFor, Underway
  <2> QED
    BY <2>1, <2>5, <2>6 DEF Call, Underway
<1>5. ASSUME NEW u \in Units \ S PROVE Call(u)' = Call(u)
  <2>1. PICK m : m = WakeupFor(u)
    OBVIOUS
  <2>2. Underway(m)' <=> Underway(m)
    BY <1>1 DEF Underway
  <2>3. ASSUME Claimable(u), ~Underway(m) PROVE row'[m] = row[m]
    <3>1. m \in Messages
      BY <2>1, <2>3, WakeupForType
    <3>2. CASE row[m] = "absent"
      <4>1. u \notin DueRetries
        BY <1>3, <2>1, <2>3, <3>2 DEF Call
      <4>2. m \notin {WakeupFor(v) : v \in DueRetries}
        BY <2>1, <4>1 DEF WakeupFor
      <4> QED
        BY <1>2, <3>1, <3>2, <4>2
    <3> QED
      BY <1>2, <3>1, <3>2
  <2> QED
    BY <1>1, <2>1, <2>2, <2>3, CallSame
<1>6. Calls!Become(S, "pending")
  BY <1>1, <1>4, <1>5, CallsBecome
<1>7. Calls!Enlist(S)
  BY <1>4, <1>6 DEF Calls!Enlist
<1> QED
  BY <1>7 DEF CallStep, Calls!CallsNext

\* Sending the wake-up of a unit that waits makes its call, once.
LEMMA SendCalls ==
  ASSUME DispatchInv, NEW m \in Messages, row[m] # "absent", Accept(m),
         UNCHANGED <<unitVars, row, epc, held>>
  PROVE  CallStep
<1> USE DispatchAssumption DEF DispatchInv
<1>1. /\ \A n \in Wakeups : n # m => (Underway(n)' <=> Underway(n))
      /\ \A n \in Wakeups : Underway(n) => Underway(n)'
      /\ m \in Wakeups => Underway(m)'
  <2>1. \A n \in Wakeups : wire'[n] = IF n = m THEN wire[n] + 1 ELSE wire[n]
    BY AcceptType
  <2>2. \A n \in Wakeups : wire[n] \in Nat
    BY DEF TypeOK
  <2> QED
    BY <2>1, <2>2 DEF Underway
<1>2. UNCHANGED <<status, due, attempts>>
  BY DEF unitVars
<1>3. ASSUME NEW u \in Units, Claimable(u) => WakeupFor(u) # m \/ Underway(m)
      PROVE  Call(u)' = Call(u)
  <2>1. PICK n : n = WakeupFor(u)
    OBVIOUS
  <2>2. Claimable(u) => n \in Wakeups
    BY <2>1, WakeupForType
  <2> QED
    BY <1>1, <1>2, <1>3, <2>1, <2>2, CallSame
<1>4. CASE \E u \in Units : Claimable(u) /\ WakeupFor(u) = m /\ ~Underway(m)
  <2>1. PICK u \in Units : Claimable(u) /\ WakeupFor(u) = m /\ ~Underway(m)
    BY <1>4
  <2>2. Call(u) \in {"pending", "failed"}
    BY <2>1, CallType
  <2>3. Call(u)' = "underway"
    <3>1. m \in Wakeups
      BY <2>1, WakeupForType
    <3>2. Claimable(u)' /\ WakeupFor(u)' = m /\ Underway(m)'
      BY <1>1, <1>2, <2>1, <3>1 DEF Claimable, WakeupFor
    <3> QED
      BY <3>2 DEF Call, Underway
  <2>4. \A v \in Units \ {u} : WakeupFor(v) # m
    BY <2>1 DEF WakeupFor
  <2>5. Calls!Become({u}, "underway")
    BY <1>2, <1>3, <2>3, <2>4, CallsBecome
  <2>6. Calls!Make(u)
    BY <2>2, <2>5 DEF Calls!Make
  <2> QED
    BY <2>6 DEF CallStep, Calls!CallsNext
<1>5. CASE ~ \E u \in Units : Claimable(u) /\ WakeupFor(u) = m /\ ~Underway(m)
  BY <1>2, <1>3, <1>5, CallsStay
<1> QED
  BY <1>4, <1>5

\* Giving up a row that is pending gives up the call, unless it was made.
LEMMA MarkCalls ==
  ASSUME DispatchInv, NEW d \in Dispatchers, MarkPublished(d) \/ MarkFailed(d)
  PROVE  CallStep
<1> USE DispatchAssumption DEF DispatchInv
<1>1. UNCHANGED <<status, due, attempts, wire, epc, held>>
  BY DEF MarkPublished, MarkFailed, unitVars, wireVars, execVars
<1>2. PICK m \in Messages :
        /\ row[m] # "absent"
        /\ \A n \in Messages \ {m} : row'[n] = row[n]
        /\ row'[m] = "failed" \/ sent[m] > 0
  <2>1. /\ hand[d] \in Messages /\ row[hand[d]] # "absent"
        /\ dpc[d] = "sent" => sent[hand[d]] > 0
    BY DEF MarkPublished, MarkFailed, RowsKnown
  <2>2. /\ \A n \in Messages \ {hand[d]} : row'[n] = row[n]
        /\ row'[hand[d]] = "failed" \/ dpc[d] = "sent"
    BY <2>1 DEF MarkPublished, MarkFailed, AfterFailure, TypeOK
  <2> QED
    BY <2>1, <2>2
<1>3. \A n : Underway(n)' <=> Underway(n)
  BY <1>1 DEF Underway
<1>4. ASSUME NEW u \in Units,
             Claimable(u) => \/ WakeupFor(u) # m \/ Underway(m)
                             \/ row'[m] = row[m]
      PROVE  Call(u)' = Call(u)
  <2>1. PICK n : n = WakeupFor(u)
    OBVIOUS
  <2>2. Claimable(u) => n \in Messages
    BY <2>1, WakeupForType
  <2> QED
    BY <1>1, <1>2, <1>3, <1>4, <2>1, <2>2, CallSame
<1>5. CASE \E u \in Units : /\ Claimable(u) /\ WakeupFor(u) = m
                            /\ ~Underway(m) /\ row'[m] # row[m]
  <2>1. PICK u \in Units : /\ Claimable(u) /\ WakeupFor(u) = m
                          /\ ~Underway(m) /\ row'[m] # row[m]
    BY <1>5
  <2>2. sent[m] = 0
    BY <2>1 DEF NoWakeupWasted, TypeOK
  <2>3. row'[m] = "failed" /\ Call(u) = "pending"
    BY <1>2, <2>1, <2>2, CallType
  <2>4. Call(u)' = "failed"
    <3>1. Claimable(u)' /\ WakeupFor(u)' = m /\ ~Underway(m)'
      BY <1>1, <1>3, <2>1 DEF Claimable, WakeupFor
    <3> QED
      BY <2>3, <3>1 DEF Call, Underway
  <2>5. \A v \in Units \ {u} : WakeupFor(v) # m
    BY <2>1 DEF WakeupFor
  <2>6. Calls!Become({u}, "failed")
    BY <1>1, <1>4, <2>4, <2>5, CallsBecome
  <2>7. Calls!GiveUp(u)
    BY <2>3, <2>6 DEF Calls!GiveUp
  <2> QED
    BY <2>7 DEF CallStep, Calls!CallsNext
<1>6. CASE ~ \E u \in Units : /\ Claimable(u) /\ WakeupFor(u) = m
                              /\ ~Underway(m) /\ row'[m] # row[m]
  BY <1>1, <1>4, <1>6, CallsStay
<1> QED
  BY <1>5, <1>6

\* Steps that leave units and rows alone, and keep under way what waits.
LEMMA WireCalls ==
  ASSUME DispatchInv, UNCHANGED <<unitVars, row>>,
         \A m \in Wakeups : Underway(m) => Underway(m)',
         \A m \in Wakeups : sent[m] = 0 /\ ~Underway(m) => ~Underway(m)'
  PROVE  CallStep
<1> USE DispatchAssumption DEF DispatchInv
<1>1. UNCHANGED <<status, due, attempts>>
  BY DEF unitVars
<1>2. ASSUME NEW u \in Units PROVE Call(u)' = Call(u)
  <2>1. PICK m : m = WakeupFor(u)
    OBVIOUS
  <2>2. ASSUME Claimable(u)
        PROVE  \/ Underway(m) /\ Underway(m)'
               \/ ~Underway(m) /\ ~Underway(m)' /\ row'[m] = row[m]
    <3>1. m \in Wakeups /\ m \in Messages
      BY <2>1, <2>2, WakeupForType
    <3>2. sent[m] > 0 => Underway(m)
      BY <2>1, <2>2 DEF NoWakeupWasted
    <3>3. sent[m] \in Nat
      BY <3>1 DEF TypeOK
    <3> QED
      BY <3>1, <3>2, <3>3
  <2> QED
    BY <1>1, <2>1, <2>2, CallSame
<1> QED
  BY <1>1, <1>2, CallsStay

LEMMA ReceiveCalls ==
  ASSUME DispatchInv, NEW c \in Consumers, NEW m \in Wakeups,
         Receive(c, m)
  PROVE  CallStep
<1> USE DispatchAssumption DEF DispatchInv
<1>1. /\ epc[c] = "idle" /\ epc'[c] = "claim" /\ held'[c] = m /\ wire[m] > 0
      /\ \A f \in Consumers \ {c} : epc'[f] = epc[f] /\ held'[f] = held[f]
      /\ \A n \in Wakeups : n # m => wire'[n] = wire[n]
      /\ UNCHANGED <<unitVars, row>>
  BY DEF Receive, TypeOK, Executors, rowVars
<1>2. ASSUME NEW n \in Wakeups PROVE Underway(n)' <=> Underway(n)
  <2>1. CASE n = m
    BY <1>1, <2>1 DEF Underway
  <2>2. CASE n # m
    <3>1. \A f \in Consumers : (epc'[f] = "claim" /\ held'[f] = n)
                               <=> (epc[f] = "claim" /\ held[f] = n)
      BY <1>1, <2>2
    <3> QED
      BY <1>1, <2>2, <3>1 DEF Underway
  <2> QED
    BY <2>1, <2>2
<1> QED
  BY <1>1, <1>2, WireCalls

\* What comes back was sent, so the unit it is for has its call under way as
\* long as it waits.
LEMMA ReturnCalls ==
  ASSUME DispatchInv, NEW e \in Executors, wire' = Returned(e),
         UNCHANGED <<unitVars, row>>,
         \A f \in Executors \ {e} : epc'[f] = epc[f] /\ held'[f] = held[f],
         \/ epc'[e] # "claim"
         \/ epc'[e] = epc[e] /\ held'[e] = held[e]
  PROVE  CallStep
<1> USE DispatchAssumption DEF DispatchInv
<1>1. \A m \in Wakeups :
        wire[m] \in Nat /\ wire'[m] = IF m = held[e] THEN wire[m] + 1 ELSE wire[m]
  BY DEF Returned, TypeOK
<1>2. ASSUME NEW m \in Wakeups, Underway(m) PROVE Underway(m)'
  <2>1. CASE wire[m] > 0
    BY <1>1, <2>1 DEF Underway
  <2>2. CASE \E f \in Consumers : epc[f] = "claim" /\ held[f] = m
    <3>1. PICK f \in Consumers : epc[f] = "claim" /\ held[f] = m
      BY <2>2
    <3>2. CASE f = e
      BY <1>1, <3>1, <3>2 DEF Underway
    <3>3. CASE f # e
      BY <3>1, <3>3 DEF Underway, Executors
    <3> QED
      BY <3>2, <3>3
  <2> QED
    BY <1>2, <2>1, <2>2 DEF Underway
<1>3. ASSUME NEW m \in Wakeups, sent[m] = 0, ~Underway(m) PROVE ~Underway(m)'
  <2>1. m # held[e]
    BY <1>3 DEF WireKnown
  <2>2. \A f \in Consumers : ~ (epc'[f] = "claim" /\ held'[f] = m)
    BY <1>3 DEF Underway, Executors
  <2> QED
    BY <1>1, <1>3, <2>1, <2>2 DEF Underway
<1> QED
  BY <1>2, <1>3, WireCalls

\* Nobody but the unit a worker deals with hears of it: the others' calls stay.
LEMMA OthersCalls ==
  ASSUME DispatchInv, NEW e \in Executors, NEW u \in Units,
         epc[e] = "claim" => held[e][1] = u,
         epc'[e] # "claim",
         UNCHANGED <<row, wire, held>>,
         \A f \in Executors \ {e} : epc'[f] = epc[f],
         \A v \in Units \ {u} : /\ status'[v] = status[v]
                                /\ due'[v] = due[v]
                                /\ attempts'[v] = attempts[v]
  PROVE  \A v \in Units \ {u} : Call(v)' = Call(v)
<1> SUFFICES ASSUME NEW v \in Units \ {u} PROVE Call(v)' = Call(v)
  OBVIOUS
<1>1. PICK m : m = WakeupFor(v)
  OBVIOUS
<1>2. m[1] # u
  BY <1>1 DEF WakeupFor
<1>3. \A f \in Consumers : (epc'[f] = "claim" /\ held'[f] = m)
                           <=> (epc[f] = "claim" /\ held[f] = m)
  BY <1>2 DEF Executors
<1>4. Underway(m)' <=> Underway(m)
  BY <1>3 DEF Underway
<1> QED
  BY <1>1, <1>4, CallSame

LEMMA ClaimCalls ==
  ASSUME DispatchInv, NEW e \in Executors, NEW u \in Units, Claimable(u),
         Claim(e, u), epc[e] = "claim" => held[e][1] = u,
         UNCHANGED <<rowVars, wireVars, held>>
  PROVE  CallStep
<1> USE DispatchAssumption DEF DispatchInv
<1>1. /\ status'[u] = "running" /\ attempts' = [attempts EXCEPT ![u] = @ + 1]
      /\ epc'[e] = "run" /\ UNCHANGED <<row, wire, held>>
      /\ \A f \in Executors \ {e} : epc'[f] = epc[f]
      /\ \A v \in Units \ {u} : /\ status'[v] = status[v]
                                /\ due'[v] = due[v]
                                /\ attempts'[v] = attempts[v]
  BY DEF Claim, TypeOK, rowVars, wireVars
<1>2. \A v \in Units \ {u} : Call(v)' = Call(v)
  BY <1>1, OthersCalls
<1>3. Call(u)' = "none"
  BY <1>1 DEF Call, Claimable
<1>4. Call(u) # "none"
  <2>1. CASE Underway(WakeupFor(u))
    BY <2>1 DEF Call
  <2>2. CASE ~Underway(WakeupFor(u))
    BY <2>2, CallType
  <2> QED
    BY <2>1, <2>2
<1>5. [v \in Units |-> Call(v)'] = [[v \in Units |-> Call(v)] EXCEPT ![u] = "none"]
  BY <1>2, <1>3
<1>6. Calls!Answer(u)
  BY <1>1, <1>4, <1>5 DEF Calls!Answer
<1> QED
  BY <1>6 DEF CallStep, Calls!CallsNext

\* A miss and a finished attempt are invisible: the unit does not wait.
LEMMA IdleCalls ==
  ASSUME DispatchInv, NEW e \in Executors, NEW u \in Units,
         ~Claimable(u), ~Claimable(u)',
         epc[e] = "claim" => held[e][1] = u,
         epc'[e] # "claim",
         UNCHANGED <<attempts, row, wire, held>>,
         \A f \in Executors \ {e} : epc'[f] = epc[f],
         \A v \in Units \ {u} : status'[v] = status[v] /\ due'[v] = due[v]
  PROVE  CallStep
<1>1. \A v \in Units \ {u} : Call(v)' = Call(v)
  BY OthersCalls
<1>2. Call(u)' = Call(u)
  BY DEF Call
<1> QED
  BY <1>1, <1>2, CallsStay

LEMMA CompleteCalls ==
  ASSUME DispatchInv, NEW e \in Executors, Complete(e)
  PROVE  CallStep
<1> USE DEF DispatchInv
<1>1. PICK u \in Units : u = cur[e] /\ status[u] = "running"
  BY DEF Complete, ClaimsExclusive
<1>2. /\ \A v \in Units \ {u} : status'[v] = status[v] /\ due'[v] = due[v]
      /\ ~Claimable(u) /\ ~Claimable(u)'
  BY <1>1 DEF Complete, Claimable, TypeOK
<1>3. /\ epc[e] # "claim" /\ epc'[e] # "claim"
      /\ UNCHANGED <<attempts, row, wire, held>>
      /\ \A f \in Executors \ {e} : epc'[f] = epc[f]
  BY DEF Complete, rowVars, wireVars, TypeOK
<1> QED
  BY <1>2, <1>3, IdleCalls

LEMMA HandleCalls ==
  ASSUME DispatchInv, NEW c \in Consumers, HandleWakeup(c)
  PROVE  CallStep
<1> USE DEF DispatchInv
<1>1. PICK u \in Units : u = held[c][1]
  BY WakeupOf DEF Executors, HandleWakeup, ClaimsExclusive
<1>2. c \in Executors /\ UNCHANGED <<rowVars, wireVars, held>>
  BY DEF Executors, HandleWakeup
<1>3. CASE Claimable(u)
  BY <1>1, <1>2, <1>3, ClaimCalls DEF HandleWakeup
<1>4. CASE ~Claimable(u)
  <2>1. /\ UNCHANGED unitVars /\ epc'[c] # "claim"
        /\ \A f \in Executors \ {c} : epc'[f] = epc[f]
    BY <1>1, <1>2, <1>4 DEF HandleWakeup, TypeOK
  <2>2. UNCHANGED <<status, due, attempts, row, wire, held>> /\ ~Claimable(u)'
    BY <1>2, <1>4, <2>1 DEF unitVars, rowVars, wireVars, Claimable
  <2> QED
    BY <1>1, <1>2, <1>4, <2>1, <2>2, IdleCalls
<1> QED
  BY <1>3, <1>4

LEMMA RetryCalls ==
  ASSUME DispatchInv, NEW u \in Units, RetryFallsDue(u)
  PROVE  CallStep
<1> USE DispatchAssumption DEF DispatchInv
<1>1. /\ status[u] = "retry_scheduled" /\ ~due[u] /\ due'[u]
      /\ \A v \in Units \ {u} : due'[v] = due[v]
      /\ UNCHANGED <<status, attempts, row, wire, epc, held>>
  BY DEF RetryFallsDue, TypeOK, rowVars, wireVars, execVars
<1>2. /\ ~Claimable(u) /\ Claimable(u)'
      /\ attempts[u] \in 1..(MaxAttempts[u] - 1)
  BY <1>1 DEF Claimable, ClaimsExclusive, TriedBefore, TypeOK
<1>3. PICK m : m = <<u, attempts[u]>>
  OBVIOUS
<1>4. row[m] = "absent" /\ ~Underway(m)
  <2>1. attempts[u] < MaxAttempts[u]
    BY <1>2 DEF TypeOK
  <2> QED
    BY <1>2, <1>3, <2>1, NotCalledBefore
<1>5. \A n : Underway(n)' <=> Underway(n)
  BY <1>1 DEF Underway
<1>6. Call(u) = "none" /\ Call(u)' = "absent"
  <2>1. WakeupFor(u)' = m /\ row'[m] = "absent" /\ ~Underway(m)'
    BY <1>1, <1>3, <1>4, <1>5 DEF WakeupFor
  <2> QED
    BY <1>2, <2>1 DEF Call, Underway
<1>7. ASSUME NEW v \in Units \ {u} PROVE Call(v)' = Call(v)
  <2>1. PICK n : n = WakeupFor(v)
    OBVIOUS
  <2> QED
    BY <1>1, <1>5, <2>1, CallSame
<1>8. Calls!Become({u}, "absent")
  BY <1>1, <1>6, <1>7, CallsBecome
<1>9. Calls!FallDue(u)
  BY <1>2, <1>6, <1>8 DEF Calls!FallDue
<1> QED
  BY <1>9 DEF CallStep, Calls!CallsNext

LEMMA NextCalls == DispatchInv /\ [Next]_vars => CallStep
<1> SUFFICES ASSUME DispatchInv, [Next]_vars PROVE CallStep
  OBVIOUS
<1> USE DispatchAssumption
<1>1. ASSUME UNCHANGED <<unitVars, row, wire, epc, held>> PROVE CallStep
  <2>1. \A m : Underway(m)' <=> Underway(m)
    BY <1>1 DEF Underway
  <2> QED
    BY <1>1, <2>1, WireCalls
<1>2. ASSUME NEW S \in SUBSET Units, StorePlan(S) PROVE CallStep
  BY <1>2, StorePlanCalls
<1>3. ASSUME NEW m \in Emissions, Emit(m) PROVE CallStep
  <2>1. UNCHANGED <<status, due, attempts, wire, epc, held>>
    BY <1>3 DEF Emit, unitVars, wireVars, execVars
  <2>2. \A n \in Wakeups : n \in Messages /\ row'[n] = row[n]
    BY <1>3, InsertAdds DEF Emit, Messages, DispatchInv
  <2>3. ASSUME NEW u \in Units PROVE Call(u)' = Call(u)
    <3>1. PICK n : n = WakeupFor(u)
      OBVIOUS
    <3>2. Underway(n)' <=> Underway(n)
      BY <2>1 DEF Underway
    <3>3. Claimable(u) => n \in Wakeups
      BY <3>1, WakeupForType DEF DispatchInv
    <3> QED
      BY <2>1, <2>2, <3>1, <3>2, <3>3, CallSame
  <2> QED
    BY <2>1, <2>3, CallsStay
<1>4. ASSUME NEW d \in Dispatchers, NEW m \in Messages, Send(d, m) \/ SendFails(d, m)
      PROVE  CallStep
  <2>1. /\ row[m] # "absent" /\ UNCHANGED <<unitVars, row, epc, held>>
    BY <1>4
    DEF Send, SendFails, InTurn, RowsKnown, rowVars, execVars, DispatchInv
  <2>2. CASE Accept(m)
    BY <2>1, <2>2, SendCalls
  <2>3. CASE UNCHANGED wireVars
    BY <1>1, <2>1, <2>3 DEF wireVars
  <2> QED
    BY <1>4, <2>2, <2>3 DEF Send, SendFails
<1>5. ASSUME NEW d \in Dispatchers, DispatcherStep(d) \/ DispatcherAborts(d)
      PROVE  CallStep
  <2>1. CASE ReadPending(d) \/ DispatcherAborts(d)
    BY <1>1, <2>1 DEF ReadPending, DispatcherAborts, rowVars, wireVars, execVars
  <2> QED
    BY <1>4, <1>5, <2>1, EnqueueCalls, MarkCalls DEF DispatcherStep
<1>6. ASSUME NEW c \in Consumers, Ack(c) PROVE CallStep
  <2>1. /\ epc[c] = "ack" /\ epc'[c] = "idle"
        /\ \A f \in Executors \ {c} : epc'[f] = epc[f] /\ held'[f] = held[f]
        /\ UNCHANGED <<unitVars, row, wire>>
    BY <1>6 DEF Ack, rowVars, wireVars, TypeOK, DispatchInv, Executors
  <2>2. \A m : Underway(m)' <=> Underway(m)
    BY <2>1 DEF Underway, Executors
  <2> QED
    BY <2>1, <2>2, WireCalls
<1>7. ASSUME NEW e \in Executors, ExecutorAborts(e) PROVE CallStep
  <2>1. /\ epc'[e] # "claim" /\ UNCHANGED <<unitVars, row>>
        /\ \A f \in Executors \ {e} : epc'[f] = epc[f] /\ held'[f] = held[f]
    BY <1>7 DEF ExecutorAborts, rowVars, TypeOK, DispatchInv
  <2> QED
    BY <1>7, <2>1, ReturnCalls DEF ExecutorAborts
<1>8. ASSUME NEW c \in Consumers, Redelivered(c) PROVE CallStep
  <2>1. c \in Executors /\ UNCHANGED <<unitVars, row, epc, held>>
    BY <1>8 DEF Redelivered, rowVars, execVars, Executors
  <2> QED
    BY <1>8, <2>1, ReturnCalls DEF Redelivered
<1>9. ASSUME NEW c \in Consumers, ConsumerStep(c) PROVE CallStep
  BY <1>6, <1>9, ReceiveCalls, HandleCalls, CompleteCalls
  DEF ConsumerStep, Executors
<1>10. ASSUME NEW p \in Pollers, NEW u \in Units, Poll(p, u) PROVE CallStep
  BY <1>10, ClaimCalls DEF Poll, Executors
<1>11. CASE UNCHANGED vars
  BY <1>1, <1>11 DEF vars, rowVars, wireVars, execVars
<1> QED
  BY <1>2, <1>3, <1>5, <1>7, <1>8, <1>9, <1>10, <1>11, CompleteCalls, RetryCalls
  DEF Next, Executors

\* Outbox, dispatchers, Pub/Sub and workers together keep the promise of
\* UnitCalls (state/outbox.py, control/dispatcher.py, deploy/service.py): however
\* dispatchers race, sends fail and wake-ups come twice, a unit that waits has one
\* call, and that call, once made, stays under way until the unit is claimed.
THEOREM CallsImplemented == Spec => ImplementsCalls
<1>1. Spec => [][CallStep]_vars
  BY DispatchInvHolds, NextCalls, PTL DEF Spec
<1> QED
  BY InitCalls, DispatchInvHolds, NextCalls, PTL
  DEF Spec, ImplementsCalls, Calls!CallsSpec, CallStep
=============================================================================
