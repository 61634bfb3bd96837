----------------------------- MODULE UnitDispatch -----------------------------
(***************************************************************************)
(* The way of a message: put into outbox_messages in the transaction that  *)
(* changes the state it announces (state/outbox.py), sent by a dispatcher  *)
(* (control/dispatcher.py), delivered by Pub/Sub, and, for the wake-ups of *)
(* finite units, handled by the consumer loop of a worker                  *)
(* (deploy/service.py, worker/finite.py).                                  *)
(*                                                                         *)
(* Units are as far modelled as wake-ups see them; FiniteExecution has the *)
(* rest.  All that is assumed of Pub/Sub is that what it has accepted it   *)
(* delivers until a consumer acknowledges it; its dead-letter policy (ten  *)
(* deliveries) is left out.                                                *)
(***************************************************************************)
EXTENDS Naturals, FiniteSets

CONSTANTS
  Units,         \* units of all runs
  MaxAttempts,   \* attempts of each unit
  Emissions,     \* dedup keys of emissions and checkpoints
  Poison,        \* messages the sender can never send
  Dispatchers,   \* outbox dispatchers, one per control process
  Consumers,     \* Pub/Sub consumer loops of the workers
  Pollers,       \* finite poll loops of the workers
  BatchLimit,    \* rows one dispatch reads
  MaxTroubles    \* bound: failed sends, crashes, store errors, redeliveries

Executors == Consumers \cup Pollers

\* The wake-up of a unit after n attempts: 0 comes with the plan, the others
\* with retries that have fallen due.
Wakeups == UNION {{<<u, n>> : n \in 0..(MaxAttempts[u] - 1)} : u \in Units}

Messages == Wakeups \cup Emissions

ASSUME DispatchAssumption ==
  /\ MaxAttempts \in [Units -> Nat \ {0}]
  /\ Wakeups \cap Emissions = {}
  /\ Consumers \cap Pollers = {}
  /\ BatchLimit \in Nat \ {0}
  /\ MaxTroubles \in Nat

ASSUME DispatchersFinite == IsFiniteSet(Dispatchers)

VARIABLES
  status,     \* finite_units.status, all final ones as "settled"
  due,        \* next_attempt_at is null or past
  attempts,   \* finite_units.attempt_count
  row,        \* outbox_messages.status, "absent" without a row
  place,      \* outbox_id, counted in transactions that insert something
  nextPlace,  \* the next value of its sequence
  sent,       \* how often Pub/Sub has accepted the message
  wire,       \* copies of a wake-up Pub/Sub has still to deliver
  dpc,        \* where each dispatcher is in its cycle
  batch,      \* rows it has read and not yet dealt with
  hand,       \* the row it is sending or marking
  epc,        \* where each executor is
  held,       \* the wake-up a consumer has to acknowledge
  cur,        \* the unit an executor runs
  troubles    \* what has been used up of the bound

unitVars == <<status, due, attempts>>
rowVars == <<row, place, nextPlace>>
wireVars == <<sent, wire>>
dispVars == <<dpc, batch, hand>>
execVars == <<epc, held, cur>>
vars == <<unitVars, rowVars, wireVars, dispVars, execVars, troubles>>

-----------------------------------------------------------------------------
Nothing == <<>>   \* no message, no unit

TypeOK ==
  /\ status \in [Units -> {"absent", "ready", "running", "retry_scheduled",
                           "settled"}]
  /\ due \in [Units -> BOOLEAN]
  /\ attempts \in [Units -> Nat]
  /\ row \in [Messages -> {"absent", "pending", "published", "failed"}]
  /\ place \in [Messages -> Nat]
  /\ nextPlace \in Nat
  /\ sent \in [Messages -> Nat]
  /\ wire \in [Wakeups -> Nat]
  /\ dpc \in [Dispatchers -> {"idle", "read", "send", "sent", "failed"}]
  /\ batch \in [Dispatchers -> SUBSET Messages]
  /\ hand \in [Dispatchers -> Messages \cup {Nothing}]
  /\ epc \in [Executors -> {"idle", "claim", "run", "ack"}]
  /\ held \in [Executors -> Wakeups \cup {Nothing}]
  /\ cur \in [Executors -> Units \cup {Nothing}]
  /\ troubles \in Nat

Init ==
  /\ status = [u \in Units |-> "absent"]
  /\ due = [u \in Units |-> FALSE]
  /\ attempts = [u \in Units |-> 0]
  /\ row = [m \in Messages |-> "absent"]
  /\ place = [m \in Messages |-> 0]
  /\ nextPlace = 1
  /\ sent = [m \in Messages |-> 0]
  /\ wire = [m \in Wakeups |-> 0]
  /\ dpc = [d \in Dispatchers |-> "idle"]
  /\ batch = [d \in Dispatchers |-> {}]
  /\ hand = [d \in Dispatchers |-> Nothing]
  /\ epc = [e \in Executors |-> "idle"]
  /\ held = [e \in Executors |-> Nothing]
  /\ cur = [e \in Executors |-> Nothing]
  /\ troubles = 0

Trouble == troubles < MaxTroubles /\ troubles' = troubles + 1

\* What claim_unit and claim_units ask of a unit nobody has claimed.
Claimable(u) == status[u] \in {"ready", "retry_scheduled"} /\ due[u]

\* The wake-up that announces that the unit can be claimed.
WakeupFor(u) == <<u, attempts[u]>>

-----------------------------------------------------------------------------
(* Rows, inserted with the state change they announce *)

New(S) == {m \in S : row[m] = "absent"}

Place(S) ==
  /\ place' = [m \in Messages |-> IF m \in New(S) THEN nextPlace ELSE place[m]]
  /\ nextPlace' = IF New(S) = {} THEN nextPlace ELSE nextPlace + 1

MutInsert(S) ==
  /\ row' = [m \in Messages |-> IF m \in S THEN "pending" ELSE row[m]]
  /\ Place(S)

\* insert_outbox: a row that is there already stays as it is.
Insert(S) ==
  /\ row' = [m \in Messages |-> IF m \in New(S) THEN "pending" ELSE row[m]]
  /\ Place(S)

\* A plan is stored with a wake-up for each of its units.
StorePlan(S) ==
  /\ S # {} /\ \A u \in S : status[u] = "absent"
  /\ status' = [u \in Units |-> IF u \in S THEN "ready" ELSE status[u]]
  /\ due' = [u \in Units |-> due[u] \/ u \in S]
  /\ Insert({<<u, 0>> : u \in S})
  /\ UNCHANGED <<attempts, wireVars, dispVars, execVars, troubles>>

Emit(m) ==
  /\ row[m] = "absent"
  /\ Insert({m})
  /\ UNCHANGED <<unitVars, wireVars, dispVars, execVars, troubles>>

-----------------------------------------------------------------------------
(* A dispatcher's cycle *)

MutDueRetries == {u \in Units : status[u] = "retry_scheduled"}

DueRetries == {u \in Units : status[u] = "retry_scheduled" /\ due[u]}

EnqueueDueRetries(d) ==
  /\ dpc[d] = "idle"
  /\ Insert({WakeupFor(u) : u \in DueRetries})
  /\ dpc' = [dpc EXCEPT ![d] = "read"]
  /\ UNCHANGED <<unitVars, wireVars, batch, hand, execVars, troubles>>

Pending == {m \in Messages : row[m] = "pending"}

\* The first rows by outbox_id, those of one transaction in any order.
Batches ==
  {S \in SUBSET Pending :
     /\ \/ Cardinality(S) = BatchLimit
        \/ S = Pending /\ Cardinality(S) < BatchLimit
     /\ \A m \in S, n \in Pending \ S : place[m] <= place[n]}

ReadPending(d) ==
  /\ dpc[d] = "read"
  /\ \E S \in Batches : batch' = [batch EXCEPT ![d] = S]
  /\ dpc' = [dpc EXCEPT ![d] = IF Pending = {} THEN "idle" ELSE "send"]
  /\ UNCHANGED <<unitVars, rowVars, wireVars, hand, execVars, troubles>>

InTurn(d, m) ==
  /\ dpc[d] = "send"
  /\ m \in batch[d]
  /\ \A n \in batch[d] : place[m] <= place[n]

Accept(m) ==
  /\ sent' = [sent EXCEPT ![m] = @ + 1]
  /\ wire' = [n \in Wakeups |-> IF n = m THEN wire[n] + 1 ELSE wire[n]]

Take(d, m, next) ==
  /\ batch' = [batch EXCEPT ![d] = @ \ {m}]
  /\ hand' = [hand EXCEPT ![d] = m]
  /\ dpc' = [dpc EXCEPT ![d] = next]

Send(d, m) ==
  /\ InTurn(d, m)
  /\ m \notin Poison
  /\ Accept(m)
  /\ Take(d, m, "sent")
  /\ UNCHANGED <<unitVars, rowVars, execVars, troubles>>

\* The sender raises: Pub/Sub has refused the message, or has accepted it and
\* the answer did not come in time.
SendFails(d, m) ==
  /\ InTurn(d, m)
  /\ IF m \in Poison THEN UNCHANGED troubles ELSE Trouble
  /\ \/ UNCHANGED wireVars
     \/ m \notin Poison /\ Accept(m)
  /\ Take(d, m, "failed")
  /\ UNCHANGED <<unitVars, rowVars, execVars>>

Dealt(d) ==
  /\ hand' = [hand EXCEPT ![d] = Nothing]
  /\ dpc' = [dpc EXCEPT ![d] = IF batch[d] = {} THEN "idle" ELSE "send"]

MarkPublished(d) ==
  /\ dpc[d] = "sent"
  /\ row' = [row EXCEPT ![hand[d]] = "published"]
  /\ Dealt(d)
  /\ UNCHANGED <<unitVars, place, nextPlace, wireVars, batch, execVars, troubles>>

MutLeftPending == "pending"

AfterFailure == "failed"

\* Whatever has become of the row: also one that another dispatcher has sent
\* and marked published.
MarkFailed(d) ==
  /\ dpc[d] = "failed"
  /\ row' = [row EXCEPT ![hand[d]] = AfterFailure]
  /\ Dealt(d)
  /\ UNCHANGED <<unitVars, place, nextPlace, wireVars, batch, execVars, troubles>>

\* The process dies, or the store raises: the rest of the batch is dropped.
DispatcherAborts(d) ==
  /\ dpc[d] # "idle"
  /\ Trouble
  /\ dpc' = [dpc EXCEPT ![d] = "idle"]
  /\ batch' = [batch EXCEPT ![d] = {}]
  /\ hand' = [hand EXCEPT ![d] = Nothing]
  /\ UNCHANGED <<unitVars, rowVars, wireVars, execVars>>

-----------------------------------------------------------------------------
(* Workers *)

Receive(c, m) ==
  /\ epc[c] = "idle"
  /\ wire[m] > 0
  /\ wire' = [wire EXCEPT ![m] = @ - 1]
  /\ held' = [held EXCEPT ![c] = m]
  /\ epc' = [epc EXCEPT ![c] = "claim"]
  /\ UNCHANGED <<unitVars, rowVars, sent, dispVars, cur, troubles>>

Claim(e, u) ==
  /\ status' = [status EXCEPT ![u] = "running"]
  /\ attempts' = [attempts EXCEPT ![u] = @ + 1]
  /\ cur' = [cur EXCEPT ![e] = u]
  /\ epc' = [epc EXCEPT ![e] = "run"]
  /\ UNCHANGED due

\* A miss is acknowledged as well: somebody else has the unit, or had it.
HandleWakeup(c) ==
  /\ epc[c] = "claim"
  /\ LET u == held[c][1] IN
       IF Claimable(u)
         THEN Claim(c, u)
         ELSE /\ epc' = [epc EXCEPT ![c] = "ack"]
              /\ UNCHANGED <<unitVars, cur>>
  /\ UNCHANGED <<rowVars, wireVars, dispVars, held, troubles>>

Poll(p, u) ==
  /\ epc[p] = "idle"
  /\ Claimable(u)
  /\ Claim(p, u)
  /\ UNCHANGED <<rowVars, wireVars, dispVars, held, troubles>>

\* The outcome of the attempt is recorded: only then may the consumer
\* acknowledge the wake-up.
Complete(e) ==
  /\ epc[e] = "run"
  /\ LET u == cur[e] IN
       \/ /\ status' = [status EXCEPT ![u] = "settled"]
          /\ UNCHANGED due
       \/ /\ attempts[u] < MaxAttempts[u]
          /\ status' = [status EXCEPT ![u] = "retry_scheduled"]
          /\ due' = [due EXCEPT ![u] = FALSE]
  /\ cur' = [cur EXCEPT ![e] = Nothing]
  /\ epc' = [epc EXCEPT ![e] = IF e \in Consumers THEN "ack" ELSE "idle"]
  /\ UNCHANGED <<attempts, rowVars, wireVars, dispVars, held, troubles>>

Ack(c) ==
  /\ epc[c] = "ack"
  /\ epc' = [epc EXCEPT ![c] = "idle"]
  /\ held' = [held EXCEPT ![c] = Nothing]
  /\ UNCHANGED <<unitVars, rowVars, wireVars, dispVars, cur, troubles>>

MutReturned(c) == wire

\* A wake-up that is not acknowledged is delivered again.
Returned(c) == [m \in Wakeups |-> IF m = held[c] THEN wire[m] + 1 ELSE wire[m]]

\* The process dies, or the store raises and the consumer refuses the wake-up.
\* A claim stays behind.
ExecutorAborts(e) ==
  /\ epc[e] # "idle"
  /\ Trouble
  /\ wire' = Returned(e)
  /\ epc' = [epc EXCEPT ![e] = "idle"]
  /\ held' = [held EXCEPT ![e] = Nothing]
  /\ cur' = [cur EXCEPT ![e] = Nothing]
  /\ UNCHANGED <<unitVars, rowVars, sent, dispVars>>

\* The consumer takes longer than Pub/Sub waits.
Redelivered(c) ==
  /\ held[c] # Nothing
  /\ Trouble
  /\ wire' = Returned(c)
  /\ UNCHANGED <<unitVars, rowVars, sent, dispVars, execVars>>

RetryFallsDue(u) ==
  /\ status[u] = "retry_scheduled"
  /\ ~due[u]
  /\ due' = [due EXCEPT ![u] = TRUE]
  /\ UNCHANGED <<status, attempts, rowVars, wireVars, dispVars, execVars,
                 troubles>>

-----------------------------------------------------------------------------
DispatcherStep(d) ==
  \/ EnqueueDueRetries(d) \/ ReadPending(d) \/ MarkPublished(d) \/ MarkFailed(d)
  \/ \E m \in Messages : Send(d, m) \/ SendFails(d, m)

ConsumerStep(c) ==
  (\E m \in Wakeups : Receive(c, m)) \/ HandleWakeup(c) \/ Complete(c) \/ Ack(c)

Next ==
  \/ \E S \in SUBSET Units : StorePlan(S)
  \/ \E m \in Emissions : Emit(m)
  \/ \E d \in Dispatchers : DispatcherStep(d) \/ DispatcherAborts(d)
  \/ \E c \in Consumers : ConsumerStep(c) \/ Redelivered(c)
  \/ \E p \in Pollers : Complete(p) \/ \E u \in Units : Poll(p, u)
  \/ \E e \in Executors : ExecutorAborts(e)
  \/ \E u \in Units : RetryFallsDue(u)

Spec == Init /\ [][Next]_vars

\* The dispatcher loop and the consumer loop run for ever (_forever and the
\* stream of service.py), a handler is cut at its timeout, and time passes.
\* Pollers need not poll.
Fairness ==
  /\ \A d \in Dispatchers : WF_vars(DispatcherStep(d))
  /\ \A c \in Consumers : WF_vars(ConsumerStep(c))
  /\ \A u \in Units : WF_vars(RetryFallsDue(u))

FairSpec == Spec /\ Fairness

-----------------------------------------------------------------------------
\* A row says "published" only of a message Pub/Sub has accepted, although
\* rows and sends are in no transaction together.
PublishedWasSent ==
  \A m \in Messages : row[m] = "published" => sent[m] > 0

\* There is no state without its message and no message without its state: a
\* unit that is ready has a row, and a wake-up is in the outbox only if the
\* unit waits to be claimed for that attempt or has been claimed since.
RowsTellState ==
  \A u \in Units :
    /\ status[u] # "absent" => row[<<u, 0>>] # "absent"
    /\ \A n \in 0..(MaxAttempts[u] - 1) : row[<<u, n>>] # "absent" =>
         \/ attempts[u] > n
         \/ attempts[u] = n /\ Claimable(u)

\* A copy of the message is on its way, or with a consumer that will try it.
Underway(m) == wire[m] > 0 \/ \E c \in Consumers : epc[c] = "claim" /\ held[c] = m

\* A wake-up that was sent is not used up while its unit still waits: it is
\* on its way, or in the hands of a consumer that has not tried to claim yet.
\* Misses may be acknowledged, and duplicates of earlier wake-ups may claim.
NoWakeupWasted ==
  \A u \in Units :
    Claimable(u) /\ sent[WakeupFor(u)] > 0 => Underway(WakeupFor(u))

\* Each dispatcher sends a message at most once, but for what goes wrong.
SentSparingly ==
  \A m \in Messages : sent[m] <= Cardinality(Dispatchers) + troubles

\* A unit that can be claimed is claimed, without any poller, through crashes
\* of dispatchers and consumers and whatever is delivered twice; unless its
\* wake-up could not be sent and says so.
WaitingUnitsWoken ==
  \A u \in Units :
    Claimable(u) ~> ~Claimable(u) \/ row[WakeupFor(u)] = "failed"

\* No message is starved by one that cannot be sent.
PendingIsDecided ==
  \A m \in Messages : row[m] = "pending" ~> row[m] # "pending"

-----------------------------------------------------------------------------
(* UnitDispatch implements UnitCalls: the call of a unit that waits is under
   way when its wake-up is, and is otherwise what the row says. *)

Call(u) ==
  IF ~Claimable(u) THEN "none"
  ELSE IF Underway(WakeupFor(u)) THEN "underway" ELSE row[WakeupFor(u)]

Calls == INSTANCE UnitCalls WITH
  Tries <- MaxAttempts,
  turn  <- attempts,
  call  <- [u \in Units |-> Call(u)]

\* Every step of the outbox, its dispatchers and the workers moves the calls of
\* units that wait as a queue would that loses and repeats none, or is invisible
\* to it; in particular no unit waits whose row says "published" with nothing
\* under way, and no row that was given up is put on the list again.
ImplementsCalls == Calls!CallsSpec
=============================================================================
