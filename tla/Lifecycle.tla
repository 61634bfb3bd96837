------------------------------ MODULE Lifecycle ------------------------------
(***************************************************************************)
(* Deadlines, cancellation scopes and graceful shutdown                    *)
(* (core/lifecycle.py), on a clock that is advanced by hand.  The module   *)
(* has the operations; who calls them with what is up to the module that   *)
(* extends it.                                                             *)
(***************************************************************************)
EXTENDS Naturals

CONSTANTS
  Scopes,     \* the CancellationSources that may be made
  Shutdown,   \* the one that belongs to the GracefulShutdown
  MaxTime     \* bound: the last moment of the clock

ASSUME LifecycleAssumption == Shutdown \in Scopes /\ MaxTime \in Nat

\* A deadline that does not come before the clock stops, or none.
Never == MaxTime + 1
Moments == 0..Never

VARIABLES
  now,       \* clock.monotonic()
  line,      \* the scope and its parents, {} for one that is not made yet
  expires,   \* its deadline
  stopped,   \* its cancel() has taken effect
  phase,     \* GracefulShutdown.phase
  graceEnd   \* GracefulShutdown.deadline

scopeVars == <<line, expires, stopped>>
shutdownVars == <<phase, graceEnd>>
lifeVars == <<now, scopeVars, shutdownVars>>

LifeTypeOK ==
  /\ now \in 0..MaxTime
  /\ line \in [Scopes -> SUBSET Scopes]
  /\ expires \in [Scopes -> Moments]
  /\ stopped \in [Scopes -> BOOLEAN]
  /\ phase \in {"running", "draining", "stopped"}
  /\ graceEnd \in Moments

LifeInit ==
  /\ now = 0
  /\ line = [s \in Scopes |-> IF s = Shutdown THEN {s} ELSE {}]
  /\ expires = [s \in Scopes |-> Never]
  /\ stopped = [s \in Scopes |-> FALSE]
  /\ phase = "running"
  /\ graceEnd = Never

Earlier(a, b) == IF a < b THEN a ELSE b

\* Deadline.after, of a clock that ends at MaxTime.
After(seconds) == Earlier(now + seconds, Never)

Made(s) == line[s] # {}

Expired(deadline) == deadline <= now

\* A scope is cancelled by itself, by its deadline or by a parent.
IsCancelled(s) == \E a \in line[s] : stopped[a] \/ Expired(expires[a])

-----------------------------------------------------------------------------
(* Scopes *)

Tick(t) ==
  /\ t \in (now + 1)..MaxTime
  /\ now' = t
  /\ UNCHANGED <<scopeVars, shutdownVars>>

Make(s, above, deadline) ==
  /\ ~Made(s)
  /\ line' = [line EXCEPT ![s] = {s} \cup above]
  /\ expires' = [expires EXCEPT ![s] = deadline]
  /\ UNCHANGED <<now, stopped, shutdownVars>>

\* CancellationSource(...), without and with parent.
NewSource(s, deadline) == Make(s, {}, deadline)
NewSourceUnder(s, p, deadline) == Made(p) /\ Make(s, line[p], deadline)

MutChild(s, p, deadline) == Made(p) /\ Make(s, {}, Earlier(deadline, expires[p]))

\* CancellationSource.child
Child(s, p, deadline) ==
  Made(p) /\ Make(s, line[p], Earlier(deadline, expires[p]))

\* cancel() of a scope that is cancelled already returns False.
Stopped(s) == [stopped EXCEPT ![s] = @ \/ ~IsCancelled(s)]

CancelScope(s) ==
  /\ Made(s)
  /\ stopped' = Stopped(s)
  /\ UNCHANGED <<now, line, expires, shutdownVars>>

-----------------------------------------------------------------------------
(* GracefulShutdown *)

\* The first call fixes the end of the grace window, later ones return it.
Begin(seconds) ==
  /\ phase # "stopped"
  /\ phase' = "draining"
  /\ graceEnd' = IF phase = "running" THEN After(seconds) ELSE graceEnd
  /\ UNCHANGED <<now, scopeVars>>

\* The end of the window is noticed when somebody asks for the phase.
PollShutdown ==
  /\ phase = "draining" /\ Expired(graceEnd)
  /\ stopped' = Stopped(Shutdown)
  /\ phase' = "stopped"
  /\ UNCHANGED <<now, line, expires, graceEnd>>

Stop ==
  /\ stopped' = Stopped(Shutdown)
  /\ phase' = "stopped"
  /\ UNCHANGED <<now, line, expires, graceEnd>>
=============================================================================
