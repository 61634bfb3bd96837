--------------------------- MODULE FiniteKitProofs ---------------------------
(***************************************************************************)
(* For every set of runs and whatever a test and the product's code do     *)
(* with the kit: cancellation reaches the invocations of its run and no    *)
(* others and stands, every invocation is accounted for, outcomes and      *)
(* verdicts stand, and the kit keeps the promise of TrialLog.              *)
(***************************************************************************)
EXTENDS FiniteKit, TLAPS

\* The scopes: those of runs and of the shutdown stand alone, that of an
\* invocation is directly under its run, and what hangs under an invocation
\* hangs under its run as well.
ScopesOK ==
  /\ \A s \in Runs \cup {Shutdown} : line[s] \subseteq {s} /\ expires[s] = Never
  /\ Made(Shutdown)
  /\ \A c \in Calls : /\ expires[c] = Never /\ ~stopped[c]
                      /\ Made(c) => /\ line[c] = {c, RunOf(UnitOf(c))}
                                    /\ Made(RunOf(UnitOf(c)))
  /\ \A s \in OwnScopes : \A c \in line[s] \cap Calls :
       RunOf(UnitOf(c)) \in line[s]

\* Invocations have scopes, and are numbered.
CallsNumbered ==
  /\ \A c \in Calls : Made(c) <=> Number(c) <= attempts[UnitOf(c)]
  /\ open \cap lost = {}

\* Units are known once their run is.
UnitsKnown ==
  \A u \in Units : Made(RunOf(u)) <=> status[u] # "absent"

\* A unit has at most one invocation under way that is no redelivery, and has
\* no outcome as long as that lasts; it may be cancelled, but with its run.
OneFirstCall ==
  /\ \A c \in open \ duplicate :
       \/ status[UnitOf(c)] = "running"
       \/ status[UnitOf(c)] = "cancelled" /\ IsCancelled(RunOf(UnitOf(c)))
  /\ \A c, d \in open \ duplicate : UnitOf(c) = UnitOf(d) => c = d

KitInv ==
  /\ KitTypeOK
  /\ ScopesOK
  /\ CallsNumbered
  /\ AttemptsAccounted
  /\ UnitsKnown
  /\ OneFirstCall

-----------------------------------------------------------------------------
(* Units, invocations and their scopes *)

LEMMA UnitShape ==
  ASSUME NEW u \in Units
  PROVE  RunOf(u) \in Runs /\ u \in UnitsOf(RunOf(u))
<1>1. PICK r \in Runs : u \in {r} \X (1..Size[r])
  BY DEF Units
<1>2. RunOf(u) = r
  BY <1>1 DEF RunOf
<1> QED
  BY <1>2 DEF UnitsOf

LEMMA CallShape ==
  ASSUME NEW c \in Calls
  PROVE  /\ UnitOf(c) \in Units /\ Number(c) \in 1..MaxCalls
         /\ c = <<UnitOf(c), Number(c)>>
         /\ RunOf(UnitOf(c)) \in Runs
<1>1. /\ UnitOf(c) \in Units /\ Number(c) \in 1..MaxCalls
      /\ c = <<UnitOf(c), Number(c)>>
  BY DEF Calls, UnitOf, Number
<1> QED
  BY <1>1, UnitShape

LEMMA CallOfUnit ==
  ASSUME NEW u \in Units, NEW n \in 1..MaxCalls
  PROVE  /\ <<u, n>> \in Calls
         /\ UnitOf(<<u, n>>) = u /\ Number(<<u, n>>) = n
  BY DEF Calls, UnitOf, Number

LEMMA KindsDisjoint ==
  /\ Runs \subseteq Scopes /\ Calls \subseteq Scopes /\ OwnScopes \subseteq Scopes
  /\ Shutdown \in Scopes
  /\ Shutdown \notin Runs /\ Shutdown \notin Calls /\ Shutdown \notin OwnScopes
  /\ Runs \cap Calls = {} /\ Runs \cap OwnScopes = {}
  /\ Calls \cap OwnScopes = {}
  BY KitAssumption, LifecycleAssumption

LEMMA TimeFacts ==
  /\ MaxTime \in Nat /\ MaxCalls \in Nat
  /\ Never \in Moments
  /\ \A a, b \in Nat : Earlier(a, b) \in Nat
  BY KitAssumption, LifecycleAssumption DEF Never, Moments, Earlier

\* Nothing is cancelled by the deadline it does not have.
LEMMA NeverExpired ==
  ASSUME LifeTypeOK PROVE ~Expired(Never)
  BY TimeFacts DEF LifeTypeOK, Expired, Never

LEMMA AfterMoment ==
  ASSUME LifeTypeOK, NEW n \in Nat PROVE After(n) \in Moments
  BY TimeFacts DEF LifeTypeOK, After, Earlier, Moments, Never

\* An invocation is cancelled exactly when its run is.
LEMMA CallsFollow ==
  ASSUME LifeTypeOK, ScopesOK, NEW c \in Calls, Made(c), Made(RunOf(UnitOf(c)))
  PROVE  IsCancelled(c) <=> IsCancelled(RunOf(UnitOf(c)))
<1> DEFINE r == RunOf(UnitOf(c))
<1>1. line[c] = {c, r} /\ line[r] = {r}
  BY CallShape DEF ScopesOK, Made
<1>2. ~stopped[c] /\ ~Expired(expires[c])
  BY NeverExpired DEF ScopesOK
<1> HIDE DEF r
<1> QED
  BY <1>1, <1>2 DEF IsCancelled, r

\* What is cancelled stays cancelled.
LEMMA CancelledStays ==
  ASSUME LifeTypeOK, LifeTypeOK', NEW s \in Scopes, IsCancelled(s),
         line'[s] = line[s],
         \A a \in Scopes : stopped[a] => stopped'[a],
         \A a \in line[s] : expires'[a] = expires[a],
         now <= now'
  PROVE  IsCancelled(s)'
<1>1. PICK a \in line[s] : stopped[a] \/ Expired(expires[a])
  BY DEF IsCancelled
<1>2. a \in Scopes /\ expires[a] \in Nat /\ now \in Nat /\ now' \in Nat
  BY TimeFacts DEF LifeTypeOK, Moments
<1>3. stopped'[a] \/ expires'[a] <= now'
  BY <1>1, <1>2 DEF Expired
<1> QED
  BY <1>3 DEF IsCancelled, Expired

-----------------------------------------------------------------------------
(* Types *)

LEMMA MakeType ==
  ASSUME LifeTypeOK, NEW s \in Scopes, NEW above \in SUBSET Scopes,
         NEW e \in Moments, Make(s, above, e)
  PROVE  LifeTypeOK'
  BY DEF LifeTypeOK, Make, shutdownVars

LEMMA StoppedType ==
  ASSUME LifeTypeOK, NEW s \in Scopes
  PROVE  Stopped(s) \in [Scopes -> BOOLEAN]
  BY DEF LifeTypeOK, Stopped

LEMMA CancelType ==
  ASSUME LifeTypeOK, NEW s \in Scopes, CancelScope(s) PROVE LifeTypeOK'
  BY StoppedType DEF LifeTypeOK, CancelScope, shutdownVars

\* The scope of an invocation, made under the one of its run.
LEMMA CallScope ==
  ASSUME LifeTypeOK, ScopesOK, NEW c \in Calls, Child(c, RunOf(UnitOf(c)), Never)
  PROVE  /\ LifeTypeOK'
         /\ ~Made(c) /\ Made(RunOf(UnitOf(c)))
         /\ line' = [line EXCEPT ![c] = {c, RunOf(UnitOf(c))}]
         /\ expires' = [expires EXCEPT ![c] = Never]
         /\ UNCHANGED <<now, stopped, phase, graceEnd>>
<1> DEFINE r == RunOf(UnitOf(c))
<1>1. r \in Runs /\ r \in Scopes /\ c \in Scopes
  BY CallShape, KindsDisjoint
<1>2. expires[r] = Never /\ line[r] \subseteq {r} /\ Made(r)
  BY <1>1 DEF ScopesOK, Child
<1>3. line[r] = {r} /\ Earlier(Never, expires[r]) = Never
  BY <1>2 DEF Made, Earlier
<1>4. Make(c, {r}, Never)
  BY <1>3 DEF Child
<1>5. {c} \cup {r} = {c, r} /\ {r} \in SUBSET Scopes
  BY <1>1
<1>6. LifeTypeOK'
  BY <1>1, <1>4, <1>5, MakeType, TimeFacts
<1> QED
  BY <1>2, <1>4, <1>5, <1>6 DEF Make, shutdownVars

\* What an invocation does up to its handler.
LEMMA InvokeFacts ==
  ASSUME KitTypeOK, ScopesOK, NEW u \in Units, NEW again \in BOOLEAN,
         Invoke(u, again)
  PROVE  \E n \in 1..MaxCalls :
           /\ n = attempts[u] + 1
           /\ attempts' = [attempts EXCEPT ![u] = n]
           /\ Child(<<u, n>>, RunOf(u), Never)
           /\ duplicate' = IF again THEN duplicate \cup {<<u, n>>} ELSE duplicate
           /\ UNCHANGED <<notBefore, lost>>
           /\ \/ /\ ~IsCancelled(RunOf(u))'
                 /\ open' = open \cup {<<u, n>>}
                 /\ status' = IF again THEN status
                              ELSE [status EXCEPT ![u] = "running"]
                 /\ record' = record
              \/ /\ IsCancelled(RunOf(u))'
                 /\ record' = [record EXCEPT ![<<u, n>>] = "cancelled"]
                 /\ status' = IF again THEN status
                              ELSE [status EXCEPT ![u] = "cancelled"]
                 /\ open' = open
<1>1. PICK n \in 1..MaxCalls :
        /\ n = attempts[u] + 1
        /\ attempts' = [attempts EXCEPT ![u] = n]
        /\ Child(<<u, n>>, RunOf(u), Never)
        /\ duplicate' = IF again THEN duplicate \cup {<<u, n>>} ELSE duplicate
        /\ UNCHANGED <<notBefore, lost>>
        /\ \/ /\ ~IsCancelled(<<u, n>>)'
              /\ open' = open \cup {<<u, n>>}
              /\ status' = IF again THEN status
                           ELSE [status EXCEPT ![u] = "running"]
              /\ record' = record
           \/ /\ IsCancelled(<<u, n>>)'
              /\ record' = [record EXCEPT ![<<u, n>>] = "cancelled"]
              /\ status' = IF again THEN status
                           ELSE [status EXCEPT ![u] = "cancelled"]
              /\ open' = open
  BY DEF Invoke
<1> DEFINE c == <<u, n>>
<1>2. c \in Calls /\ UnitOf(c) = u
  BY CallOfUnit
<1>3. /\ LifeTypeOK'
      /\ Made(RunOf(u))
      /\ line' = [line EXCEPT ![c] = {c, RunOf(u)}]
      /\ expires' = [expires EXCEPT ![c] = Never]
      /\ UNCHANGED <<now, stopped, phase, graceEnd>>
  BY <1>1, <1>2, CallScope DEF KitTypeOK
<1>4. RunOf(u) \in Runs /\ RunOf(u) # c /\ c \in Scopes /\ RunOf(u) \in Scopes
  BY <1>2, UnitShape, KindsDisjoint
<1> HIDE DEF c
<1>5. line'[c] = {c, RunOf(u)} /\ line'[RunOf(u)] = {RunOf(u)}
  <2>1. line[RunOf(u)] = {RunOf(u)}
    BY <1>3, <1>4 DEF ScopesOK, Made
  <2> QED
    BY <1>3, <1>4, <2>1 DEF KitTypeOK, LifeTypeOK
<1>6. ~stopped'[c] /\ ~Expired(expires[c])'
  <2>1. expires'[c] = Never /\ now' = now /\ stopped'[c] = stopped[c]
    BY <1>3, <1>4 DEF KitTypeOK, LifeTypeOK
  <2>2. ~stopped[c] /\ ~Expired(Never)
    BY <1>2, NeverExpired DEF KitTypeOK, ScopesOK
  <2> QED
    BY <2>1, <2>2 DEF Expired
<1>7. IsCancelled(c)' <=> IsCancelled(RunOf(u))'
  BY <1>5, <1>6 DEF IsCancelled, Expired
<1> QED
  BY <1>1, <1>7 DEF c

LEMMA NextKitTypeOK ==
  ASSUME KitTypeOK, ScopesOK, [Next]_vars PROVE KitTypeOK'
<1> USE DEF KitTypeOK
<1>1. ASSUME NEW r \in Runs, Submit(r) PROVE KitTypeOK'
  <2>1. LifeTypeOK'
    BY <1>1, MakeType, KindsDisjoint, TimeFacts DEF Submit, NewSource
  <2> QED
    BY <1>1, <2>1 DEF Submit, callVars, Open
<1>2. ASSUME NEW r \in Runs, CancelRun(r) PROVE KitTypeOK'
  <2>1. LifeTypeOK'
    BY <1>2, CancelType, KindsDisjoint DEF CancelRun
  <2> QED
    BY <1>2, <2>1 DEF CancelRun, callVars, Terminal
<1>3. ASSUME NEW u \in Units, NEW again \in BOOLEAN, Invoke(u, again)
      PROVE  KitTypeOK'
  <2>1. PICK n \in 1..MaxCalls :
          /\ attempts' = [attempts EXCEPT ![u] = n]
          /\ Child(<<u, n>>, RunOf(u), Never)
          /\ duplicate' = IF again THEN duplicate \cup {<<u, n>>} ELSE duplicate
          /\ UNCHANGED <<notBefore, lost>>
          /\ \/ /\ open' = open \cup {<<u, n>>}
                /\ status' = IF again THEN status
                             ELSE [status EXCEPT ![u] = "running"]
                /\ record' = record
             \/ /\ record' = [record EXCEPT ![<<u, n>>] = "cancelled"]
                /\ status' = IF again THEN status
                             ELSE [status EXCEPT ![u] = "cancelled"]
                /\ open' = open
    BY <1>3, InvokeFacts
  <2>2. <<u, n>> \in Calls /\ UnitOf(<<u, n>>) = u /\ n \in 0..MaxCalls
    BY CallOfUnit, TimeFacts
  <2>3. LifeTypeOK'
    BY <2>1, <2>2, CallScope
  <2>4. attempts' \in [Units -> 0..MaxCalls]
    BY <2>1, <2>2
  <2>5. open' \in SUBSET Calls /\ duplicate' \in SUBSET Calls
    BY <2>1, <2>2
  <2>6. status' \in [Units -> Terminal \cup Open \cup {"absent", "running"}]
    BY <2>1 DEF Terminal
  <2>7. record' \in [Calls -> Terminal \cup {"none", "retry_scheduled"}]
    BY <2>1 DEF Terminal
  <2> QED
    BY <2>1, <2>3, <2>4, <2>5, <2>6, <2>7
<1>4. ASSUME NEW c \in Calls,
             NEW s \in Terminal \cup {"retry_scheduled"}, Settle(c, s),
             notBefore' \in [Units -> Moments]
      PROVE  KitTypeOK'
  <2>1. LifeTypeOK'
    BY <1>4 DEF Settle, lifeVars, scopeVars, shutdownVars, LifeTypeOK
  <2> QED
    BY <1>4, <2>1 DEF Settle, Recorded, Keeps, Open
<1>5. ASSUME NEW c \in Calls, NEW s \in Terminal, HandlerEnds(c, s)
      PROVE  KitTypeOK'
  BY <1>4, <1>5 DEF HandlerEnds
<1>6. ASSUME NEW c \in Calls, NEW w \in Nat, HandlerFails(c, w)
      PROVE  KitTypeOK'
  <2>1. After(w) \in Moments
    BY AfterMoment
  <2> QED
    BY <1>4, <1>6, <2>1, CallShape DEF HandlerFails, Terminal, Final
<1>7. ASSUME NEW c \in Calls, StepCancelled(c) PROVE KitTypeOK'
  BY <1>7 DEF StepCancelled, unitVars, lifeVars, scopeVars, shutdownVars, LifeTypeOK
<1>8. CASE ProductStep /\ UNCHANGED kitVars
  <2>1. ASSUME NEW s \in OwnScopes, NEW c \in open, NEW e \in Moments,
               NewSourceUnder(s, c, e)
        PROVE  LifeTypeOK'
    BY <2>1, MakeType, KindsDisjoint DEF NewSourceUnder, LifeTypeOK
  <2>2. ASSUME NEW s \in OwnScopes, CancelScope(s) PROVE LifeTypeOK'
    BY <2>2, CancelType, KindsDisjoint
  <2>3. ASSUME NEW t \in Moments, Tick(t) PROVE LifeTypeOK'
    BY <2>3, TimeFacts DEF Tick, LifeTypeOK, scopeVars, shutdownVars
  <2>4. ASSUME NEW g \in Graces, Begin(g) PROVE LifeTypeOK'
    <3>1. After(g) \in Moments
      BY AfterMoment, KitAssumption
    <3> QED
      BY <2>4, <3>1 DEF Begin, LifeTypeOK, scopeVars
  <2>5. ASSUME PollShutdown \/ Stop PROVE LifeTypeOK'
    <3>1. Stopped(Shutdown) \in [Scopes -> BOOLEAN]
      BY StoppedType, KindsDisjoint
    <3>2. /\ stopped' = Stopped(Shutdown) /\ phase' = "stopped"
          /\ UNCHANGED <<now, line, expires, graceEnd>>
      BY <2>5 DEF PollShutdown, Stop
    <3>3. stopped' \in [Scopes -> BOOLEAN]
      BY <3>1, <3>2, Zenon
    <3>4. phase' \in {"running", "draining", "stopped"}
      BY <3>2
    <3> QED
      BY <3>2, <3>3, <3>4 DEF LifeTypeOK
  <2>6. After(1) \in Moments /\ Never \in Moments
    BY AfterMoment, TimeFacts
  <2>7. LifeTypeOK'
    BY <1>8, <2>1, <2>2, <2>3, <2>4, <2>5, <2>6 DEF ProductStep
  <2> QED
    BY <1>8, <2>7 DEF kitVars, unitVars, callVars
<1>9. CASE UNCHANGED vars
  BY <1>9 DEF vars, lifeVars, kitVars, scopeVars, shutdownVars, unitVars, callVars,
              LifeTypeOK
<1>10. ASSUME NEW c \in Calls, NEW w \in RetryAfter \cup {Backoff(Number(c))},
              HandlerFails(c, w)
       PROVE  w \in Nat
  BY <1>10, KitAssumption DEF Backoff
<1> QED
  BY <1>1, <1>2, <1>3, <1>5, <1>6, <1>7, <1>8, <1>9, <1>10 DEF Next, Step, Redeliver

-----------------------------------------------------------------------------
(* Scopes *)

LEMMA ScopesSame ==
  ASSUME ScopesOK, UNCHANGED <<line, expires>>,
         \A c \in Calls : stopped'[c] = stopped[c]
  PROVE  ScopesOK'
  BY DEF ScopesOK, Made

LEMMA StoppedOthers ==
  ASSUME LifeTypeOK, NEW s \in Scopes, NEW a \in Scopes, a # s
  PROVE  Stopped(s)[a] = stopped[a]
  BY DEF LifeTypeOK, Stopped

LEMMA CancelKeepsScopes ==
  ASSUME LifeTypeOK, ScopesOK, NEW s \in Scopes \ Calls,
         stopped' = Stopped(s), UNCHANGED <<line, expires>>
  PROVE  ScopesOK'
<1>1. \A c \in Calls : stopped'[c] = stopped[c]
  BY StoppedOthers, KindsDisjoint
<1> QED
  BY <1>1, ScopesSame

LEMMA NextScopesOK ==
  ASSUME KitTypeOK, ScopesOK, [Next]_vars PROVE ScopesOK'
<1> USE DEF KitTypeOK
<1>1. ASSUME NEW r \in Runs, Submit(r) PROVE ScopesOK'
  <2>1. /\ line' = [line EXCEPT ![r] = {r}] /\ expires' = [expires EXCEPT ![r] = Never]
        /\ stopped' = stopped
    BY <1>1 DEF Submit, NewSource, Make
  <2>2. r \in Scopes /\ r \notin Calls /\ r \notin OwnScopes
    BY KindsDisjoint
  <2> QED
    BY <2>1, <2>2, KindsDisjoint DEF ScopesOK, Made, LifeTypeOK
<1>2. ASSUME NEW r \in Runs, CancelRun(r) PROVE ScopesOK'
  BY <1>2, CancelKeepsScopes, KindsDisjoint DEF CancelRun, CancelScope
<1>3. ASSUME NEW u \in Units, NEW again \in BOOLEAN, Invoke(u, again)
      PROVE  ScopesOK'
  <2>1. PICK n \in 1..MaxCalls : Child(<<u, n>>, RunOf(u), Never)
    BY <1>3, InvokeFacts
  <2> DEFINE c == <<u, n>>
  <2>2. c \in Calls /\ UnitOf(c) = u
    BY CallOfUnit
  <2>3. /\ line' = [line EXCEPT ![c] = {c, RunOf(u)}]
        /\ expires' = [expires EXCEPT ![c] = Never]
        /\ stopped' = stopped
        /\ Made(RunOf(u))
    BY <2>1, <2>2, CallScope
  <2> HIDE DEF c
  <2>4. c \in Scopes /\ c \notin Runs /\ c \notin OwnScopes /\ c # Shutdown
    BY <2>2, KindsDisjoint
  <2>5. \A a \in Scopes : line'[a] = IF a = c THEN {c, RunOf(u)} ELSE line[a]
    BY <2>3 DEF LifeTypeOK
  <2>6. \A a \in Scopes : expires'[a] = IF a = c THEN Never ELSE expires[a]
    BY <2>3 DEF LifeTypeOK
  <2>7. \A d \in Calls : RunOf(UnitOf(d)) \in Runs /\ RunOf(UnitOf(d)) \in Scopes
    BY CallShape, KindsDisjoint
  <2>8. \A d \in Calls : /\ expires'[d] = Never /\ ~stopped'[d]
                         /\ line'[d] # {} => /\ line'[d] = {d, RunOf(UnitOf(d))}
                                             /\ line'[RunOf(UnitOf(d))] # {}
    BY <2>2, <2>3, <2>4, <2>5, <2>6, <2>7, KindsDisjoint DEF ScopesOK, Made
  <2>9. /\ \A s \in Runs \cup {Shutdown} :
             line'[s] \subseteq {s} /\ expires'[s] = Never
        /\ line'[Shutdown] # {}
        /\ \A s \in OwnScopes : \A d \in line'[s] \cap Calls :
             RunOf(UnitOf(d)) \in line'[s]
    BY <2>2, <2>4, <2>5, <2>6, KindsDisjoint DEF ScopesOK, Made
  <2> QED
    BY <2>8, <2>9 DEF ScopesOK, Made
<1>4. ASSUME UNCHANGED lifeVars PROVE ScopesOK'
  BY <1>4, ScopesSame DEF lifeVars, scopeVars
<1>5. CASE ProductStep
  <2>1. ASSUME NEW s \in OwnScopes, NEW c \in open, NEW e,
               NewSourceUnder(s, c, e)
        PROVE  ScopesOK'
    <3>1. c \in Calls /\ RunOf(UnitOf(c)) \in Runs
      BY CallShape
    <3>2. line[c] = {c, RunOf(UnitOf(c))}
      BY <2>1, <3>1 DEF NewSourceUnder, ScopesOK
    <3>3. line' = [line EXCEPT ![s] = {s, c, RunOf(UnitOf(c))}]
      BY <2>1, <3>2 DEF NewSourceUnder, Make
    <3>4. expires' = [expires EXCEPT ![s] = e] /\ stopped' = stopped
      BY <2>1 DEF NewSourceUnder, Make
    <3>5. s \in Scopes /\ s \notin Runs /\ s \notin Calls /\ s # Shutdown
      BY KindsDisjoint
    <3>6. {s, c, RunOf(UnitOf(c))} \cap Calls = {c}
      BY <3>1, <3>5, KindsDisjoint
    <3> DEFINE chain == {s, c, RunOf(UnitOf(c))}
    <3>7. RunOf(UnitOf(c)) \in chain /\ chain # {}
      OBVIOUS
    <3> HIDE DEF chain
    <3>8. \A a \in Scopes : line'[a] = IF a = s THEN chain ELSE line[a]
      BY <3>3, <3>5 DEF LifeTypeOK, chain
    <3>9. \A a \in Scopes \ {s} : expires'[a] = expires[a]
      BY <3>4 DEF LifeTypeOK
    <3>10. \A t \in OwnScopes : \A d \in line'[t] \cap Calls :
             RunOf(UnitOf(d)) \in line'[t]
      BY <3>5, <3>6, <3>7, <3>8, KindsDisjoint DEF ScopesOK, chain
    <3>11. \A a \in Runs \cup {Shutdown} :
             line'[a] \subseteq {a} /\ expires'[a] = Never
      BY <3>5, <3>8, <3>9, KindsDisjoint DEF ScopesOK
    <3>12. line'[Shutdown] # {}
      BY <3>5, <3>8, KindsDisjoint DEF ScopesOK, Made
    <3>13. \A d \in Calls : /\ expires'[d] = Never /\ ~stopped'[d]
                            /\ line'[d] # {} => /\ line'[d] = {d, RunOf(UnitOf(d))}
                                                /\ line'[RunOf(UnitOf(d))] # {}
      BY <3>4, <3>5, <3>8, <3>9, KindsDisjoint, CallShape DEF ScopesOK, Made
    <3> QED
      BY <3>10, <3>11, <3>12, <3>13 DEF ScopesOK, Made
  <2>2. ASSUME NEW s \in OwnScopes, CancelScope(s) PROVE ScopesOK'
    BY <2>2, CancelKeepsScopes, KindsDisjoint DEF CancelScope
  <2>3. ASSUME NEW t, Tick(t) PROVE ScopesOK'
    BY <2>3, ScopesSame DEF Tick, scopeVars
  <2>4. ASSUME NEW g, Begin(g) PROVE ScopesOK'
    BY <2>4, ScopesSame DEF Begin, scopeVars
  <2>5. ASSUME PollShutdown \/ Stop PROVE ScopesOK'
    BY <2>5, CancelKeepsScopes, KindsDisjoint DEF PollShutdown, Stop
  <2> QED
    BY <1>5, <2>1, <2>2, <2>3, <2>4, <2>5 DEF ProductStep
<1> QED
  BY <1>1, <1>2, <1>3, <1>4, <1>5
  DEF Next, Step, Redeliver, HandlerEnds, HandlerFails, Settle, StepCancelled, vars

-----------------------------------------------------------------------------
(* Invocations *)

\* Only an invocation makes the scope of one.
LEMMA OldCalls ==
  ASSUME KitTypeOK, NEW s \in Scopes, NEW above \in SUBSET Scopes, NEW e,
         Make(s, above, e), NEW t \in Scopes, t # s
  PROVE  Made(t)' <=> Made(t)
  BY DEF KitTypeOK, LifeTypeOK, Make, Made

LEMMA CallsSame ==
  ASSUME CallsNumbered, AttemptsAccounted,
         \A c \in Calls : Made(c)' <=> Made(c),
         UNCHANGED <<attempts, open, record, lost>>
  PROVE  CallsNumbered' /\ AttemptsAccounted'
  BY DEF CallsNumbered, AttemptsAccounted

LEMMA InvokeAccounts ==
  ASSUME KitTypeOK, ScopesOK, CallsNumbered, AttemptsAccounted,
         NEW u \in Units, NEW again \in BOOLEAN, Invoke(u, again)
  PROVE  CallsNumbered' /\ AttemptsAccounted'
<1> USE DEF KitTypeOK
<1>1. PICK n \in 1..MaxCalls :
        /\ n = attempts[u] + 1
        /\ attempts' = [attempts EXCEPT ![u] = n]
        /\ Child(<<u, n>>, RunOf(u), Never)
        /\ lost' = lost
        /\ \/ open' = open \cup {<<u, n>>} /\ record' = record
           \/ record' = [record EXCEPT ![<<u, n>>] = "cancelled"] /\ open' = open
  BY InvokeFacts
<1> DEFINE c == <<u, n>>
<1>2. c \in Calls /\ UnitOf(c) = u /\ Number(c) = n
  BY CallOfUnit
<1>3. line' = [line EXCEPT ![c] = {c, RunOf(u)}]
  BY <1>1, <1>2, CallScope
<1>4. \A d \in Calls : Made(d)' <=> d = c \/ Made(d)
  BY <1>2, <1>3, KindsDisjoint DEF LifeTypeOK, Made
<1>5. \A d \in Calls : /\ UnitOf(d) \in Units /\ Number(d) \in 1..MaxCalls
                       /\ d = <<UnitOf(d), Number(d)>>
  BY CallShape
<1>6. \A d \in Calls :
        Number(d) <= attempts'[UnitOf(d)]
          <=> d = c \/ Number(d) <= attempts[UnitOf(d)]
  <2> SUFFICES ASSUME NEW d \in Calls
               PROVE  Number(d) <= attempts'[UnitOf(d)]
                        <=> d = c \/ Number(d) <= attempts[UnitOf(d)]
    OBVIOUS
  <2>1. CASE UnitOf(d) = u
    <3>1. d = c <=> Number(d) = n
      BY <1>2, <1>5, <2>1
    <3>2. attempts'[u] = n /\ attempts[u] \in Nat
      BY <1>1
    <3> QED
      BY <1>1, <1>5, <2>1, <3>1, <3>2
  <2>2. CASE UnitOf(d) # u
    BY <1>1, <1>2, <1>5, <2>2
  <2> QED
    BY <2>1, <2>2
<1>7. c \notin open \cup lost /\ record[c] = "none"
  <2>1. ~(n <= attempts[u])
    BY <1>1
  <2> QED
    BY <2>1 DEF AttemptsAccounted
<1> HIDE DEF c
<1>8. CallsNumbered'
  <2>1. open' \cap lost' = {}
    BY <1>1, <1>7 DEF CallsNumbered, c
  <2> QED
    BY <1>4, <1>6, <2>1 DEF CallsNumbered
<1>9. \A d \in Calls :
        /\ d \in open' \cup lost' \/ record'[d] # "none"
             <=> d = c \/ d \in open \cup lost \/ record[d] # "none"
        /\ d \in open' \cup lost' => record'[d] = "none"
  <2>1. CASE open' = open \cup {c} /\ record' = record /\ lost' = lost
    BY <1>2, <1>7, <2>1, CallOfUnit DEF AttemptsAccounted, Calls
  <2>2. CASE /\ record' = [record EXCEPT ![c] = "cancelled"]
             /\ open' = open /\ lost' = lost
    BY <1>2, <1>7, <2>2, CallOfUnit DEF AttemptsAccounted, Calls
  <2> QED
    BY <1>1, <2>1, <2>2 DEF c
<1>10. AttemptsAccounted'
  <2> SUFFICES ASSUME NEW v \in Units, NEW k \in 1..MaxCalls
               PROVE  /\ k <= attempts'[v]
                           <=> <<v, k>> \in open' \cup lost' \/ record'[<<v, k>>] # "none"
                      /\ <<v, k>> \in open' \cup lost' => record'[<<v, k>>] = "none"
    BY DEF AttemptsAccounted
  <2>1. <<v, k>> \in Calls /\ UnitOf(<<v, k>>) = v /\ Number(<<v, k>>) = k
    BY CallOfUnit
  <2>2. k <= attempts[v] <=> <<v, k>> \in open \cup lost \/ record[<<v, k>>] # "none"
    BY DEF AttemptsAccounted
  <2>3. k <= attempts'[v] <=> <<v, k>> = c \/ k <= attempts[v]
    BY <1>6, <2>1
  <2> QED
    BY <1>9, <2>1, <2>2, <2>3
<1> QED
  BY <1>8, <1>10

LEMMA EndAccounts ==
  ASSUME KitTypeOK, CallsNumbered, AttemptsAccounted, NEW c \in Calls,
         \/ \E s \in Terminal \cup {"retry_scheduled"} : Settle(c, s)
         \/ StepCancelled(c)
  PROVE  CallsNumbered' /\ AttemptsAccounted'
<1> USE DEF KitTypeOK
<1>1. c \in open /\ c \notin lost /\ record[c] = "none"
  <2>1. c = <<UnitOf(c), Number(c)>> /\ UnitOf(c) \in Units /\ Number(c) \in 1..MaxCalls
    BY CallShape
  <2>2. c \in open
    BY DEF Settle, StepCancelled
  <2> QED
    BY <2>1, <2>2 DEF CallsNumbered, AttemptsAccounted
<1>2. UNCHANGED <<attempts, lifeVars>>
  BY DEF Settle, StepCancelled, unitVars
<1>3. \/ /\ lost' = lost /\ open' = open \ {c}
         /\ \E s \in Terminal \cup {"retry_scheduled"} :
              record' = [record EXCEPT ![c] = s]
      \/ lost' = lost \cup {c} /\ open' = open \ {c} /\ record' = record
  BY DEF Settle, StepCancelled, Recorded
<1>4. "none" \notin Terminal \cup {"retry_scheduled"}
  BY DEF Terminal, Final
<1>5. CallsNumbered'
  <2>1. open' \cap lost' = {}
    BY <1>1, <1>3 DEF CallsNumbered
  <2> QED
    BY <1>2, <2>1 DEF CallsNumbered, Made, lifeVars, scopeVars
<1>6. \A d \in Calls :
        /\ d \in open' \cup lost' \/ record'[d] # "none"
             <=> d \in open \cup lost \/ record[d] # "none"
        /\ (d \in open \cup lost => record[d] = "none")
             => (d \in open' \cup lost' => record'[d] = "none")
  <2>1. CASE lost' = lost
    <3>1. PICK s \in Terminal \cup {"retry_scheduled"} :
            record' = [record EXCEPT ![c] = s] /\ open' = open \ {c}
      BY <1>1, <1>3, <2>1
    <3> QED
      BY <1>1, <1>4, <2>1, <3>1
  <2>2. CASE lost' = lost \cup {c} /\ open' = open \ {c} /\ record' = record
    BY <1>1, <2>2
  <2> QED
    BY <1>3, <2>1, <2>2
<1>7. AttemptsAccounted'
  BY <1>2, <1>6, CallOfUnit DEF AttemptsAccounted
<1> QED
  BY <1>5, <1>7

LEMMA NextAccounts ==
  ASSUME KitTypeOK, ScopesOK, CallsNumbered, AttemptsAccounted, [Next]_vars
  PROVE  CallsNumbered' /\ AttemptsAccounted'
<1>1. ASSUME NEW r \in Runs, Submit(r) PROVE CallsNumbered' /\ AttemptsAccounted'
  <2>1. \A c \in Calls : Made(c)' <=> Made(c)
    BY <1>1, OldCalls, KindsDisjoint DEF Submit, NewSource
  <2> QED
    BY <1>1, <2>1, CallsSame DEF Submit, callVars
<1>2. ASSUME NEW r \in Runs, CancelRun(r) PROVE CallsNumbered' /\ AttemptsAccounted'
  BY <1>2, CallsSame DEF CancelRun, CancelScope, Made, callVars
<1>3. ASSUME NEW u \in Units, Step(u) \/ Redeliver(u)
      PROVE  CallsNumbered' /\ AttemptsAccounted'
  BY <1>3, InvokeAccounts DEF Step, Redeliver
<1>4. ASSUME NEW c \in Calls,
             \/ \E s \in Terminal : HandlerEnds(c, s)
             \/ \E w \in RetryAfter \cup {Backoff(Number(c))} : HandlerFails(c, w)
             \/ StepCancelled(c)
      PROVE  CallsNumbered' /\ AttemptsAccounted'
  BY <1>4, EndAccounts DEF HandlerEnds, HandlerFails, Terminal, Final
<1>5. CASE ProductStep /\ UNCHANGED kitVars
  <2>1. \A c \in Calls : Made(c)' <=> Made(c)
    <3>1. ASSUME NEW s \in OwnScopes, NEW c \in open, NEW e,
                 NewSourceUnder(s, c, e)
          PROVE  \A d \in Calls : Made(d)' <=> Made(d)
      <4>1. line[c] \in SUBSET Scopes
        BY KindsDisjoint DEF KitTypeOK, LifeTypeOK
      <4> QED
        BY <3>1, <4>1, OldCalls, KindsDisjoint DEF NewSourceUnder
    <3>2. CASE UNCHANGED line
      BY <3>2 DEF Made
    <3> QED
      BY <1>5, <3>1, <3>2
      DEF ProductStep, CancelScope, Tick, Begin, PollShutdown, Stop, scopeVars
  <2> QED
    BY <1>5, <2>1, CallsSame DEF kitVars, unitVars, callVars
<1>6. CASE UNCHANGED vars
  BY <1>6, CallsSame DEF vars, lifeVars, scopeVars, kitVars, unitVars, callVars, Made
<1> QED
  BY <1>1, <1>2, <1>3, <1>4, <1>5, <1>6 DEF Next

-----------------------------------------------------------------------------
(* Time and cancellation only go forward *)

ForwardOnly ==
  /\ \A r \in Runs : Made(r) => line'[r] = line[r] /\ expires'[r] = expires[r]
  /\ \A a \in Scopes : stopped[a] => stopped'[a]
  /\ now <= now'

LEMMA Forward ==
  ASSUME KitTypeOK, ScopesOK, [Next]_vars PROVE ForwardOnly
<1> USE DEF KitTypeOK
<1>1. now \in Nat
  BY TimeFacts DEF LifeTypeOK
<1>2. ASSUME NEW s \in Scopes, NEW above, NEW e, Make(s, above, e) PROVE ForwardOnly
  BY <1>1, <1>2, KindsDisjoint DEF ForwardOnly, Make, Made, LifeTypeOK
<1>3. ASSUME NEW s \in Scopes, stopped' = Stopped(s),
             UNCHANGED <<now, line, expires>>
      PROVE  ForwardOnly
  BY <1>1, <1>3 DEF ForwardOnly, Stopped, LifeTypeOK
<1>4. CASE UNCHANGED <<now, scopeVars>>
  BY <1>1, <1>4 DEF ForwardOnly, scopeVars
<1>5. ASSUME NEW t \in Moments, Tick(t) PROVE ForwardOnly
  BY <1>1, <1>5, TimeFacts DEF ForwardOnly, Tick, scopeVars
<1>6. ASSUME NEW u \in Units, Step(u) \/ Redeliver(u) PROVE ForwardOnly
  <2>1. PICK n \in 1..MaxCalls : Child(<<u, n>>, RunOf(u), Never)
    BY <1>6, InvokeFacts DEF Step, Redeliver
  <2> QED
    BY <1>2, <2>1, CallOfUnit, KindsDisjoint DEF Child
<1>7. ASSUME NEW c \in Calls,
             \/ \E s \in Terminal : HandlerEnds(c, s)
             \/ \E w \in RetryAfter \cup {Backoff(Number(c))} : HandlerFails(c, w)
             \/ StepCancelled(c)
      PROVE  ForwardOnly
  <2>1. UNCHANGED lifeVars
    BY <1>7 DEF HandlerEnds, HandlerFails, Settle, StepCancelled
  <2> QED
    BY <1>4, <2>1 DEF lifeVars
<1>8. CASE ProductStep
  <2>1. ASSUME NEW s \in OwnScopes, NEW c \in open, NEW e \in {After(1), Never},
               NewSourceUnder(s, c, e)
        PROVE  ForwardOnly
    BY <1>2, <2>1, KindsDisjoint DEF NewSourceUnder
  <2>2. ASSUME NEW s \in OwnScopes, CancelScope(s) PROVE ForwardOnly
    BY <1>3, <2>2, KindsDisjoint DEF CancelScope
  <2>3. ASSUME PollShutdown \/ Stop PROVE ForwardOnly
    BY <1>3, <2>3, KindsDisjoint DEF PollShutdown, Stop
  <2>4. ASSUME NEW g \in Graces, Begin(g) PROVE ForwardOnly
    BY <1>4, <2>4 DEF Begin
  <2> QED
    BY <1>5, <1>8, <2>1, <2>2, <2>3, <2>4 DEF ProductStep
<1>9. ASSUME NEW r \in Runs, Submit(r) PROVE ForwardOnly
  BY <1>2, <1>9, KindsDisjoint DEF Submit, NewSource
<1>10. ASSUME NEW r \in Runs, CancelRun(r) PROVE ForwardOnly
  BY <1>3, <1>10, KindsDisjoint DEF CancelRun, CancelScope
<1>11. CASE UNCHANGED vars
  BY <1>4, <1>11 DEF vars, lifeVars
<1> QED
  BY <1>6, <1>7, <1>8, <1>9, <1>10, <1>11 DEF Next

LEMMA RunsStayCancelled ==
  ASSUME KitTypeOK, KitTypeOK', ScopesOK, [Next]_vars,
         NEW r \in Runs, IsCancelled(r)
  PROVE  IsCancelled(r)'
<1>1. Made(r) /\ line[r] = {r}
  BY DEF IsCancelled, ScopesOK, Made
<1>2. line'[r] = line[r] /\ expires'[r] = expires[r] /\ now <= now'
      /\ \A a \in Scopes : stopped[a] => stopped'[a]
  BY <1>1, Forward DEF ForwardOnly
<1>3. \A a \in line[r] : expires'[a] = expires[a]
  BY <1>1, <1>2
<1> QED
  BY <1>2, <1>3, CancelledStays, KindsDisjoint DEF KitTypeOK

-----------------------------------------------------------------------------
(* Units *)

\* A run cannot be cancelled twice, but once.
LEMMA CancelWorks ==
  ASSUME KitTypeOK, KitTypeOK', ScopesOK, [Next]_vars,
         NEW r \in Runs, CancelScope(r)
  PROVE  IsCancelled(r)'
<1>1. CASE IsCancelled(r)
  BY <1>1, RunsStayCancelled
<1>2. CASE ~IsCancelled(r)
  <2>1. stopped'[r] /\ line' = line
    BY <1>2, KindsDisjoint DEF CancelScope, Stopped, KitTypeOK, LifeTypeOK
  <2>2. r \in line[r]
    BY DEF CancelScope, ScopesOK, Made
  <2> QED
    BY <2>1, <2>2 DEF IsCancelled
<1> QED
  BY <1>1, <1>2

\* Who has made the scope of a run.
LEMMA NextRunsMade ==
  ASSUME KitTypeOK, ScopesOK, [Next]_vars, NEW r \in Runs
  PROVE  /\ Made(r) => Made(r)'
         /\ Made(r)' => Made(r) \/ Submit(r)
<1> USE DEF KitTypeOK
<1>1. Made(r) => Made(r)'
  BY Forward DEF ForwardOnly, Made
<1>2. ASSUME NEW s \in Scopes, NEW above \in SUBSET Scopes, NEW e,
             Make(s, above, e), s # r
      PROVE  Made(r)' => Made(r)
  BY <1>2, OldCalls, KindsDisjoint
<1>3. CASE UNCHANGED line
  BY <1>3 DEF Made
<1>4. ASSUME NEW q \in Runs, Submit(q) PROVE Made(r)' => Made(r) \/ Submit(r)
  BY <1>2, <1>4, KindsDisjoint DEF Submit, NewSource
<1>5. ASSUME NEW u \in Units, Step(u) \/ Redeliver(u) PROVE Made(r)' => Made(r)
  <2>1. PICK n \in 1..MaxCalls : Child(<<u, n>>, RunOf(u), Never)
    BY <1>5, InvokeFacts DEF Step, Redeliver
  <2>2. line[RunOf(u)] \in SUBSET Scopes /\ <<u, n>> \in Scopes /\ <<u, n>> # r
    BY UnitShape, CallOfUnit, KindsDisjoint DEF LifeTypeOK
  <2> QED
    BY <1>2, <2>1, <2>2 DEF Child
<1>6. CASE ProductStep
  <2>1. ASSUME NEW s \in OwnScopes, NEW c \in open, NEW e \in {After(1), Never},
               NewSourceUnder(s, c, e)
        PROVE  Made(r)' => Made(r)
    BY <1>2, <2>1, KindsDisjoint DEF NewSourceUnder, LifeTypeOK
  <2> QED
    BY <1>1, <1>3, <1>6, <2>1
    DEF ProductStep, CancelScope, Tick, Begin, PollShutdown, Stop, scopeVars
<1> QED
  BY <1>1, <1>3, <1>4, <1>5, <1>6
  DEF Next, vars, lifeVars, scopeVars, CancelRun, CancelScope, HandlerEnds,
      HandlerFails, Settle, StepCancelled

LEMMA StepStatus ==
  ASSUME KitTypeOK, ScopesOK, NEW u \in Units, Step(u)
  PROVE  \/ status' = [status EXCEPT ![u] = "running"]
         \/ /\ status' = [status EXCEPT ![u] = "cancelled"]
            /\ IsCancelled(RunOf(u))'
<1>1. Invoke(u, FALSE) /\ FALSE \in BOOLEAN
  BY DEF Step
<1>2. \E n \in 1..MaxCalls :
        \/ status' = [status EXCEPT ![u] = "running"]
        \/ /\ IsCancelled(RunOf(u))'
           /\ status' = [status EXCEPT ![u] = "cancelled"]
  BY <1>1, InvokeFacts
<1> QED
  BY <1>2

\* The status a step gives to a unit.
LEMMA NextStatus ==
  ASSUME KitTypeOK, ScopesOK, UnitsKnown, OneFirstCall, [Next]_vars,
         NEW u \in Units
  PROVE  \/ status'[u] = status[u]
         \/ Submit(RunOf(u)) /\ status[u] = "absent" /\ status'[u] = "ready"
         \/ /\ CancelRun(RunOf(u)) /\ status[u] \notin Terminal \cup {"absent"}
            /\ status'[u] = "cancelled"
         \/ /\ Invoke(u, FALSE) /\ status[u] \in Open
            /\ \/ status'[u] = "running"
               \/ status'[u] = "cancelled" /\ IsCancelled(RunOf(u))'
         \/ \E c \in open \ duplicate :
              /\ UnitOf(c) = u
              /\ status[u] \in {"running", "cancelled"}
              /\ \E s \in Terminal \cup {"retry_scheduled"} :
                   Settle(c, s) /\ status'[u] = s
<1> USE DEF KitTypeOK
<1>1. ASSUME NEW r \in Runs, Submit(r), r = RunOf(u)
      PROVE  status[u] = "absent" /\ status'[u] = "ready"
  BY <1>1 DEF Submit, NewSource, Make, UnitsKnown
<1>2. ASSUME NEW r \in Runs, Submit(r), r # RunOf(u) PROVE status'[u] = status[u]
  BY <1>2 DEF Submit
<1>3. ASSUME NEW r \in Runs, CancelRun(r),
             r # RunOf(u) \/ status[u] \in Terminal
      PROVE  status'[u] = status[u]
  BY <1>3 DEF CancelRun
<1>4. ASSUME NEW r \in Runs, CancelRun(r), r = RunOf(u), status[u] \notin Terminal
      PROVE  status'[u] = "cancelled" /\ status[u] # "absent"
  BY <1>4 DEF CancelRun, CancelScope, UnitsKnown
<1>5. ASSUME NEW v \in Units, Redeliver(v) PROVE status'[u] = status[u]
  BY <1>5, InvokeFacts DEF Redeliver
<1>6. ASSUME NEW v \in Units, Step(v), v # u PROVE status'[u] = status[u]
  BY <1>6, StepStatus
<1>7. ASSUME Step(u)
      PROVE  /\ Invoke(u, FALSE) /\ status[u] \in Open
             /\ \/ status'[u] = "running"
                \/ status'[u] = "cancelled" /\ IsCancelled(RunOf(u))'
  BY <1>7, StepStatus DEF Step, Due
<1>8. ASSUME NEW c \in Calls, NEW s \in Terminal \cup {"retry_scheduled"},
             Settle(c, s), status'[u] # status[u]
      PROVE  /\ c \in open \ duplicate /\ UnitOf(c) = u /\ status'[u] = s
             /\ status[u] \in {"running", "cancelled"}
  BY <1>8, CallShape DEF Settle, Keeps, OneFirstCall
<1>9. ASSUME NEW c \in Calls,
             \/ \E s \in Terminal : HandlerEnds(c, s)
             \/ \E w \in RetryAfter \cup {Backoff(Number(c))} : HandlerFails(c, w)
      PROVE  \E s \in Terminal \cup {"retry_scheduled"} : Settle(c, s)
  BY <1>9 DEF HandlerEnds, HandlerFails, Terminal, Final
<1>10. CASE UNCHANGED status
  BY <1>10
<1> QED
  BY <1>1, <1>2, <1>3, <1>4, <1>5, <1>6, <1>7, <1>8, <1>9, <1>10, UnitShape
  DEF Next, vars, kitVars, unitVars, StepCancelled

LEMMA NextUnitsKnown ==
  ASSUME KitTypeOK, ScopesOK, UnitsKnown, OneFirstCall, [Next]_vars
  PROVE  UnitsKnown'
<1> SUFFICES ASSUME NEW u \in Units
             PROVE  Made(RunOf(u))' <=> status'[u] # "absent"
  BY DEF UnitsKnown
<1>1. /\ Made(RunOf(u)) => Made(RunOf(u))'
      /\ Made(RunOf(u))' => Made(RunOf(u)) \/ Submit(RunOf(u))
  BY NextRunsMade, UnitShape
<1>2. Made(RunOf(u)) <=> status[u] # "absent"
  BY DEF UnitsKnown
<1>3. ASSUME Submit(RunOf(u)) PROVE status'[u] # "absent" /\ Made(RunOf(u))'
  <2>1. Made(RunOf(u))'
    BY <1>3, UnitShape, KindsDisjoint
    DEF Submit, NewSource, Make, Made, KitTypeOK, LifeTypeOK
  <2>2. status'[u] = "ready"
    BY <1>3 DEF Submit
  <2> QED
    BY <2>1, <2>2
<1>4. \/ status'[u] = status[u]
      \/ Submit(RunOf(u))
      \/ status[u] # "absent" /\ status'[u] # "absent"
  BY NextStatus DEF Terminal, Final, Open
<1> QED
  BY <1>1, <1>2, <1>3, <1>4

\* Which invocations are under way after a step, those that count for the
\* status of their unit.
LEMMA NextFirstCalls ==
  ASSUME KitTypeOK, ScopesOK, [Next]_vars, NEW c \in open' \ duplicate'
  PROVE  \/ c \in open \ duplicate
         \/ /\ UnitOf(c) \in Units /\ status[UnitOf(c)] \in Open
            /\ status'[UnitOf(c)] = "running"
            /\ open' \ duplicate' \subseteq (open \ duplicate) \cup {c}
<1>1. ASSUME NEW u \in Units, Redeliver(u) PROVE c \in open \ duplicate
  <2>1. Invoke(u, TRUE) /\ TRUE \in BOOLEAN
    BY <1>1 DEF Redeliver
  <2>2. \E n \in 1..MaxCalls :
          /\ duplicate' = duplicate \cup {<<u, n>>}
          /\ open' = open \cup {<<u, n>>} \/ open' = open
    BY <2>1, InvokeFacts
  <2> QED
    BY <2>2
<1>2. ASSUME NEW u \in Units, Step(u), c \notin open \ duplicate
      PROVE  /\ UnitOf(c) = u /\ status[u] \in Open
             /\ status'[u] = "running"
             /\ open' \ duplicate' \subseteq (open \ duplicate) \cup {c}
  <2>1. Invoke(u, FALSE) /\ FALSE \in BOOLEAN /\ status[u] \in Open
    BY <1>2 DEF Step, Due
  <2>2. PICK n \in 1..MaxCalls :
          /\ duplicate' = duplicate
          /\ \/ /\ open' = open \cup {<<u, n>>}
                /\ status' = [status EXCEPT ![u] = "running"]
             \/ open' = open
    BY <2>1, InvokeFacts
  <2>3. c = <<u, n>> /\ status' = [status EXCEPT ![u] = "running"]
    BY <1>2, <2>2
  <2>4. status'[u] = "running"
    BY <2>3 DEF KitTypeOK
  <2> QED
    BY <2>1, <2>2, <2>3, <2>4, CallOfUnit
<1>3. ASSUME NEW d \in Calls,
             \/ \E s \in Terminal : HandlerEnds(d, s)
             \/ \E w \in RetryAfter \cup {Backoff(Number(d))} : HandlerFails(d, w)
             \/ StepCancelled(d)
      PROVE  c \in open \ duplicate
  BY <1>3 DEF HandlerEnds, HandlerFails, Settle, StepCancelled
<1>4. CASE UNCHANGED <<open, duplicate>>
  BY <1>4
<1> QED
  BY <1>1, <1>2, <1>3, <1>4
  DEF Next, vars, kitVars, callVars, Submit, CancelRun

LEMMA NextOneFirstCall ==
  ASSUME KitTypeOK, KitTypeOK', ScopesOK, UnitsKnown, OneFirstCall, [Next]_vars
  PROVE  OneFirstCall'
<1> DEFINE first == open \ duplicate
<1>1. \A c \in first' : UnitOf(c) \in Units /\ RunOf(UnitOf(c)) \in Runs
  BY CallShape DEF KitTypeOK
<1>2. ASSUME NEW c \in first', NEW d \in first', UnitOf(c) = UnitOf(d)
      PROVE  c = d
  <2>1. CASE c \in first /\ d \in first
    BY <1>2, <2>1 DEF OneFirstCall
  <2>2. CASE c \notin first
    <3>1. status[UnitOf(c)] \in Open /\ first' \subseteq first \cup {c}
      BY <2>2, NextFirstCalls
    <3>2. d \in first => status[UnitOf(d)] \in {"running", "cancelled"}
      BY DEF OneFirstCall
    <3> QED
      BY <1>2, <3>1, <3>2 DEF Open
  <2>3. CASE d \notin first
    <3>1. status[UnitOf(d)] \in Open /\ first' \subseteq first \cup {d}
      BY <2>3, NextFirstCalls
    <3>2. c \in first => status[UnitOf(c)] \in {"running", "cancelled"}
      BY DEF OneFirstCall
    <3> QED
      BY <1>2, <3>1, <3>2 DEF Open
  <2> QED
    BY <2>1, <2>2, <2>3
<1>3. ASSUME NEW c \in first'
      PROVE  \/ status'[UnitOf(c)] = "running"
             \/ status'[UnitOf(c)] = "cancelled" /\ IsCancelled(RunOf(UnitOf(c)))'
  <2> DEFINE u == UnitOf(c)
  <2>1. CASE c \notin first
    BY <2>1, NextFirstCalls
  <2>2. CASE c \in first
    <3>1. \/ status[u] = "running"
          \/ status[u] = "cancelled" /\ IsCancelled(RunOf(u))
      BY <2>2 DEF OneFirstCall
    <3>2. CASE status'[u] = status[u]
      BY <1>1, <3>1, <3>2, RunsStayCancelled
    <3>3. CASE CancelRun(RunOf(u)) /\ status'[u] = "cancelled"
      BY <1>1, <3>3, CancelWorks DEF CancelRun
    <3>4. ASSUME NEW d \in first, UnitOf(d) = u,
                 NEW s \in Terminal \cup {"retry_scheduled"}, Settle(d, s)
          PROVE  FALSE
      <4>1. d = c
        BY <2>2, <3>4 DEF OneFirstCall
      <4> QED
        BY <3>4, <4>1 DEF Settle
    <3>5. status[u] \notin Open \cup {"absent"}
      BY <3>1 DEF Open
    <3>6. u \in Units
      BY <1>1
    <3> HIDE DEF u
    <3> QED
      BY <3>2, <3>3, <3>4, <3>5, <3>6, NextStatus DEF u
  <2> QED
    BY <2>1, <2>2
<1> QED
  BY <1>2, <1>3 DEF OneFirstCall

-----------------------------------------------------------------------------
LEMMA InitKitInv == Init => KitInv
<1> SUFFICES ASSUME Init PROVE KitInv
  OBVIOUS
<1>1. KitTypeOK
  BY TimeFacts, LifecycleAssumption DEF Init, LifeInit, KitTypeOK, LifeTypeOK, Moments
<1>2. ScopesOK
  BY KindsDisjoint DEF Init, LifeInit, ScopesOK, Made
<1>3. \A c \in Calls : ~Made(c)
  BY KindsDisjoint DEF Init, LifeInit, Made
<1>4. CallsNumbered
  BY <1>3, CallShape DEF Init, CallsNumbered
<1>5. AttemptsAccounted
  <2> SUFFICES ASSUME NEW u \in Units, NEW n \in 1..MaxCalls
               PROVE  /\ n <= attempts[u]
                           <=> <<u, n>> \in open \cup lost \/ record[<<u, n>>] # "none"
                      /\ <<u, n>> \in open \cup lost => record[<<u, n>>] = "none"
    BY DEF AttemptsAccounted
  <2>1. attempts[u] = 0 /\ ~(n <= 0)
    BY TimeFacts DEF Init
  <2>2. record[<<u, n>>] = "none" /\ open = {} /\ lost = {}
    BY CallOfUnit DEF Init
  <2> QED
    BY <2>1, <2>2
<1>6. UnitsKnown /\ OneFirstCall
  BY UnitShape, KindsDisjoint DEF Init, LifeInit, UnitsKnown, OneFirstCall, Made
<1> QED
  BY <1>1, <1>2, <1>4, <1>5, <1>6 DEF KitInv

LEMMA NextKitInv == KitInv /\ [Next]_vars => KitInv'
<1> SUFFICES ASSUME KitInv, [Next]_vars PROVE KitInv'
  OBVIOUS
<1>1. KitTypeOK' /\ ScopesOK'
  BY NextKitTypeOK, NextScopesOK DEF KitInv
<1>2. CallsNumbered' /\ AttemptsAccounted' /\ UnitsKnown'
  BY NextAccounts, NextUnitsKnown DEF KitInv
<1>3. OneFirstCall'
  BY <1>1, NextOneFirstCall DEF KitInv
<1> QED
  BY <1>1, <1>2, <1>3 DEF KitInv

\* The kit's bookkeeping and its scopes agree in every state.
THEOREM KitInvHolds == Spec => []KitInv
  BY InitKitInv, NextKitInv, PTL DEF Spec

\* Every variable of the kit and of its scopes keeps its type.
THEOREM KitTypeCorrect == Spec => []KitTypeOK
<1>1. KitInv => KitTypeOK
  BY DEF KitInv
<1> QED
  BY <1>1, KitInvHolds, PTL

\* Whatever a handler derives from the token it is given (child,
\* CancellationSource with parent) is cancelled with its run; the invocation's
\* own scope never without it.
THEOREM CancellationReachesCalls == Spec => []CallsHearTheirRun
<1>1. KitInv => CallsHearTheirRun
  <2> SUFFICES ASSUME KitInv PROVE CallsHearTheirRun
    OBVIOUS
  <2>1. ASSUME NEW c \in Calls, Made(c)
        PROVE  IsCancelled(c) <=> IsCancelled(RunOf(UnitOf(c)))
    <3> DEFINE r == RunOf(UnitOf(c))
    <3>1. r \in Runs /\ r \in Scopes /\ c \in Scopes
      BY CallShape, KindsDisjoint
    <3>2. line[c] = {c, r} /\ line[r] \subseteq {r} /\ ~stopped[c]
      BY <2>1, <3>1 DEF KitInv, ScopesOK
    <3>3. Made(r)
      BY <2>1 DEF KitInv, ScopesOK
    <3> QED
      BY <2>1, <3>3, CallsFollow DEF KitInv, KitTypeOK
  <2>2. ASSUME NEW s \in OwnScopes, NEW c \in line[s] \cap Calls,
               IsCancelled(RunOf(UnitOf(c)))
        PROVE  IsCancelled(s)
    <3> DEFINE r == RunOf(UnitOf(c))
    <3>1. r \in Runs /\ r \in line[s]
      BY CallShape DEF KitInv, ScopesOK
    <3>2. line[r] \subseteq {r}
      BY <3>1 DEF KitInv, ScopesOK
    <3> QED
      BY <2>2, <3>1, <3>2 DEF IsCancelled
  <2> QED
    BY <2>1, <2>2 DEF CallsHearTheirRun
<1> QED
  BY <1>1, KitInvHolds, PTL

\* Every invocation that has a number is under way, recorded or lost, and no
\* two share one (_invoke, _record).
THEOREM InvocationsAccounted == Spec => []AttemptsAccounted
<1>1. KitInv => AttemptsAccounted
  BY DEF KitInv
<1> QED
  BY <1>1, KitInvHolds, PTL

-----------------------------------------------------------------------------
(* Outcomes *)

LEMMA OutcomesStay ==
  ASSUME KitInv, [Next]_vars, NEW u \in Units
  PROVE  /\ status[u] \in Final => status'[u] = status[u]
         /\ status[u] = "cancelled" /\ ~IsCancelled(RunOf(u))
              => status'[u] = "cancelled"
<1> USE DEF KitInv
<1>1. \A c \in open \ duplicate :
        UnitOf(c) = u => \/ status[u] = "running"
                         \/ status[u] = "cancelled" /\ IsCancelled(RunOf(u))
  BY DEF OneFirstCall
<1>2. status[u] \in Final \cup {"cancelled"}
        => status[u] \in Terminal /\ status[u] \notin Open \cup {"absent", "running"}
  BY DEF Final, Terminal, Open
<1>3. status[u] \in Final => status[u] # "cancelled"
  BY DEF Final
<1> QED
  BY <1>1, <1>2, <1>3, NextStatus

\* The verdict of a run in terms of its units.
LEMMA VerdictRunning ==
  ASSUME NEW r \in Runs
  PROVE  Verdict(r) = "running" <=>
           /\ \E u \in UnitsOf(r) : status[u] # "succeeded"
           /\ \A u \in UnitsOf(r) :
                status[u] \notin {"failed", "dead_lettered", "cancelled"}
           /\ ~IsCancelled(r)
<1> DEFINE statuses == {status[u] : u \in UnitsOf(r)}
<1>1. statuses \subseteq {"succeeded"} <=> \A u \in UnitsOf(r) : status[u] = "succeeded"
  OBVIOUS
<1>2. statuses \cap {"failed", "dead_lettered"} # {}
        <=> \E u \in UnitsOf(r) : status[u] \in {"failed", "dead_lettered"}
  OBVIOUS
<1>3. "cancelled" \in statuses <=> \E u \in UnitsOf(r) : status[u] = "cancelled"
  OBVIOUS
<1> QED
  BY <1>1, <1>2, <1>3 DEF Verdict

LEMMA VerdictStays ==
  ASSUME KitInv, KitInv', [Next]_vars, NEW r \in Runs, Verdict(r) # "running"
  PROVE  Verdict(r)' # "running"
<1>1. Verdict(r)' = "running" <=>
        /\ \E u \in UnitsOf(r) : status'[u] # "succeeded"
        /\ \A u \in UnitsOf(r) :
             status'[u] \notin {"failed", "dead_lettered", "cancelled"}
        /\ ~IsCancelled(r)'
  <2> DEFINE statuses == {status'[u] : u \in UnitsOf(r)}
  <2>1. statuses \subseteq {"succeeded"}
          <=> \A u \in UnitsOf(r) : status'[u] = "succeeded"
    OBVIOUS
  <2>2. statuses \cap {"failed", "dead_lettered"} # {}
          <=> \E u \in UnitsOf(r) : status'[u] \in {"failed", "dead_lettered"}
    OBVIOUS
  <2>3. "cancelled" \in statuses <=> \E u \in UnitsOf(r) : status'[u] = "cancelled"
    OBVIOUS
  <2> QED
    BY <2>1, <2>2, <2>3 DEF Verdict
<1>2. CASE IsCancelled(r)
  BY <1>1, <1>2, RunsStayCancelled DEF KitInv
<1>3. CASE ~IsCancelled(r) /\ \E u \in UnitsOf(r) :
             status[u] \in {"failed", "dead_lettered", "cancelled"}
  <2>1. PICK u \in UnitsOf(r) : status[u] \in {"failed", "dead_lettered", "cancelled"}
    BY <1>3
  <2>2. u \in Units /\ RunOf(u) = r
    BY DEF UnitsOf
  <2>3. status'[u] = status[u]
    BY <1>3, <2>1, <2>2, OutcomesStay DEF Final
  <2> QED
    BY <1>1, <2>1, <2>3
<1>4. CASE \A u \in UnitsOf(r) : status[u] = "succeeded"
  <2>1. \A u \in UnitsOf(r) : status'[u] = "succeeded"
    BY <1>4, OutcomesStay DEF UnitsOf, Final
  <2> QED
    BY <1>1, <2>1
<1> QED
  BY <1>2, <1>3, <1>4, VerdictRunning

\* Neither a redelivery nor a cancellation undoes the outcome of a unit, and
\* no verdict of run() is ever withdrawn.
THEOREM OutcomesStandForEver == Spec => OutcomesStand
<1>1. KitInv /\ KitInv' /\ [Next]_vars =>
        [/\ \A u \in Units : status[u] \in Final => status'[u] = status[u]
         /\ \A r \in Runs : Made(r) /\ Verdict(r) # "running"
                              => Verdict(r)' # "running"]_vars
  BY OutcomesStay, VerdictStays
<1> QED
  BY <1>1, KitInvHolds, PTL DEF Spec, OutcomesStand

\* What an invocation that begins finds of its run: a handler is only started
\* as long as the run is not cancelled.
LEMMA OpenedUncancelled ==
  ASSUME KitInv, [Next]_vars, NEW c \in open' \ open
  PROVE  ~IsCancelled(RunOf(UnitOf(c)))'
<1> USE DEF KitInv
<1>1. ASSUME NEW u \in Units, NEW again \in BOOLEAN, Invoke(u, again)
      PROVE  ~IsCancelled(RunOf(UnitOf(c)))'
  <2>1. PICK n \in 1..MaxCalls :
          \/ ~IsCancelled(RunOf(u))' /\ open' = open \cup {<<u, n>>}
          \/ open' = open
    BY <1>1, InvokeFacts
  <2>2. c = <<u, n>> /\ ~IsCancelled(RunOf(u))'
    BY <2>1
  <2> QED
    BY <2>2, CallOfUnit
<1>2. ASSUME NEW u \in Units, Step(u) \/ Redeliver(u)
      PROVE  \E again \in BOOLEAN : Invoke(u, again)
  BY <1>2 DEF Step, Redeliver
<1>3. (\E u \in Units : Step(u) \/ Redeliver(u)) \/ open' \subseteq open
  BY DEF Next, vars, kitVars, callVars, Submit, CancelRun, HandlerEnds,
         HandlerFails, Settle, StepCancelled
<1> QED
  BY <1>1, <1>2, <1>3

\* Only one answer may overrule the cancellation of a unit (cancel(), _retry,
\* _finish): no redelivery does, and no handler is started in a cancelled run
\* (raise_if_cancelled in _invoke).
THEOREM CancellationHolds == Spec => CancellationStands
<1>1. ASSUME KitInv, [Next]_vars, NEW u \in Units,
             status[u] = "cancelled", status'[u] # "cancelled"
      PROVE  \E c \in open \ duplicate :
               UnitOf(c) = u /\ c \notin open' /\ IsCancelled(RunOf(u))
  <2>1. PICK c \in open \ duplicate :
          UnitOf(c) = u /\ \E s \in Terminal \cup {"retry_scheduled"} : Settle(c, s)
    BY <1>1, NextStatus DEF KitInv, Terminal, Open
  <2>2. c \notin open'
    BY <2>1 DEF Settle
  <2>3. IsCancelled(RunOf(u))
    BY <1>1, <2>1 DEF KitInv, OneFirstCall
  <2> QED
    BY <2>1, <2>2, <2>3
<1>2. ASSUME KitInv, KitInv', [Next]_vars, NEW c \in open' \ open
      PROVE  ~IsCancelled(RunOf(UnitOf(c)))
  <2>1. c \in Calls
    BY <1>2 DEF KitInv, KitTypeOK
  <2> QED
    BY <1>2, <2>1, OpenedUncancelled, RunsStayCancelled, CallShape DEF KitInv
<1>3. KitInv /\ KitInv' /\ [Next]_vars =>
        [/\ \A u \in Units :
              status[u] = "cancelled" /\ status'[u] # "cancelled" =>
                \E c \in open \ duplicate :
                  UnitOf(c) = u /\ c \notin open' /\ IsCancelled(RunOf(u))
         /\ \A c \in open' \ open : ~IsCancelled(RunOf(UnitOf(c)))]_vars
  BY <1>1, <1>2
<1> QED
  BY <1>3, KitInvHolds, PTL DEF Spec, CancellationStands

-----------------------------------------------------------------------------
(* The trial log *)

LEMMA InvokeIsTrial ==
  ASSUME KitInv, NEW u \in Units, NEW again \in BOOLEAN, Invoke(u, again),
         again \/ status[u] \in Open
  PROVE  Log!TrialNext
<1> USE DEF KitInv
<1>1. PICK n \in 1..MaxCalls :
        /\ n = attempts[u] + 1
        /\ duplicate' = IF again THEN duplicate \cup {<<u, n>>} ELSE duplicate
        /\ lost' = lost
        /\ \/ /\ open' = open \cup {<<u, n>>}
              /\ status' = IF again THEN status
                           ELSE [status EXCEPT ![u] = "running"]
              /\ record' = record
           \/ /\ record' = [record EXCEPT ![<<u, n>>] = "cancelled"]
              /\ status' = IF again THEN status
                           ELSE [status EXCEPT ![u] = "cancelled"]
              /\ open' = open
  BY InvokeFacts
<1>2. \A m \in 1..MaxCalls :
        m <= attempts[u] <=> <<u, m>> \in open \cup lost \/ record[<<u, m>>] # "none"
  BY DEF AttemptsAccounted
<1>3. ~Log!Begun(<<u, n>>)
  BY <1>1, <1>2 DEF KitTypeOK, Log!Begun
<1>4. \A m \in 1..(n - 1) : Log!Begun(<<u, m>>)
  <2> SUFFICES ASSUME NEW m \in 1..(n - 1) PROVE Log!Begun(<<u, m>>)
    OBVIOUS
  <2>1. m \in 1..MaxCalls /\ m <= attempts[u]
    BY <1>1, TimeFacts DEF KitTypeOK
  <2> QED
    BY <1>2, <2>1 DEF Log!Begun
<1>5. \/ open' = open \cup {<<u, n>>} /\ record' = record
      \/ record' = [record EXCEPT ![<<u, n>>] = "cancelled"] /\ open' = open
  BY <1>1
<1>6. \A v \in Units : Result(v)' = Result(v)
  <2>1. CASE again
    BY <1>1, <2>1 DEF Result
  <2>2. CASE ~again
    <3>1. Result(u) = "none"
      BY <2>2 DEF Result, Open, Final
    <3>2. \A v \in Units :
            \/ status'[v] = status[v]
            \/ v = u /\ status'[v] \in {"running", "cancelled"}
      BY <1>1, <2>2 DEF KitTypeOK
    <3> QED
      BY <3>1, <3>2 DEF Result, Final
  <2> QED
    BY <2>1, <2>2
<1>7. [v \in Units |-> Result(v)]' = [v \in Units |-> Result(v)]
  BY <1>6
<1>8. \/ duplicate' = duplicate \cup {<<u, n>>}
      \/ /\ [v \in Units |-> Result(v)][u] = "none"
         /\ \A m \in 1..MaxCalls : <<u, m>> \in open => <<u, m>> \in duplicate
         /\ duplicate' = duplicate
  <2>1. CASE again
    BY <1>1, <2>1
  <2>2. CASE ~again
    <3>1. status[u] \in Open
      BY <2>2
    <3>2. status[u] \notin Final \cup {"running", "cancelled"}
      BY <3>1 DEF Open, Final
    <3>3. \A m \in 1..MaxCalls : <<u, m>> \in open => <<u, m>> \in duplicate
      BY <3>2, CallOfUnit DEF OneFirstCall
    <3> QED
      BY <1>1, <2>2, <3>2, <3>3 DEF Result
  <2> QED
    BY <2>1, <2>2
<1>9. Log!Begin(u, n)
  BY <1>1, <1>3, <1>4, <1>5, <1>7, <1>8 DEF Log!Begin
<1> QED
  BY <1>9 DEF Log!TrialNext

LEMMA SettleIsTrial ==
  ASSUME KitInv, NEW c \in Calls, NEW s \in Terminal \cup {"retry_scheduled"},
         Settle(c, s)
  PROVE  Log!TrialNext
<1> USE DEF KitInv
<1> DEFINE u == UnitOf(c)
           n == Number(c)
<1>1. u \in Units /\ n \in 1..MaxCalls /\ c = <<u, n>>
  BY CallShape
<1>2. c \in open /\ record[c] = "none"
  BY <1>1 DEF Settle, AttemptsAccounted
<1>3. /\ open' = open \ {c}
      /\ record' = [record EXCEPT ![c] = s]
      /\ status' = IF c \in duplicate THEN status ELSE [status EXCEPT ![u] = s]
      /\ duplicate' = duplicate /\ lost' = lost
  BY DEF Settle, Recorded, Keeps
<1> DEFINE results == [v \in Units |-> Result(v)]
<1>4. CASE c \in duplicate
  <2>1. results' = results
    BY <1>3, <1>4 DEF Result
  <2> QED
    BY <1>1, <1>2, <1>3, <1>4, <2>1
    DEF Log!TrialNext, Log!End, Log!Reports, Log!Outcomes, Terminal, Final
<1>5. CASE c \notin duplicate
  <2>1. status[u] \in {"running", "cancelled"}
    BY <1>2, <1>5 DEF OneFirstCall
  <2>2. results[u] = "none"
    BY <1>1, <2>1 DEF Result, Final
  <2>3. \A v \in Units : status'[v] = IF v = u THEN s ELSE status[v]
    BY <1>3, <1>5 DEF KitTypeOK
  <2>4. \A v \in Units :
          Result(v)' = IF v = u /\ s \in Final THEN s ELSE Result(v)
    BY <1>1, <2>2, <2>3 DEF Result
  <2>5. results' = IF s \in Final THEN [results EXCEPT ![u] = s] ELSE results
    BY <2>4
  <2> QED
    BY <1>1, <1>2, <1>3, <1>5, <2>2, <2>5
    DEF Log!TrialNext, Log!End, Log!Reports, Log!Outcomes, Terminal, Final
<1> QED
  BY <1>4, <1>5

LEMMA StepIsTrial ==
  ASSUME KitInv, [Next]_vars PROVE [Log!TrialNext]_(Log!trialVars)
<1> DEFINE results == [v \in Units |-> Result(v)]
<1>1. ASSUME NEW u \in Units, Step(u) \/ Redeliver(u) PROVE Log!TrialNext
  <2>1. CASE Step(u)
    <3>1. Invoke(u, FALSE) /\ status[u] \in Open /\ FALSE \in BOOLEAN
      BY <2>1 DEF Step, Due
    <3> QED
      BY <3>1, InvokeIsTrial
  <2>2. CASE Redeliver(u)
    <3>1. Invoke(u, TRUE) /\ TRUE \in BOOLEAN
      BY <2>2 DEF Redeliver
    <3> QED
      BY <3>1, InvokeIsTrial
  <2> QED
    BY <1>1, <2>1, <2>2
<1>2. ASSUME NEW c \in Calls,
             \/ \E s \in Terminal : HandlerEnds(c, s)
             \/ \E w \in RetryAfter \cup {Backoff(Number(c))} : HandlerFails(c, w)
      PROVE  Log!TrialNext
  <2>1. \E s \in Terminal \cup {"retry_scheduled"} : Settle(c, s)
    BY <1>2 DEF HandlerEnds, HandlerFails, Terminal, Final
  <2> QED
    BY <2>1, SettleIsTrial
<1>3. ASSUME NEW c \in Calls, StepCancelled(c) PROVE Log!TrialNext
  <2>1. /\ c \in open /\ open' = open \ {c} /\ lost' = lost \cup {c}
        /\ duplicate' = duplicate /\ record' = record /\ status' = status
    BY <1>3 DEF StepCancelled, unitVars
  <2>2. results' = results
    BY <2>1 DEF Result
  <2>3. UnitOf(c) \in Units /\ Number(c) \in 1..MaxCalls /\ c = <<UnitOf(c), Number(c)>>
    BY CallShape
  <2> QED
    BY <2>1, <2>2, <2>3 DEF Log!TrialNext, Log!Lose
<1>4. ASSUME open' = open, lost' = lost, duplicate' = duplicate, record' = record,
             \A u \in Units : \/ status'[u] = status[u]
                              \/ status[u] \notin Final /\ status'[u] \notin Final
      PROVE  UNCHANGED Log!trialVars
  <2>1. results' = results
    BY <1>4 DEF Result
  <2> QED
    BY <1>4, <2>1 DEF Log!trialVars
<1>5. ASSUME NEW r \in Runs, Submit(r) PROVE UNCHANGED Log!trialVars
  <2>1. open' = open /\ lost' = lost /\ duplicate' = duplicate /\ record' = record
    BY <1>5 DEF Submit, callVars
  <2>2. \A u \in Units : \/ status'[u] = status[u]
                         \/ status[u] \notin Final /\ status'[u] \notin Final
    BY <1>5 DEF Submit, NewSource, Make, KitInv, UnitsKnown, Final
  <2> QED
    BY <1>4, <2>1, <2>2
<1>6. ASSUME NEW r \in Runs, CancelRun(r) PROVE UNCHANGED Log!trialVars
  <2>1. open' = open /\ lost' = lost /\ duplicate' = duplicate /\ record' = record
    BY <1>6 DEF CancelRun, callVars
  <2>2. \A u \in Units : \/ status'[u] = status[u]
                         \/ status[u] \notin Final /\ status'[u] \notin Final
    BY <1>6 DEF CancelRun, Terminal, Final
  <2> QED
    BY <1>4, <2>1, <2>2
<1>7. CASE UNCHANGED kitVars
  <2>1. open' = open /\ lost' = lost /\ duplicate' = duplicate /\ record' = record
    BY <1>7 DEF kitVars, callVars
  <2>2. \A u \in Units : status'[u] = status[u]
    BY <1>7 DEF kitVars, unitVars
  <2> QED
    BY <1>4, <2>1, <2>2
<1> QED
  BY <1>1, <1>2, <1>3, <1>5, <1>6, <1>7 DEF Next, vars

\* Whatever a test steps, redelivers and cancels while handlers wait, every
\* invocation (_invoke) comes to one end, recorded for it alone (_record), and
\* those that are no redeliveries follow one another until one of them gives
\* the unit its outcome (_finish, _retry).
THEOREM TrialsImplemented == Spec => ImplementsTrials
<1>1. Init => Log!TrialInit
  <2> SUFFICES ASSUME Init PROVE Log!TrialInit
    OBVIOUS
  <2>1. [u \in Units |-> Result(u)] = [u \in Units |-> "none"]
    BY DEF Init, Result, Final
  <2> QED
    BY <2>1 DEF Init, Log!TrialInit, Log!Trials, Calls
<1>2. KitInv /\ [Next]_vars => [Log!TrialNext]_(Log!trialVars)
  BY StepIsTrial
<1> QED
  BY <1>1, <1>2, KitInvHolds, PTL DEF Spec, ImplementsTrials, Log!TrialSpec

=============================================================================
