------------------------------- MODULE TrialLog -------------------------------
(***************************************************************************)
(* What the finite test kit promises a test about the units of its runs,   *)
(* without scopes, clock and statuses: the trials of a unit are numbered   *)
(* in the order in which they begin, and each comes to one end, which is   *)
(* written down for that trial and no other.  Trials that count come one   *)
(* after the other, until one gives the unit its outcome; a redelivery may *)
(* overlap with them and with others, and leaves nothing but its record.   *)
(***************************************************************************)
EXTENDS Naturals

CONSTANTS Units, MaxTrials

VARIABLES
  live,      \* trials under way
  gone,      \* trials nobody knows the end of
  again,     \* trials that are redeliveries
  report,    \* of each trial that has come to an end
  outcome    \* of each unit, "none" without one

trialVars == <<live, gone, again, report, outcome>>

Trials == Units \X (1..MaxTrials)
Outcomes == {"succeeded", "failed", "dead_lettered"}
Reports == Outcomes \cup {"cancelled", "retry_scheduled"}

TrialInit ==
  /\ live = {} /\ gone = {} /\ again = {}
  /\ report = [c \in Trials |-> "none"]
  /\ outcome = [u \in Units |-> "none"]

Begun(c) == c \in live \cup gone \/ report[c] # "none"

\* The next trial of the unit begins, or is over at once.  One that counts
\* waits for the one before it.
Begin(u, n) ==
  /\ ~Begun(<<u, n>>)
  /\ \/ live' = live \cup {<<u, n>>} /\ UNCHANGED report
     \/ report' = [report EXCEPT ![<<u, n>>] = "cancelled"] /\ UNCHANGED live
  /\ \A m \in 1..(n - 1) : Begun(<<u, m>>)
  /\ \/ again' = again \cup {<<u, n>>}
     \/ /\ outcome[u] = "none"
        /\ \A m \in 1..MaxTrials : <<u, m>> \in live => <<u, m>> \in again
        /\ UNCHANGED again
  /\ UNCHANGED <<gone, outcome>>

\* A trial that counts ends while the unit has no outcome, and a redelivery
\* whatever the unit has.
End(u, n) ==
  /\ <<u, n>> \in live /\ report[<<u, n>>] = "none"
  /\ live' = live \ {<<u, n>>}
  /\ \E s \in Reports :
       /\ report' = [report EXCEPT ![<<u, n>>] = s]
       /\ \/ <<u, n>> \in again /\ UNCHANGED outcome
          \/ /\ <<u, n>> \notin again
             /\ outcome[u] = "none"
             /\ outcome' = IF s \in Outcomes THEN [outcome EXCEPT ![u] = s]
                           ELSE outcome
  /\ UNCHANGED <<gone, again>>

Lose(u, n) ==
  /\ <<u, n>> \in live
  /\ live' = live \ {<<u, n>>}
  /\ gone' = gone \cup {<<u, n>>}
  /\ UNCHANGED <<again, report, outcome>>

TrialNext ==
  \E u \in Units, n \in 1..MaxTrials :
    Begin(u, n) \/ End(u, n) \/ Lose(u, n)

TrialSpec == TrialInit /\ [][TrialNext]_trialVars
=============================================================================
