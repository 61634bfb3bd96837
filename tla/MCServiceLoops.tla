---------------------------- MODULE MCServiceLoops ----------------------------
(* An instance of ServiceLoops for TLC. *)
EXTENDS ServiceLoops

\* The planner of run 1 yields a key twice, that of run 2 changes its mind.
TwoRuns ==
  << {<<<<"a", "x">>, <<"a", "y">>>>},
     {<<>>, <<<<"a", "x">>>>, <<<<"b", "x">>, <<"a", "y">>>>} >>

ByRole == [reconciler |-> {"active"}, supervisor |-> {"active", "draining"}]
=============================================================================
