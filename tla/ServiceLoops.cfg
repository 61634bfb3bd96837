\* A run nobody can plan and one with several plans, two control processes; a
\* deployment that always raises and one behind it, two loops.
SPECIFICATION Spec
CONSTANTS
  Runs = {1, 2}
  Outputs <- TwoRuns
  PageLimit = 2
  Deployments = {1, 2}
  Broken = {1}
  Planners = {c1, c2}
  Visitors = {"reconciler", "supervisor"}
  Listed <- ByRole
  MaxFaults = 1
PROPERTIES
  ImplementsPlanBook
  PlannableRunsPlanned
  DeploymentsVisited
