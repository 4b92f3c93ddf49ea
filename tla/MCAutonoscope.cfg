CONSTANTS
  Inputs <- AllInputs
  Targets <- AllTargets
  Foreign <- Edited
  Failures = TRUE
SPECIFICATION Spec
INVARIANTS RestartChangesNothing FirstMatchWins AppliedRulesAreStored
