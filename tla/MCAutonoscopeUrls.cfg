CONSTANTS
  Inputs <- AllInputs
  Targets <- AllTargets
  Foreign <- Edited
  Failures = FALSE
SPECIFICATION Spec
INVARIANT UrlRulesFirst
