SPECIFICATION Spec
CONSTANTS
  DATA_SIZE = 9
  Indexes = {0, 1}
  Rules <- MixedRules
  Policies <- OnePolicy
  Inputs <- MCInputs
INVARIANT TypeOK
PROPERTIES
  ImplementsRuleList
  OnlyOwnVerdicts
