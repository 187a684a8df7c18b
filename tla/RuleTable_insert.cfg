SPECIFICATION Spec
CONSTANTS
  DATA_SIZE = 6
  Indexes = {0}
  Rules <- OneRule
  Policies <- OnePolicy
  Inputs <- MCInputs
PROPERTY InsertsAsCommented
