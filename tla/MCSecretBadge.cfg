CONSTANTS
  Names = {}
  SecretNames = {s1}
  InputNames = {}
  Docs = {}
  Values = {v1, v2}
  Refs = {}
  MaxId = 1
  Handlers = {h1}
  DryRun = FALSE
  StepsMayFail = FALSE
SPECIFICATION Spec
SYMMETRY Symmetry
INVARIANTS
  SecretBadgeSound
