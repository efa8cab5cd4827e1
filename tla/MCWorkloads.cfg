CONSTANTS
  Names = {w1}
  SecretNames = {}
  InputNames = {}
  Docs = {d1, d2}
  Values = {}
  Refs = {}
  MaxId = 3
  Handlers = {h1}
  DryRun = FALSE
  StepsMayFail = TRUE
SPECIFICATION Spec
SYMMETRY Symmetry
INVARIANTS
  TypeOK
  BadgeSound
  ApplyDeploysWorkloads
