CONSTANTS
  Names = {w1}
  SecretNames = {s1}
  InputNames = {}
  Docs = {d1}
  Values = {v1}
  Refs = {}
  MaxId = 1
  Handlers = {h1}
  DryRun = FALSE
  StepsMayFail = FALSE
SPECIFICATION Spec
SYMMETRY Symmetry
INVARIANTS
  DestroyMirrorsAgenix
