CONSTANTS
  Names = {w1}
  SecretNames = {}
  InputNames = {}
  Docs = {d1}
  Values = {}
  Refs = {}
  MaxId = 1
  Handlers = {h1}
  DryRun = FALSE
  StepsMayFail = FALSE
SPECIFICATION Spec
SYMMETRY Symmetry
PROPERTIES
  DestroyRebuildsWithout
