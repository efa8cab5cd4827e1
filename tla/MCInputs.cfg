CONSTANTS
  Names = {}
  SecretNames = {s1}
  InputNames = {i1}
  Docs = {}
  Values = {v1, v2}
  Refs = {r1, r2}
  MaxId = 1
  Handlers = {h1}
  DryRun = FALSE
  StepsMayFail = TRUE
SPECIFICATION Spec
SYMMETRY Symmetry
INVARIANTS
  ApplyLocksInputs
  ApplyDeliversSecrets
  IndexedSecretsHaveCiphertext
  
