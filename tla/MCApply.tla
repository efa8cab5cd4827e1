------------------------------ MODULE MCApply ------------------------------
(* Apply on small tables: workloads alone, with revisions to spare; one     *)
(* workload and one secret to mount into it; secrets and inputs alone.      *)
EXTENDS Apply, TLC

\* Contents, values and references are only ever compared.
Symmetry == Permutations(Docs) \union Permutations(Values) \union Permutations(Refs)
=============================================================================
