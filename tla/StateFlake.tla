----------------------------- MODULE StateFlake -----------------------------
(***************************************************************************)
(* internal/nix: the files of the state flake, and the system the host     *)
(* builds from them.                                                       *)
(*                                                                         *)
(* A file that is there is in the domain of its function.  Every write is  *)
(* a rename of a temporary file, so it is one step.  The Nix text is kept  *)
(* as what it declares.                                                    *)
(***************************************************************************)
EXTENDS Store

CONSTANT Values          \* plaintext values of secrets, one ciphertext each

VARIABLES workloadFile,  \* workloads/<name>/workload.nix
          secretFile,    \* secrets/<name>.age
          index,         \* index.nix: enabled workloads with their ports, secrets with their mounts
          flake          \* flake.nix: the inputs, and whether the agenix module is imported

fileVars == <<workloadFile, secretFile, index, flake>>

Indexes == [workloads : Partial(Names, Docs), secrets : Partial(SecretNames, SUBSET Names)]
Flakes == [inputs : Partial(InputNames, Refs), agenix : BOOLEAN]

StateFlakeTypeOK ==
  /\ workloadFile \in Partial(Names, Docs)
  /\ secretFile \in Partial(SecretNames, Values)
  /\ index \in Indexes
  /\ flake \in Flakes

\* StateFlake.Init on a first boot.
StateFlakeInit ==
  /\ workloadFile = Nothing
  /\ secretFile = Nothing
  /\ index = [workloads |-> Nothing, secrets |-> Nothing]
  /\ flake = [inputs |-> Nothing, agenix |-> FALSE]

WriteWorkload(n, doc) == workloadFile' = With(workloadFile, n, doc)
RemoveWorkload(n) == workloadFile' = Restrict(workloadFile, DOMAIN workloadFile \ {n})
WriteSecret(s, value) == secretFile' = With(secretFile, s, value)
PruneSecrets(keep) == secretFile' = Restrict(secretFile, DOMAIN secretFile \intersect keep)
WriteIndex(i) == index' = i
WriteFlake(f) == flake' = f
-----------------------------------------------------------------------------
(* What the handlers compute from the store to write.                      *)

\* Broken form of the next: mounts into disabled workloads are kept.
AllMounts(s) == {n \in DOMAIN workload : workload[n].id \in secret[s].mounts}

\* The mounts of a secret that reach the index: into enabled workloads only.
IndexMounts(s) == {n \in Enabled : workload[n].id \in secret[s].mounts}

\* Broken form of the next: disabled workloads stay in the index.
IndexOfAllWorkloads == [workloads |-> [n \in DOMAIN workload |-> LatestDoc(n)],
                        secrets |-> [s \in DOMAIN secret |-> IndexMounts(s)]]

\* regenerateIndex and indexSecrets: enabled workloads with the ports of their
\* latest revision, and every secret.
IndexOfStore == [workloads |-> [n \in Enabled |-> LatestDoc(n)],
                 secrets |-> [s \in DOMAIN secret |-> IndexMounts(s)]]

\* Broken forms of the next: an input already declared keeps its reference;
\* agenix is imported when a secret is already applied.
FlakeKeepingRefs ==
  [inputs |-> [i \in DOMAIN input |->
                 IF i \in DOMAIN flake.inputs THEN flake.inputs[i] ELSE input[i].url],
   agenix |-> DOMAIN secret # {}]

FlakeOfAppliedStore == [inputs |-> [i \in DOMAIN input |-> input[i].url],
                        agenix |-> \E s \in DOMAIN secret : secret[s].applied]

\* regenerateFlake: every input, and agenix exactly when there are secrets.
FlakeOfStore == [inputs |-> [i \in DOMAIN input |-> input[i].url],
                 agenix |-> DOMAIN secret # {}]
-----------------------------------------------------------------------------
(* What the host makes of the files.                                       *)

Systems == [workloads : Partial(Names, [content : Docs, ports : Docs]),
            secrets : Partial(SecretNames, [value : Values, mounts : SUBSET Names]),
            inputs : Partial(InputNames, Refs)]

NoSystem == [workloads |-> Nothing, secrets |-> Nothing, inputs |-> Nothing]

AgenixMirrorsIndex == flake.agenix <=> DOMAIN index.secrets # {}

\* The flake evaluates: index.nix points only at files that are there, and
\* modules/secrets.nix, imported when the index has secrets, finds the options
\* of agenix declared.
Evaluates ==
  /\ DOMAIN index.workloads \subseteq DOMAIN workloadFile
  /\ DOMAIN index.secrets \subseteq DOMAIN secretFile
  /\ DOMAIN index.secrets # {} => flake.agenix

\* The system the present files describe, when they evaluate.
System ==
  [workloads |-> [n \in DOMAIN index.workloads |->
                    [content |-> workloadFile[n], ports |-> index.workloads[n]]],
   secrets |-> [s \in DOMAIN index.secrets |->
                  [value |-> secretFile[s], mounts |-> index.secrets[s]]],
   inputs |-> flake.inputs]
=============================================================================
