------------------------------- MODULE Apply -------------------------------
(***************************************************************************)
(* internal/server and internal/nix: the handlers that edit workloads,     *)
(* secrets and flake inputs, the handlers that write the state flake and   *)
(* start a rebuild, and the background function of an apply and of a       *)
(* destroy, interleaved.                                                   *)
(*                                                                         *)
(* A handler is a record that says where the request stands and what it    *)
(* holds in local variables.  One step is one statement of the store with  *)
(* the lookup before it, one file operation, or one function's worth of    *)
(* consecutive reads.  The slot of internal/jobs is kept as "there is a    *)
(* job or not": module Jobs shows that it is one.                          *)
(***************************************************************************)
EXTENDS StateFlake

CONSTANTS Handlers,      \* concurrent HTTP handlers
          DryRun,        \* Pipeline.DryRun
          StepsMayFail   \* whether a handler or a job may stop half way

ASSUME ApplyAssumption == DryRun \in BOOLEAN /\ StepsMayFail \in BOOLEAN

VARIABLES req,           \* req[h]: the request handler h serves
          job,           \* the job that owns the slot
          live,          \* the running system
          torn,          \* history: names with a file newer than their revision
          reborn,        \* history: names created under an id a snapshot held
          quiet          \* history: nothing edited since the job was asked for

hostVars == <<job, live>>
histVars == <<torn, reborn, quiet>>
vars == <<storeVars, fileVars, req, hostVars, histVars>>

Idle == [at |-> "idle"]
NoJob == [at |-> "none"]
NoTarget == [at |-> "no target"]

\* What a job is asked to do: an apply marks, by id, what startApply remembers;
\* a destroy is about one workload.
Kinds == {"switch", "build"}
Snapshots == [workloads : Partial(Ids, Ids), inputs : SUBSET Ids, secrets : SUBSET Ids]
NoSnapshot == [workloads |-> Nothing, inputs |-> {}, secrets |-> {}]
ApplyTodos == [kind : Kinds, target : {NoTarget}, snap : Snapshots]
DestroyTodos == [kind : {"destroy"}, target : [name : Names, id : Ids], snap : {NoSnapshot}]
Todos == ApplyTodos \union DestroyTodos

Requests ==
  {Idle}
  \union [at : {"create_file", "create_row"}, name : Names, doc : Docs]
  \union [at : {"save_file", "save_row"}, name : Names, id : Ids, doc : Docs]
  \union [at : {"seal", "secret_row"}, name : SecretNames, id : {0} \union Ids,
          value : Values, mounts : SUBSET Ids]
  \union [at : {"touch"}, id : Ids]
  \union [at : {"read_index", "start"}, todo : Todos]
  \union [at : {"write_index"}, todo : Todos, index : Indexes]
  \union [at : {"read_flake", "snapshot"}, todo : ApplyTodos]
  \union [at : {"write_flake"}, todo : ApplyTodos, flake : Flakes]
  \union [at : {"prune"}, todo : ApplyTodos, keep : SUBSET SecretNames]

Jobs ==
  {NoJob}
  \union [at : {"stage", "finish"}, todo : Todos]
  \union [at : {"switch"}, todo : Todos, staged : Systems]
  \union [at : {"mark"}, todo : ApplyTodos]
  \union [at : {"delete_row", "delete_file"}, todo : DestroyTodos]

TypeOK ==
  /\ StoreTypeOK
  /\ StateFlakeTypeOK
  /\ req \in [Handlers -> Requests]
  /\ job \in Jobs
  /\ live \in Systems
  /\ torn \subseteq Names
  /\ reborn \subseteq Names
  /\ quiet \in BOOLEAN

Init ==
  /\ StoreInit
  /\ StateFlakeInit
  /\ req = [h \in Handlers |-> Idle]
  /\ job = NoJob
  /\ live = NoSystem
  /\ torn = {}
  /\ reborn = {}
  /\ quiet = FALSE
-----------------------------------------------------------------------------
(* How a handler moves.                                                    *)

To(h, r) == req' = [req EXCEPT ![h] = r]
Return(h) == To(h, Idle)
At(h, stage) == req[h].at = stage
Goto(h, stage) == To(h, [req[h] EXCEPT !.at = stage])

\* A step that reads, and one that edits files or rows.
ReadOnly == UNCHANGED <<storeVars, fileVars, hostVars, histVars>>
Edit == quiet' = FALSE /\ UNCHANGED hostVars
FilesOnly == UNCHANGED storeVars
RowsOnly == UNCHANGED fileVars

\* A statement returns an error, a file cannot be written, or the process
\* dies: the request ends where it stands.
Abort(h) ==
  /\ StepsMayFail
  /\ req[h] # Idle
  /\ Return(h)
  /\ torn' = IF req[h].at \in {"create_row", "save_row"} THEN torn \union {req[h].name} ELSE torn
  /\ UNCHANGED <<storeVars, fileVars, hostVars, reborn, quiet>>
-----------------------------------------------------------------------------
(* handlers_workload.go: creating, saving, restoring, enabling, disabling. *)

WorkloadCreate(h, n, doc) ==
  /\ At(h, "idle")
  /\ CanCreateWorkload(n)
  /\ RoomForWorkload
  /\ To(h, [at |-> "create_file", name |-> n, doc |-> doc])
  /\ ReadOnly

WorkloadSave(h, n, doc) ==
  /\ At(h, "idle")
  /\ n \in DOMAIN workload
  /\ RoomForRevision
  /\ To(h, [at |-> "save_file", name |-> n, id |-> workload[n].id, doc |-> doc])
  /\ ReadOnly

\* A save of the content of an earlier revision of the same workload.
WorkloadRestore(h, n, r) ==
  /\ n \in DOMAIN workload
  /\ r \in RevisionsOf(workload[n].id)
  /\ WorkloadSave(h, n, revision[r].doc)

\* The file first, for a new workload and for a saved one.
WriteWorkloadFile(h) ==
  /\ req[h].at \in {"create_file", "save_file"}
  /\ WriteWorkload(req[h].name, req[h].doc)
  /\ Goto(h, IF At(h, "create_file") THEN "create_row" ELSE "save_row")
  /\ UNCHANGED <<secretFile, index, flake, torn, reborn>>
  /\ FilesOnly
  /\ Edit

\* The workload ids that some snapshot will still mark.
PendingIds ==
  UNION ({DOMAIN req[h].todo.snap.workloads : h \in {g \in Handlers : "todo" \in DOMAIN req[g]}}
         \union IF job = NoJob THEN {} ELSE {DOMAIN job.todo.snap.workloads})

\* A create needs its name still free, a save its workload still there.
RowAllowed(h) == IF At(h, "create_row") THEN CanCreateWorkload(req[h].name)
                                        ELSE HasWorkload(req[h].id)

\* Then the row and its first revision.  History: the new row may take an id
\* that a snapshot made of a deleted workload is about to mark.
CreateWorkloadRow(h) ==
  /\ At(h, "create_row")
  /\ RowAllowed(h)
  /\ RoomForWorkload
  /\ CreateWorkload(req[h].name, req[h].doc)
  /\ torn' = torn \ {req[h].name}
  /\ reborn' = IF NextId(IdsOf(workload)) \in PendingIds THEN reborn \union {req[h].name}
                                                        ELSE reborn \ {req[h].name}
  /\ Return(h)
  /\ UNCHANGED <<secret, input>>
  /\ RowsOnly
  /\ Edit

\* Or the new revision.
SaveRevisionRow(h) ==
  /\ At(h, "save_row")
  /\ RowAllowed(h)
  /\ RoomForRevision
  /\ SaveRevision(req[h].id, req[h].doc)
  /\ torn' = torn \ {req[h].name}
  /\ Return(h)
  /\ UNCHANGED <<workload, secret, input, reborn>>
  /\ RowsOnly
  /\ Edit

\* A constraint refuses the transaction; the file stays as written.
WorkloadRowRefused(h) ==
  /\ req[h].at \in {"create_row", "save_row"}
  /\ ~RowAllowed(h)
  /\ torn' = torn \union {req[h].name}
  /\ Return(h)
  /\ UNCHANGED <<storeVars, fileVars, hostVars, reborn, quiet>>

SetEnabled(h, n, b) ==
  /\ At(h, "idle")
  /\ n \in DOMAIN workload
  /\ SetWorkloadEnabled(workload[n].id, b)
  /\ UNCHANGED <<revision, secret, input, req, torn, reborn>>
  /\ RowsOnly
  /\ Edit
-----------------------------------------------------------------------------
(* handlers_secrets.go.                                                    *)

\* Both create forms: the Secrets tab with any mounts, a workload's page with
\* a mount into that workload.
SecretCreate(h, s, value, mounts) ==
  /\ At(h, "idle")
  /\ MountsExist(mounts)
  /\ s \notin DOMAIN secret
  /\ RoomFor(IdsOf(secret))
  /\ To(h, [at |-> "seal", name |-> s, id |-> 0, value |-> value, mounts |-> mounts])
  /\ ReadOnly

\* A blank value skips the file and keeps the ciphertext.
SecretSave(h, s, blank, value, mounts) ==
  /\ At(h, "idle")
  /\ MountsExist(mounts)
  /\ s \in DOMAIN secret
  /\ To(h, [at |-> IF blank THEN "secret_row" ELSE "seal", name |-> s,
            id |-> secret[s].id, value |-> value, mounts |-> mounts])
  /\ ReadOnly

\* encryptSecret: "Ciphertext first, row second".
SealSecret(h) ==
  /\ At(h, "seal")
  /\ WriteSecret(req[h].name, req[h].value)
  /\ Goto(h, "secret_row")
  /\ UNCHANGED <<workloadFile, index, flake, torn, reborn>>
  /\ FilesOnly
  /\ Edit

\* An id of 0 stands for a create, whose row is still to be inserted.
SecretRowAllowed(h) == /\ MountsExist(req[h].mounts)
                       /\ req[h].id = 0 => req[h].name \notin DOMAIN secret

SecretRow(h) ==
  /\ At(h, "secret_row")
  /\ SecretRowAllowed(h)
  /\ req[h].id = 0 => RoomFor(IdsOf(secret))
  /\ IF req[h].id = 0 THEN CreateSecret(req[h].name, req[h].mounts)
                      ELSE UpdateSecret(req[h].id, req[h].mounts)
  /\ Return(h)
  /\ UNCHANGED <<workload, revision, input, torn, reborn>>
  /\ RowsOnly
  /\ Edit

\* A constraint refuses the transaction; the ciphertext stays as written.
SecretRowRefused(h) ==
  /\ At(h, "secret_row")
  /\ ~SecretRowAllowed(h)
  /\ Return(h)
  /\ ReadOnly

\* Broken form of the next: the ciphertext goes with the row.
SecretDeleteWithFile(h, s) ==
  /\ At(h, "idle")
  /\ s \in DOMAIN secret
  /\ DeleteSecret(secret[s].id)
  /\ PruneSecrets(DOMAIN secret \ {s})
  /\ UNCHANGED <<workload, revision, input, workloadFile, index, flake, req, torn, reborn>>
  /\ Edit

SecretDelete(h, s) ==
  /\ At(h, "idle")
  /\ s \in DOMAIN secret
  /\ DeleteSecret(secret[s].id)
  /\ UNCHANGED <<workload, revision, input, req, torn, reborn>>
  /\ RowsOnly
  /\ Edit

\* Attach and detach change secret_mounts and touch the row in a statement of
\* its own, when there was something to change.
SetMount(h, s, n, attach) ==
  /\ At(h, "idle")
  /\ s \in DOMAIN secret
  /\ n \in DOMAIN workload
  /\ attach # (workload[n].id \in secret[s].mounts)
  /\ IF attach THEN AddSecretMount(secret[s].id, workload[n].id)
               ELSE RemoveSecretMount(secret[s].id, workload[n].id)
  /\ To(h, [at |-> "touch", id |-> secret[s].id])
  /\ UNCHANGED <<workload, revision, input, torn, reborn>>
  /\ RowsOnly
  /\ Edit

TouchOnChange(h) ==
  /\ At(h, "touch")
  /\ TouchSecret(req[h].id)
  /\ Return(h)
  /\ UNCHANGED <<workload, revision, input, torn, reborn>>
  /\ RowsOnly
  /\ Edit
-----------------------------------------------------------------------------
(* handlers_flake.go.                                                      *)

FlakeEdit(h) ==
  /\ At(h, "idle")
  /\ UNCHANGED <<workload, revision, secret, req, torn, reborn>>
  /\ RowsOnly
  /\ Edit

FlakeCreate(h, i, url) == /\ i \notin DOMAIN input
                          /\ RoomFor(IdsOf(input))
                          /\ CreateFlakeInput(i, url)
                          /\ FlakeEdit(h)

FlakeSave(h, i, url) == /\ i \in DOMAIN input
                        /\ UpdateFlakeInput(input[i].id, url)
                        /\ FlakeEdit(h)

FlakeDelete(h, i) == /\ i \in DOMAIN input
                     /\ DeleteFlakeInput(input[i].id)
                     /\ FlakeEdit(h)
-----------------------------------------------------------------------------
(* startApply, and the handler of a destroy: the state flake is written    *)
(* before the slot is asked for.                                           *)

ApplyRequest(h, kind) ==
  /\ At(h, "idle")
  /\ To(h, [at |-> "read_index", todo |-> [kind |-> kind, target |-> NoTarget, snap |-> NoSnapshot]])
  /\ quiet' = (quiet \/ job = NoJob)
  /\ UNCHANGED <<storeVars, fileVars, hostVars, torn, reborn>>

\* The workload is disabled, and its rebuild asked for.
DestroyRequest(h, n) ==
  /\ At(h, "idle")
  /\ n \in DOMAIN workload
  /\ SetWorkloadEnabled(workload[n].id, FALSE)
  /\ To(h, [at |-> "read_index",
            todo |-> [kind |-> "destroy", snap |-> NoSnapshot,
                      target |-> [name |-> n, id |-> workload[n].id]]])
  /\ UNCHANGED <<revision, secret, input, torn, reborn>>
  /\ RowsOnly
  /\ Edit

\* regenerateIndex reads the tables, and then writes the file.
ReadIndex(h) ==
  /\ At(h, "read_index")
  /\ To(h, [at |-> "write_index", todo |-> req[h].todo, index |-> IndexOfStore])
  /\ ReadOnly

\* A destroy goes from here to the slot; an apply has more to write.
AfterIndex(todo) == IF todo.kind = "destroy" THEN "start" ELSE "read_flake"

WriteIndexFile(h) ==
  /\ At(h, "write_index")
  /\ WriteIndex(req[h].index)
  /\ To(h, [at |-> AfterIndex(req[h].todo), todo |-> req[h].todo])
  /\ UNCHANGED <<workloadFile, secretFile, flake, hostVars, histVars>>
  /\ FilesOnly

\* regenerateFlake.
ReadFlake(h) ==
  /\ At(h, "read_flake")
  /\ To(h, [at |-> "write_flake", todo |-> req[h].todo, flake |-> FlakeOfStore])
  /\ ReadOnly

WriteFlakeFile(h) ==
  /\ At(h, "write_flake")
  /\ WriteFlake(req[h].flake)
  /\ To(h, [at |-> "snapshot", todo |-> req[h].todo])
  /\ UNCHANGED <<workloadFile, secretFile, index, hostVars, histVars>>
  /\ FilesOnly

\* Broken form of the next: the secrets are forgotten.
SnapshotWithoutSecrets ==
  [workloads |-> [id \in {workload[n].id : n \in Enabled} |-> LatestRevision(id)],
   inputs |-> IdsOf(input),
   secrets |-> {}]

\* Latest revisions of enabled workloads, every input and every secret.
SnapshotOfStore ==
  [workloads |-> [id \in {workload[n].id : n \in Enabled} |-> LatestRevision(id)],
   inputs |-> IdsOf(input),
   secrets |-> IdsOf(secret)]

TakeSnapshot(h) ==
  /\ At(h, "snapshot")
  /\ To(h, [at |-> "prune", todo |-> [req[h].todo EXCEPT !.snap = SnapshotOfStore],
            keep |-> DOMAIN secret])
  /\ ReadOnly

Prune(h) ==
  /\ At(h, "prune")
  /\ PruneSecrets(req[h].keep)
  /\ To(h, [at |-> "start", todo |-> req[h].todo])
  /\ UNCHANGED <<workloadFile, index, flake, hostVars, histVars>>
  /\ FilesOnly

\* The row of a destroy job refers to its workload.
CanStart(todo) == job = NoJob /\ (todo.kind = "destroy" => HasWorkload(todo.target.id))

\* jobs.Start: the slot is taken, or the request answers 409 or 500.
Start(h) ==
  /\ At(h, "start")
  /\ job' = IF CanStart(req[h].todo) THEN [at |-> "stage", todo |-> req[h].todo] ELSE job
  /\ Return(h)
  /\ UNCHANGED <<storeVars, fileVars, live, histVars>>
-----------------------------------------------------------------------------
(* The background function.                                                *)

JobAt(stage) == job.at = stage
JobGoto(stage) == job' = [at |-> stage, todo |-> job.todo]

\* A command fails or a statement returns an error, so the job is recorded as
\* failed; or the process dies.
JobStops ==
  /\ StepsMayFail
  /\ job # NoJob
  /\ job' = NoJob
  /\ UNCHANGED <<storeVars, fileVars, req, live, histVars>>

\* nix flake lock, then nix flake update, which copies the state flake.  The
\* build of files that do not evaluate fails.
Stage ==
  /\ JobAt("stage")
  /\ job' = IF Evaluates THEN [at |-> "switch", todo |-> job.todo, staged |-> System] ELSE NoJob
  /\ UNCHANGED <<storeVars, fileVars, req, live, histVars>>

Activates(kind) == kind # "build" /\ ~DryRun

AfterSwitch(kind) == CASE kind = "switch" -> "mark"
                       [] kind = "destroy" -> "delete_row"
                       [] kind = "build" -> "finish"

\* nixos-rebuild of the copy.
Switch ==
  /\ JobAt("switch")
  /\ live' = IF Activates(job.todo.kind) THEN job.staged ELSE live
  /\ JobGoto(AfterSwitch(job.todo.kind))
  /\ UNCHANGED <<storeVars, fileVars, req, histVars>>

Marked(snap) == job' = [job EXCEPT !.todo.snap = snap]
MarkOnly == UNCHANGED <<revision, fileVars, req, live, histVars>>

\* Broken form of the next: the revision is read when it is marked.
RevisionWhenMarked(snap, id) == IF HasWorkload(id) THEN LatestRevision(id) ELSE snap.workloads[id]
RevisionToMark(snap, id) == snap.workloads[id]

\* One UPDATE per remembered workload, in any order (a Go map),
MarkWorkload(id) ==
  LET snap == job.todo.snap
  IN  /\ JobAt("mark")
      /\ id \in DOMAIN snap.workloads
      /\ CanMark(id, RevisionToMark(snap, id))
      /\ MarkApplied(id, RevisionToMark(snap, id))
      /\ Marked([snap EXCEPT !.workloads = Restrict(@, DOMAIN @ \ {id})])
      /\ UNCHANGED <<secret, input>>
      /\ MarkOnly

\* A revision that is gone, marked for an id in use again, breaks a foreign key.
MarkRefused ==
  LET snap == job.todo.snap
  IN  /\ JobAt("mark")
      /\ \E id \in DOMAIN snap.workloads : ~CanMark(id, RevisionToMark(snap, id))
      /\ job' = NoJob
      /\ UNCHANGED <<storeVars, fileVars, req, live, histVars>>

\* then per input,
MarkInput(id) ==
  LET snap == job.todo.snap
  IN  /\ JobAt("mark")
      /\ DOMAIN snap.workloads = {}
      /\ id \in snap.inputs
      /\ MarkFlakeInputApplied(id)
      /\ Marked([snap EXCEPT !.inputs = @ \ {id}])
      /\ UNCHANGED <<workload, secret>>
      /\ MarkOnly

\* then per secret.
MarkSecret(id) ==
  LET snap == job.todo.snap
  IN  /\ JobAt("mark")
      /\ DOMAIN snap.workloads = {} /\ snap.inputs = {}
      /\ id \in snap.secrets
      /\ MarkSecretApplied(id)
      /\ Marked([snap EXCEPT !.secrets = @ \ {id}])
      /\ UNCHANGED <<workload, input>>
      /\ MarkOnly

AllMarked ==
  /\ JobAt("mark")
  /\ job.todo.snap = NoSnapshot
  /\ JobGoto("finish")
  /\ UNCHANGED <<storeVars, fileVars, req, live, histVars>>

\* The row with its cascades.  A workload marked with one of its revisions
\* keeps it in place, and the job fails.
DeleteRow ==
  LET id == job.todo.target.id
  IN  /\ JobAt("delete_row")
      /\ IF CanDeleteWorkload(id)
           THEN DeleteWorkload(id) /\ JobGoto("delete_file")
           ELSE UNCHANGED <<workload, revision, secret>> /\ job' = NoJob
      /\ UNCHANGED <<input, fileVars, req, live, histVars>>

DeleteFile ==
  /\ JobAt("delete_file")
  /\ RemoveWorkload(job.todo.target.name)
  /\ JobGoto("finish")
  /\ UNCHANGED <<storeVars, secretFile, index, flake, req, live, histVars>>

\* The outcome is recorded and the slot is free again.
Finish ==
  /\ JobAt("finish")
  /\ job' = NoJob
  /\ UNCHANGED <<storeVars, fileVars, req, live, histVars>>
-----------------------------------------------------------------------------
WorkloadStep(h) ==
  \/ \E n \in Names, doc \in Docs : WorkloadCreate(h, n, doc) \/ WorkloadSave(h, n, doc)
  \/ \E n \in Names, r \in Ids : WorkloadRestore(h, n, r)
  \/ WriteWorkloadFile(h)
  \/ CreateWorkloadRow(h)
  \/ SaveRevisionRow(h)
  \/ WorkloadRowRefused(h)
  \/ \E n \in Names, b \in BOOLEAN : SetEnabled(h, n, b)

SecretStep(h) ==
  \/ \E s \in SecretNames, value \in Values, mounts \in SUBSET Ids :
       \/ SecretCreate(h, s, value, mounts)
       \/ \E blank \in BOOLEAN : SecretSave(h, s, blank, value, mounts)
  \/ SealSecret(h)
  \/ SecretRow(h)
  \/ SecretRowRefused(h)
  \/ \E s \in SecretNames : SecretDelete(h, s)
  \/ \E s \in SecretNames, n \in Names, attach \in BOOLEAN : SetMount(h, s, n, attach)
  \/ TouchOnChange(h)

FlakeStep(h) ==
  \E i \in InputNames :
    \/ \E url \in Refs : FlakeCreate(h, i, url) \/ FlakeSave(h, i, url)
    \/ FlakeDelete(h, i)

ApplyStep(h) ==
  \/ \E kind \in Kinds : ApplyRequest(h, kind)
  \/ \E n \in Names : DestroyRequest(h, n)
  \/ ReadIndex(h) \/ WriteIndexFile(h) \/ ReadFlake(h) \/ WriteFlakeFile(h)
  \/ TakeSnapshot(h) \/ Prune(h) \/ Start(h)

Handler(h) == WorkloadStep(h) \/ SecretStep(h) \/ FlakeStep(h) \/ ApplyStep(h) \/ Abort(h)

Job ==
  \/ Stage \/ Switch
  \/ \E id \in Ids : MarkWorkload(id) \/ MarkInput(id) \/ MarkSecret(id)
  \/ MarkRefused \/ AllMarked \/ DeleteRow \/ DeleteFile \/ Finish
  \/ JobStops

Next == Job \/ \E h \in Handlers : Handler(h)

Spec == Init /\ [][Next]_vars
-----------------------------------------------------------------------------
(* Safety.                                                                 *)

AppliedRevision(n) == workload[n].applied = LatestRevision(workload[n].id)
SavingNow(n) == \E h \in Handlers : At(h, "save_row") /\ req[h].name = n

\* A running workload whose badge says "applied" runs its latest content, and
\* the host opens the ports of that same revision: a revision saved while a
\* rebuild runs is not marked (handlers_system.go:106-107), refused applies
\* and failed jobs included.  Excepted are a save that stopped between its file
\* and its revision, and a workload created under an id a snapshot still holds.
BadgeSound ==
  \A n \in DOMAIN workload \intersect DOMAIN live.workloads :
    (AppliedRevision(n) /\ n \notin torn \union reborn /\ ~SavingNow(n)) =>
      live.workloads[n] = [content |-> LatestDoc(n), ports |-> LatestDoc(n)]

\* An apply has succeeded, and nothing was edited since it was asked for.
Applied == JobAt("finish") /\ job.todo.kind = "switch" /\ quiet /\ ~DryRun

\* Whatever failures, refusals and half-done requests came before, such an apply
\* leaves exactly the enabled workloads running, on their latest content and
\* ports and marked so (handlers_system.go:97-181).  Content a torn save left
\* in the file is excepted.
ApplyDeploysWorkloads ==
  Applied =>
    /\ DOMAIN live.workloads = Enabled
    /\ \A n \in Enabled : /\ live.workloads[n].ports = LatestDoc(n)
                          /\ n \notin torn => live.workloads[n].content = LatestDoc(n)
                          /\ AppliedRevision(n)

\* It leaves exactly the secrets of the store delivered, with the value of
\* their ciphertext, into exactly the enabled workloads they are mounted into,
\* and marked so: deletions, half-done saves and remounts included.
ApplyDeliversSecrets ==
  Applied =>
    /\ DOMAIN live.secrets = DOMAIN secret
    /\ \A s \in DOMAIN secret :
         /\ secret[s].applied
         /\ live.secrets[s].value = secretFile[s]
         /\ \A n \in Names :
              n \in live.secrets[s].mounts <=>
                /\ n \in DOMAIN workload
                /\ workload[n].enabled
                /\ workload[n].id \in secret[s].mounts

\* It leaves exactly the inputs of the store locked, at their current
\* reference, and marked so.
ApplyLocksInputs ==
  Applied =>
    /\ DOMAIN live.inputs = DOMAIN input
    /\ \A i \in DOMAIN input : input[i].applied /\ live.inputs[i] = input[i].url

\* The index never points at a ciphertext that is gone, so a manual rebuild
\* keeps working: deleting a secret drops its row only, and files are pruned
\* after the index stopped naming them (handlers_secrets.go:206-209).
IndexedSecretsHaveCiphertext == DOMAIN index.secrets \subseteq DOMAIN secretFile

\* When a request of this kind asks for the slot, flake.nix imports agenix
\* exactly when the index declares secrets.
MirrorsAgenix(kinds) ==
  \A h \in Handlers : (At(h, "start") /\ req[h].todo.kind \in kinds) => AgenixMirrorsIndex

\* An apply writes both files from one state of the store (flakes.go:139-140).
ApplyMirrorsAgenix == MirrorsAgenix({"switch", "build"})
-----------------------------------------------------------------------------
(* What the code's comments promise and the code does not keep.            *)

\* flakes.go:139-140: "withAgenix must mirror 'the index declares secrets' -
\* the caller derives both from the same store state".  A destroy rewrites the
\* index and not flake.nix, so the first secret, or the last deletion, that no
\* apply has seen makes its rebuild fail.
DestroyMirrorsAgenix == MirrorsAgenix({"destroy"})

\* store/secrets.go:29-30: "a secret is pending until a rebuild deploys its current
\* state; any edit reopens it".  MarkSecretApplied marks a row that was edited
\* while the rebuild ran.
SecretBadgeSound ==
  (job = NoJob /\ \A h \in Handlers : At(h, "idle")) =>
    \A s \in DOMAIN secret :
      secret[s].applied => /\ s \in DOMAIN live.secrets
                           /\ live.secrets[s].value = secretFile[s]

\* handlers_workload.go:404-405: "disables the workload and rebuilds without it;
\* on success it deletes the workload".  A workload enabled again, and an index
\* rewritten by an apply that is then refused, are rebuilt with, and deleted.
DestroyRebuildsWithout ==
  [][\A n \in DOMAIN workload \ DOMAIN workload' : n \notin DOMAIN live.workloads]_vars
=============================================================================
