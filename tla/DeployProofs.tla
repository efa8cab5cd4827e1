---------------------------- MODULE DeployProofs ----------------------------
(***************************************************************************)
(* What an apply deploys, for any names, documents, values and bounds.     *)
(*                                                                         *)
(* ApplyDeploysWorkloads and its two siblings speak of the end of an apply *)
(* with no edit since it was asked for.  To get there one must know, at    *)
(* every stage between, what has been read and written so far: QuietInv.   *)
(* It needs that the file of a workload is its latest revision, which does *)
(* not depend on applies (FileInv), and that every secret of the index has *)
(* a ciphertext (CipherInv).                                               *)
(***************************************************************************)
EXTENDS ApplyProofs

-----------------------------------------------------------------------------
(* What a step does to the latest revisions.                               *)

\* Workloads may go; those that stay keep their id and their latest revision.
HeadsKept ==
  /\ DOMAIN workload' \subseteq DOMAIN workload
  /\ \A n \in DOMAIN workload' : /\ workload'[n].id = workload[n].id
                                 /\ RevisionsOf(workload[n].id)' = RevisionsOf(workload[n].id)
                                 /\ LatestRevision(workload[n].id)' = LatestRevision(workload[n].id)
                                 /\ LatestDoc(n)' = LatestDoc(n)

\* Marks and flags change no revision,
LEMMA SameRevisions ==
  ASSUME UNCHANGED revision, DOMAIN workload' = DOMAIN workload,
         \A n \in DOMAIN workload : workload'[n].id = workload[n].id
  PROVE  HeadsKept
<1>1. ASSUME NEW n \in DOMAIN workload PROVE RevisionsOf(workload[n].id)' = RevisionsOf(workload[n].id)
  BY <1>1 DEF RevisionsOf
<1>2. ASSUME NEW n \in DOMAIN workload PROVE LatestRevision(workload[n].id)' = LatestRevision(workload[n].id)
  BY <1>1, Zenon DEF LatestRevision
<1>3. ASSUME NEW n \in DOMAIN workload PROVE LatestDoc(n)' = LatestDoc(n)
  BY <1>2 DEF LatestDoc
<1> QED
  BY <1>1, <1>2, <1>3 DEF HeadsKept

\* deleting a workload takes its own revisions only,
LEMMA OtherRevisionsGo ==
  ASSUME StoreTypeOK, RowsAreWhole, NEW id \in Ids, DeleteWorkload(id)
  PROVE  HeadsKept
<1>1. /\ DOMAIN workload' = {n \in DOMAIN workload : workload[n].id # id}
      /\ \A n \in DOMAIN workload' : workload'[n] = workload[n]
      /\ DOMAIN revision' = DOMAIN revision \ RevisionsOf(id)
      /\ \A r \in DOMAIN revision' : revision'[r] = revision[r]
  BY DEF DeleteWorkload, Restrict
<1>2. ASSUME NEW n \in DOMAIN workload' PROVE RevisionsOf(workload[n].id)' = RevisionsOf(workload[n].id)
  BY <1>1 DEF RevisionsOf
<1>3. ASSUME NEW n \in DOMAIN workload' PROVE LatestRevision(workload[n].id)' = LatestRevision(workload[n].id)
  BY <1>2, Zenon DEF LatestRevision
<1>4. ASSUME NEW n \in DOMAIN workload' PROVE LatestDoc(n)' = LatestDoc(n)
  <2>1. n \in DOMAIN workload /\ workload'[n].id = workload[n].id
    BY <1>1
  <2>2. LatestRevision(workload[n].id) \in DOMAIN revision'
    BY <1>1, <2>1, LatestIs DEF RevisionsOf
  <2> QED
    BY <1>1, <1>3, <2>1, <2>2 DEF LatestDoc
<1> QED
  BY <1>1, <1>2, <1>3, <1>4 DEF HeadsKept

\* a save makes its document the latest of that workload alone,
LEMMA RevisionSaved ==
  ASSUME StoreTypeOK, RowsAreWhole, NEW m \in DOMAIN workload, NEW doc \in Docs, RoomForRevision,
         SaveRevision(workload[m].id, doc), UNCHANGED workload
  PROVE  /\ LatestDoc(m)' = doc
         /\ LatestRevision(workload[m].id)' \in Ids \ DOMAIN revision
         /\ \A n \in DOMAIN workload \ {m} : /\ RevisionsOf(workload[n].id)' = RevisionsOf(workload[n].id)
                                             /\ LatestRevision(workload[n].id)' = LatestRevision(workload[n].id)
                                             /\ LatestDoc(n)' = LatestDoc(n)
<1> DEFINE id == workload[m].id
           rev == NextId(DOMAIN revision)
<1>1. rev \notin DOMAIN revision /\ rev \in Nat /\ \A r \in DOMAIN revision : r < rev
  BY IdsInRange, NextIdFresh
<1>2. revision' = With(revision, rev, [owner |-> id, doc |-> doc])
  BY DEF SaveRevision, InsertRevision
<1>3. rev \in Ids
  BY IdsInRange, NextIdFresh DEF RoomForRevision
<1> HIDE DEF rev
<1>4. /\ DOMAIN revision' = DOMAIN revision \union {rev}
      /\ revision'[rev] = [owner |-> id, doc |-> doc]
      /\ \A r \in DOMAIN revision : revision'[r] = revision[r]
  BY <1>1, <1>2 DEF With
<1>5. RevisionsOf(id)' = RevisionsOf(id) \union {rev}
  BY <1>4 DEF RevisionsOf
<1>6. LatestRevision(workload[m].id)' = rev
  <2> DEFINE R == RevisionsOf(id) \union {rev}
  <2>1. R \subseteq {0} \union Ids /\ rev \in R /\ \A r \in R : r \in Nat /\ r <= rev
    BY <1>1, <1>3, Rows, StoreAssumption DEF RevisionsOf, Ids
  <2>2. LatestRevision(workload[m].id)' = Max(R)
    BY <1>5, Zenon DEF LatestRevision
  <2> HIDE DEF R
  <2>3. Max(R) \in R /\ Max(R) >= rev
    BY <2>1, LargestOf
  <2>4. \A r \in R : r >= rev => r = rev
    BY <1>1, <2>1
  <2>5. Max(R) = rev
    BY <2>3, <2>4, Zenon
  <2> QED
    BY <2>2, <2>5, Zenon
<1>7. LatestDoc(m)' = doc
  BY <1>4, <1>6 DEF LatestDoc
<1>8. ASSUME NEW n \in DOMAIN workload \ {m} PROVE RevisionsOf(workload[n].id)' = RevisionsOf(workload[n].id)
  BY <1>1, <1>4 DEF RevisionsOf, RowsAreWhole
<1>9. ASSUME NEW n \in DOMAIN workload \ {m} PROVE LatestRevision(workload[n].id)' = LatestRevision(workload[n].id)
  BY <1>8, Zenon DEF LatestRevision
<1>10. ASSUME NEW n \in DOMAIN workload \ {m} PROVE LatestDoc(n)' = LatestDoc(n)
  BY <1>4, <1>9, LatestIs DEF LatestDoc, RevisionsOf
<1> QED
  BY <1>1, <1>3, <1>6, <1>7, <1>8, <1>9, <1>10

\* and a create the latest of the new one.
LEMMA WorkloadCreated ==
  ASSUME StoreTypeOK, RowsAreWhole, NEW m \in Names \ DOMAIN workload, NEW doc \in Docs, RoomForWorkload,
         CreateWorkload(m, doc)
  PROVE  /\ DOMAIN workload' = DOMAIN workload \union {m}
         /\ workload'[m] = [id |-> NextId(IdsOf(workload)), enabled |-> FALSE, applied |-> 0]
         /\ LatestDoc(m)' = doc
         /\ LatestRevision(workload[m].id)' \in Ids \ DOMAIN revision
         /\ \A n \in DOMAIN workload : /\ workload'[n] = workload[n]
                                      /\ RevisionsOf(workload[n].id)' = RevisionsOf(workload[n].id)
                                      /\ LatestRevision(workload[n].id)' = LatestRevision(workload[n].id)
                                      /\ LatestDoc(n)' = LatestDoc(n)
<1> DEFINE id == NextId(IdsOf(workload))
           rev == NextId(DOMAIN revision)
<1>1. rev \in Ids \ DOMAIN revision /\ id \in Ids \ IdsOf(workload)
  BY IdsInRange, NextIdFresh DEF RoomForWorkload, RoomForRevision
<1>2. /\ workload' = With(workload, m, [id |-> id, enabled |-> FALSE, applied |-> 0])
      /\ revision' = With(revision, rev, [owner |-> id, doc |-> doc])
  BY DEF CreateWorkload, InsertRevision
<1> HIDE DEF rev, id
<1>3. /\ DOMAIN workload' = DOMAIN workload \union {m}
      /\ workload'[m] = [id |-> id, enabled |-> FALSE, applied |-> 0]
      /\ \A n \in DOMAIN workload : workload'[n] = workload[n]
  BY <1>2 DEF With
<1>4. /\ DOMAIN revision' = DOMAIN revision \union {rev}
      /\ revision'[rev] = [owner |-> id, doc |-> doc]
      /\ \A r \in DOMAIN revision : revision'[r] = revision[r]
  BY <1>1, <1>2 DEF With
<1>5. RevisionsOf(workload[m].id)' = {rev}
  BY <1>1, <1>3, <1>4 DEF RevisionsOf, RowsAreWhole
<1>6. LatestRevision(workload[m].id)' = rev
  <2>1. LatestRevision(workload[m].id)' = Max({rev})
    BY <1>5, Zenon DEF LatestRevision
  <2>2. Max({rev}) \in {rev}
    BY <1>1, LargestOf
  <2> QED
    BY <2>1, <2>2
<1>7. LatestDoc(m)' = doc
  BY <1>4, <1>6 DEF LatestDoc
<1>8. ASSUME NEW n \in DOMAIN workload PROVE RevisionsOf(workload[n].id)' = RevisionsOf(workload[n].id)
  <2>1. workload[n].id # id
    BY <1>1 DEF IdsOf
  <2> QED
    BY <1>1, <1>3, <1>4, <2>1 DEF RevisionsOf
<1>9. ASSUME NEW n \in DOMAIN workload PROVE LatestRevision(workload[n].id)' = LatestRevision(workload[n].id)
  BY <1>8, Zenon DEF LatestRevision
<1>10. ASSUME NEW n \in DOMAIN workload PROVE LatestDoc(n)' = LatestDoc(n)
  BY <1>3, <1>4, <1>9, LatestIs DEF LatestDoc, RevisionsOf
<1> QED
  BY <1>1, <1>3, <1>6, <1>7, <1>8, <1>9, <1>10 DEF id

\* The two updates of a workload row.
LEMMA UpdateKeepsHeads ==
  ASSUME StoreTypeOK, NEW id, NEW b, SetWorkloadEnabled(id, b) \/ MarkApplied(id, b), UNCHANGED revision
  PROVE  HeadsKept
<1>1. DOMAIN workload' = DOMAIN workload /\ \A n \in DOMAIN workload : workload'[n].id = workload[n].id
  BY Rows DEF SetWorkloadEnabled, MarkApplied, UpdateById, WorkloadRows
<1> QED
  BY <1>1, SameRevisions

\* Apply, enable, destroy and a handler that stops short.
LEMMA ApplyStepKeepsHeads ==
  ASSUME TypeOK, NEW h \in Handlers, ApplyStep(h) \/ Abort(h)
  PROVE  HeadsKept
<1>1. CASE \E n \in Names : DestroyRequest(h, n)
  BY <1>1, UpdateKeepsHeads DEF DestroyRequest, TypeOK
<1>2. CASE UNCHANGED storeVars
  BY <1>2, SameRevisions DEF storeVars
<1> QED
  BY <1>1, <1>2 DEF ApplyStep, ApplyRequest, ReadIndex, WriteIndexFile, ReadFlake, WriteFlakeFile,
                    TakeSnapshot, Prune, Start, ReadOnly, FilesOnly, Abort

\* The job.
LEMMA JobKeepsHeads ==
  ASSUME TypeOK, RowsAreWhole, Job
  PROVE  HeadsKept
<1>1. CASE \E id \in Ids : MarkWorkload(id)
  BY <1>1, UpdateKeepsHeads DEF MarkWorkload, MarkOnly, TypeOK
<1>2. CASE DeleteRow
  <2>1. PICK id \in Ids : id = job.todo.target.id
    BY <1>2, JobFields DEF DeleteRow, JobAt, DestroyTodos
  <2>2. DeleteWorkload(id) \/ UNCHANGED <<workload, revision>>
    BY <1>2, <2>1 DEF DeleteRow
  <2> QED
    BY <2>2, OtherRevisionsGo, SameRevisions DEF TypeOK
<1>3. CASE UNCHANGED <<workload, revision>>
  BY <1>3, SameRevisions
<1> QED
  BY <1>1, <1>2, <1>3 DEF Job, MarkInput, MarkSecret, MarkOnly, Stage, Switch, MarkRefused, AllMarked,
                          DeleteFile, Finish, JobStops, storeVars

-----------------------------------------------------------------------------
(* The file of a workload and its latest revision, with requests served    *)
(* one at a time.                                                          *)

\* A save still knows its workload; what it wrote is there or was removed.
SavesStand ==
  \A h \in Handlers :
    /\ req[h].at \in {"save_file", "save_row"} =>
         \A n \in DOMAIN workload : n = req[h].name <=> workload[n].id = req[h].id
    /\ req[h].at \in {"create_file", "create_row"} => req[h].name \notin DOMAIN workload
    /\ (req[h].at \in {"create_row", "save_row"} /\ req[h].name \in DOMAIN workloadFile) =>
         workloadFile[req[h].name] = req[h].doc

\* A file that is there holds the latest revision, unless a save is between
\* the two or stopped there.
FilesMatch ==
  \A n \in DOMAIN workload \intersect DOMAIN workloadFile :
    n \notin torn /\ ~SavingNow(n) => workloadFile[n] = LatestDoc(n)

\* The inductive invariant.
FileInv == SavesStand /\ FilesMatch

\* With no workload there is nothing to match.
LEMMA FileInit == Init => FileInv
<1> SUFFICES ASSUME Init PROVE FileInv
  OBVIOUS
<1> QED
  BY DEF Init, StoreInit, StateFlakeInit, Idle, At, FileInv, SavesStand, FilesMatch, Nothing

\* A job changes no request and adds no file.
LEMMA JobLeavesFiles ==
  ASSUME Job
  PROVE  /\ UNCHANGED <<req, torn, reborn, quiet, secretFile, index, flake>>
         /\ DOMAIN workloadFile' \subseteq DOMAIN workloadFile
         /\ \A n \in DOMAIN workloadFile' : workloadFile'[n] = workloadFile[n]
<1> USE DEF MarkOnly, fileVars, storeVars, histVars
<1>1. CASE DeleteFile
  BY <1>1 DEF DeleteFile, RemoveWorkload, Restrict
<1>2. CASE ~DeleteFile
  BY <1>2 DEF Job, MarkWorkload, MarkInput, MarkSecret, DeleteRow, Stage, Switch, MarkRefused, AllMarked, Finish, JobStops
<1> QED
  BY <1>1, <1>2

\* Where the requests about secrets stand.
LEMMA SecretStages ==
  ASSUME TypeOK, OneAtATime, NEW h \in Handlers, SecretStep(h)
  PROVE  /\ req[h].at \in {"idle", "seal", "secret_row", "touch"}
         /\ req'[h].at \in {"idle", "seal", "secret_row", "touch"}
<1> USE Moves DEF At, Idle
<1>1. CASE \E s \in SecretNames, value \in Values, mounts \in SUBSET Ids : SecretCreate(h, s, value, mounts)
  BY <1>1 DEF SecretCreate
<1>2. CASE \E s \in SecretNames, value \in Values, mounts \in SUBSET Ids, blank \in BOOLEAN :
             SecretSave(h, s, blank, value, mounts)
  BY <1>2 DEF SecretSave
<1>3. CASE SealSecret(h)
  <2>1. req'[h] = [req[h] EXCEPT !.at = "secret_row"] /\ req[h].at = "seal"
    BY <1>3 DEF SealSecret, Goto
  <2> QED
    BY <2>1, RequestFields
<1>4. CASE SecretRow(h) \/ SecretRowRefused(h) \/ TouchOnChange(h)
  BY <1>4 DEF SecretRow, SecretRowRefused, TouchOnChange
<1>5. CASE \E s \in SecretNames : SecretDelete(h, s)
  BY <1>5 DEF SecretDelete
<1>6. CASE \E s \in SecretNames, n \in Names, attach \in BOOLEAN : SetMount(h, s, n, attach)
  BY <1>6 DEF SetMount
<1> QED
  BY <1>1, <1>2, <1>3, <1>4, <1>5, <1>6 DEF SecretStep

\* A step of the one handler keeps it.
LEMMA FileHandlerStep ==
  ASSUME TypeOK, RowsAreWhole, OneAtATime, FileInv, NEW h \in Handlers, Handler(h)
  PROVE  FileInv'
<1> DEFINE Saves == /\ req'[h].at \in {"save_file", "save_row"} =>
                         \A n \in DOMAIN workload' : n = req'[h].name <=> workload'[n].id = req'[h].id
                    /\ req'[h].at \in {"create_file", "create_row"} => req'[h].name \notin DOMAIN workload'
                    /\ (req'[h].at \in {"create_row", "save_row"} /\ req'[h].name \in DOMAIN workloadFile') =>
                         workloadFile'[req'[h].name] = req'[h].doc
           Match == \A n \in DOMAIN workload' \intersect DOMAIN workloadFile' :
                      n \notin torn' /\ ~(req'[h].at = "save_row" /\ req'[h].name = n) =>
                        workloadFile'[n] = LatestDoc(n)'
<1>1. SUFFICES Saves /\ Match
  BY Moves DEF FileInv, SavesStand, FilesMatch, SavingNow, At
<1>2. /\ req[h].at \in {"save_file", "save_row"} =>
           \A n \in DOMAIN workload : n = req[h].name <=> workload[n].id = req[h].id
      /\ req[h].at \in {"create_file", "create_row"} => req[h].name \notin DOMAIN workload
      /\ (req[h].at \in {"create_row", "save_row"} /\ req[h].name \in DOMAIN workloadFile) =>
           workloadFile[req[h].name] = req[h].doc
      /\ \A n \in DOMAIN workload \intersect DOMAIN workloadFile :
           n \notin torn /\ ~(req[h].at = "save_row" /\ req[h].name = n) => workloadFile[n] = LatestDoc(n)
  BY Moves DEF FileInv, SavesStand, FilesMatch, SavingNow, At
<1>10. StoreTypeOK
  BY DEF TypeOK
\* A step that does not move a save on.
<1>3. ASSUME HeadsKept, UNCHANGED workloadFile, torn \subseteq torn',
             req'[h].at \notin {"create_file", "create_row", "save_file", "save_row"},
             At(h, "save_row") => req[h].name \in torn'
      PROVE  Saves /\ Match
  BY <1>2, <1>3 DEF HeadsKept, At
<1>4. ASSUME UNCHANGED <<workload, revision, workloadFile, torn>>,
             req'[h].at \notin {"create_file", "create_row", "save_file", "save_row"}, req[h].at # "save_row"
      PROVE  Saves /\ Match
  BY <1>3, <1>4, SameRevisions DEF At
<1> USE Moves DEF At, Idle, ReadOnly, FilesOnly, RowsOnly, storeVars, fileVars, histVars
<1>5. CASE WorkloadStep(h)
  <2>1. ASSUME NEW n \in Names, NEW doc \in Docs, WorkloadCreate(h, n, doc) PROVE Saves /\ Match
    <3>1. HeadsKept
      BY <2>1, SameRevisions DEF WorkloadCreate
    <3>2. /\ req'[h] = [at |-> "create_file", name |-> n, doc |-> doc]
          /\ UNCHANGED <<workload, workloadFile, torn>> /\ n \notin DOMAIN workload /\ req[h].at = "idle"
      BY <2>1 DEF WorkloadCreate, CanCreateWorkload
    <3> QED
      BY <1>2, <3>1, <3>2 DEF HeadsKept
  <2>2. ASSUME NEW n \in Names, NEW doc, WorkloadSave(h, n, doc) PROVE Saves /\ Match
    <3>1. HeadsKept
      BY <2>2, SameRevisions DEF WorkloadSave
    <3>2. /\ req'[h] = [at |-> "save_file", name |-> n, id |-> workload[n].id, doc |-> doc]
          /\ UNCHANGED <<workload, workloadFile, torn>> /\ n \in DOMAIN workload /\ req[h].at = "idle"
      BY <2>2 DEF WorkloadSave
    <3>3. \A m \in DOMAIN workload : m = n <=> workload[m].id = workload[n].id
      BY <3>2 DEF RowsAreWhole
    <3> QED
      BY <1>2, <3>1, <3>2, <3>3 DEF HeadsKept
  <2>3. CASE \E n \in Names, r \in Ids : WorkloadRestore(h, n, r)
    BY <2>2, <2>3 DEF WorkloadRestore
  <2>4. CASE WriteWorkloadFile(h)
    <3>1. HeadsKept /\ UNCHANGED <<workload, torn>>
      BY <2>4, SameRevisions DEF WriteWorkloadFile
    <3>2. req'[h] = [req[h] EXCEPT !.at = IF At(h, "create_file") THEN "create_row" ELSE "save_row"]
      BY <2>4 DEF WriteWorkloadFile, Goto
    <3>3. /\ workloadFile'[req[h].name] = req[h].doc
          /\ DOMAIN workloadFile' = DOMAIN workloadFile \union {req[h].name}
          /\ \A n \in DOMAIN workloadFile \ {req[h].name} : workloadFile'[n] = workloadFile[n]
      BY <2>4 DEF WriteWorkloadFile, WriteWorkload, With
    <3>4. \/ req[h].at = "create_file" /\ req'[h].at = "create_row"
          \/ req[h].at = "save_file" /\ req'[h].at = "save_row" /\ req'[h].id = req[h].id
      BY <2>4, <3>2, RequestFields DEF WriteWorkloadFile
    <3>5. req'[h].name = req[h].name /\ req'[h].doc = req[h].doc
      BY <2>4, <3>2, RequestFields DEF WriteWorkloadFile
    <3> QED
      BY <1>2, <3>1, <3>3, <3>4, <3>5 DEF HeadsKept
  <2>5. CASE CreateWorkloadRow(h)
    <3>1. PICK m \in Names \ DOMAIN workload, doc \in Docs : m = req[h].name /\ doc = req[h].doc
      BY <2>5, RequestFields DEF CreateWorkloadRow, RowAllowed, CanCreateWorkload
    <3>2. RoomForWorkload /\ CreateWorkload(m, doc) /\ UNCHANGED workloadFile /\ req'[h] = Idle
      BY <2>5, <3>1 DEF CreateWorkloadRow
    <3>3. torn' = torn \ {m} /\ req[h].at = "create_row"
      BY <2>5, <3>1 DEF CreateWorkloadRow
    <3>4. /\ DOMAIN workload' = DOMAIN workload \union {m}
          /\ LatestDoc(m)' = doc
          /\ \A n \in DOMAIN workload : LatestDoc(n)' = LatestDoc(n)
      BY <1>10, <3>1, <3>2, WorkloadCreated
    <3> QED
      BY <1>2, <3>1, <3>2, <3>3, <3>4
  <2>6. CASE SaveRevisionRow(h)
    <3>1. req[h].at = "save_row" /\ req[h].doc \in Docs
      BY <2>6, RequestFields DEF SaveRevisionRow
    <3>2. PICK m \in DOMAIN workload : workload[m].id = req[h].id
      BY <2>6 DEF SaveRevisionRow, RowAllowed, HasWorkload, IdsOf
    <3>3. m = req[h].name
      BY <1>2, <3>1, <3>2
    <3>4. /\ RoomForRevision /\ SaveRevision(workload[m].id, req[h].doc)
          /\ UNCHANGED <<workload, workloadFile>> /\ torn' = torn \ {m} /\ req'[h] = Idle
      BY <2>6, <3>2, <3>3 DEF SaveRevisionRow
    <3>5. LatestDoc(m)' = req[h].doc /\ \A n \in DOMAIN workload \ {m} : LatestDoc(n)' = LatestDoc(n)
      BY <3>1, <3>2, <3>4, RevisionSaved DEF TypeOK
    <3> QED
      BY <1>2, <3>1, <3>3, <3>4, <3>5
  <2>7. CASE WorkloadRowRefused(h)
    <3>1. HeadsKept
      BY <2>7, SameRevisions DEF WorkloadRowRefused
    <3> QED
      BY <1>3, <2>7, <3>1 DEF WorkloadRowRefused
  <2>8. ASSUME NEW n \in Names, NEW b \in BOOLEAN, SetEnabled(h, n, b) PROVE Saves /\ Match
    <3>1. HeadsKept
      BY <2>8, UpdateKeepsHeads DEF SetEnabled, TypeOK
    <3> QED
      BY <1>3, <2>8, <3>1 DEF SetEnabled
  <2> QED
    BY <1>5, <2>1, <2>2, <2>3, <2>4, <2>5, <2>6, <2>7, <2>8 DEF WorkloadStep
<1>6. CASE SecretStep(h)
  <2>1. UNCHANGED <<workload, revision, workloadFile, torn>>
    BY <1>6 DEF SecretStep, SecretCreate, SecretSave, SealSecret, SecretRow, SecretRowRefused, SecretDelete, SetMount,
                TouchOnChange
  <2> QED
    BY <1>4, <1>6, <2>1, SecretStages
<1>7. CASE FlakeStep(h)
  <2>1. FlakeEdit(h)
    BY <1>7 DEF FlakeStep, FlakeCreate, FlakeSave, FlakeDelete
  <2> QED
    BY <1>4, <2>1 DEF FlakeEdit
<1>8. CASE ApplyStep(h)
  <2>1. UNCHANGED <<workloadFile, torn>>
    BY <1>8 DEF ApplyStep, ApplyRequest, DestroyRequest, ReadIndex, WriteIndexFile, ReadFlake, WriteFlakeFile,
                TakeSnapshot, Prune, Start
  <2>2. req[h].at # "save_row" /\ req'[h].at \notin {"create_file", "create_row", "save_file", "save_row"}
    <3>1. CASE \E kind \in Kinds : ApplyRequest(h, kind)
      BY <3>1 DEF ApplyRequest
    <3>4. CASE \E n \in Names : DestroyRequest(h, n)
      BY <3>4 DEF DestroyRequest
    <3>2. CASE ReadIndex(h) \/ ReadFlake(h) \/ WriteFlakeFile(h) \/ TakeSnapshot(h) \/ Prune(h) \/ Start(h)
      BY <3>2 DEF ReadIndex, ReadFlake, WriteFlakeFile, TakeSnapshot, Prune, Start
    <3>3. CASE WriteIndexFile(h)
      BY <3>3 DEF WriteIndexFile, AfterIndex
    <3> QED
      BY <1>8, <3>1, <3>2, <3>3, <3>4 DEF ApplyStep
  <2>3. HeadsKept
    BY <1>8, ApplyStepKeepsHeads
  <2> QED
    BY <1>3, <2>1, <2>2, <2>3
<1>9. CASE Abort(h)
  <2>1. HeadsKept
    BY <1>9, SameRevisions DEF Abort
  <2> QED
    BY <1>3, <1>9, <2>1 DEF Abort
<1> QED
  BY <1>5, <1>6, <1>7, <1>8, <1>9 DEF Handler

\* So does every step.
LEMMA FileStep == TypeOK /\ RowsAreWhole /\ OneAtATime /\ FileInv /\ [Next]_vars => FileInv'
<1> SUFFICES ASSUME TypeOK, RowsAreWhole, OneAtATime, FileInv, [Next]_vars PROVE FileInv'
  OBVIOUS
<1> USE DEF FileInv, SavesStand, FilesMatch, SavingNow, At
<1>1. CASE Job
  <2>1. HeadsKept
    BY <1>1, JobKeepsHeads
  <2> QED
    BY <1>1, <2>1, JobLeavesFiles DEF HeadsKept
<1>2. CASE UNCHANGED vars
  <2>1. HeadsKept
    BY <1>2, SameRevisions DEF vars, storeVars
  <2> QED
    BY <1>2, <2>1 DEF vars, fileVars, histVars, HeadsKept
<1> QED
  BY <1>1, <1>2, FileHandlerStep DEF Next

\* It holds in every state.
LEMMA FileInvariant == ASSUME OneAtATime PROVE Spec => []FileInv
<1>1. TypeOK /\ RowsAreWhole /\ FileInv /\ [Next]_vars => FileInv'
  BY FileStep
<1> QED
  BY <1>1, FileInit, RowsInvariant, PTL DEF Spec
-----------------------------------------------------------------------------
(* From the request of an apply to the end of its job, with no edit in     *)
(* between and requests served one at a time.                              *)

\* sys is the system the tables ask for, as far as the files are theirs.
Deploys(sys) ==
  /\ DOMAIN sys.workloads = Enabled
  /\ \A n \in Enabled : /\ sys.workloads[n].ports = LatestDoc(n)
                        /\ n \notin torn => sys.workloads[n].content = LatestDoc(n)
  /\ DOMAIN sys.secrets = DOMAIN secret
  /\ \A s \in DOMAIN secret : sys.secrets[s] = [value |-> secretFile[s], mounts |-> IndexMounts(s)]
  /\ DOMAIN sys.inputs = DOMAIN input
  /\ \A i \in DOMAIN input : sys.inputs[i] = input[i].url

\* Every row is marked but those that snap still remembers, as they stand.
MarkedBut(snap) ==
  /\ \A n \in Enabled :
       LET id == workload[n].id
       IN  IF id \in DOMAIN snap.workloads THEN snap.workloads[id] = LatestRevision(id) ELSE AppliedRevision(n)
  /\ \A i \in DOMAIN input : input[i].id \in snap.inputs \/ input[i].applied
  /\ \A s \in DOMAIN secret : secret[s].id \in snap.secrets \/ secret[s].applied

\* With no edit since the apply was asked for, what it holds is current,
QuietRequests ==
  \A h \in Handlers :
    /\ ~At(h, "save_row")
    /\ req[h].at \in {"read_index", "write_index", "start"} => req[h].todo.kind \in Kinds
    /\ At(h, "write_index") => req[h].index = IndexOfStore
    /\ IndexWritten(h) => index = IndexOfStore
    /\ At(h, "write_flake") => req[h].flake = FlakeOfStore
    /\ FlakeWritten(h) => flake = FlakeOfStore
    /\ req[h].at \in {"prune", "start"} => req[h].todo.snap = SnapshotOfStore

\* and so is what its job holds, and does.
QuietJob ==
  /\ job # NoJob => job.todo.kind \in Kinds /\ index = IndexOfStore /\ flake = FlakeOfStore
  /\ job.at \in {"stage", "switch"} => job.todo.snap = SnapshotOfStore
  /\ JobAt("switch") => Deploys(job.staged)
  /\ JobAt("mark") => job.todo.kind = "switch" /\ MarkedBut(job.todo.snap)
  /\ (JobAt("finish") /\ job.todo.kind = "switch") => MarkedBut(NoSnapshot)
  /\ (job.at \in {"mark", "finish"} /\ job.todo.kind = "switch" /\ ~DryRun) => Deploys(live)

\* The inductive invariant.
QuietInv == quiet => QuietRequests /\ QuietJob

\* What an apply reads of the tables, and a deployment is judged by.
ReadsKept ==
  /\ Enabled' = Enabled
  /\ DOMAIN workload' = DOMAIN workload
  /\ \A n \in DOMAIN workload : /\ workload'[n].id = workload[n].id
                                /\ LatestRevision(workload[n].id)' = LatestRevision(workload[n].id)
                                /\ LatestDoc(n)' = LatestDoc(n)
  /\ DOMAIN secret' = DOMAIN secret
  /\ \A s \in DOMAIN secret : secret'[s].id = secret[s].id /\ IndexMounts(s)' = IndexMounts(s)
  /\ DOMAIN input' = DOMAIN input
  /\ \A i \in DOMAIN input : input'[i].id = input[i].id /\ input'[i].url = input[i].url
  /\ IndexOfStore' = IndexOfStore
  /\ FlakeOfStore' = FlakeOfStore
  /\ SnapshotOfStore' = SnapshotOfStore

\* Marks are not among what an apply reads.
LEMMA MarksKeepReads ==
  ASSUME UNCHANGED revision,
         DOMAIN workload' = DOMAIN workload,
         \A n \in DOMAIN workload : workload'[n].id = workload[n].id /\ workload'[n].enabled = workload[n].enabled,
         DOMAIN secret' = DOMAIN secret,
         \A s \in DOMAIN secret : secret'[s].id = secret[s].id /\ secret'[s].mounts = secret[s].mounts,
         DOMAIN input' = DOMAIN input,
         \A i \in DOMAIN input : input'[i].id = input[i].id /\ input'[i].url = input[i].url
  PROVE  ReadsKept
<1>1. Enabled' = Enabled /\ Enabled \subseteq DOMAIN workload
  BY DEF Enabled
<1>2. \A n \in DOMAIN workload : /\ LatestRevision(workload[n].id)' = LatestRevision(workload[n].id)
                                 /\ LatestDoc(n)' = LatestDoc(n)
  BY SameRevisions DEF HeadsKept
<1>3. \A s \in DOMAIN secret : IndexMounts(s)' = IndexMounts(s)
  BY <1>1 DEF IndexMounts
<1>4. IdsOf(secret)' = IdsOf(secret) /\ IdsOf(input)' = IdsOf(input)
  BY DEF IdsOf
<1>5. IndexOfStore' = IndexOfStore
  BY <1>1, <1>2, <1>3 DEF IndexOfStore
<1>6. FlakeOfStore' = FlakeOfStore
  <2>1. FlakeOfStore.inputs' = FlakeOfStore.inputs
    BY DEF FlakeOfStore
  <2>2. FlakeOfStore.agenix' = FlakeOfStore.agenix
    BY Zenon DEF FlakeOfStore
  <2> QED
    BY <2>1, <2>2, Zenon DEF FlakeOfStore
<1>7. SnapshotOfStore' = SnapshotOfStore
  <2> DEFINE E == {workload[n].id : n \in Enabled}
  <2>1. E' = E
    BY <1>1
  <2>2. \A id \in E : LatestRevision(id)' = LatestRevision(id)
    BY <1>1, <1>2
  <2>3. [id \in E |-> LatestRevision(id)]' = [id \in E |-> LatestRevision(id)]
    BY <2>1, <2>2
  <2> QED
    BY <1>4, <2>3 DEF SnapshotOfStore
<1> QED
  BY <1>1, <1>2, <1>3, <1>5, <1>6, <1>7 DEF ReadsKept

\* What the job rests on is untouched: its todo, the reads, the files it copied.
LEMMA DeploysKept ==
  ASSUME ReadsKept, torn \subseteq torn', \A s \in DOMAIN secret : secretFile'[s] = secretFile[s],
         NEW sys
  PROVE  Deploys(sys) => Deploys(sys)'
<1>1. Enabled \subseteq DOMAIN workload
  BY DEF Enabled
<1> QED
  BY <1>1 DEF Deploys, ReadsKept

\* What is marked depends on the tables alone.
LEMMA MarkedKept ==
  ASSUME UNCHANGED storeVars, NEW snap
  PROVE  MarkedBut(snap) => MarkedBut(snap)'
<1>1. ReadsKept
  BY MarksKeepReads DEF storeVars
<1>2. Enabled \subseteq DOMAIN workload
  BY DEF Enabled
<1> QED
  BY <1>1, <1>2 DEF MarkedBut, ReadsKept, AppliedRevision, storeVars

\* A step that is no edit and leaves the job alone.
LEMMA QuietJobKept ==
  ASSUME QuietJob, UNCHANGED <<storeVars, hostVars>>, torn \subseteq torn',
         \A s \in DOMAIN secret : secretFile'[s] = secretFile[s],
         job # NoJob => UNCHANGED index \/ index' = IndexOfStore,
         job # NoJob => UNCHANGED flake \/ flake' = FlakeOfStore
  PROVE  QuietJob'
<1>1. ReadsKept
  BY MarksKeepReads DEF storeVars
<1>2. job' = job /\ live' = live
  BY DEF hostVars
<1>3. PICK staged, snap, sys : staged = job.staged /\ snap = job.todo.snap /\ sys = live
  OBVIOUS
<1>4. /\ Deploys(staged) => Deploys(staged)'
      /\ Deploys(sys) => Deploys(sys)'
  BY <1>1, DeploysKept
<1>5. MarkedBut(snap) => MarkedBut(snap)'
  BY MarkedKept
<1>6. MarkedBut(NoSnapshot) => MarkedBut(NoSnapshot)'
  BY MarkedKept DEF NoSnapshot
<1>7. (job # NoJob)' => job.todo.kind \in Kinds /\ index' = IndexOfStore' /\ flake' = FlakeOfStore'
  BY <1>1, <1>2 DEF QuietJob, ReadsKept
<1>8. (job.at \in {"stage", "switch"})' => job.todo.snap = SnapshotOfStore'
  BY <1>1, <1>2 DEF QuietJob, ReadsKept
<1>9. JobAt("switch")' => Deploys(job.staged)'
  <2>1. JobAt("switch")' => Deploys(staged)'
    BY <1>2, <1>3, <1>4 DEF QuietJob, JobAt
  <2> QED
    BY <1>2, <1>3, <2>1 DEF Deploys
<1>10. JobAt("mark")' => (job.todo.kind = "switch" /\ MarkedBut(job.todo.snap))'
  <2>1. JobAt("mark")' => job.todo.kind = "switch" /\ MarkedBut(snap)'
    BY <1>2, <1>3, <1>5 DEF QuietJob, JobAt
  <2> QED
    BY <1>2, <1>3, <2>1 DEF MarkedBut
<1>11. (JobAt("finish") /\ job.todo.kind = "switch")' => MarkedBut(NoSnapshot)'
  BY <1>2, <1>6 DEF QuietJob, JobAt
<1>12. (job.at \in {"mark", "finish"} /\ job.todo.kind = "switch" /\ ~DryRun)' => Deploys(live)'
  <2>1. (job.at \in {"mark", "finish"} /\ job.todo.kind = "switch" /\ ~DryRun)' => Deploys(sys)'
    BY <1>2, <1>3, <1>4 DEF QuietJob
  <2> QED
    BY <1>2, <1>3, <2>1 DEF Deploys
<1> QED
  BY <1>2, <1>7, <1>8, <1>9, <1>10, <1>11, <1>12 DEF QuietJob

\* A step of the one handler that is no edit.
LEMMA QuietHandlerStep ==
  ASSUME TypeOK, RowsAreWhole, OneAtATime, CipherInv, QuietRequests, QuietJob, NEW h \in Handlers, Handler(h),
         quiet, quiet'
  PROVE  QuietRequests' /\ QuietJob'
<1> DEFINE Holds == /\ req'[h].at # "save_row"
                    /\ req'[h].at \in {"read_index", "write_index", "start"} => req'[h].todo.kind \in Kinds
                    /\ req'[h].at = "write_index" => req'[h].index = IndexOfStore'
                    /\ IndexWritten(h)' => index' = IndexOfStore'
                    /\ req'[h].at = "write_flake" => req'[h].flake = FlakeOfStore'
                    /\ FlakeWritten(h)' => flake' = FlakeOfStore'
                    /\ req'[h].at \in {"prune", "start"} => req'[h].todo.snap = SnapshotOfStore'
<1>1. Holds => QuietRequests'
  BY Moves DEF QuietRequests, At
<1>2. /\ req[h].at \in {"read_index", "write_index", "start"} => req[h].todo.kind \in Kinds
      /\ req[h].at = "write_index" => req[h].index = IndexOfStore
      /\ IndexWritten(h) => index = IndexOfStore
      /\ req[h].at = "write_flake" => req[h].flake = FlakeOfStore
      /\ FlakeWritten(h) => flake = FlakeOfStore
      /\ req[h].at \in {"prune", "start"} => req[h].todo.snap = SnapshotOfStore
  BY DEF QuietRequests, At
<1>3. ASSUME UNCHANGED <<storeVars, fileVars, hostVars>>, torn \subseteq torn',
             req'[h].at \in {"idle", "create_file", "save_file", "seal", "secret_row", "touch"}
      PROVE  QuietRequests' /\ QuietJob'
  <2>1. Holds
    BY <1>3 DEF IndexWritten, FlakeWritten, At
  <2> QED
    BY <1>1, <1>3, <2>1, QuietJobKept DEF fileVars
<1>4. ASSUME UNCHANGED storeVars
      PROVE  IndexOfStore' = IndexOfStore /\ FlakeOfStore' = FlakeOfStore /\ SnapshotOfStore' = SnapshotOfStore
  BY <1>4, MarksKeepReads DEF ReadsKept, storeVars
<1> USE Moves DEF At, Idle, ReadOnly, FilesOnly, RowsOnly, Edit
<1>5. CASE WorkloadStep(h)
  <2>1. ASSUME NEW n \in Names, NEW doc \in Docs, WorkloadCreate(h, n, doc) PROVE QuietRequests' /\ QuietJob'
    BY <1>3, <2>1 DEF WorkloadCreate, histVars
  <2>2. ASSUME NEW n \in Names, NEW doc, WorkloadSave(h, n, doc) PROVE QuietRequests' /\ QuietJob'
    BY <1>3, <2>2 DEF WorkloadSave, histVars
  <2>3. ASSUME NEW n \in Names, NEW r \in Ids, WorkloadRestore(h, n, r) PROVE QuietRequests' /\ QuietJob'
    BY <2>2, <2>3 DEF WorkloadRestore
  <2>4. CASE WorkloadRowRefused(h)
    BY <1>3, <2>4 DEF WorkloadRowRefused
  <2> QED
    BY <1>5, <2>1, <2>2, <2>3, <2>4 DEF WorkloadStep, WriteWorkloadFile, CreateWorkloadRow, SaveRevisionRow, SetEnabled
<1>6. CASE SecretStep(h)
  <2>1. ASSUME NEW s \in SecretNames, NEW value \in Values, NEW mounts \in SUBSET Ids, SecretCreate(h, s, value, mounts)
        PROVE  QuietRequests' /\ QuietJob'
    BY <1>3, <2>1 DEF SecretCreate, histVars
  <2>2. ASSUME NEW s \in SecretNames, NEW blank \in BOOLEAN, NEW value \in Values, NEW mounts \in SUBSET Ids,
               SecretSave(h, s, blank, value, mounts)
        PROVE  QuietRequests' /\ QuietJob'
    BY <1>3, <2>2 DEF SecretSave, histVars
  <2>3. CASE SecretRowRefused(h)
    BY <1>3, <2>3 DEF SecretRowRefused, histVars
  <2> QED
    BY <1>6, <2>1, <2>2, <2>3 DEF SecretStep, SealSecret, SecretRow, SecretDelete, SetMount, TouchOnChange
<1>7. CASE FlakeStep(h)
  BY <1>7 DEF FlakeStep, FlakeCreate, FlakeSave, FlakeDelete, FlakeEdit
<1>8. CASE ApplyStep(h)
  <2> USE DEF hostVars, histVars, fileVars
  <2>1. ASSUME NEW kind \in Kinds, ApplyRequest(h, kind) PROVE QuietRequests' /\ QuietJob'
    <3>1. /\ req'[h] = [at |-> "read_index", todo |-> [kind |-> kind, target |-> NoTarget, snap |-> NoSnapshot]]
          /\ UNCHANGED <<storeVars, fileVars, hostVars, torn>>
      BY <2>1 DEF ApplyRequest
    <3>2. Holds
      BY <3>1 DEF IndexWritten, FlakeWritten
    <3> QED
      BY <1>1, <3>1, <3>2, QuietJobKept
  <2>2. CASE ReadIndex(h)
    <3>1. /\ req'[h] = [at |-> "write_index", todo |-> req[h].todo, index |-> IndexOfStore]
          /\ UNCHANGED <<storeVars, fileVars, hostVars, torn>> /\ req[h].at = "read_index"
      BY <2>2 DEF ReadIndex
    <3>2. Holds
      BY <1>2, <1>4, <3>1 DEF IndexWritten, FlakeWritten
    <3> QED
      BY <1>1, <3>1, <3>2, QuietJobKept
  <2>3. CASE WriteIndexFile(h)
    <3>1. /\ req'[h] = [at |-> "read_flake", todo |-> req[h].todo]
          /\ UNCHANGED <<storeVars, secretFile, flake, hostVars, torn>> /\ index' = IndexOfStore
      BY <1>2, <2>3 DEF WriteIndexFile, WriteIndex, AfterIndex, Kinds
    <3>2. Holds
      BY <1>4, <3>1 DEF IndexWritten, FlakeWritten
    <3> QED
      BY <1>1, <3>1, <3>2, QuietJobKept
  <2>4. CASE ReadFlake(h)
    <3>1. /\ req'[h] = [at |-> "write_flake", todo |-> req[h].todo, flake |-> FlakeOfStore]
          /\ UNCHANGED <<storeVars, fileVars, hostVars, torn>> /\ req[h].at = "read_flake"
      BY <2>4 DEF ReadFlake
    <3>2. Holds
      BY <1>2, <1>4, <3>1 DEF IndexWritten, FlakeWritten
    <3> QED
      BY <1>1, <3>1, <3>2, QuietJobKept
  <2>5. CASE WriteFlakeFile(h)
    <3>1. /\ req'[h] = [at |-> "snapshot", todo |-> req[h].todo]
          /\ UNCHANGED <<storeVars, secretFile, index, hostVars, torn>> /\ flake' = FlakeOfStore
          /\ req[h].at = "write_flake"
      BY <1>2, <2>5 DEF WriteFlakeFile, WriteFlake
    <3>2. Holds
      BY <1>2, <1>4, <3>1 DEF IndexWritten, FlakeWritten
    <3> QED
      BY <1>1, <3>1, <3>2, QuietJobKept
  <2>6. CASE TakeSnapshot(h)
    <3>1. /\ req'[h] = [at |-> "prune", todo |-> [req[h].todo EXCEPT !.snap = SnapshotOfStore], keep |-> DOMAIN secret]
          /\ UNCHANGED <<storeVars, fileVars, hostVars, torn>> /\ req[h].at = "snapshot"
      BY <2>6 DEF TakeSnapshot
    <3>2. req[h].todo \in ApplyTodos
      BY <3>1, RequestFields
    <3>3. req'[h].at = "prune" /\ req'[h].todo.snap = SnapshotOfStore
      BY <3>1, <3>2 DEF ApplyTodos
    <3>4. Holds
      BY <1>2, <1>4, <3>1, <3>3 DEF IndexWritten, FlakeWritten
    <3> QED
      BY <1>1, <3>1, <3>4, QuietJobKept
  <2>7. CASE Prune(h)
    <3>1. /\ req'[h] = [at |-> "start", todo |-> req[h].todo]
          /\ UNCHANGED <<storeVars, index, flake, hostVars, torn>> /\ req[h].at = "prune"
      BY <2>7 DEF Prune
    <3>2. req[h].todo.kind \in Kinds
      BY <3>1, RequestFields DEF ApplyTodos
    <3>3. \A s \in DOMAIN secret : secretFile'[s] = secretFile[s]
      BY <2>7 DEF Prune, PruneSecrets, Restrict, CipherInv, SecretsSealed, SecretsStand
    <3>4. Holds
      BY <1>2, <1>4, <3>1, <3>2 DEF IndexWritten, FlakeWritten
    <3> QED
      BY <1>1, <3>1, <3>3, <3>4, QuietJobKept
  <2>8. CASE Start(h)
    <3>1. /\ req'[h] = Idle /\ req[h].at = "start"
          /\ UNCHANGED <<storeVars, fileVars, live, torn>>
          /\ job' = job \/ job' = [at |-> "stage", todo |-> req[h].todo]
      BY <2>8 DEF Start
    <3>2. Holds
      BY <3>1 DEF IndexWritten, FlakeWritten
    <3>3. CASE job' = job
      BY <1>1, <3>1, <3>2, <3>3, QuietJobKept
    <3>4. CASE job' = [at |-> "stage", todo |-> req[h].todo]
      <4>1. /\ req[h].todo.kind \in Kinds /\ index = IndexOfStore /\ flake = FlakeOfStore
            /\ req[h].todo.snap = SnapshotOfStore
        BY <1>2, <3>1 DEF IndexWritten, FlakeWritten
      <4>2. QuietJob'
        BY <1>4, <3>1, <3>4, <4>1 DEF QuietJob, JobAt
      <4> QED
        BY <1>1, <3>2, <4>2
    <3> QED
      BY <3>1, <3>3, <3>4
  <2> QED
    BY <1>8, <2>1, <2>2, <2>3, <2>4, <2>5, <2>6, <2>7, <2>8 DEF ApplyStep, DestroyRequest
<1>9. CASE Abort(h)
  BY <1>3, <1>9 DEF Abort
<1> QED
  BY <1>5, <1>6, <1>7, <1>8, <1>9 DEF Handler

\* The copy of files that evaluate is the system the tables ask for.
LEMMA StagedDeploys ==
  ASSUME TypeOK, FileInv, \A h \in Handlers : ~At(h, "save_row"),
         index = IndexOfStore, flake = FlakeOfStore, Evaluates
  PROVE  Deploys(System)
<1>1. /\ DOMAIN index.workloads = Enabled /\ \A n \in Enabled : index.workloads[n] = LatestDoc(n)
      /\ DOMAIN index.secrets = DOMAIN secret /\ \A s \in DOMAIN secret : index.secrets[s] = IndexMounts(s)
      /\ DOMAIN flake.inputs = DOMAIN input /\ \A i \in DOMAIN input : flake.inputs[i] = input[i].url
  BY DEF IndexOfStore, FlakeOfStore
<1>2. /\ DOMAIN System.workloads = Enabled
      /\ \A n \in Enabled : System.workloads[n] = [content |-> workloadFile[n], ports |-> LatestDoc(n)]
      /\ DOMAIN System.secrets = DOMAIN secret
      /\ \A s \in DOMAIN secret : System.secrets[s] = [value |-> secretFile[s], mounts |-> IndexMounts(s)]
      /\ DOMAIN System.inputs = DOMAIN input /\ \A i \in DOMAIN input : System.inputs[i] = input[i].url
  BY <1>1 DEF System
<1>3. \A n \in Enabled : n \notin torn => workloadFile[n] = LatestDoc(n)
  <2>1. Enabled \subseteq DOMAIN workload \intersect DOMAIN workloadFile
    BY <1>1 DEF Evaluates, Enabled
  <2> QED
    BY <2>1 DEF FileInv, FilesMatch, SavingNow
<1>4. ASSUME NEW n \in Enabled
      PROVE  /\ System.workloads[n].ports = LatestDoc(n)
             /\ n \notin torn => System.workloads[n].content = LatestDoc(n)
  <2>1. System.workloads[n] = [content |-> workloadFile[n], ports |-> LatestDoc(n)]
    BY <1>2
  <2> QED
    BY <1>3, <2>1
<1> QED
  BY <1>2, <1>4 DEF Deploys

\* Marking takes from the snapshot what it settles in the tables.
LEMMA MarkStep ==
  ASSUME TypeOK, RowsAreWhole, NEW id \in Ids, MarkWorkload(id) \/ MarkInput(id) \/ MarkSecret(id)
  PROVE  /\ ReadsKept
         /\ JobAt("mark") /\ JobAt("mark")' /\ job'.todo.kind = job.todo.kind
         /\ MarkedBut(job.todo.snap) => MarkedBut(job.todo.snap)'
<1>1. StoreTypeOK
  BY DEF TypeOK
<1>2. JobAt("mark") /\ job.todo \in ApplyTodos
  BY JobFields DEF MarkWorkload, MarkInput, MarkSecret
<1>3. job \in [at : {"mark"}, todo : ApplyTodos]
  BY <1>2 DEF TypeOK, Jobs, JobAt, NoJob
<1>4. CASE MarkWorkload(id)
  <2> DEFINE snap == job.todo.snap
             left == Restrict(snap.workloads, DOMAIN snap.workloads \ {id})
  <2>1. job' = [job EXCEPT !.todo.snap = [snap EXCEPT !.workloads = left]]
    BY <1>4 DEF MarkWorkload, Marked
  <2>2. /\ job'.at = "mark" /\ job'.todo.kind = job.todo.kind
        /\ job'.todo.snap.workloads = left
        /\ job'.todo.snap.inputs = snap.inputs /\ job'.todo.snap.secrets = snap.secrets
    BY <1>3, <2>1 DEF ApplyTodos, Snapshots
  <2>3. DOMAIN left = DOMAIN snap.workloads \ {id} /\ \A k \in DOMAIN left : left[k] = snap.workloads[k]
    BY DEF Restrict
  <2>4. /\ workload' = UpdateById(workload, id, LAMBDA row : [row EXCEPT !.applied = snap.workloads[id]])
        /\ UNCHANGED <<revision, secret, input>> /\ id \in DOMAIN snap.workloads
    BY <1>4 DEF MarkWorkload, MarkApplied, RevisionToMark, MarkOnly
  <2>5. /\ DOMAIN workload' = DOMAIN workload
        /\ \A n \in DOMAIN workload :
             /\ workload'[n].id = workload[n].id /\ workload'[n].enabled = workload[n].enabled
             /\ workload'[n].applied = IF workload[n].id = id THEN snap.workloads[id] ELSE workload[n].applied
    BY <1>1, <2>4, Rows DEF UpdateById, WorkloadRows
  <2>6. ReadsKept
    BY <2>4, <2>5, MarksKeepReads
  <2> HIDE DEF left
  <2>7. ASSUME MarkedBut(snap) PROVE MarkedBut(snap)'
    <3>1. ASSUME NEW n \in Enabled
          PROVE  IF workload[n].id \in DOMAIN left THEN left[workload[n].id] = LatestRevision(workload[n].id)'
                                                  ELSE workload'[n].applied = LatestRevision(workload[n].id)'
      <4>1. LatestRevision(workload[n].id)' = LatestRevision(workload[n].id)
        BY <2>6, EnabledAre DEF ReadsKept
      <4>2. IF workload[n].id \in DOMAIN snap.workloads
              THEN snap.workloads[workload[n].id] = LatestRevision(workload[n].id)
              ELSE workload[n].applied = LatestRevision(workload[n].id)
        BY <2>7 DEF MarkedBut, AppliedRevision
      <4> QED
        BY <2>3, <2>4, <2>5, <4>1, <4>2, EnabledAre
    <3>2. Enabled' = Enabled /\ \A n \in Enabled : workload'[n].id = workload[n].id
      BY <2>5, <2>6, EnabledAre DEF ReadsKept
    <3>3. (\A i \in DOMAIN input : input[i].id \in snap.inputs \/ input[i].applied)'
      BY <2>2, <2>4, <2>7 DEF MarkedBut
    <3>4. (\A s \in DOMAIN secret : secret[s].id \in snap.secrets \/ secret[s].applied)'
      BY <2>2, <2>4, <2>7 DEF MarkedBut
    <3>5. snap.workloads' = left
      BY <2>2
    <3>6. (\A n \in Enabled : IF workload[n].id \in DOMAIN snap.workloads
                               THEN snap.workloads[workload[n].id] = LatestRevision(workload[n].id)
                               ELSE AppliedRevision(n))'
      BY <3>1, <3>2, <3>5 DEF AppliedRevision
    <3> QED
      BY <3>3, <3>4, <3>6 DEF MarkedBut
  <2> QED
    BY <1>2, <2>2, <2>6, <2>7 DEF JobAt
<1>5. CASE MarkInput(id)
  <2>1. job' = [job EXCEPT !.todo.snap = [job.todo.snap EXCEPT !.inputs = @ \ {id}]]
    BY <1>5 DEF MarkInput, Marked
  <2>2. /\ job'.at = "mark" /\ job'.todo.kind = job.todo.kind
        /\ job'.todo.snap.workloads = job.todo.snap.workloads
        /\ job'.todo.snap.inputs = job.todo.snap.inputs \ {id}
        /\ job'.todo.snap.secrets = job.todo.snap.secrets
    BY <1>3, <2>1 DEF ApplyTodos, Snapshots
  <2>3. /\ DOMAIN input' = DOMAIN input
        /\ \A i \in DOMAIN input : /\ input'[i].id = input[i].id /\ input'[i].url = input[i].url
                                   /\ input'[i].applied = (input[i].id = id \/ input[i].applied)
        /\ UNCHANGED <<workload, revision, secret>>
    BY <1>1, <1>5, Rows DEF MarkInput, MarkFlakeInputApplied, UpdateById, InputRows, MarkOnly
  <2>4. ReadsKept
    BY <2>3, MarksKeepReads
  <2>5. ASSUME MarkedBut(job.todo.snap) PROVE MarkedBut(job.todo.snap)'
    <3>1. (\A n \in Enabled : IF workload[n].id \in DOMAIN job.todo.snap.workloads
                               THEN job.todo.snap.workloads[workload[n].id] = LatestRevision(workload[n].id)
                               ELSE AppliedRevision(n))'
      BY <2>2, <2>3, <2>4, <2>5, EnabledAre DEF MarkedBut, ReadsKept, AppliedRevision
    <3>2. (\A i \in DOMAIN input : input[i].id \in job.todo.snap.inputs \/ input[i].applied)'
      BY <2>2, <2>3, <2>5 DEF MarkedBut
    <3>3. (\A s \in DOMAIN secret : secret[s].id \in job.todo.snap.secrets \/ secret[s].applied)'
      BY <2>2, <2>3, <2>5 DEF MarkedBut
    <3> QED
      BY <3>1, <3>2, <3>3 DEF MarkedBut
  <2> QED
    BY <1>2, <2>2, <2>4, <2>5 DEF JobAt
<1>6. CASE MarkSecret(id)
  <2>1. job' = [job EXCEPT !.todo.snap = [job.todo.snap EXCEPT !.secrets = @ \ {id}]]
    BY <1>6 DEF MarkSecret, Marked
  <2>2. /\ job'.at = "mark" /\ job'.todo.kind = job.todo.kind
        /\ job'.todo.snap.workloads = job.todo.snap.workloads
        /\ job'.todo.snap.inputs = job.todo.snap.inputs
        /\ job'.todo.snap.secrets = job.todo.snap.secrets \ {id}
    BY <1>3, <2>1 DEF ApplyTodos, Snapshots
  <2>3. /\ DOMAIN secret' = DOMAIN secret
        /\ \A s \in DOMAIN secret : /\ secret'[s].id = secret[s].id /\ secret'[s].mounts = secret[s].mounts
                                    /\ secret'[s].applied = (secret[s].id = id \/ secret[s].applied)
        /\ UNCHANGED <<workload, revision, input>>
    BY <1>1, <1>6, Rows DEF MarkSecret, MarkSecretApplied, UpdateById, SecretRows, MarkOnly
  <2>4. ReadsKept
    BY <2>3, MarksKeepReads
  <2>5. ASSUME MarkedBut(job.todo.snap) PROVE MarkedBut(job.todo.snap)'
    <3>1. (\A n \in Enabled : IF workload[n].id \in DOMAIN job.todo.snap.workloads
                               THEN job.todo.snap.workloads[workload[n].id] = LatestRevision(workload[n].id)
                               ELSE AppliedRevision(n))'
      BY <2>2, <2>3, <2>4, <2>5, EnabledAre DEF MarkedBut, ReadsKept, AppliedRevision
    <3>2. (\A i \in DOMAIN input : input[i].id \in job.todo.snap.inputs \/ input[i].applied)'
      BY <2>2, <2>3, <2>5 DEF MarkedBut
    <3>3. (\A s \in DOMAIN secret : secret[s].id \in job.todo.snap.secrets \/ secret[s].applied)'
      BY <2>2, <2>3, <2>5 DEF MarkedBut
    <3> QED
      BY <3>1, <3>2, <3>3 DEF MarkedBut
  <2> QED
    BY <1>2, <2>2, <2>4, <2>5 DEF JobAt
<1> QED
  BY <1>4, <1>5, <1>6

\* A step of the job.
LEMMA QuietJobStep ==
  ASSUME TypeOK, RowsAreWhole, FileInv, QuietRequests, QuietJob, Job
  PROVE  QuietRequests' /\ QuietJob'
<1>1. job # NoJob => job.todo.kind \in Kinds /\ index = IndexOfStore /\ flake = FlakeOfStore
  BY DEF QuietJob
<1>2. UNCHANGED <<req, torn, secretFile, index, flake>>
  BY JobLeavesFiles
<1>3. ASSUME ReadsKept PROVE QuietRequests'
  BY <1>2, <1>3 DEF QuietRequests, ReadsKept, At, IndexWritten, FlakeWritten
<1>4. ASSUME ReadsKept PROVE index' = index /\ flake' = flake /\ IndexOfStore' = IndexOfStore /\ FlakeOfStore' = FlakeOfStore
  BY <1>2, <1>4 DEF ReadsKept
<1>5. UNCHANGED storeVars => ReadsKept
  BY MarksKeepReads DEF storeVars
<1> USE DEF JobAt
<1>6. CASE Stage
  <2>1. UNCHANGED storeVars /\ job.at = "stage" /\ job # NoJob
    BY <1>6, JobFields DEF Stage
  <2>2. job' = NoJob \/ (job' = [at |-> "switch", todo |-> job.todo, staged |-> System] /\ Evaluates)
    BY <1>6 DEF Stage
  <2>3. CASE job' = NoJob
    BY <1>3, <1>5, <2>1, <2>3 DEF QuietJob, NoJob
  <2>4. CASE job' = [at |-> "switch", todo |-> job.todo, staged |-> System] /\ Evaluates
    <3>1. Deploys(System)
      BY <1>1, <2>1, <2>4, StagedDeploys DEF QuietRequests
    <3>2. PICK sys : sys = System
      OBVIOUS
    <3>3. Deploys(sys)'
      BY <1>2, <1>5, <2>1, <3>1, <3>2, DeploysKept
    <3>4. Deploys(job.staged)'
      BY <2>4, <3>2, <3>3 DEF Deploys
    <3>5. job.todo.snap = SnapshotOfStore /\ SnapshotOfStore' = SnapshotOfStore
      BY <1>5, <2>1 DEF QuietJob, ReadsKept
    <3>6. QuietJob'
      BY <1>1, <1>4, <1>5, <2>1, <2>4, <3>4, <3>5 DEF QuietJob
    <3> QED
      BY <1>3, <1>5, <2>1, <3>6
  <2> QED
    BY <2>2, <2>3, <2>4
<1>7. CASE Switch
  <2>1. UNCHANGED storeVars /\ job.at = "switch" /\ job # NoJob
    BY <1>7, JobFields DEF Switch
  <2>2. /\ job' = [at |-> AfterSwitch(job.todo.kind), todo |-> job.todo]
        /\ live' = IF Activates(job.todo.kind) THEN job.staged ELSE live
    BY <1>7 DEF Switch, JobGoto
  <2>3. ReadsKept
    BY <1>5, <2>1
  <2>4. PICK sys : sys = job.staged
    OBVIOUS
  <2>5. Deploys(sys)'
    BY <1>2, <2>1, <2>3, <2>4, DeploysKept DEF QuietJob
  <2>6. job.todo.kind = "switch" => job'.at = "mark"
    BY <2>2 DEF AfterSwitch
  <2>7. job.todo.kind # "switch" => job'.at = "finish"
    BY <1>1, <2>1, <2>2 DEF AfterSwitch, Kinds
  <2>8. MarkedBut(SnapshotOfStore)
    BY EnabledAre DEF MarkedBut, SnapshotOfStore, IdsOf
  <2>9. PICK snap : snap = SnapshotOfStore
    OBVIOUS
  <2>10. MarkedBut(snap)' /\ snap = job.todo.snap
    BY <2>1, <2>8, <2>9, MarkedKept DEF QuietJob
  <2>11. MarkedBut(job.todo.snap)'
    BY <2>2, <2>10 DEF MarkedBut
  <2>12. (job.todo.kind = "switch" /\ ~DryRun) => Deploys(live)'
    BY <2>2, <2>4, <2>5 DEF Deploys, Activates
  <2>13. QuietJob'
    BY <1>1, <1>4, <2>1, <2>2, <2>3, <2>6, <2>7, <2>11, <2>12 DEF QuietJob
  <2> QED
    BY <1>3, <2>3, <2>13
<1>8. ASSUME NEW id \in Ids, MarkWorkload(id) \/ MarkInput(id) \/ MarkSecret(id) PROVE QuietRequests' /\ QuietJob'
  <2>1. /\ ReadsKept /\ job.at = "mark" /\ job'.at = "mark" /\ job'.todo.kind = job.todo.kind
        /\ MarkedBut(job.todo.snap)'
    BY <1>8, MarkStep DEF QuietJob
  <2>2. UNCHANGED live /\ job # NoJob
    BY <1>8, JobFields DEF MarkWorkload, MarkInput, MarkSecret, MarkOnly
  <2>3. PICK sys : sys = live
    OBVIOUS
  <2>4. Deploys(sys) => Deploys(sys)'
    BY <1>2, <2>1, DeploysKept
  <2>5. Deploys(live) => Deploys(live)'
    BY <2>2, <2>3, <2>4 DEF Deploys
  <2>6. QuietJob'
    BY <1>1, <1>4, <2>1, <2>2, <2>5 DEF QuietJob
  <2> QED
    BY <1>3, <2>1, <2>6
<1>9. CASE MarkRefused \/ Finish \/ JobStops
  <2>1. UNCHANGED storeVars /\ job' = NoJob
    BY <1>9 DEF MarkRefused, Finish, JobStops
  <2> QED
    BY <1>3, <1>5, <2>1 DEF QuietJob, NoJob
<1>10. CASE AllMarked
  <2>1. /\ UNCHANGED <<storeVars, live>> /\ job.at = "mark" /\ job # NoJob
        /\ job' = [at |-> "finish", todo |-> job.todo] /\ job.todo.snap = NoSnapshot
    BY <1>10, JobFields DEF AllMarked, JobGoto
  <2>2. PICK snap, sys : snap = job.todo.snap /\ sys = live
    OBVIOUS
  <2>3. MarkedBut(snap)' /\ (Deploys(sys) => Deploys(sys)')
    BY <1>2, <1>5, <2>1, <2>2, MarkedKept, DeploysKept DEF QuietJob
  <2>4. MarkedBut(NoSnapshot)' /\ (Deploys(live) => Deploys(live)')
    BY <2>1, <2>2, <2>3 DEF MarkedBut, Deploys, NoSnapshot
  <2>5. QuietJob'
    BY <1>1, <1>4, <1>5, <2>1, <2>4 DEF QuietJob
  <2> QED
    BY <1>3, <1>5, <2>1, <2>5
<1>11. ~DeleteRow /\ ~DeleteFile
  BY <1>1, JobFields DEF DeleteRow, DeleteFile, DestroyTodos, Kinds
<1> QED
  BY <1>6, <1>7, <1>8, <1>9, <1>10, <1>11 DEF Job

\* The request of an apply, with no job in the slot, opens a quiet stretch.
LEMMA QuietBegins ==
  ASSUME TypeOK, OneAtATime, [Next]_vars, ~quiet, quiet'
  PROVE  QuietRequests' /\ QuietJob'
<1> USE DEF Edit, ReadOnly, histVars, MarkOnly, vars
<1>1. PICK h \in Handlers, kind \in Kinds : ApplyRequest(h, kind)
  <2>1. ~Job
    BY JobLeavesFiles
  <2>2. \A h \in Handlers : ~WorkloadStep(h)
    BY DEF WorkloadStep, WorkloadCreate, WorkloadRestore, WorkloadSave, WriteWorkloadFile,
           CreateWorkloadRow, SaveRevisionRow, WorkloadRowRefused, SetEnabled
  <2>3. \A h \in Handlers : ~SecretStep(h)
    BY ZenonT(30) DEF SecretStep, SecretCreate, SecretSave, SealSecret, SecretRow, SecretRowRefused, SecretDelete, SetMount,
           TouchOnChange
  <2>4. \A h \in Handlers : ~FlakeStep(h)
    BY DEF FlakeStep, FlakeCreate, FlakeSave, FlakeDelete, FlakeEdit
  <2>5. \A h \in Handlers : ~Abort(h)
    BY DEF Abort
  <2>6. ~UNCHANGED vars
    OBVIOUS
  <2>7. PICK h \in Handlers : ApplyStep(h)
    BY <2>1, <2>2, <2>3, <2>4, <2>5, <2>6 DEF Next, Handler
  <2> QED
    BY <2>7 DEF ApplyStep, DestroyRequest, ReadIndex, WriteIndexFile, ReadFlake, WriteFlakeFile, TakeSnapshot, Prune, Start
<1>2. /\ req'[h] = [at |-> "read_index", todo |-> [kind |-> kind, target |-> NoTarget, snap |-> NoSnapshot]]
      /\ job' = NoJob
  BY <1>1, Moves DEF ApplyRequest, hostVars
<1>3. \A g \in Handlers : g = h
  BY Moves
<1> QED
  BY <1>2, <1>3 DEF QuietRequests, QuietJob, At, IndexWritten, FlakeWritten, JobAt, NoJob

\* Every step keeps the invariant.
LEMMA QuietStep ==
  TypeOK /\ RowsAreWhole /\ OneAtATime /\ CipherInv /\ FileInv /\ QuietInv /\ [Next]_vars => QuietInv'
<1> SUFFICES ASSUME TypeOK, RowsAreWhole, OneAtATime, CipherInv, FileInv, QuietInv, [Next]_vars, quiet'
             PROVE  QuietRequests' /\ QuietJob'
  BY DEF QuietInv
<1>1. CASE ~quiet
  BY <1>1, QuietBegins
<1>2. CASE quiet
  <2>1. QuietRequests /\ QuietJob
    BY <1>2 DEF QuietInv
  <2>2. CASE UNCHANGED vars
    <3>1. ReadsKept
      BY <2>2, MarksKeepReads DEF vars, storeVars
    <3>2. QuietRequests'
      BY <2>1, <2>2, <3>1 DEF QuietRequests, ReadsKept, vars, fileVars, At, IndexWritten, FlakeWritten
    <3>3. QuietJob'
      BY <2>1, <2>2, QuietJobKept DEF vars, fileVars, hostVars, histVars
    <3> QED
      BY <3>2, <3>3
  <2> QED
    BY <1>2, <2>1, <2>2, QuietJobStep, QuietHandlerStep DEF Next
<1> QED
  BY <1>1, <1>2

\* It holds in every state.
LEMMA QuietInvariant == ASSUME OneAtATime PROVE Spec => []QuietInv
<1>1. Init => QuietInv
  BY DEF Init, QuietInv
<1>2. TypeOK /\ RowsAreWhole /\ CipherInv /\ FileInv /\ QuietInv /\ [Next]_vars => QuietInv'
  BY QuietStep
<1> QED
  BY <1>1, <1>2, RowsInvariant, CipherInvariant, FileInvariant, PTL DEF Spec

\* When the job of the last quiet apply is over, all is marked and running.
LEMMA AppliedMeans ==
  ASSUME QuietInv, Applied
  PROVE  MarkedBut(NoSnapshot) /\ Deploys(live)
  BY DEF QuietInv, QuietJob, Applied, JobAt

\* After an apply with no edit since it was asked for, the running system is that
\* of the enabled workloads at their latest revisions, each with its mark
\* (handlers_system.go:112-214).
THEOREM AppliesDeployWorkloads == ASSUME OneAtATime PROVE Spec => []ApplyDeploysWorkloads
<1>1. QuietInv => ApplyDeploysWorkloads
  BY AppliedMeans, EnabledAre DEF ApplyDeploysWorkloads, MarkedBut, Deploys, NoSnapshot, Nothing
<1> QED
  BY <1>1, QuietInvariant, PTL

\* And every secret is there with its current value, mounted in exactly the
\* enabled workloads it is assigned to, and marked (handlers_system.go:123-209).
THEOREM AppliesDeliverSecrets == ASSUME OneAtATime PROVE Spec => []ApplyDeliversSecrets
<1>1. TypeOK /\ QuietInv => ApplyDeliversSecrets
  <2> SUFFICES ASSUME TypeOK, QuietInv, Applied, NEW s \in DOMAIN secret
               PROVE  /\ DOMAIN live.secrets = DOMAIN secret
                      /\ secret[s].applied
                      /\ live.secrets[s].value = secretFile[s]
                      /\ \A n \in Names :
                           n \in live.secrets[s].mounts <=>
                             n \in DOMAIN workload /\ workload[n].enabled /\ workload[n].id \in secret[s].mounts
    BY AppliedMeans DEF ApplyDeliversSecrets, Deploys
  <2>1. live.secrets[s] = [value |-> secretFile[s], mounts |-> IndexMounts(s)] /\ DOMAIN live.secrets = DOMAIN secret
    BY AppliedMeans DEF Deploys
  <2>2. secret[s].applied
    BY AppliedMeans DEF MarkedBut, NoSnapshot
  <2>3. live.secrets[s].value = secretFile[s] /\ live.secrets[s].mounts = IndexMounts(s)
    BY <2>1
  <2> QED
    BY <2>1, <2>2, <2>3 DEF IndexMounts, Enabled
<1> QED
  BY <1>1, QuietInvariant, ApplyTyped, PTL

\* And every flake input is locked at its current reference and marked
\* (handlers_system.go:128-206).
THEOREM AppliesLockInputs == ASSUME OneAtATime PROVE Spec => []ApplyLocksInputs
<1>1. QuietInv => ApplyLocksInputs
  BY AppliedMeans DEF ApplyLocksInputs, MarkedBut, Deploys, NoSnapshot
<1> QED
  BY <1>1, QuietInvariant, PTL

-----------------------------------------------------------------------------
(***************************************************************************)
(* BadgeSound, for any names, documents and bounds, with edits at any time *)
(* between the steps of applies and of the job.                            *)
(*                                                                         *)
(* The mark is set from a snapshot taken before the job was queued, and    *)
(* compared with the latest revision when a page is shown.  What makes it  *)
(* true is that a workload which some snapshot would mark with its latest  *)
(* revision is already in the index with it, is so in the copy that is     *)
(* built, and runs so once that is switched to; and that a new revision is *)
(* in no snapshot.                                                         *)
(***************************************************************************)

\* The stages at which a request holds what it will ask of a job.
Asking == {"read_index", "write_index", "read_flake", "write_flake", "snapshot", "prune", "start"}

\* The snapshots some request or the job will still mark from.
HeldSnapshots ==
  {req[h].todo.snap : h \in {g \in Handlers : req[g].at \in Asking}}
    \union IF job = NoJob THEN {} ELSE {job.todo.snap}

\* snap will mark the latest revision of n.
Claims(snap, n) == /\ workload[n].id \in DOMAIN snap.workloads
                   /\ snap.workloads[workload[n].id] = LatestRevision(workload[n].id)

\* The workloads BadgeSound speaks of.
Plain == {n \in DOMAIN workload : n \notin torn \union reborn /\ ~SavingNow(n)}

\* What is written, and evaluated, for the latest revision.
Latest(n) == [content |-> LatestDoc(n), ports |-> LatestDoc(n)]

\* What snap remembers of a workload is one of its own revisions.
Owns(snap) ==
  \A n \in DOMAIN workload \ reborn :
    workload[n].id \in DOMAIN snap.workloads =>
      snap.workloads[workload[n].id] \in RevisionsOf(workload[n].id)

\* So do all that are held.
SnapshotsOwn == \A snap \in HeldSnapshots : Owns(snap)

\* A workload marked with its latest revision, or about to be.
Trusted(n) == AppliedRevision(n) \/ \E snap \in HeldSnapshots : Claims(snap, n)

\* The index has the latest ports of such workloads, and an apply that just
\* wrote it of all.
IndexFollows == \A n \in Plain \intersect DOMAIN index.workloads : Trusted(n) => index.workloads[n] = LatestDoc(n)

\* An index made of the tables as they are.
Fresh(i) == \A n \in DOMAIN workload \intersect DOMAIN i.workloads : i.workloads[n] = LatestDoc(n)

\* A request that goes from reading the tables to the slot holds, and wrote, one.
RequestsFollow == \A h \in Handlers : /\ At(h, "write_index") => Fresh(req[h].index)
                                      /\ IndexWritten(h) => Fresh(index)

\* So has the copy that is built, and the running system when it is marked.
StagedFollows ==
  JobAt("switch") => \A n \in Plain \intersect DOMAIN job.staged.workloads :
    AppliedRevision(n) \/ Claims(job.todo.snap, n) => job.staged.workloads[n] = Latest(n)

\* the running system, while it is being marked,
LiveFollows ==
  JobAt("mark") => \A n \in Plain \intersect DOMAIN live.workloads :
    Claims(job.todo.snap, n) => live.workloads[n] = Latest(n)

\* The inductive invariant; a dry run switches to no system.
BadgeInv == /\ SnapshotsOwn
            /\ IndexFollows
            /\ RequestsFollow
            /\ StagedFollows
            /\ LiveFollows
            /\ DryRun => live = NoSystem
            /\ BadgeSound

\* Empty tables satisfy it.
LEMMA BadgeInit == Init => BadgeInv
<1> SUFFICES ASSUME Init PROVE BadgeInv
  OBVIOUS
<1>1. DOMAIN workload = {} /\ job = NoJob /\ live = NoSystem /\ \A h \in Handlers : req[h].at = "idle"
  BY DEF Init, StoreInit, Nothing, Idle
<1> QED
  BY <1>1 DEF BadgeInv, SnapshotsOwn, Owns, IndexFollows, Plain, RequestsFollow, At, IndexWritten, StagedFollows,
     LiveFollows, JobAt, NoJob, BadgeSound
-----------------------------------------------------------------------------
(* A step that gives no workload a new revision.                           *)

\* No workload becomes plain but by a save.
LEMMA PlainShrinks ==
  ASSUME HeadsKept, torn \subseteq torn', reborn' = reborn,
         \A h \in Handlers : At(h, "save_row") => (At(h, "save_row")' /\ req'[h].name = req[h].name) \/ req[h].name \in torn'
  PROVE  Plain' \subseteq Plain
  BY DEF Plain, SavingNow, At, HeadsKept

\* Nothing that is judged by latest revisions changes,
LEMMA ClaimsKept ==
  ASSUME HeadsKept, NEW n \in DOMAIN workload', NEW snap
  PROVE  /\ Claims(snap, n)' <=> Claims(snap, n)
         /\ Latest(n)' = Latest(n)
         /\ workload'[n].applied = workload[n].applied => (AppliedRevision(n)' <=> AppliedRevision(n))
  BY DEF Claims, HeadsKept, Latest, AppliedRevision

\* snap was held, perhaps with more in it, or remembers no workload.
Within(snap) ==
  \/ DOMAIN snap.workloads = {}
  \/ \E old \in HeldSnapshots : /\ DOMAIN snap.workloads \subseteq DOMAIN old.workloads
                                /\ \A id \in DOMAIN snap.workloads : snap.workloads[id] = old.workloads[id]

\* and a snapshot that marks no more than one that is held makes no one trusted.
LEMMA WithinClaims ==
  ASSUME NEW snap, Within(snap), NEW n, Claims(snap, n)
  PROVE  Trusted(n)
  BY DEF Within, Claims, Trusted

\* So snapshots stay their own,
LEMMA SnapshotsKept ==
  ASSUME HeadsKept, reborn' = reborn, SnapshotsOwn,
         \A snap \in HeldSnapshots' : Within(snap) \/ Owns(snap)
  PROVE  SnapshotsOwn'
<1>1. \A snap \in HeldSnapshots' : Owns(snap)
  BY DEF SnapshotsOwn, Within, Owns
<1>2. ASSUME NEW snap, Owns(snap) PROVE Owns(snap)'
  BY <1>2 DEF Owns, HeadsKept
<1> QED
  BY <1>1, <1>2 DEF SnapshotsOwn

\* and the index as it should be.
LEMMA IndexKept ==
  ASSUME HeadsKept, Plain' \subseteq Plain, UNCHANGED index, IndexFollows,
         \A n \in Plain' : AppliedRevision(n)' => Trusted(n),
         \A snap \in HeldSnapshots' : Within(snap)
  PROVE  IndexFollows'
<1> SUFFICES ASSUME NEW n \in Plain', n \in DOMAIN index.workloads, Trusted(n)'
             PROVE  index.workloads[n] = LatestDoc(n)'
  BY DEF IndexFollows
<1>1. n \in DOMAIN workload'
  BY DEF Plain
<1>2. Trusted(n)
  <2>1. CASE AppliedRevision(n)'
    BY <2>1
  <2>2. CASE \E snap \in HeldSnapshots' : Claims(snap, n)'
    <3>1. PICK snap \in HeldSnapshots' : Claims(snap, n)'
      BY <2>2
    <3>2. Claims(snap, n)
      BY <1>1, <3>1, ClaimsKept
    <3> QED
      BY <3>1, <3>2, WithinClaims
  <2> QED
    BY <2>1, <2>2 DEF Trusted
<1>3. LatestDoc(n)' = LatestDoc(n)
  BY <1>1 DEF HeadsKept
<1> QED
  BY <1>2, <1>3 DEF IndexFollows

\* A snapshot that is held is within itself.
LEMMA HeldIsWithin ==
  ASSUME NEW snap \in HeldSnapshots
  PROVE  Within(snap)
  BY DEF Within

\* All of it together.
LEMMA BadgeKept ==
  ASSUME BadgeInv, HeadsKept, torn \subseteq torn', reborn' = reborn, live' = live,
         \A n \in DOMAIN workload' : workload'[n].applied = workload[n].applied,
         \A h \in Handlers : At(h, "save_row") => (At(h, "save_row")' /\ req'[h].name = req[h].name) \/ req[h].name \in torn',
         job' = job \/ job'.at = "stage",
         \A snap \in HeldSnapshots' : Within(snap) \/ Owns(snap),
         (UNCHANGED index /\ \A snap \in HeldSnapshots' : Within(snap)) \/ Fresh(index)',
         RequestsFollow'
  PROVE  BadgeInv'
<1>1. Plain' \subseteq Plain
  BY PlainShrinks
<1>2. \A n \in Plain' : /\ AppliedRevision(n)' <=> AppliedRevision(n)
                        /\ Latest(n)' = Latest(n)
                        /\ \A snap : Claims(snap, n)' <=> Claims(snap, n)
  BY ClaimsKept DEF Plain
<1>3. SnapshotsOwn'
  BY SnapshotsKept DEF BadgeInv
<1>4. IndexFollows'
  <2>1. CASE UNCHANGED index /\ \A snap \in HeldSnapshots' : Within(snap)
    <3>1. \A n \in Plain' : AppliedRevision(n)' => Trusted(n)
      BY <1>2 DEF Trusted
    <3> QED
      BY <1>1, <2>1, <3>1, IndexKept DEF BadgeInv
  <2>2. CASE Fresh(index)'
    BY <2>2 DEF Fresh, IndexFollows, Plain
  <2> QED
    BY <2>1, <2>2
<1>5. StagedFollows'
  <2> SUFFICES ASSUME JobAt("switch")', NEW n \in Plain', n \in DOMAIN job'.staged.workloads,
                      AppliedRevision(n)' \/ Claims(job.todo.snap, n)'
               PROVE  job'.staged.workloads[n] = Latest(n)'
    BY DEF StagedFollows
  <2>1. job' = job /\ JobAt("switch")
    BY DEF JobAt
  <2>2. PICK snap : snap = job.todo.snap
    OBVIOUS
  <2>3. Claims(job.todo.snap, n)' => Claims(snap, n)'
    BY <2>1, <2>2 DEF Claims
  <2>4. AppliedRevision(n) \/ Claims(job.todo.snap, n)
    BY <1>2, <2>2, <2>3
  <2> QED
    BY <1>1, <1>2, <2>1, <2>4 DEF BadgeInv, StagedFollows
<1>6. LiveFollows'
  <2> SUFFICES ASSUME JobAt("mark")', NEW n \in Plain', n \in DOMAIN live.workloads, Claims(job.todo.snap, n)'
               PROVE  live.workloads[n] = Latest(n)'
    BY DEF LiveFollows
  <2>1. job' = job /\ JobAt("mark")
    BY DEF JobAt
  <2>2. PICK snap : snap = job.todo.snap
    OBVIOUS
  <2>3. Claims(job.todo.snap, n)' => Claims(snap, n)'
    BY <2>1, <2>2 DEF Claims
  <2> QED
    BY <1>1, <1>2, <2>1, <2>2, <2>3 DEF BadgeInv, LiveFollows
<1>7. BadgeSound'
  <2> SUFFICES ASSUME NEW n \in Plain', n \in DOMAIN live.workloads, AppliedRevision(n)'
               PROVE  live.workloads[n] = Latest(n)'
    BY DEF BadgeSound, Plain, Latest
  <2> QED
    BY <1>1, <1>2 DEF BadgeInv, BadgeSound, Plain, Latest
<1> QED
  BY <1>3, <1>4, <1>5, <1>6, <1>7 DEF BadgeInv

\* With one handler, a held snapshot is its own or the job's.
LEMMA HeldMoves ==
  ASSUME TypeOK, OneAtATime, NEW h \in Handlers,
         job' = job \/ (job = NoJob /\ job'.todo.snap \in HeldSnapshots)
  PROVE  \A snap \in HeldSnapshots' :
           snap \in HeldSnapshots \/ (req'[h].at \in Asking /\ snap = req'[h].todo.snap)
<1>1. \A g \in Handlers : g = h
  BY Moves
<1> QED
  BY <1>1 DEF HeldSnapshots

\* An index stays fresh while latest revisions do.
LEMMA FreshKept ==
  ASSUME HeadsKept, NEW i
  PROVE  Fresh(i) => Fresh(i)'
  BY DEF Fresh, HeadsKept

\* What an apply remembers is own.
LEMMA SnapshotIsOwn ==
  ASSUME StoreTypeOK, RowsAreWhole
  PROVE  Owns(SnapshotOfStore)
<1>1. /\ DOMAIN SnapshotOfStore.workloads = {workload[n].id : n \in Enabled}
      /\ \A id \in DOMAIN SnapshotOfStore.workloads : SnapshotOfStore.workloads[id] = LatestRevision(id)
  BY DEF SnapshotOfStore
<1> QED
  BY <1>1, LatestIs DEF Owns

\* A step of a request that leaves the applied revisions, the host and the
\* index alone, and holds no snapshot after it.
LEMMA BadgeAway ==
  ASSUME TypeOK, OneAtATime, BadgeInv, NEW h \in Handlers, HeadsKept,
         torn \subseteq torn', UNCHANGED <<reborn, live, job, index>>,
         \A n \in DOMAIN workload' : workload'[n].applied = workload[n].applied,
         At(h, "save_row") => req[h].name \in torn',
         req'[h].at \notin Asking
  PROVE  BadgeInv'
<1>1. \A g \in Handlers : g = h
  BY Moves
<1>2. \A snap \in HeldSnapshots' : Within(snap)
  BY HeldMoves, HeldIsWithin
<1>3. RequestsFollow'
  BY <1>1 DEF RequestsFollow, At, IndexWritten, Asking
<1> QED
  BY <1>1, <1>2, <1>3, BadgeKept

\* A step of a request on its way to the slot.
LEMMA BadgeToSlot ==
  ASSUME TypeOK, OneAtATime, BadgeInv, NEW h \in Handlers, HeadsKept,
         UNCHANGED <<torn, reborn, live, job>>,
         \A n \in DOMAIN workload' : workload'[n].applied = workload[n].applied,
         req[h].at # "save_row",
         req'[h].todo.snap \in HeldSnapshots \/ DOMAIN req'[h].todo.snap.workloads = {},
         UNCHANGED index \/ Fresh(index)',
         At(h, "write_index")' => Fresh(req[h].index)',
         IndexWritten(h)' => Fresh(index)'
  PROVE  BadgeInv'
<1>1. \A g \in Handlers : g = h
  BY Moves
<1>2. \A snap \in HeldSnapshots' : Within(snap)
  BY HeldMoves, HeldIsWithin DEF Within
<1>3. RequestsFollow'
  BY <1>1 DEF RequestsFollow
<1> QED
  BY <1>1, <1>2, <1>3, BadgeKept DEF At

\* The steps of an apply.
LEMMA BadgeApplyStep ==
  ASSUME TypeOK, RowsAreWhole, OneAtATime, BadgeInv, NEW h \in Handlers, ApplyStep(h)
  PROVE  BadgeInv'
<1> USE Moves DEF At, ReadOnly, FilesOnly, RowsOnly, hostVars, histVars, fileVars, storeVars, Edit
<1>1. HeadsKept
  BY ApplyStepKeepsHeads
<1>2. \A n \in DOMAIN workload' : workload'[n].applied = workload[n].applied
  <2>1. CASE \E n \in Names : DestroyRequest(h, n)
    BY <2>1, Rows DEF DestroyRequest, SetWorkloadEnabled, UpdateById, WorkloadRows, TypeOK
  <2>2. CASE UNCHANGED workload
    BY <2>2
  <2> QED
    BY <2>1, <2>2 DEF ApplyStep, ApplyRequest, ReadIndex, WriteIndexFile, ReadFlake, WriteFlakeFile,
                      TakeSnapshot, Prune, Start
<1>3. /\ At(h, "write_index") => Fresh(req[h].index)
      /\ IndexWritten(h) => Fresh(index)
      /\ req[h].at \in Asking => req[h].todo.snap \in HeldSnapshots
  BY DEF BadgeInv, RequestsFollow, HeldSnapshots
<1>4. UNCHANGED index /\ Fresh(index) => Fresh(index)'
  <2>1. PICK i : i = index
    OBVIOUS
  <2>2. Fresh(i) => Fresh(i)'
    BY <1>1, FreshKept
  <2> QED
    BY <2>1, <2>2 DEF Fresh
<1>5. DOMAIN NoSnapshot.workloads = {}
  BY DEF NoSnapshot, Nothing
<1>6. ASSUME NEW kind \in Kinds, ApplyRequest(h, kind) PROVE BadgeInv'
  <2>1. /\ req'[h].at = "read_index" /\ req'[h].todo.snap = NoSnapshot /\ req[h].at = "idle"
        /\ UNCHANGED <<torn, reborn, live, job, index>>
    BY <1>6 DEF ApplyRequest
  <2> QED
    BY <1>1, <1>2, <1>5, <2>1, BadgeToSlot DEF IndexWritten
<1>7. ASSUME NEW n \in Names, DestroyRequest(h, n) PROVE BadgeInv'
  <2>1. /\ req'[h].at = "read_index" /\ req'[h].todo.snap = NoSnapshot /\ req[h].at = "idle"
        /\ UNCHANGED <<torn, reborn, live, job, index>>
    BY <1>7 DEF DestroyRequest
  <2> QED
    BY <1>1, <1>2, <1>5, <2>1, BadgeToSlot DEF IndexWritten
<1>8. CASE ReadIndex(h)
  <2>1. /\ req'[h].at = "write_index" /\ req'[h].todo = req[h].todo /\ req[h].at = "read_index"
        /\ req'[h].index = IndexOfStore
        /\ UNCHANGED <<storeVars, torn, reborn, live, job, index>>
    BY <1>8 DEF ReadIndex
  <2>2. Fresh(IndexOfStore)
    BY DEF Fresh, IndexOfStore
  <2>3. Fresh(req[h].index)'
    <3>1. PICK i : i = IndexOfStore
      OBVIOUS
    <3>2. Fresh(i)'
      BY <1>1, <2>2, <3>1, FreshKept
    <3> QED
      BY <2>1, <3>1, <3>2 DEF Fresh
  <2> QED
    BY <1>1, <1>2, <1>3, <2>1, <2>3, BadgeToSlot DEF IndexWritten, Asking
<1>9. CASE WriteIndexFile(h)
  <2>1. /\ req'[h].at \in {"start", "read_flake"} /\ req'[h].todo = req[h].todo /\ req[h].at = "write_index"
        /\ index' = req[h].index /\ UNCHANGED <<torn, reborn, live, job>>
    BY <1>9 DEF WriteIndexFile, WriteIndex, AfterIndex
  <2>2. Fresh(index)'
    <3>1. PICK i : i = req[h].index
      OBVIOUS
    <3>2. Fresh(i)'
      BY <1>1, <1>3, <2>1, <3>1, FreshKept
    <3> QED
      BY <2>1, <3>1, <3>2 DEF Fresh
  <2> QED
    BY <1>1, <1>2, <1>3, <2>1, <2>2, BadgeToSlot DEF Asking
<1>10. CASE ReadFlake(h) \/ WriteFlakeFile(h) \/ Prune(h)
  <2>1. /\ req'[h].at \in {"write_flake", "snapshot", "start"} /\ req'[h].todo = req[h].todo
        /\ req[h].at \in {"read_flake", "write_flake", "prune"}
        /\ UNCHANGED <<torn, reborn, live, job, index>>
    <3>1. CASE ReadFlake(h)
      BY <3>1 DEF ReadFlake
    <3>2. CASE WriteFlakeFile(h)
      BY <3>2 DEF WriteFlakeFile
    <3>3. CASE Prune(h)
      BY <3>3 DEF Prune
    <3> QED
      BY <1>10, <3>1, <3>2, <3>3
  <2>2. Fresh(index)'
    BY <1>3, <1>4, <2>1 DEF IndexWritten
  <2> QED
    BY <1>1, <1>2, <1>3, <2>1, <2>2, BadgeToSlot DEF Asking
<1>11. CASE TakeSnapshot(h)
  <2>1. /\ req'[h] = [at |-> "prune", todo |-> [req[h].todo EXCEPT !.snap = SnapshotOfStore], keep |-> DOMAIN secret]
        /\ req[h].at = "snapshot" /\ req[h].todo \in ApplyTodos
        /\ UNCHANGED <<torn, reborn, live, job, index>>
    BY <1>11, RequestFields DEF TakeSnapshot
  <2>2. req'[h].at = "prune" /\ req'[h].todo.snap = SnapshotOfStore
    BY <2>1 DEF ApplyTodos
  <2>3. Fresh(index)'
    BY <1>3, <1>4, <2>1 DEF IndexWritten
  <2>4. RequestsFollow'
    BY <2>2, <2>3 DEF RequestsFollow
  <2>5. \A snap \in HeldSnapshots' : Within(snap) \/ Owns(snap)
    BY <2>1, <2>2, HeldMoves, HeldIsWithin, SnapshotIsOwn DEF TypeOK
  <2> QED
    BY <1>1, <1>2, <2>1, <2>3, <2>4, <2>5, BadgeKept
<1>12. CASE Start(h)
  <2>1. /\ req'[h].at = "idle" /\ req[h].at = "start" /\ req[h].todo.snap \in HeldSnapshots
        /\ UNCHANGED <<torn, reborn, live, index>>
        /\ job' = job \/ (job = NoJob /\ job' = [at |-> "stage", todo |-> req[h].todo])
    BY <1>3, <1>12 DEF Start, Idle, CanStart, Asking
  <2>2. \A snap \in HeldSnapshots' : Within(snap)
    BY <2>1, HeldMoves, HeldIsWithin DEF Asking
  <2>3. RequestsFollow'
    BY <2>1 DEF RequestsFollow, IndexWritten
  <2> QED
    BY <1>1, <1>2, <2>1, <2>2, <2>3, BadgeKept
<1> QED
  BY <1>6, <1>7, <1>8, <1>9, <1>10, <1>11, <1>12 DEF ApplyStep

\* Every step of the handler but the two that write a revision.
LEMMA BadgeHandlerStep ==
  ASSUME TypeOK, RowsAreWhole, OneAtATime, BadgeInv, NEW h \in Handlers, Handler(h),
         ~CreateWorkloadRow(h), ~SaveRevisionRow(h)
  PROVE  BadgeInv'
<1> USE Moves DEF At, ReadOnly, FilesOnly, RowsOnly, hostVars, histVars, fileVars, storeVars, Edit, Asking, Idle
<1>1. ASSUME UNCHANGED <<workload, revision>> PROVE HeadsKept
  BY <1>1, SameRevisions
<1>2. CASE WorkloadStep(h)
  <2>1. CASE \E n \in Names, doc \in Docs : WorkloadCreate(h, n, doc)
    BY <1>1, <2>1, BadgeAway DEF WorkloadCreate
  <2>2. ASSUME NEW n, NEW doc, WorkloadSave(h, n, doc) PROVE BadgeInv'
    BY <1>1, <2>2, BadgeAway DEF WorkloadSave
  <2>3. CASE \E n \in Names, r \in Ids : WorkloadRestore(h, n, r)
    BY <2>2, <2>3 DEF WorkloadRestore
  <2>4. CASE WriteWorkloadFile(h)
    <3>1. req'[h] = [req[h] EXCEPT !.at = IF At(h, "create_file") THEN "create_row" ELSE "save_row"]
      BY <2>4 DEF WriteWorkloadFile, Goto
    <3>2. req'[h].at \in {"create_row", "save_row"}
      BY <2>4, <3>1, RequestFields DEF WriteWorkloadFile
    <3> QED
      BY <1>1, <2>4, <3>2, BadgeAway DEF WriteWorkloadFile
  <2>5. CASE WorkloadRowRefused(h)
    BY <1>1, <2>5, BadgeAway DEF WorkloadRowRefused
  <2>6. ASSUME NEW n \in Names, NEW b \in BOOLEAN, SetEnabled(h, n, b) PROVE BadgeInv'
    <3>1. HeadsKept
      BY <2>6, UpdateKeepsHeads DEF SetEnabled, TypeOK
    <3>2. \A m \in DOMAIN workload' : workload'[m].applied = workload[m].applied
      BY <2>6, Rows DEF SetEnabled, SetWorkloadEnabled, UpdateById, WorkloadRows, TypeOK
    <3> QED
      BY <2>6, <3>1, <3>2, BadgeAway DEF SetEnabled
  <2> QED
    BY <1>2, <2>1, <2>2, <2>3, <2>4, <2>5, <2>6 DEF WorkloadStep
<1>3. CASE SecretStep(h)
  <2>1. UNCHANGED <<workload, revision, index, live, job, torn, reborn>>
    BY <1>3 DEF SecretStep, SecretCreate, SecretSave, SealSecret, SecretRow, SecretRowRefused, SecretDelete, SetMount,
                TouchOnChange
  <2>2. req[h].at # "save_row" /\ req'[h].at \notin Asking
    BY <1>3, SecretStages
  <2> QED
    BY <1>1, <2>1, <2>2, BadgeAway
<1>4. CASE FlakeStep(h)
  <2>1. FlakeEdit(h)
    BY <1>4 DEF FlakeStep, FlakeCreate, FlakeSave, FlakeDelete
  <2> QED
    BY <1>1, <2>1, BadgeAway DEF FlakeEdit
<1>5. CASE Abort(h)
  BY <1>1, <1>5, BadgeAway DEF Abort
<1> QED
  BY <1>2, <1>3, <1>4, <1>5, BadgeApplyStep DEF Handler
-----------------------------------------------------------------------------
(* A step that gives one workload a new revision: no one has marked it, or *)
(* is about to.                                                            *)

\* Only m has a new revision, and no mark; what is held claims nothing of it.
LEMMA BadgeRevised ==
  ASSUME TypeOK, OneAtATime, BadgeInv, NEW h \in Handlers, NEW m,
         req'[h] = Idle, UNCHANGED <<job, live, index>>,
         DOMAIN workload' \ {m} = DOMAIN workload \ {m},
         torn' = torn \ {m}, At(h, "save_row") => req[h].name = m,
         \A n \in DOMAIN workload \ {m} :
           /\ n \in reborn' <=> n \in reborn
           /\ workload'[n] = workload[n]
           /\ RevisionsOf(workload[n].id)' = RevisionsOf(workload[n].id)
           /\ LatestRevision(workload[n].id)' = LatestRevision(workload[n].id)
           /\ LatestDoc(n)' = LatestDoc(n),
         ~AppliedRevision(m)',
         \A snap \in HeldSnapshots : m \notin reborn' /\ workload'[m].id \in DOMAIN snap.workloads =>
           /\ snap.workloads[workload'[m].id] \in RevisionsOf(workload[m].id)'
           /\ snap.workloads[workload'[m].id] # LatestRevision(workload[m].id)'
  PROVE  BadgeInv'
<1>1. /\ \A g \in Handlers : g = h
      /\ HeldSnapshots' \subseteq HeldSnapshots
  BY Moves, HeldMoves DEF Asking, Idle
<1>2. \A n \in Plain' \ {m} : /\ n \in Plain
                              /\ AppliedRevision(n)' <=> AppliedRevision(n)
                              /\ Latest(n)' = Latest(n)
                              /\ LatestDoc(n)' = LatestDoc(n)
                              /\ \A snap : Claims(snap, n)' <=> Claims(snap, n)
  BY <1>1 DEF Plain, SavingNow, AppliedRevision, Claims, Latest, At
<1>3. m \in Plain' => \A snap \in HeldSnapshots : ~Claims(snap, m)'
  BY DEF Claims, Plain
<1>4. SnapshotsOwn'
  BY <1>1 DEF BadgeInv, SnapshotsOwn, Owns
<1>5. IndexFollows'
  <2> SUFFICES ASSUME NEW n \in Plain', n \in DOMAIN index.workloads, Trusted(n)'
               PROVE  index.workloads[n] = LatestDoc(n)'
    BY DEF IndexFollows
  <2>1. n # m
    BY <1>1, <1>3 DEF Trusted
  <2>2. Trusted(n)
    BY <1>1, <1>2, <2>1 DEF Trusted
  <2> QED
    BY <1>2, <2>1, <2>2 DEF BadgeInv, IndexFollows
<1>6. RequestsFollow'
  BY <1>1 DEF RequestsFollow, IndexWritten, At, Idle
<1>7. job # NoJob => job.todo.snap \in HeldSnapshots
  BY DEF HeldSnapshots
<1>8. StagedFollows'
  <2> SUFFICES ASSUME JobAt("switch"), NEW n \in Plain', n \in DOMAIN job.staged.workloads,
                      AppliedRevision(n)' \/ Claims(job.todo.snap, n)'
               PROVE  job.staged.workloads[n] = Latest(n)'
    BY DEF StagedFollows, JobAt
  <2>1. PICK snap \in HeldSnapshots : snap = job.todo.snap
    BY <1>7 DEF JobAt, NoJob
  <2>2. Claims(job.todo.snap, n)' => Claims(snap, n)'
    BY <2>1 DEF Claims
  <2>3. n # m
    BY <1>3, <2>2
  <2> QED
    BY <1>2, <2>1, <2>2, <2>3 DEF BadgeInv, StagedFollows
<1>9. LiveFollows'
  <2> SUFFICES ASSUME JobAt("mark"), NEW n \in Plain', n \in DOMAIN live.workloads, Claims(job.todo.snap, n)'
               PROVE  live.workloads[n] = Latest(n)'
    BY DEF LiveFollows, JobAt
  <2>1. PICK snap \in HeldSnapshots : snap = job.todo.snap
    BY <1>7 DEF JobAt, NoJob
  <2>2. Claims(job.todo.snap, n)' => Claims(snap, n)'
    BY <2>1 DEF Claims
  <2>3. n # m
    BY <1>3, <2>2
  <2> QED
    BY <1>2, <2>1, <2>2, <2>3 DEF BadgeInv, LiveFollows
<1>10. BadgeSound'
  <2> SUFFICES ASSUME NEW n \in Plain', n \in DOMAIN live.workloads, AppliedRevision(n)'
               PROVE  live.workloads[n] = Latest(n)'
    BY DEF BadgeSound, Plain, Latest
  <2> QED
    BY <1>2 DEF BadgeInv, BadgeSound, Plain, Latest
<1> QED
  BY <1>4, <1>5, <1>6, <1>8, <1>9, <1>10 DEF BadgeInv

\* A snapshot remembers ids that are pending.
LEMMA PendingAre ==
  ASSUME NEW snap \in HeldSnapshots, TypeOK
  PROVE  DOMAIN snap.workloads \subseteq PendingIds
<1>1. \A h \in Handlers : req[h].at \in Asking => "todo" \in DOMAIN req[h]
  BY DEF TypeOK, Requests, Asking, Idle
<1> QED
  BY <1>1 DEF HeldSnapshots, PendingIds

\* The two steps that write a revision.
LEMMA BadgeRowStep ==
  ASSUME TypeOK, RowsAreWhole, OneAtATime, FileInv, BadgeInv, NEW h \in Handlers,
         CreateWorkloadRow(h) \/ SaveRevisionRow(h)
  PROVE  BadgeInv'
<1>1. StoreTypeOK
  BY DEF TypeOK
<1>2. CASE CreateWorkloadRow(h)
  <2>1. PICK m \in Names \ DOMAIN workload, doc \in Docs : m = req[h].name /\ doc = req[h].doc
    BY <1>2, RequestFields DEF CreateWorkloadRow, RowAllowed, CanCreateWorkload, At
  <2>2. /\ RoomForWorkload /\ CreateWorkload(m, doc) /\ UNCHANGED index /\ req'[h] = Idle
        /\ UNCHANGED <<job, live>> /\ torn' = torn \ {m} /\ ~At(h, "save_row")
        /\ reborn' = IF NextId(IdsOf(workload)) \in PendingIds THEN reborn \union {m} ELSE reborn \ {m}
    BY <1>2, <2>1, Moves DEF CreateWorkloadRow, RowsOnly, fileVars, Edit, hostVars, At
  <2>3. /\ DOMAIN workload' = DOMAIN workload \union {m}
        /\ workload'[m] = [id |-> NextId(IdsOf(workload)), enabled |-> FALSE, applied |-> 0]
        /\ LatestRevision(workload[m].id)' \in Ids
        /\ \A n \in DOMAIN workload : /\ workload'[n] = workload[n]
                                     /\ RevisionsOf(workload[n].id)' = RevisionsOf(workload[n].id)
                                     /\ LatestRevision(workload[n].id)' = LatestRevision(workload[n].id)
                                     /\ LatestDoc(n)' = LatestDoc(n)
    BY <1>1, <2>1, <2>2, WorkloadCreated
  <2>4. ~AppliedRevision(m)'
    BY <2>3, StoreAssumption DEF AppliedRevision, Ids
  <2>5. m \notin reborn' => \A snap \in HeldSnapshots : workload'[m].id \notin DOMAIN snap.workloads
    BY <2>2, <2>3, PendingAre
  <2> QED
    BY <2>2, <2>3, <2>4, <2>5, BadgeRevised
<1>3. CASE SaveRevisionRow(h)
  <2>1. req[h].at = "save_row" /\ req[h].doc \in Docs
    BY <1>3, RequestFields DEF SaveRevisionRow, At
  <2>2. PICK m \in DOMAIN workload, doc \in Docs : workload[m].id = req[h].id /\ doc = req[h].doc
    BY <1>3, <2>1 DEF SaveRevisionRow, RowAllowed, HasWorkload, IdsOf, At
  <2>3. m = req[h].name
    BY <2>1, <2>2 DEF FileInv, SavesStand
  <2>4. /\ RoomForRevision /\ SaveRevision(workload[m].id, doc)
        /\ UNCHANGED <<workload, reborn, job, live, index>> /\ torn' = torn \ {m} /\ req'[h] = Idle
    BY <1>3, <2>2, <2>3, Moves DEF SaveRevisionRow, RowsOnly, fileVars, Edit, hostVars
  <2>5. /\ LatestRevision(workload[m].id)' \in Ids \ DOMAIN revision
        /\ RevisionsOf(workload[m].id) \subseteq RevisionsOf(workload[m].id)'
        /\ \A n \in DOMAIN workload \ {m} : /\ RevisionsOf(workload[n].id)' = RevisionsOf(workload[n].id)
                                             /\ LatestRevision(workload[n].id)' = LatestRevision(workload[n].id)
                                             /\ LatestDoc(n)' = LatestDoc(n)
    <3>1. StoreTypeOK /\ RowsAreWhole /\ RoomForRevision /\ UNCHANGED workload /\ SaveRevision(workload[m].id, doc)
      BY <1>1, <2>4
    <3>2. RevisionsOf(workload[m].id) \subseteq RevisionsOf(workload[m].id)'
      <4>1. NextId(DOMAIN revision) \notin DOMAIN revision
        BY <1>1, IdsInRange, NextIdFresh
      <4> QED
        BY <3>1, <4>1 DEF SaveRevision, InsertRevision, With, RevisionsOf
    <3> QED
      BY <3>1, <3>2, RevisionSaved
  <2>6. ~AppliedRevision(m)'
    <3>1. workload'[m].applied \in {0} \union DOMAIN revision
      BY <2>4 DEF RowsAreWhole
    <3>2. LatestRevision(workload[m].id)' # workload'[m].applied
      BY <2>5, <3>1, StoreAssumption DEF Ids
    <3> QED
      BY <3>2 DEF AppliedRevision
  <2>7. \A snap \in HeldSnapshots : m \notin reborn /\ workload[m].id \in DOMAIN snap.workloads =>
          snap.workloads[workload[m].id] \in RevisionsOf(workload[m].id)
    BY DEF BadgeInv, SnapshotsOwn, Owns
  <2>8. RevisionsOf(workload[m].id) \subseteq DOMAIN revision
    BY DEF RevisionsOf
  <2>9. \A snap \in HeldSnapshots : m \notin reborn' /\ workload'[m].id \in DOMAIN snap.workloads =>
          /\ snap.workloads[workload'[m].id] \in RevisionsOf(workload[m].id)'
          /\ snap.workloads[workload'[m].id] # LatestRevision(workload[m].id)'
    BY <2>4, <2>5, <2>7, <2>8
  <2> QED
    BY <2>3, <2>4, <2>5, <2>6, <2>9, BadgeRevised
<1> QED
  BY <1>2, <1>3
-----------------------------------------------------------------------------
(* The job.                                                                *)

\* No mark is set or reset.
SameApplied == \A n \in DOMAIN workload' : workload'[n].applied = workload[n].applied

\* A step of the job: only a mark changes what is trusted, and the job marks what
\* was switched to.
LEMMA BadgeJobStep ==
  ASSUME TypeOK, RowsAreWhole, FileInv, BadgeInv, Job
  PROVE  BadgeInv'
<1>1. HeadsKept /\ UNCHANGED <<req, torn, reborn, index>>
  BY JobKeepsHeads, JobLeavesFiles
<1>2. Plain' \subseteq Plain
  BY <1>1, PlainShrinks DEF At
<1>3. \A n \in Plain' : n \in DOMAIN workload' /\ Latest(n)' = Latest(n) /\ \A snap : Claims(snap, n)' <=> Claims(snap, n)
  BY <1>1, ClaimsKept DEF Plain
<1>4. RequestsFollow'
  <2> SUFFICES ASSUME NEW h \in Handlers
               PROVE  /\ At(h, "write_index")' => Fresh(req[h].index)'
                      /\ IndexWritten(h)' => Fresh(index)'
    BY DEF RequestsFollow
  <2>1. PICK i, j : i = req[h].index /\ j = index
    OBVIOUS
  <2>2. (Fresh(i) => Fresh(i)') /\ (Fresh(j) => Fresh(j)')
    BY <1>1, FreshKept
  <2>3. (At(h, "write_index") => Fresh(i)) /\ (IndexWritten(h) => Fresh(j))
    BY <2>1 DEF BadgeInv, RequestsFollow
  <2>4. (Fresh(i)' => Fresh(req[h].index)') /\ (Fresh(j)' => Fresh(index)')
    BY <1>1, <2>1 DEF Fresh
  <2> QED
    BY <1>1, <2>2, <2>3, <2>4 DEF At, IndexWritten
\* What is left to show of a step that holds no snapshot but an old one.
<1>5. ASSUME \A snap \in HeldSnapshots' : Within(snap),
             \A n \in Plain' : AppliedRevision(n)' => Trusted(n),
             StagedFollows', LiveFollows', DryRun => live' = NoSystem, BadgeSound'
      PROVE  BadgeInv'
  <2>1. SnapshotsOwn'
    BY <1>1, <1>5, SnapshotsKept DEF BadgeInv
  <2>2. IndexFollows'
    BY <1>1, <1>2, <1>5, IndexKept DEF BadgeInv
  <2> QED
    BY <1>4, <1>5, <2>1, <2>2 DEF BadgeInv
<1>6. ASSUME job' = NoJob \/ job'.todo.snap = job.todo.snap, job # NoJob
      PROVE  \A snap \in HeldSnapshots' : Within(snap)
  BY <1>1, <1>6, HeldIsWithin DEF HeldSnapshots
<1>7. SameApplied => \A n \in Plain' : AppliedRevision(n)' => AppliedRevision(n)
  BY <1>1, <1>3, ClaimsKept DEF SameApplied
<1>16. SameApplied => \A n \in Plain' : AppliedRevision(n)' => Trusted(n)
  BY <1>7 DEF Trusted
<1>15. \A n \in Plain \intersect DOMAIN live.workloads : AppliedRevision(n) => live.workloads[n] = Latest(n)
  BY DEF BadgeInv, BadgeSound, Plain, Latest
<1>8. ASSUME SameApplied, UNCHANGED live
      PROVE  BadgeSound' /\ (DryRun => live' = NoSystem)
  <2>1. ASSUME NEW n \in Plain', n \in DOMAIN live.workloads, AppliedRevision(n)'
        PROVE  live.workloads[n] = Latest(n)'
    <3>1. n \in Plain /\ AppliedRevision(n)
      BY <1>2, <1>7, <1>8, <2>1
    <3> QED
      BY <1>3, <1>15, <2>1, <3>1
  <2> QED
    BY <1>8, <2>1 DEF BadgeInv, BadgeSound, Plain, Latest
<1> USE DEF JobAt
\* The job ends, or goes where nothing is asked of it.
<1>9. ASSUME job # NoJob, SameApplied, UNCHANGED live,
             job' = NoJob \/ (job'.todo.snap = job.todo.snap /\ job'.at \in {"delete_file", "finish"})
      PROVE  BadgeInv'
  <2>1. StagedFollows' /\ LiveFollows'
    BY <1>9 DEF StagedFollows, LiveFollows, NoJob
  <2>2. \A snap \in HeldSnapshots' : Within(snap)
    BY <1>6, <1>9
  <2>3. \A n \in Plain' : AppliedRevision(n)' => Trusted(n)
    BY <1>16, <1>9
  <2>4. BadgeSound' /\ (DryRun => live' = NoSystem)
    BY <1>8, <1>9
  <2> QED
    BY <1>5, <2>1, <2>2, <2>3, <2>4
<1>10. CASE MarkRefused \/ Finish \/ JobStops \/ AllMarked \/ DeleteFile
  BY <1>9, <1>10, JobFields DEF MarkRefused, Finish, JobStops, AllMarked, DeleteFile, JobGoto, storeVars, SameApplied
<1>11. CASE DeleteRow
  <2>1. SameApplied
    BY <1>11 DEF DeleteRow, DeleteWorkload, Restrict, SameApplied
  <2> QED
    BY <1>9, <1>11, <2>1, JobFields DEF DeleteRow, JobGoto
<1>12. CASE Stage
  <2>1. /\ UNCHANGED <<storeVars, live>> /\ job # NoJob
        /\ job' = NoJob \/ (job' = [at |-> "switch", todo |-> job.todo, staged |-> System] /\ Evaluates)
    BY <1>12, JobFields DEF Stage
  <2>2. StagedFollows'
    <3> SUFFICES ASSUME JobAt("switch")', NEW n \in Plain', n \in DOMAIN job'.staged.workloads,
                        AppliedRevision(n)' \/ Claims(job.todo.snap, n)'
                 PROVE  job'.staged.workloads[n] = Latest(n)'
      BY DEF StagedFollows
    <3>1. job' = [at |-> "switch", todo |-> job.todo, staged |-> System] /\ Evaluates
      BY <2>1 DEF NoJob
    <3>2. PICK snap \in HeldSnapshots : snap = job.todo.snap
      BY <2>1 DEF HeldSnapshots
    <3>3. Claims(job.todo.snap, n)' => Claims(snap, n)'
      BY <3>1, <3>2 DEF Claims
    <3>4. Trusted(n) /\ n \in Plain
      <4>1. AppliedRevision(n)' => Trusted(n)
        BY <1>16, <2>1 DEF storeVars, SameApplied
      <4>2. Claims(job.todo.snap, n)' => Trusted(n)
        BY <1>3, <3>2, <3>3 DEF Trusted
      <4> QED
        BY <1>2, <4>1, <4>2
    <3>5. job'.staged.workloads = [k \in DOMAIN index.workloads |->
                                     [content |-> workloadFile[k], ports |-> index.workloads[k]]]
      BY <3>1 DEF System
    <3>6. index.workloads[n] = LatestDoc(n) /\ n \in DOMAIN workloadFile
      BY <3>1, <3>4, <3>5 DEF BadgeInv, IndexFollows, Evaluates
    <3>7. workloadFile[n] = LatestDoc(n)
      BY <3>4, <3>6 DEF FileInv, FilesMatch, Plain
    <3> QED
      BY <1>3, <3>5, <3>6, <3>7 DEF Latest
  <2>3. LiveFollows'
    BY <2>1 DEF LiveFollows, NoJob
  <2>4. SameApplied
    BY <2>1 DEF storeVars, SameApplied
  <2>5. \A snap \in HeldSnapshots' : Within(snap)
    BY <1>6, <2>1
  <2>6. \A n \in Plain' : AppliedRevision(n)' => Trusted(n)
    BY <1>16, <2>4
  <2>7. BadgeSound' /\ (DryRun => live' = NoSystem)
    BY <1>8, <2>1, <2>4
  <2> QED
    BY <1>5, <2>2, <2>3, <2>5, <2>6, <2>7
<1>13. CASE Switch
  <2>1. /\ UNCHANGED storeVars /\ job # NoJob /\ job.at = "switch"
        /\ job' = [at |-> AfterSwitch(job.todo.kind), todo |-> job.todo]
        /\ live' = IF Activates(job.todo.kind) THEN job.staged ELSE live
    BY <1>13, JobFields DEF Switch, JobGoto
  <2>2. job.todo.kind \in {"switch", "build", "destroy"}
    BY <2>1, JobFields DEF Todos, ApplyTodos, DestroyTodos, Kinds
  <2>3. job'.at \in {"mark", "delete_row", "finish"} /\ (job'.at = "mark" => job.todo.kind = "switch")
    BY <2>1, <2>2 DEF AfterSwitch
  <2>4. SameApplied
    BY <2>1 DEF storeVars, SameApplied
  <2>11. \A n \in Plain' : AppliedRevision(n)' => AppliedRevision(n)
    BY <1>7, <2>4
  <2>12. \A n \in Plain \intersect DOMAIN job.staged.workloads :
           AppliedRevision(n) \/ Claims(job.todo.snap, n) => job.staged.workloads[n] = Latest(n)
    BY <2>1 DEF BadgeInv, StagedFollows
  <2>5. \A n \in Plain' \intersect DOMAIN job.staged.workloads :
          AppliedRevision(n)' \/ Claims(job.todo.snap, n) => job.staged.workloads[n] = Latest(n)'
    BY <1>2, <1>3, <2>11, <2>12
  <2>6. DryRun => live' = NoSystem
    BY <2>1 DEF BadgeInv, Activates
  <2>7. LiveFollows'
    <3> SUFFICES ASSUME job'.at = "mark", NEW n \in Plain', n \in DOMAIN live'.workloads, Claims(job.todo.snap, n)'
                 PROVE  live'.workloads[n] = Latest(n)'
      BY DEF LiveFollows
    <3>1. live' = job.staged
      BY <2>1, <2>3, <2>6 DEF Activates, NoSystem, Nothing
    <3>2. PICK snap : snap = job.todo.snap
      OBVIOUS
    <3>3. Claims(snap, n)'
      BY <2>1, <3>2 DEF Claims
    <3> QED
      BY <1>3, <2>5, <3>1, <3>2, <3>3
  <2>8. BadgeSound'
    <3>1. ASSUME NEW n \in Plain', n \in DOMAIN live'.workloads, AppliedRevision(n)'
          PROVE  live'.workloads[n] = Latest(n)'
      <4>1. CASE live' = job.staged
        BY <2>5, <3>1, <4>1
      <4>2. CASE live' = live
        BY <1>2, <1>3, <1>15, <2>11, <3>1, <4>2
      <4> QED
        BY <2>1, <4>1, <4>2
    <3> QED
      BY <3>1 DEF BadgeSound, Plain, Latest
  <2>9. StagedFollows'
    BY <2>3 DEF StagedFollows
  <2>10. \A snap \in HeldSnapshots' : Within(snap)
    BY <1>6, <2>1
  <2>13. \A n \in Plain' : AppliedRevision(n)' => Trusted(n)
    BY <2>11 DEF Trusted
  <2> QED
    BY <1>5, <2>6, <2>7, <2>8, <2>9, <2>10, <2>13
<1>14. ASSUME NEW id \in Ids, MarkWorkload(id) \/ MarkInput(id) \/ MarkSecret(id) PROVE BadgeInv'
  <2>1. /\ job.at = "mark" /\ job'.at = "mark" /\ job # NoJob /\ UNCHANGED live
        /\ job.todo \in ApplyTodos
    BY <1>14, MarkStep, JobFields DEF MarkWorkload, MarkInput, MarkSecret, MarkOnly
  <2>2. job \in [at : {"mark"}, todo : ApplyTodos]
    BY <2>1 DEF TypeOK, Jobs, NoJob
  <2> DEFINE snap == job.todo.snap
  <2>3. \/ job'.todo.snap.workloads = snap.workloads
        \/ job'.todo.snap.workloads = Restrict(snap.workloads, DOMAIN snap.workloads \ {id})
    <3>1. PICK s : /\ job' = [job EXCEPT !.todo.snap = s]
                   /\ \/ s = [snap EXCEPT !.workloads = Restrict(@, DOMAIN @ \ {id})]
                      \/ s = [snap EXCEPT !.inputs = @ \ {id}]
                      \/ s = [snap EXCEPT !.secrets = @ \ {id}]
      BY <1>14 DEF MarkWorkload, MarkInput, MarkSecret, Marked
    <3> QED
      BY <2>2, <3>1 DEF ApplyTodos, Snapshots
  <2>4. /\ DOMAIN job'.todo.snap.workloads \subseteq DOMAIN snap.workloads
        /\ \A k \in DOMAIN job'.todo.snap.workloads : job'.todo.snap.workloads[k] = snap.workloads[k]
    BY <2>3 DEF Restrict
  <2>5. \A s \in HeldSnapshots' : Within(s)
    BY <1>1, <2>1, <2>4, HeldIsWithin DEF HeldSnapshots, Within
  <2>6. snap \in HeldSnapshots
    BY <2>1 DEF HeldSnapshots
  <2>7. \A n \in DOMAIN workload' :
          \/ workload'[n].applied = workload[n].applied
          \/ /\ workload[n].id \in DOMAIN snap.workloads
             /\ workload'[n].applied = snap.workloads[workload[n].id]
    <3>1. CASE MarkWorkload(id)
      BY <3>1, Rows DEF MarkWorkload, MarkApplied, RevisionToMark, UpdateById, WorkloadRows, TypeOK
    <3>2. CASE MarkInput(id) \/ MarkSecret(id)
      BY <3>2 DEF MarkInput, MarkSecret
    <3> QED
      BY <1>14, <3>1, <3>2
  <2>8. \A n \in Plain' : AppliedRevision(n)' => AppliedRevision(n) \/ Claims(snap, n)
    <3> SUFFICES ASSUME NEW n \in Plain', AppliedRevision(n)' PROVE AppliedRevision(n) \/ Claims(snap, n)
      OBVIOUS
    <3>1. workload'[n].applied = LatestRevision(workload[n].id)
      BY <1>1, <1>3 DEF AppliedRevision, HeadsKept
    <3> QED
      BY <1>3, <2>7, <3>1 DEF AppliedRevision, Claims
  <2>9. BadgeSound'
    <3>1. ASSUME NEW n \in Plain', n \in DOMAIN live.workloads, AppliedRevision(n)'
          PROVE  live.workloads[n] = Latest(n)'
      <4>1. CASE AppliedRevision(n)
        BY <1>2, <1>3, <1>15, <3>1, <4>1
      <4>2. CASE Claims(snap, n)
        BY <1>2, <1>3, <2>1, <3>1, <4>2 DEF BadgeInv, LiveFollows
      <4> QED
        BY <2>8, <3>1, <4>1, <4>2
    <3> QED
      BY <2>1, <3>1 DEF BadgeSound, Plain, Latest
  <2>10. LiveFollows'
    <3> SUFFICES ASSUME NEW n \in Plain', n \in DOMAIN live.workloads, Claims(job.todo.snap, n)'
                 PROVE  live.workloads[n] = Latest(n)'
      BY <2>1 DEF LiveFollows
    <3>1. PICK s : s = job'.todo.snap
      OBVIOUS
    <3>2. Claims(s, n)
      BY <1>3, <3>1 DEF Claims
    <3>3. Claims(snap, n)
      BY <2>4, <3>1, <3>2 DEF Claims
    <3> QED
      BY <1>2, <1>3, <2>1, <3>3 DEF BadgeInv, LiveFollows
  <2>11. StagedFollows' /\ (DryRun => live' = NoSystem)
    BY <2>1 DEF StagedFollows, BadgeInv
  <2>12. \A n \in Plain' : AppliedRevision(n)' => Trusted(n)
    BY <2>6, <2>8 DEF Trusted
  <2> QED
    BY <1>5, <2>5, <2>9, <2>10, <2>11, <2>12
<1> QED
  BY <1>10, <1>11, <1>12, <1>13, <1>14 DEF Job

\* Every step keeps the invariant.
LEMMA BadgeStep ==
  TypeOK /\ RowsAreWhole /\ OneAtATime /\ FileInv /\ BadgeInv /\ [Next]_vars => BadgeInv'
<1> SUFFICES ASSUME TypeOK, RowsAreWhole, OneAtATime, FileInv, BadgeInv, [Next]_vars PROVE BadgeInv'
  OBVIOUS
<1>1. CASE UNCHANGED vars
  <2>1. HeadsKept
    BY <1>1, SameRevisions DEF vars, storeVars
  <2>2. HeldSnapshots' = HeldSnapshots
    BY <1>1 DEF vars, hostVars, HeldSnapshots
  <2>3. RequestsFollow'
    BY <1>1, <2>1 DEF vars, fileVars, BadgeInv, RequestsFollow, At, IndexWritten, Fresh, HeadsKept
  <2> QED
    BY <1>1, <2>1, <2>2, <2>3, BadgeKept, HeldIsWithin DEF vars, storeVars, fileVars, hostVars, histVars, At
<1> QED
  BY <1>1, BadgeJobStep, BadgeHandlerStep, BadgeRowStep DEF Next

\* A workload that the pages show as applied runs its latest revision, with its
\* latest ports, whatever edits fell between the applies; a save that died between
\* its two writes, and one under way, excepted (handlers_system.go:112-214).
THEOREM BadgeIsSound == ASSUME OneAtATime PROVE Spec => []BadgeSound
<1>1. TypeOK /\ RowsAreWhole /\ FileInv /\ BadgeInv /\ [Next]_vars => BadgeInv'
  BY BadgeStep
<1>2. BadgeInv => BadgeSound
  BY DEF BadgeInv
<1> QED
  BY <1>1, <1>2, BadgeInit, RowsInvariant, FileInvariant, PTL DEF Spec
=============================================================================
