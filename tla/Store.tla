------------------------------- MODULE Store -------------------------------
(***************************************************************************)
(* internal/store: the tables the apply path reads and writes, and its SQL *)
(* statements.  The store has one connection, so a statement, or a         *)
(* transaction, is one atomic step; each is an operator here that says     *)
(* what it does to its tables and leaves the other tables to the caller.   *)
(*                                                                         *)
(* A table is a function from the names of its rows (a UNIQUE column) to   *)
(* the rows.  Ids are INTEGER PRIMARY KEY without AUTOINCREMENT: an insert *)
(* takes the largest id in use plus one, so the id of a deleted row can be *)
(* handed out again.  The timestamps updated_at and applied_at are kept as *)
(* what the badges derive from them: applied says applied_at >= updated_at.*)
(***************************************************************************)
EXTENDS Naturals, FiniteSetsExt, Functions

CONSTANTS Names,         \* workload names
          SecretNames,   \* secret names
          InputNames,    \* flake input names
          Docs,          \* contents of a workload.nix, with the host ports saved with it
          Refs,          \* flake references
          MaxId          \* bound: ids of the rows of a table

ASSUME StoreAssumption == MaxId \in Nat \ {0}

VARIABLES workload,      \* table workloads: id, enabled, applied_revision_id (0: NULL)
          revision,      \* table revisions, by id: workload_id, content and ports
          secret,        \* tables secrets and secret_mounts: id, applied, mounts
          input          \* table flake_inputs: id, url, applied

storeVars == <<workload, revision, secret, input>>

\* Functions defined on some of S, with values in T.
Partial(S, T) == UNION {[D -> T] : D \in SUBSET S}

Ids == 1..MaxId

WorkloadRows == [id : Ids, enabled : BOOLEAN, applied : {0} \union Ids]
RevisionRows == [owner : Ids, doc : Docs]
SecretRows == [id : Ids, applied : BOOLEAN, mounts : SUBSET Ids]
InputRows == [id : Ids, url : Refs, applied : BOOLEAN]

StoreTypeOK ==
  /\ workload \in Partial(Names, WorkloadRows)
  /\ revision \in Partial(Ids, RevisionRows)
  /\ secret \in Partial(SecretNames, SecretRows)
  /\ input \in Partial(InputNames, InputRows)

\* An empty table, directory or section of a file.
Nothing == [k \in {} |-> k]

\* table with this row under k, in place of what was there.
With(table, k, row) == [x \in DOMAIN table \union {k} |-> IF x = k THEN row ELSE table[x]]

StoreInit == /\ workload = Nothing
             /\ revision = Nothing
             /\ secret = Nothing
             /\ input = Nothing

IdsOf(table) == {table[n].id : n \in DOMAIN table}
LargestId(ids) == Max({0} \union ids)     \* broken form of the next
NextId(ids) == 1 + Max({0} \union ids)

\* table with upd(row) in place of the row that has this id, if there is one.
UpdateById(table, id, upd(_)) ==
  [n \in DOMAIN table |-> IF table[n].id = id THEN upd(table[n]) ELSE table[n]]

RevisionsOf(id) == {r \in DOMAIN revision : revision[r].owner = id}

\* store.LatestRevision: the largest id, not the latest time.
LatestRevision(id) == Max(RevisionsOf(id))
LatestDoc(n) == revision[LatestRevision(workload[n].id)].doc

Enabled == {n \in DOMAIN workload : workload[n].enabled}
-----------------------------------------------------------------------------
(* store.go.                                                               *)

CanCreateWorkload(n) == n \notin DOMAIN workload
HasWorkload(id) == id \in IdsOf(workload)

\* The bound: an insert into a table with these ids finds one within it.
RoomFor(ids) == NextId(ids) <= MaxId
RoomForRevision == RoomFor(DOMAIN revision)
RoomForWorkload == RoomFor(IdsOf(workload)) /\ RoomForRevision

\* INSERT INTO revisions.
InsertRevision(id, doc) ==
  revision' = With(revision, NextId(DOMAIN revision), [owner |-> id, doc |-> doc])

\* One transaction: the row and its revision 'created'.  A name in use fails.
CreateWorkload(n, doc) ==
  LET id == NextId(IdsOf(workload))
  IN  /\ workload' = With(workload, n, [id |-> id, enabled |-> FALSE, applied |-> 0])
      /\ InsertRevision(id, doc)

SetWorkloadEnabled(id, b) ==
  workload' = UpdateById(workload, id, LAMBDA row : [row EXCEPT !.enabled = b])

\* Broken form of the next: mounts into the workload stay.
DeleteWorkloadOnly(id) ==
  /\ workload' = Restrict(workload, {n \in DOMAIN workload : workload[n].id # id})
  /\ revision' = Restrict(revision, DOMAIN revision \ RevisionsOf(id))
  /\ UNCHANGED secret

\* applied_revision_id of another workload refers to a revision: no cascade.
CanDeleteWorkload(id) ==
  \A n \in DOMAIN workload : workload[n].id # id => workload[n].applied \notin RevisionsOf(id)

\* The row, and by cascade its revisions and the mounts of secrets into it.
DeleteWorkload(id) ==
  /\ workload' = Restrict(workload, {n \in DOMAIN workload : workload[n].id # id})
  /\ revision' = Restrict(revision, DOMAIN revision \ RevisionsOf(id))
  /\ secret' = [s \in DOMAIN secret |-> [secret[s] EXCEPT !.mounts = @ \ {id}]]

SaveRevision(id, doc) == InsertRevision(id, doc)

\* A workload that is gone is an UPDATE of no row; applied_revision_id must
\* name a revision that is there, whoever owns it.
CanMark(id, r) == HasWorkload(id) => r \in DOMAIN revision
MarkApplied(id, r) ==
  workload' = UpdateById(workload, id, LAMBDA row : [row EXCEPT !.applied = r])
-----------------------------------------------------------------------------
(* secrets.go.  A mount into a workload that is gone breaks the foreign    *)
(* key, and the transaction with it.                                       *)

MountsExist(mounts) == mounts \subseteq IdsOf(workload)

CreateSecret(s, mounts) ==
  secret' = With(secret, s, [id |-> NextId(IdsOf(secret)), applied |-> FALSE, mounts |-> mounts])

UpdateSecret(id, mounts) ==
  secret' = UpdateById(secret, id, LAMBDA row : [row EXCEPT !.mounts = mounts, !.applied = FALSE])

AddSecretMount(id, wid) ==
  secret' = UpdateById(secret, id, LAMBDA row : [row EXCEPT !.mounts = @ \union {wid}])

RemoveSecretMount(id, wid) ==
  secret' = UpdateById(secret, id, LAMBDA row : [row EXCEPT !.mounts = @ \ {wid}])

\* updated_at = now, and applied_at = now: the badge compares the two.
TouchSecret(id) ==
  secret' = UpdateById(secret, id, LAMBDA row : [row EXCEPT !.applied = FALSE])

MarkSecretApplied(id) ==
  secret' = UpdateById(secret, id, LAMBDA row : [row EXCEPT !.applied = TRUE])

DeleteSecret(id) == secret' = Restrict(secret, {s \in DOMAIN secret : secret[s].id # id})
-----------------------------------------------------------------------------
(* flakes.go.                                                              *)

CreateFlakeInput(i, url) ==
  input' = With(input, i, [id |-> NextId(IdsOf(input)), url |-> url, applied |-> FALSE])

UpdateFlakeInput(id, url) ==
  input' = UpdateById(input, id, LAMBDA row : [row EXCEPT !.url = url, !.applied = FALSE])

MarkFlakeInputApplied(id) ==
  input' = UpdateById(input, id, LAMBDA row : [row EXCEPT !.applied = TRUE])

DeleteFlakeInput(id) == input' = Restrict(input, {i \in DOMAIN input : input[i].id # id})
-----------------------------------------------------------------------------
\* The tables stay whole under deletions and reused ids: every workload has a
\* revision (without one, regenerateIndex fails and no apply works any more),
\* revisions and mounts belong to workloads that are there, applied names a
\* revision that is there, and no two rows share an id (store.go:98-232).
RowsAreWhole ==
  /\ \A n \in DOMAIN workload : RevisionsOf(workload[n].id) # {}
  /\ \A n \in DOMAIN workload : workload[n].applied \in {0} \union DOMAIN revision
  /\ \A r \in DOMAIN revision : revision[r].owner \in IdsOf(workload)
  /\ \A s \in DOMAIN secret : secret[s].mounts \subseteq IdsOf(workload)
  /\ \A m, n \in DOMAIN workload : workload[m].id = workload[n].id => m = n
  /\ \A s, t \in DOMAIN secret : secret[s].id = secret[t].id => s = t
  /\ \A i, j \in DOMAIN input : input[i].id = input[j].id => i = j
=============================================================================
