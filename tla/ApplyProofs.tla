---------------------------- MODULE ApplyProofs -----------------------------
(***************************************************************************)
(* The store and the handlers around it: types, whole tables and sealed    *)
(* secrets, for any names, documents, values and bounds.                   *)
(*                                                                         *)
(* A step of a handler or of the job is at most one statement of the store *)
(* (StepIsStatement), so what the tables promise is proved once for all    *)
(* statements and holds for any number of concurrent handlers.  The        *)
(* properties that relate tables and files need that no other request      *)
(* comes between the two: OneAtATime.                                      *)
(***************************************************************************)
EXTENDS Apply, InductionLemmas, TLAPS

-----------------------------------------------------------------------------
(* The operators of the store.                                             *)

\* A set of ids has a largest member, which is what Max chooses.
LEMMA LargestOf ==
  ASSUME NEW T, T \subseteq {0} \union Ids, T # {}
  PROVE  Max(T) \in T /\ \A y \in T : Max(T) >= y
<1> DEFINE G == {MaxId - y : y \in T}
<1>1. \A y \in T : y \in Nat /\ MaxId - y \in Nat
  BY StoreAssumption DEF Ids
<1>2. G \subseteq Nat
  BY <1>1
<1>3. G # {}
  OBVIOUS
<1>4. PICK k \in G : \A z \in G : k <= z
  BY <1>2, <1>3, Smallest, Zenon
<1>5. PICK x \in T : k = MaxId - x
  BY <1>4
<1>6. \A y \in T : MaxId - x <= MaxId - y
  BY <1>4, <1>5, Zenon
<1>7. \A y \in T : x >= y
  BY <1>1, <1>6, StoreAssumption
<1> QED
  BY <1>7 DEF Max

\* NextId of a table is larger than each of its ids, so no row has it.
LEMMA NextIdFresh ==
  ASSUME NEW T \in SUBSET Ids
  PROVE  /\ NextId(T) \in Nat \ {0}
         /\ \A i \in T : i < NextId(T)
         /\ NextId(T) \notin T
         /\ RoomFor(T) => NextId(T) \in Ids
<1>1. Max({0} \union T) \in {0} \union T /\ \A y \in {0} \union T : Max({0} \union T) >= y
  BY LargestOf
<1>2. {0} \union T \subseteq Nat
  BY StoreAssumption DEF Ids
<1>3. Max({0} \union T) \in Nat
  BY <1>1, <1>2, Zenon
<1> QED
  BY <1>1, <1>2, <1>3, StoreAssumption DEF NextId, RoomFor, Ids

\* The partial functions from S to T are the functions on a part of S.
LEMMA PartialFunctions ==
  ASSUME NEW S, NEW T, NEW f
  PROVE  f \in Partial(S, T) <=> /\ f = [x \in DOMAIN f |-> f[x]]
                                 /\ DOMAIN f \subseteq S
                                 /\ \A x \in DOMAIN f : f[x] \in T
<1>1. ASSUME f \in Partial(S, T)
      PROVE  f = [x \in DOMAIN f |-> f[x]] /\ DOMAIN f \subseteq S /\ \A x \in DOMAIN f : f[x] \in T
  BY <1>1 DEF Partial
<1>2. ASSUME f = [x \in DOMAIN f |-> f[x]], DOMAIN f \subseteq S, \A x \in DOMAIN f : f[x] \in T
      PROVE  f \in Partial(S, T)
  <2>1. f \in [DOMAIN f -> T]
    BY <1>2
  <2> QED
    BY <1>2, <2>1 DEF Partial
<1> QED
  BY <1>1, <1>2

\* INSERT: one row more, or another one in its place.
LEMMA WithPartial ==
  ASSUME NEW S, NEW T, NEW f \in Partial(S, T), NEW x \in S, NEW v \in T
  PROVE  With(f, x, v) \in Partial(S, T)
<1>1. /\ DOMAIN With(f, x, v) = DOMAIN f \union {x}
      /\ With(f, x, v) = [y \in DOMAIN With(f, x, v) |-> With(f, x, v)[y]]
      /\ \A y \in DOMAIN With(f, x, v) : With(f, x, v)[y] = IF y = x THEN v ELSE f[y]
  BY DEF With
<1>2. DOMAIN f \subseteq S /\ \A y \in DOMAIN f : f[y] \in T
  BY PartialFunctions
<1> QED
  BY <1>1, <1>2, PartialFunctions

\* DELETE: fewer rows.
LEMMA RestrictPartial ==
  ASSUME NEW S, NEW T, NEW f \in Partial(S, T), NEW D \in SUBSET DOMAIN f
  PROVE  Restrict(f, D) \in Partial(S, T)
<1>1. DOMAIN f \subseteq S /\ \A y \in DOMAIN f : f[y] \in T
  BY PartialFunctions
<1>2. /\ DOMAIN Restrict(f, D) = D
      /\ Restrict(f, D) = [y \in DOMAIN Restrict(f, D) |-> Restrict(f, D)[y]]
      /\ \A y \in D : Restrict(f, D)[y] = f[y]
  BY DEF Restrict
<1> QED
  BY <1>1, <1>2, PartialFunctions

\* An empty table.
LEMMA NothingIsPartial ==
  ASSUME NEW S, NEW T
  PROVE  DOMAIN Nothing = {} /\ Nothing \in Partial(S, T)
<1>1. DOMAIN Nothing = {} /\ Nothing = [k \in DOMAIN Nothing |-> Nothing[k]]
  BY DEF Nothing
<1> QED
  BY <1>1, PartialFunctions

\* UPDATE: the same rows by name, each with a value of the type.
LEMMA UpdatePartial ==
  ASSUME NEW S, NEW T, NEW f \in Partial(S, T), NEW g \in [DOMAIN f -> T]
  PROVE  g \in Partial(S, T)
<1>1. DOMAIN f \subseteq S
  BY PartialFunctions
<1> QED
  BY <1>1 DEF Partial

\* What the four tables hold.
LEMMA Rows ==
  ASSUME StoreTypeOK
  PROVE  /\ DOMAIN workload \subseteq Names /\ \A n \in DOMAIN workload : workload[n] \in WorkloadRows
         /\ DOMAIN revision \subseteq Ids /\ \A r \in DOMAIN revision : revision[r] \in RevisionRows
         /\ DOMAIN secret \subseteq SecretNames /\ \A s \in DOMAIN secret : secret[s] \in SecretRows
         /\ DOMAIN input \subseteq InputNames /\ \A i \in DOMAIN input : input[i] \in InputRows
  BY PartialFunctions DEF StoreTypeOK

-----------------------------------------------------------------------------
\* What one statement, or transaction, does to the tables.
WorkloadStatement ==
  /\ \/ \E n \in Names, doc \in Docs : CanCreateWorkload(n) /\ RoomForWorkload /\ CreateWorkload(n, doc)
     \/ \E id \in Ids, doc \in Docs : HasWorkload(id) /\ RoomForRevision /\ SaveRevision(id, doc) /\ UNCHANGED workload
     \/ \E id \in Ids, b \in BOOLEAN : SetWorkloadEnabled(id, b) /\ UNCHANGED revision
     \/ \E id \in Ids, r \in Ids : CanMark(id, r) /\ MarkApplied(id, r) /\ UNCHANGED revision
  /\ UNCHANGED <<secret, input>>

\* DELETE of a workload, with the rows that cascade.
DeleteStatement ==
  /\ \E id \in Ids : CanDeleteWorkload(id) /\ DeleteWorkload(id)
  /\ UNCHANGED input

\* Statements about secrets and their mounts.
SecretStatement ==
  /\ \/ \E s \in SecretNames, mounts \in SUBSET Ids :
          s \notin DOMAIN secret /\ RoomFor(IdsOf(secret)) /\ MountsExist(mounts) /\ CreateSecret(s, mounts)
     \/ \E id \in Ids, mounts \in SUBSET Ids : MountsExist(mounts) /\ UpdateSecret(id, mounts)
     \/ \E id, wid \in Ids : HasWorkload(wid) /\ AddSecretMount(id, wid)
     \/ \E id, wid \in Ids : RemoveSecretMount(id, wid)
     \/ \E id \in Ids : TouchSecret(id) \/ MarkSecretApplied(id) \/ DeleteSecret(id)
  /\ UNCHANGED <<workload, revision, input>>

\* Statements about flake inputs.
InputStatement ==
  /\ \/ \E i \in InputNames, url \in Refs :
          i \notin DOMAIN input /\ RoomFor(IdsOf(input)) /\ CreateFlakeInput(i, url)
     \/ \E id \in Ids, url \in Refs : UpdateFlakeInput(id, url)
     \/ \E id \in Ids : MarkFlakeInputApplied(id) \/ DeleteFlakeInput(id)
  /\ UNCHANGED <<workload, revision, secret>>

\* Any statement.
Statement == WorkloadStatement \/ DeleteStatement \/ SecretStatement \/ InputStatement

\* The ids of every table are within the bound.
LEMMA IdsInRange ==
  ASSUME StoreTypeOK
  PROVE  /\ IdsOf(workload) \in SUBSET Ids
         /\ IdsOf(secret) \in SUBSET Ids
         /\ IdsOf(input) \in SUBSET Ids
         /\ DOMAIN revision \in SUBSET Ids
  BY Rows DEF IdsOf, WorkloadRows, SecretRows, InputRows

\* A new row of a table gets an id of its own, within the bound.
LEMMA InsertKeepsTypes ==
  ASSUME StoreTypeOK
  PROVE  /\ \A n \in Names, doc \in Docs : RoomForWorkload /\ CreateWorkload(n, doc) =>
              /\ workload' \in Partial(Names, WorkloadRows)
              /\ revision' \in Partial(Ids, RevisionRows)
         /\ \A id \in Ids, doc \in Docs : RoomForRevision /\ InsertRevision(id, doc) =>
              revision' \in Partial(Ids, RevisionRows)
         /\ \A s \in SecretNames, mounts \in SUBSET Ids : RoomFor(IdsOf(secret)) /\ CreateSecret(s, mounts) =>
              secret' \in Partial(SecretNames, SecretRows)
         /\ \A i \in InputNames, url \in Refs : RoomFor(IdsOf(input)) /\ CreateFlakeInput(i, url) =>
              input' \in Partial(InputNames, InputRows)
<1>1. ASSUME NEW id \in Ids, NEW doc \in Docs, RoomForRevision, InsertRevision(id, doc)
      PROVE  revision' \in Partial(Ids, RevisionRows)
  <2>1. NextId(DOMAIN revision) \in Ids /\ [owner |-> id, doc |-> doc] \in RevisionRows
    BY <1>1, IdsInRange, NextIdFresh DEF RoomForRevision, RevisionRows
  <2> QED
    BY <1>1, <2>1, WithPartial DEF InsertRevision, StoreTypeOK
<1>2. ASSUME NEW n \in Names, NEW doc \in Docs, RoomForWorkload, CreateWorkload(n, doc)
      PROVE  workload' \in Partial(Names, WorkloadRows) /\ revision' \in Partial(Ids, RevisionRows)
  <2> DEFINE id == NextId(IdsOf(workload))
  <2>1. id \in Ids
    BY <1>2, IdsInRange, NextIdFresh DEF RoomForWorkload
  <2>2. [id |-> id, enabled |-> FALSE, applied |-> 0] \in WorkloadRows
    BY <2>1 DEF WorkloadRows
  <2>3. workload' \in Partial(Names, WorkloadRows)
    BY <1>2, <2>2, WithPartial DEF CreateWorkload, StoreTypeOK
  <2> QED
    BY <1>1, <1>2, <2>1, <2>3 DEF CreateWorkload, RoomForWorkload
<1>3. ASSUME NEW s \in SecretNames, NEW mounts \in SUBSET Ids, RoomFor(IdsOf(secret)), CreateSecret(s, mounts)
      PROVE  secret' \in Partial(SecretNames, SecretRows)
  <2>1. [id |-> NextId(IdsOf(secret)), applied |-> FALSE, mounts |-> mounts] \in SecretRows
    BY <1>3, IdsInRange, NextIdFresh DEF SecretRows
  <2> QED
    BY <1>3, <2>1, WithPartial DEF CreateSecret, StoreTypeOK
<1>4. ASSUME NEW i \in InputNames, NEW url \in Refs, RoomFor(IdsOf(input)), CreateFlakeInput(i, url)
      PROVE  input' \in Partial(InputNames, InputRows)
  <2>1. [id |-> NextId(IdsOf(input)), url |-> url, applied |-> FALSE] \in InputRows
    BY <1>4, IdsInRange, NextIdFresh DEF InputRows
  <2> QED
    BY <1>4, <2>1, WithPartial DEF CreateFlakeInput, StoreTypeOK
<1> QED
  BY <1>1, <1>2, <1>3, <1>4

\* So do the updates and deletions, whichever rows they reach.
LEMMA UpdateKeepsTypes ==
  ASSUME StoreTypeOK
  PROVE  /\ \A id \in Ids, b \in BOOLEAN : SetWorkloadEnabled(id, b) => workload' \in Partial(Names, WorkloadRows)
         /\ \A id, r \in Ids : MarkApplied(id, r) => workload' \in Partial(Names, WorkloadRows)
         /\ \A id \in Ids, mounts \in SUBSET Ids : UpdateSecret(id, mounts) => secret' \in Partial(SecretNames, SecretRows)
         /\ \A id, wid \in Ids : AddSecretMount(id, wid) \/ RemoveSecretMount(id, wid)
              => secret' \in Partial(SecretNames, SecretRows)
         /\ \A id \in Ids : TouchSecret(id) \/ MarkSecretApplied(id) \/ DeleteSecret(id)
              => secret' \in Partial(SecretNames, SecretRows)
         /\ \A id \in Ids, url \in Refs : UpdateFlakeInput(id, url) => input' \in Partial(InputNames, InputRows)
         /\ \A id \in Ids : MarkFlakeInputApplied(id) \/ DeleteFlakeInput(id)
              => input' \in Partial(InputNames, InputRows)
         /\ \A id \in Ids : DeleteWorkload(id) => /\ workload' \in Partial(Names, WorkloadRows)
                                               /\ revision' \in Partial(Ids, RevisionRows)
                                               /\ secret' \in Partial(SecretNames, SecretRows)
<1> USE Rows DEF UpdateById
<1>1. ASSUME NEW id \in Ids, NEW b \in BOOLEAN, SetWorkloadEnabled(id, b)
      PROVE  workload' \in Partial(Names, WorkloadRows)
  <2>1. workload' \in [DOMAIN workload -> WorkloadRows]
    BY <1>1 DEF SetWorkloadEnabled, WorkloadRows
  <2> QED
    BY <2>1, UpdatePartial DEF StoreTypeOK
<1>2. ASSUME NEW id \in Ids, NEW r \in Ids, MarkApplied(id, r)
      PROVE  workload' \in Partial(Names, WorkloadRows)
  <2>1. workload' \in [DOMAIN workload -> WorkloadRows]
    BY <1>2 DEF MarkApplied, WorkloadRows
  <2> QED
    BY <2>1, UpdatePartial DEF StoreTypeOK
<1>3. ASSUME secret' \in [DOMAIN secret -> SecretRows]
      PROVE  secret' \in Partial(SecretNames, SecretRows)
  BY <1>3, UpdatePartial DEF StoreTypeOK
<1>7. ASSUME NEW id \in Ids, NEW mounts \in SUBSET Ids, UpdateSecret(id, mounts)
      PROVE  secret' \in [DOMAIN secret -> SecretRows]
  BY <1>7 DEF UpdateSecret, SecretRows
<1>8. ASSUME NEW id \in Ids, NEW wid \in Ids, AddSecretMount(id, wid) \/ RemoveSecretMount(id, wid)
      PROVE  secret' \in [DOMAIN secret -> SecretRows]
  BY <1>8 DEF AddSecretMount, RemoveSecretMount, SecretRows
<1>9. ASSUME NEW id \in Ids, TouchSecret(id) \/ MarkSecretApplied(id)
      PROVE  secret' \in [DOMAIN secret -> SecretRows]
  BY <1>9 DEF TouchSecret, MarkSecretApplied, SecretRows
<1>10. ASSUME input' \in [DOMAIN input -> InputRows]
       PROVE  input' \in Partial(InputNames, InputRows)
  BY <1>10, UpdatePartial DEF StoreTypeOK
<1>11. ASSUME NEW id \in Ids, NEW url \in Refs, UpdateFlakeInput(id, url)
       PROVE  input' \in [DOMAIN input -> InputRows]
  BY <1>11 DEF UpdateFlakeInput, InputRows
<1>12. ASSUME NEW id \in Ids, MarkFlakeInputApplied(id)
       PROVE  input' \in [DOMAIN input -> InputRows]
  BY <1>12 DEF MarkFlakeInputApplied, InputRows
<1>4. ASSUME NEW id \in Ids, DeleteSecret(id) PROVE secret' \in Partial(SecretNames, SecretRows)
  BY <1>4, RestrictPartial DEF DeleteSecret, StoreTypeOK
<1>5. ASSUME NEW id \in Ids, DeleteFlakeInput(id) PROVE input' \in Partial(InputNames, InputRows)
  BY <1>5, RestrictPartial DEF DeleteFlakeInput, StoreTypeOK
<1>6. ASSUME NEW id \in Ids, DeleteWorkload(id)
      PROVE  /\ workload' \in Partial(Names, WorkloadRows)
             /\ revision' \in Partial(Ids, RevisionRows)
             /\ secret' \in Partial(SecretNames, SecretRows)
  <2>1. secret' \in [DOMAIN secret -> SecretRows]
    BY <1>6 DEF DeleteWorkload, SecretRows
  <2> QED
    BY <1>6, <2>1, UpdatePartial, RestrictPartial DEF DeleteWorkload, StoreTypeOK
<1> QED
  BY <1>1, <1>2, <1>3, <1>4, <1>5, <1>6, <1>7, <1>8, <1>9, <1>10, <1>11, <1>12

\* Every statement leaves tables of the right types.
LEMMA StatementKeepsTypes ==
  ASSUME StoreTypeOK, Statement
  PROVE  StoreTypeOK'
<1> USE DEF StoreTypeOK
<1>1. CASE WorkloadStatement
  BY <1>1, InsertKeepsTypes, UpdateKeepsTypes DEF WorkloadStatement, SaveRevision
<1>2. CASE DeleteStatement
  BY <1>2, UpdateKeepsTypes DEF DeleteStatement
<1>3. CASE SecretStatement
  BY <1>3, InsertKeepsTypes, UpdateKeepsTypes DEF SecretStatement
<1>4. CASE InputStatement
  BY <1>4, InsertKeepsTypes, UpdateKeepsTypes DEF InputStatement
<1> QED
  BY <1>1, <1>2, <1>3, <1>4 DEF Statement
-----------------------------------------------------------------------------
\* Every statement keeps the constraints of the schema (migrations.go:3-91):
\* keys are unique, and a row refers to rows that are there.
LEMMA StatementKeepsRows ==
  ASSUME StoreTypeOK, RowsAreWhole, Statement
  PROVE  RowsAreWhole'
<1> USE Rows
<1>1. ASSUME NEW n \in Names, NEW doc \in Docs, CanCreateWorkload(n), RoomForWorkload, CreateWorkload(n, doc),
             UNCHANGED <<secret, input>>
      PROVE  RowsAreWhole'
  <2> DEFINE id == NextId(IdsOf(workload))
             rev == NextId(DOMAIN revision)
  <2>1. id \notin IdsOf(workload) /\ rev \notin DOMAIN revision
    BY IdsInRange, NextIdFresh
  <2>2. /\ workload' = With(workload, n, [id |-> id, enabled |-> FALSE, applied |-> 0])
        /\ revision' = With(revision, rev, [owner |-> id, doc |-> doc])
    BY <1>1 DEF CreateWorkload, InsertRevision
  <2> HIDE DEF id, rev
  <2>3. /\ DOMAIN workload' = DOMAIN workload \union {n}
        /\ workload'[n].id = id /\ workload'[n].applied = 0
        /\ \A m \in DOMAIN workload : workload'[m] = workload[m]
        /\ DOMAIN revision' = DOMAIN revision \union {rev}
        /\ revision'[rev].owner = id
        /\ \A r \in DOMAIN revision : revision'[r] = revision[r]
    BY <1>1, <2>1, <2>2 DEF With, CanCreateWorkload
  <2>4. IdsOf(workload)' = IdsOf(workload) \union {id}
    BY <2>3 DEF IdsOf
  <2>5. \A m \in DOMAIN workload : workload[m].id # id
    BY <2>1 DEF IdsOf
  <2> QED
    BY <1>1, <2>3, <2>4, <2>5 DEF RowsAreWhole, RevisionsOf
<1>2. ASSUME NEW id \in Ids, NEW doc \in Docs, HasWorkload(id), RoomForRevision, SaveRevision(id, doc),
             UNCHANGED <<workload, secret, input>>
      PROVE  RowsAreWhole'
  <2> DEFINE rev == NextId(DOMAIN revision)
  <2>1. rev \notin DOMAIN revision
    BY IdsInRange, NextIdFresh
  <2>2. revision' = With(revision, rev, [owner |-> id, doc |-> doc])
    BY <1>2 DEF SaveRevision, InsertRevision
  <2> HIDE DEF rev
  <2>3. /\ DOMAIN revision' = DOMAIN revision \union {rev}
        /\ revision'[rev].owner = id
        /\ \A r \in DOMAIN revision : revision'[r] = revision[r]
    BY <2>1, <2>2 DEF With
  <2> QED
    BY <1>2, <2>3 DEF RowsAreWhole, RevisionsOf, HasWorkload, IdsOf
<1>3. ASSUME NEW id \in Ids, NEW b \in BOOLEAN, NEW r \in Ids,
             SetWorkloadEnabled(id, b) \/ (CanMark(id, r) /\ MarkApplied(id, r)),
             UNCHANGED <<revision, secret, input>>
      PROVE  RowsAreWhole'
  <2>1. /\ DOMAIN workload' = DOMAIN workload
        /\ \A m \in DOMAIN workload : /\ workload'[m].id = workload[m].id
                                    /\ \/ workload'[m].applied = workload[m].applied
                                       \/ workload'[m].applied \in DOMAIN revision
    BY <1>3 DEF SetWorkloadEnabled, MarkApplied, CanMark, HasWorkload, IdsOf, UpdateById, WorkloadRows
  <2>2. IdsOf(workload)' = IdsOf(workload)
    BY <2>1 DEF IdsOf
  <2> QED
    BY <1>3, <2>1, <2>2 DEF RowsAreWhole, RevisionsOf
<1>4. CASE DeleteStatement
  <2>1. PICK id \in Ids : CanDeleteWorkload(id) /\ DeleteWorkload(id) /\ UNCHANGED input
    BY <1>4 DEF DeleteStatement
  <2>2. /\ DOMAIN workload' = {n \in DOMAIN workload : workload[n].id # id}
        /\ \A n \in DOMAIN workload' : workload'[n] = workload[n]
        /\ DOMAIN revision' = DOMAIN revision \ RevisionsOf(id)
        /\ \A r \in DOMAIN revision' : revision'[r] = revision[r]
        /\ DOMAIN secret' = DOMAIN secret
        /\ \A s \in DOMAIN secret : /\ secret'[s].mounts = secret[s].mounts \ {id}
                                  /\ secret'[s].id = secret[s].id
    BY <2>1 DEF DeleteWorkload, Restrict, SecretRows
  <2>3. IdsOf(workload)' = IdsOf(workload) \ {id}
    BY <2>2 DEF IdsOf
  <2>4. \A n \in DOMAIN workload' : RevisionsOf(workload[n].id) \subseteq DOMAIN revision'
    BY <2>2 DEF RevisionsOf
  <2>5. \A n \in DOMAIN workload' : workload'[n].applied \in {0} \union DOMAIN revision'
    BY <2>1, <2>2 DEF RowsAreWhole, CanDeleteWorkload
  <2> QED
    BY <2>1, <2>2, <2>3, <2>4, <2>5 DEF RowsAreWhole, RevisionsOf
<1>5. ASSUME NEW s \in SecretNames, NEW mounts \in SUBSET Ids, s \notin DOMAIN secret,
             MountsExist(mounts), CreateSecret(s, mounts), UNCHANGED <<workload, revision, input>>
      PROVE  RowsAreWhole'
  <2> DEFINE id == NextId(IdsOf(secret))
  <2>1. id \notin IdsOf(secret)
    BY IdsInRange, NextIdFresh
  <2>2. secret' = With(secret, s, [id |-> id, applied |-> FALSE, mounts |-> mounts])
    BY <1>5 DEF CreateSecret
  <2> HIDE DEF id
  <2>3. /\ DOMAIN secret' = DOMAIN secret \union {s}
        /\ secret'[s].id = id /\ secret'[s].mounts = mounts
        /\ \A t \in DOMAIN secret : secret'[t] = secret[t] /\ secret[t].id # id
    BY <1>5, <2>1, <2>2 DEF With, IdsOf
  <2> QED
    BY <1>5, <2>3 DEF RowsAreWhole, MountsExist, RevisionsOf, IdsOf
<1>6. ASSUME NEW id \in Ids, NEW mounts \in SUBSET Ids, NEW wid \in Ids, UNCHANGED <<workload, revision, input>>,
             \/ MountsExist(mounts) /\ UpdateSecret(id, mounts)
             \/ HasWorkload(wid) /\ AddSecretMount(id, wid)
             \/ RemoveSecretMount(id, wid)
             \/ TouchSecret(id) \/ MarkSecretApplied(id) \/ DeleteSecret(id)
      PROVE  RowsAreWhole'
  <2> DEFINE Kept == /\ DOMAIN secret' \subseteq DOMAIN secret
                     /\ \A s \in DOMAIN secret' :
                          /\ secret'[s].id = secret[s].id
                          /\ secret'[s].mounts \subseteq secret[s].mounts \union IdsOf(workload)
  <2>1. ASSUME MountsExist(mounts) /\ UpdateSecret(id, mounts) PROVE Kept
    BY <2>1 DEF UpdateSecret, MountsExist, UpdateById, SecretRows
  <2>2. ASSUME HasWorkload(wid) /\ AddSecretMount(id, wid) PROVE Kept
    BY <2>2 DEF AddSecretMount, HasWorkload, UpdateById, SecretRows
  <2>3. ASSUME RemoveSecretMount(id, wid) PROVE Kept
    BY <2>3 DEF RemoveSecretMount, UpdateById, SecretRows
  <2>4. ASSUME TouchSecret(id) \/ MarkSecretApplied(id) PROVE Kept
    BY <2>4 DEF TouchSecret, MarkSecretApplied, UpdateById, SecretRows
  <2>5. ASSUME DeleteSecret(id) PROVE Kept
    BY <2>5 DEF DeleteSecret, Restrict
  <2>6. Kept
    BY <1>6, <2>1, <2>2, <2>3, <2>4, <2>5
  <2> QED
    BY <1>6, <2>6 DEF RowsAreWhole, RevisionsOf, IdsOf
<1>7. ASSUME NEW i \in InputNames, NEW url \in Refs, i \notin DOMAIN input, CreateFlakeInput(i, url),
             UNCHANGED <<workload, revision, secret>>
      PROVE  RowsAreWhole'
  <2> DEFINE id == NextId(IdsOf(input))
  <2>1. id \notin IdsOf(input)
    BY IdsInRange, NextIdFresh
  <2>2. input' = With(input, i, [id |-> id, url |-> url, applied |-> FALSE])
    BY <1>7 DEF CreateFlakeInput
  <2> HIDE DEF id
  <2>3. /\ DOMAIN input' = DOMAIN input \union {i}
        /\ input'[i].id = id
        /\ \A j \in DOMAIN input : input'[j] = input[j] /\ input[j].id # id
    BY <1>7, <2>1, <2>2 DEF With, IdsOf
  <2> QED
    BY <1>7, <2>3 DEF RowsAreWhole, RevisionsOf, IdsOf
<1>8. ASSUME NEW id \in Ids, UNCHANGED <<workload, revision, secret>>,
             \/ \E url \in Refs : UpdateFlakeInput(id, url)
             \/ MarkFlakeInputApplied(id) \/ DeleteFlakeInput(id)
      PROVE  RowsAreWhole'
  <2>1. DOMAIN input' \subseteq DOMAIN input /\ \A i \in DOMAIN input' : input'[i].id = input[i].id
    BY <1>8 DEF UpdateFlakeInput, MarkFlakeInputApplied, DeleteFlakeInput, UpdateById, Restrict, InputRows
  <2> QED
    BY <1>8, <2>1 DEF RowsAreWhole, RevisionsOf, IdsOf
<1> QED
  BY <1>1, <1>2, <1>3, <1>4, <1>5, <1>6, <1>7, <1>8
  DEF Statement, WorkloadStatement, SecretStatement, InputStatement
-----------------------------------------------------------------------------
(* Where requests and the job stand.                                       *)

\* What a request and a job hold, by where they stand.
LEMMA RequestFields ==
  ASSUME TypeOK, NEW h \in Handlers
  PROVE  /\ req[h].at \in {"create_file", "create_row"} =>
              req[h] \in [at : {"create_file", "create_row"}, name : Names, doc : Docs]
         /\ req[h].at \in {"save_file", "save_row"} =>
              req[h] \in [at : {"save_file", "save_row"}, name : Names, id : Ids, doc : Docs]
         /\ req[h].at \in {"seal", "secret_row"} =>
              req[h] \in [at : {"seal", "secret_row"}, name : SecretNames, id : {0} \union Ids,
                          value : Values, mounts : SUBSET Ids]
         /\ At(h, "touch") => req[h].id \in Ids
         /\ req[h].at \in {"read_index", "start"} => req[h].todo \in Todos
         /\ At(h, "write_index") => req[h].todo \in Todos /\ req[h].index \in Indexes
         /\ req[h].at \in {"read_flake", "snapshot"} => req[h].todo \in ApplyTodos
         /\ At(h, "write_flake") => req[h].todo \in ApplyTodos /\ req[h].flake \in Flakes
         /\ At(h, "prune") => req[h].todo \in ApplyTodos /\ req[h].keep \in SUBSET SecretNames
<1>1. req[h] \in Requests
  BY DEF TypeOK
<1> QED
  BY <1>1 DEF Requests, At, Idle

\* The same of the job.
LEMMA JobFields ==
  ASSUME TypeOK
  PROVE  /\ job # NoJob => job.todo \in Todos
         /\ JobAt("switch") => job.staged \in Systems
         /\ JobAt("mark") => job.todo \in ApplyTodos
         /\ job.at \in {"delete_row", "delete_file"} => job.todo \in DestroyTodos
         /\ job.at \in {"stage", "finish", "switch", "mark", "delete_row", "delete_file"} => job # NoJob
  BY DEF TypeOK, Jobs, NoJob, JobAt, Todos

\* The columns that are ids or documents.
LEMMA IdTypes ==
  ASSUME StoreTypeOK
  PROVE  /\ \A n \in DOMAIN workload : workload[n].id \in Ids
         /\ \A s \in DOMAIN secret : secret[s].id \in Ids
         /\ \A i \in DOMAIN input : input[i].id \in Ids
         /\ \A r \in DOMAIN revision : revision[r].doc \in Docs
  BY Rows DEF WorkloadRows, RevisionRows, SecretRows, InputRows

\* A step of a handler or of the job is at most one statement of the store.
LEMMA StepIsStatement ==
  ASSUME TypeOK, [Next]_vars
  PROVE  Statement \/ UNCHANGED storeVars
<1> USE IdTypes DEF TypeOK
<1>1. ASSUME NEW h \in Handlers, WorkloadStep(h) PROVE Statement \/ UNCHANGED storeVars
  <2>1. CASE \E n \in Names, doc \in Docs : WorkloadCreate(h, n, doc) \/ WorkloadSave(h, n, doc)
    BY <2>1 DEF WorkloadCreate, WorkloadSave, ReadOnly
  <2>2. CASE \E n \in Names, r \in Ids : WorkloadRestore(h, n, r)
    BY <2>2 DEF WorkloadRestore, WorkloadSave, ReadOnly
  <2>3. CASE WriteWorkloadFile(h) \/ WorkloadRowRefused(h)
    BY <2>3 DEF WriteWorkloadFile, WorkloadRowRefused, FilesOnly
  <2>4. CASE CreateWorkloadRow(h)
    <3>1. CanCreateWorkload(req[h].name) /\ RoomForWorkload /\ CreateWorkload(req[h].name, req[h].doc)
      BY <2>4 DEF CreateWorkloadRow, RowAllowed
    <3>2. req[h].name \in Names /\ req[h].doc \in Docs
      BY <2>4, RequestFields DEF CreateWorkloadRow, At
    <3>3. UNCHANGED <<secret, input>>
      BY <2>4 DEF CreateWorkloadRow
    <3> QED
      BY <3>1, <3>2, <3>3 DEF Statement, WorkloadStatement
  <2>5. CASE SaveRevisionRow(h)
    <3>1. HasWorkload(req[h].id) /\ RoomForRevision /\ SaveRevision(req[h].id, req[h].doc)
      BY <2>5 DEF SaveRevisionRow, RowAllowed, At
    <3>2. req[h].id \in Ids /\ req[h].doc \in Docs
      BY <2>5, RequestFields DEF SaveRevisionRow, At
    <3>3. UNCHANGED <<workload, secret, input>>
      BY <2>5 DEF SaveRevisionRow
    <3> QED
      BY <3>1, <3>2, <3>3 DEF Statement, WorkloadStatement
  <2>6. CASE \E n \in Names, b \in BOOLEAN : SetEnabled(h, n, b)
    BY <2>6 DEF SetEnabled, Statement, WorkloadStatement
  <2> QED
    BY <1>1, <2>1, <2>2, <2>3, <2>4, <2>5, <2>6 DEF WorkloadStep
<1>2. ASSUME NEW h \in Handlers, SecretStep(h) PROVE Statement \/ UNCHANGED storeVars
  <2>1. CASE \E s \in SecretNames, value \in Values, mounts \in SUBSET Ids :
               \/ SecretCreate(h, s, value, mounts)
               \/ \E blank \in BOOLEAN : SecretSave(h, s, blank, value, mounts)
    BY <2>1 DEF SecretCreate, SecretSave, ReadOnly
  <2>2. CASE SealSecret(h) \/ SecretRowRefused(h)
    BY <2>2 DEF SealSecret, SecretRowRefused, FilesOnly, ReadOnly
  <2>3. CASE SecretRow(h)
    <3>1. req[h].name \in SecretNames /\ req[h].id \in {0} \union Ids /\ req[h].mounts \in SUBSET Ids
      BY <2>3, RequestFields DEF SecretRow, At
    <3>2. MountsExist(req[h].mounts) /\ UNCHANGED <<workload, revision, input>>
      BY <2>3 DEF SecretRow, SecretRowAllowed
    <3>3. CASE req[h].id = 0
      BY <2>3, <3>1, <3>2, <3>3 DEF SecretRow, SecretRowAllowed, Statement, SecretStatement
    <3>4. CASE req[h].id # 0
      BY <2>3, <3>1, <3>2, <3>4 DEF SecretRow, Statement, SecretStatement
    <3> QED
      BY <3>3, <3>4
  <2>4. CASE \E s \in SecretNames : SecretDelete(h, s)
    BY <2>4 DEF SecretDelete, Statement, SecretStatement
  <2>5. CASE \E s \in SecretNames, n \in Names, attach \in BOOLEAN : SetMount(h, s, n, attach)
    BY <2>5 DEF SetMount, Statement, SecretStatement, HasWorkload, IdsOf
  <2>6. CASE TouchOnChange(h)
    BY <2>6, RequestFields DEF TouchOnChange, Statement, SecretStatement
  <2> QED
    BY <1>2, <2>1, <2>2, <2>3, <2>4, <2>5, <2>6 DEF SecretStep
<1>3. ASSUME NEW h \in Handlers, FlakeStep(h) PROVE Statement \/ UNCHANGED storeVars
  <2>1. PICK i \in InputNames : (\E url \in Refs : FlakeCreate(h, i, url) \/ FlakeSave(h, i, url)) \/ FlakeDelete(h, i)
    BY <1>3 DEF FlakeStep
  <2>2. UNCHANGED <<workload, revision, secret>>
    BY <2>1 DEF FlakeCreate, FlakeSave, FlakeDelete, FlakeEdit
  <2> QED
    BY <2>1, <2>2 DEF FlakeCreate, FlakeSave, FlakeDelete, Statement, InputStatement
<1>4. ASSUME NEW h \in Handlers, ApplyStep(h) PROVE Statement \/ UNCHANGED storeVars
  <2>1. CASE \E n \in Names : DestroyRequest(h, n)
    BY <2>1 DEF DestroyRequest, Statement, WorkloadStatement
  <2>2. CASE ~ \E n \in Names : DestroyRequest(h, n)
    BY <1>4, <2>2 DEF ApplyStep, ApplyRequest, ReadIndex, WriteIndexFile, ReadFlake, WriteFlakeFile,
                      TakeSnapshot, Prune, Start, ReadOnly, FilesOnly
  <2> QED
    BY <2>1, <2>2
<1>5. ASSUME NEW h \in Handlers, Abort(h) PROVE UNCHANGED storeVars
  BY <1>5 DEF Abort
<1>6. ASSUME Job PROVE Statement \/ UNCHANGED storeVars
  <2>1. ASSUME NEW id \in Ids, MarkWorkload(id) PROVE Statement
    <3>1. RevisionToMark(job.todo.snap, id) \in Ids
      <4>1. job.todo.snap.workloads \in Partial(Ids, Ids) /\ id \in DOMAIN job.todo.snap.workloads
        BY <2>1, JobFields DEF MarkWorkload, ApplyTodos, Snapshots
      <4> QED
        BY <4>1, PartialFunctions DEF RevisionToMark
    <3>2. /\ CanMark(id, RevisionToMark(job.todo.snap, id)) /\ MarkApplied(id, RevisionToMark(job.todo.snap, id))
          /\ UNCHANGED <<revision, secret, input>>
      BY <2>1 DEF MarkWorkload, MarkOnly
    <3> QED
      BY <3>1, <3>2 DEF Statement, WorkloadStatement
  <2>2. ASSUME NEW id \in Ids, MarkInput(id) PROVE Statement
    BY <2>2 DEF MarkInput, MarkOnly, Statement, InputStatement
  <2>3. ASSUME NEW id \in Ids, MarkSecret(id) PROVE Statement
    BY <2>3 DEF MarkSecret, MarkOnly, Statement, SecretStatement
  <2>4. CASE DeleteRow
    <3>1. job.todo.target.id \in Ids
      BY <2>4, JobFields DEF DeleteRow, JobAt, DestroyTodos
    <3> QED
      BY <2>4, <3>1 DEF DeleteRow, Statement, DeleteStatement, storeVars
  <2>5. CASE Stage \/ Switch \/ MarkRefused \/ AllMarked \/ DeleteFile \/ Finish \/ JobStops
    BY <2>5 DEF Stage, Switch, MarkRefused, AllMarked, DeleteFile, Finish, JobStops
  <2> QED
    BY <1>6, <2>1, <2>2, <2>3, <2>4, <2>5 DEF Job
<1>7. CASE UNCHANGED vars
  BY <1>7 DEF vars
<1> QED
  BY <1>1, <1>2, <1>3, <1>4, <1>5, <1>6, <1>7 DEF Next, Handler
-----------------------------------------------------------------------------
(* What is computed from the tables and files is what the types say.       *)

\* The latest revision of a workload is one of its revisions, the largest.
LEMMA LatestIs ==
  ASSUME StoreTypeOK, RowsAreWhole, NEW n \in DOMAIN workload
  PROVE  /\ LatestRevision(workload[n].id) \in RevisionsOf(workload[n].id)
         /\ \A r \in RevisionsOf(workload[n].id) : LatestRevision(workload[n].id) >= r
         /\ LatestRevision(workload[n].id) \in Ids
         /\ LatestDoc(n) \in Docs
<1> DEFINE R == RevisionsOf(workload[n].id)
<1>1. R \subseteq Ids /\ R # {} /\ R \subseteq DOMAIN revision
  BY Rows DEF RevisionsOf, RowsAreWhole
<1>2. R \subseteq {0} \union Ids
  BY <1>1
<1> HIDE DEF R
<1>3. Max(R) \in R /\ \A r \in R : Max(R) >= r
  BY <1>1, <1>2, LargestOf
<1> QED
  BY <1>1, <1>3, IdTypes DEF LatestRevision, LatestDoc, R

\* An enabled workload is a workload.
LEMMA EnabledAre == Enabled \subseteq DOMAIN workload
  BY DEF Enabled

\* A function made for a part of S is a partial function from S.
LEMMA MadePartial ==
  ASSUME NEW S, NEW T, NEW D \in SUBSET S, NEW g \in [D -> T]
  PROVE  g \in Partial(S, T)
  BY DEF Partial

\* The index that an apply writes,
LEMMA IndexTyped ==
  ASSUME StoreTypeOK, RowsAreWhole
  PROVE  IndexOfStore \in Indexes
<1>1. IndexOfStore.workloads \in [Enabled -> Docs]
  BY LatestIs, EnabledAre DEF IndexOfStore
<1>2. IndexOfStore.secrets \in [DOMAIN secret -> SUBSET Names]
  BY EnabledAre, Rows DEF IndexOfStore, IndexMounts
<1>3. Enabled \in SUBSET Names /\ DOMAIN secret \in SUBSET SecretNames
  BY EnabledAre, Rows
<1>4. IndexOfStore.workloads \in Partial(Names, Docs) /\ IndexOfStore.secrets \in Partial(SecretNames, SUBSET Names)
  BY <1>1, <1>2, <1>3, MadePartial
<1> QED
  BY <1>4 DEF IndexOfStore, Indexes

\* the flake,
LEMMA FlakeTyped ==
  ASSUME StoreTypeOK
  PROVE  FlakeOfStore \in Flakes
<1>1. FlakeOfStore.inputs \in [DOMAIN input -> Refs] /\ DOMAIN input \in SUBSET InputNames
  BY Rows DEF FlakeOfStore, InputRows
<1>2. FlakeOfStore.inputs \in Partial(InputNames, Refs)
  BY <1>1, MadePartial
<1> QED
  BY <1>2 DEF FlakeOfStore, Flakes

\* what it remembers to mark,
LEMMA SnapshotTyped ==
  ASSUME StoreTypeOK, RowsAreWhole
  PROVE  SnapshotOfStore \in Snapshots
<1> DEFINE E == {workload[n].id : n \in Enabled}
<1>1. \A id \in E : LatestRevision(id) \in Ids
  BY LatestIs, EnabledAre
<1>2. E \in SUBSET Ids /\ IdsOf(input) \in SUBSET Ids /\ IdsOf(secret) \in SUBSET Ids
  BY EnabledAre, IdTypes, IdsInRange
<1>3. SnapshotOfStore.workloads \in [E -> Ids]
  BY <1>1 DEF SnapshotOfStore
<1>4. SnapshotOfStore.workloads \in Partial(Ids, Ids)
  BY <1>2, <1>3, MadePartial
<1> QED
  BY <1>2, <1>4 DEF SnapshotOfStore, Snapshots

\* and what nix builds of the files.
LEMMA SystemTyped ==
  ASSUME StateFlakeTypeOK, Evaluates
  PROVE  System \in Systems
<1>1. /\ index.workloads \in Partial(Names, Docs) /\ index.secrets \in Partial(SecretNames, SUBSET Names)
      /\ flake.inputs \in Partial(InputNames, Refs)
  BY DEF StateFlakeTypeOK, Indexes, Flakes
<1>2. /\ DOMAIN index.workloads \subseteq Names /\ \A n \in DOMAIN index.workloads : index.workloads[n] \in Docs
      /\ DOMAIN index.secrets \subseteq SecretNames /\ \A s \in DOMAIN index.secrets : index.secrets[s] \in SUBSET Names
  BY <1>1, PartialFunctions
<1>3. /\ \A n \in DOMAIN workloadFile : workloadFile[n] \in Docs
      /\ \A s \in DOMAIN secretFile : secretFile[s] \in Values
  BY PartialFunctions DEF StateFlakeTypeOK
<1>4. /\ System.workloads \in [DOMAIN index.workloads -> [content : Docs, ports : Docs]]
      /\ System.secrets \in [DOMAIN index.secrets -> [value : Values, mounts : SUBSET Names]]
  BY <1>2, <1>3 DEF System, Evaluates
<1>5. /\ System.workloads \in Partial(Names, [content : Docs, ports : Docs])
      /\ System.secrets \in Partial(SecretNames, [value : Values, mounts : SUBSET Names])
  BY <1>2, <1>4, MadePartial
<1> QED
  BY <1>1, <1>5 DEF System, Systems

\* Writing and removing files of workloads and secrets.
LEMMA FilesTyped ==
  ASSUME StateFlakeTypeOK
  PROVE  /\ \A n \in Names, doc \in Docs : WriteWorkload(n, doc) => workloadFile' \in Partial(Names, Docs)
         /\ \A n \in Names : RemoveWorkload(n) => workloadFile' \in Partial(Names, Docs)
         /\ \A s \in SecretNames, v \in Values : WriteSecret(s, v) => secretFile' \in Partial(SecretNames, Values)
         /\ \A keep : PruneSecrets(keep) => secretFile' \in Partial(SecretNames, Values)
<1> USE DEF StateFlakeTypeOK
<1>1. ASSUME NEW n \in Names, NEW doc \in Docs, WriteWorkload(n, doc) PROVE workloadFile' \in Partial(Names, Docs)
  BY <1>1, WithPartial DEF WriteWorkload
<1>2. ASSUME NEW n \in Names, RemoveWorkload(n) PROVE workloadFile' \in Partial(Names, Docs)
  BY <1>2, RestrictPartial DEF RemoveWorkload
<1>3. ASSUME NEW s \in SecretNames, NEW v \in Values, WriteSecret(s, v) PROVE secretFile' \in Partial(SecretNames, Values)
  BY <1>3, WithPartial DEF WriteSecret
<1>4. ASSUME NEW keep, PruneSecrets(keep) PROVE secretFile' \in Partial(SecretNames, Values)
  BY <1>4, RestrictPartial DEF PruneSecrets
<1> QED
  BY <1>1, <1>2, <1>3, <1>4
-----------------------------------------------------------------------------
(* Types.                                                                  *)

\* Empty tables are well typed and whole.
LEMMA ApplyInitInv == Init => TypeOK /\ RowsAreWhole
<1> SUFFICES ASSUME Init PROVE TypeOK /\ RowsAreWhole
  OBVIOUS
<1> USE NothingIsPartial DEF Init
<1>1. StoreTypeOK /\ RowsAreWhole
  BY DEF StoreInit, StoreTypeOK, RowsAreWhole
<1>2. StateFlakeTypeOK /\ NoSystem \in Systems
  BY DEF StateFlakeInit, StateFlakeTypeOK, Indexes, Flakes, NoSystem, Systems
<1> QED
  BY <1>1, <1>2 DEF TypeOK, Requests, Jobs

\* A request that moves on is well typed if where it goes is,
LEMMA ToTyped ==
  ASSUME TypeOK, NEW h \in Handlers, NEW r \in Requests, To(h, r)
  PROVE  req' \in [Handlers -> Requests]
  BY DEF To, TypeOK

\* and one that returns always.
LEMMA Returned ==
  ASSUME TypeOK, NEW h \in Handlers, Return(h)
  PROVE  req' \in [Handlers -> Requests]
  BY ToTyped DEF Return, Requests

\* Everything but the tables.
TypeOutside == /\ StateFlakeTypeOK
               /\ req \in [Handlers -> Requests]
               /\ job \in Jobs
               /\ live \in Systems
               /\ torn \subseteq Names
               /\ reborn \subseteq Names
               /\ quiet \in BOOLEAN

\* The steps of a handler, component by component, keep the types of everything
\* outside the store.
LEMMA WorkloadStepTyped ==
  ASSUME TypeOK, NEW h \in Handlers, WorkloadStep(h)
  PROVE  TypeOutside'
<1> USE IdTypes, Rows DEF TypeOutside, Requests, Edit, ReadOnly, FilesOnly, RowsOnly, hostVars, histVars, fileVars
<1>1. StateFlakeTypeOK /\ StoreTypeOK /\ TypeOutside
  BY DEF TypeOK
<1>2. ASSUME NEW n \in Names, NEW doc \in Docs, WorkloadCreate(h, n, doc) PROVE TypeOutside'
  <2>1. req' \in [Handlers -> Requests]
    BY <1>2, ToTyped DEF WorkloadCreate
  <2> QED
    BY <1>1, <1>2, <2>1 DEF WorkloadCreate, StateFlakeTypeOK
<1>3. ASSUME NEW n \in Names, NEW doc \in Docs, WorkloadSave(h, n, doc) PROVE TypeOutside'
  <2>1. req' \in [Handlers -> Requests]
    BY <1>1, <1>3, ToTyped DEF WorkloadSave
  <2> QED
    BY <1>1, <1>3, <2>1 DEF WorkloadSave, StateFlakeTypeOK
<1>4. CASE \E n \in Names, r \in Ids : WorkloadRestore(h, n, r)
  BY <1>1, <1>3, <1>4 DEF WorkloadRestore, RevisionsOf
<1>5. CASE WriteWorkloadFile(h)
  <2>1. req[h].name \in Names /\ req[h].doc \in Docs
    BY <1>5, RequestFields DEF WriteWorkloadFile
  <2>2. [req[h] EXCEPT !.at = "create_row"] \in Requests \/ [req[h] EXCEPT !.at = "save_row"] \in Requests
    BY <1>5, RequestFields DEF WriteWorkloadFile
  <2>3. req' \in [Handlers -> Requests]
    BY <1>5, <2>2, RequestFields, ToTyped DEF WriteWorkloadFile, Goto, At
  <2> QED
    BY <1>1, <1>5, <2>1, <2>3, FilesTyped DEF WriteWorkloadFile, StateFlakeTypeOK
<1>6. CASE CreateWorkloadRow(h)
  <2>1. req[h].name \in Names
    BY <1>6, RequestFields DEF CreateWorkloadRow, At
  <2> QED
    BY <1>1, <1>6, <2>1, Returned DEF CreateWorkloadRow, StateFlakeTypeOK
<1>7. CASE SaveRevisionRow(h)
  BY <1>1, <1>7, Returned DEF SaveRevisionRow, StateFlakeTypeOK
<1>8. CASE WorkloadRowRefused(h)
  <2>1. req[h].name \in Names
    BY <1>8, RequestFields DEF WorkloadRowRefused
  <2> QED
    BY <1>1, <1>8, <2>1, Returned DEF WorkloadRowRefused, StateFlakeTypeOK
<1>9. ASSUME NEW n \in Names, NEW b \in BOOLEAN, SetEnabled(h, n, b) PROVE TypeOutside'
  BY <1>1, <1>9 DEF SetEnabled, StateFlakeTypeOK
<1> QED
  BY <1>2, <1>3, <1>4, <1>5, <1>6, <1>7, <1>8, <1>9 DEF WorkloadStep

\* Secrets.
LEMMA SecretStepTyped ==
  ASSUME TypeOK, NEW h \in Handlers, SecretStep(h)
  PROVE  TypeOutside'
<1> USE IdTypes, Rows DEF TypeOutside, Requests, Edit, ReadOnly, FilesOnly, RowsOnly, hostVars, histVars, fileVars
<1>1. StateFlakeTypeOK /\ StoreTypeOK /\ TypeOutside
  BY DEF TypeOK
<1>2. ASSUME NEW s \in SecretNames, NEW value \in Values, NEW mounts \in SUBSET Ids,
             SecretCreate(h, s, value, mounts)
      PROVE  TypeOutside'
  <2>1. req' \in [Handlers -> Requests]
    BY <1>2, ToTyped DEF SecretCreate
  <2> QED
    BY <1>1, <1>2, <2>1 DEF SecretCreate, StateFlakeTypeOK
<1>3. ASSUME NEW s \in SecretNames, NEW blank \in BOOLEAN, NEW value \in Values, NEW mounts \in SUBSET Ids,
             SecretSave(h, s, blank, value, mounts)
      PROVE  TypeOutside'
  <2>1. req' \in [Handlers -> Requests]
    BY <1>1, <1>3, ToTyped DEF SecretSave
  <2> QED
    BY <1>1, <1>3, <2>1 DEF SecretSave, StateFlakeTypeOK
<1>4. CASE SealSecret(h)
  <2>1. req[h].name \in SecretNames /\ req[h].value \in Values
    BY <1>4, RequestFields DEF SealSecret, At
  <2>2. [req[h] EXCEPT !.at = "secret_row"] \in Requests
    BY <1>4, RequestFields DEF SealSecret, At
  <2>3. req' \in [Handlers -> Requests]
    BY <1>4, <2>2, ToTyped DEF SealSecret, Goto
  <2> QED
    BY <1>1, <1>4, <2>1, <2>3, FilesTyped DEF SealSecret, StateFlakeTypeOK
<1>5. CASE SecretRow(h)
  BY <1>1, <1>5, Returned DEF SecretRow, StateFlakeTypeOK
<1>6. CASE SecretRowRefused(h)
  BY <1>1, <1>6, Returned DEF SecretRowRefused, StateFlakeTypeOK
<1>7. ASSUME NEW s \in SecretNames, SecretDelete(h, s) PROVE TypeOutside'
  BY <1>1, <1>7 DEF SecretDelete, StateFlakeTypeOK
<1>8. ASSUME NEW s \in SecretNames, NEW n \in Names, NEW attach \in BOOLEAN, SetMount(h, s, n, attach)
      PROVE  TypeOutside'
  <2>1. req' \in [Handlers -> Requests]
    BY <1>1, <1>8, ToTyped DEF SetMount
  <2> QED
    BY <1>1, <1>8, <2>1 DEF SetMount, StateFlakeTypeOK
<1>9. CASE TouchOnChange(h)
  BY <1>1, <1>9, Returned DEF TouchOnChange, StateFlakeTypeOK
<1> QED
  BY <1>2, <1>3, <1>4, <1>5, <1>6, <1>7, <1>8, <1>9 DEF SecretStep

\* Flake inputs.
LEMMA FlakeStepTyped ==
  ASSUME TypeOK, NEW h \in Handlers, FlakeStep(h)
  PROVE  TypeOutside'
<1>1. FlakeEdit(h)
  BY DEF FlakeStep, FlakeCreate, FlakeSave, FlakeDelete
<1> QED
  BY <1>1 DEF FlakeEdit, Edit, RowsOnly, hostVars, fileVars, TypeOK, TypeOutside, StateFlakeTypeOK

\* Apply, enable and destroy.
LEMMA ApplyStepTyped ==
  ASSUME TypeOK, RowsAreWhole, NEW h \in Handlers, ApplyStep(h)
  PROVE  TypeOutside'
<1> USE IdTypes, Rows DEF TypeOutside, ReadOnly, FilesOnly, RowsOnly, hostVars, histVars, fileVars
<1>1. StateFlakeTypeOK /\ StoreTypeOK /\ TypeOutside
  BY DEF TypeOK
<1>2. ASSUME NEW kind \in Kinds, ApplyRequest(h, kind) PROVE TypeOutside'
  <2>1. NoSnapshot \in Snapshots
    BY NothingIsPartial DEF NoSnapshot, Snapshots
  <2>2. [kind |-> kind, target |-> NoTarget, snap |-> NoSnapshot] \in Todos
    BY <2>1 DEF Todos, ApplyTodos
  <2>3. req' \in [Handlers -> Requests]
    BY <1>2, <2>2, ToTyped DEF ApplyRequest, Requests
  <2>4. quiet' \in BOOLEAN
    BY <1>1, <1>2 DEF ApplyRequest
  <2> QED
    BY <1>1, <1>2, <2>3, <2>4 DEF ApplyRequest, StateFlakeTypeOK
<1>3. ASSUME NEW n \in Names, DestroyRequest(h, n) PROVE TypeOutside'
  <2>1. [kind |-> "destroy", snap |-> NoSnapshot, target |-> [name |-> n, id |-> workload[n].id]] \in Todos
    BY <1>1, <1>3 DEF DestroyRequest, Todos, DestroyTodos
  <2>2. req' \in [Handlers -> Requests]
    BY <1>3, <2>1, ToTyped DEF DestroyRequest, Requests
  <2> QED
    BY <1>1, <1>3, <2>2 DEF DestroyRequest, Edit, StateFlakeTypeOK
<1>4. CASE ReadIndex(h)
  <2>1. req[h].todo \in Todos /\ IndexOfStore \in Indexes
    BY <1>1, <1>4, RequestFields, IndexTyped DEF ReadIndex, At
  <2>2. req' \in [Handlers -> Requests]
    BY <1>4, <2>1, ToTyped DEF ReadIndex, Requests
  <2> QED
    BY <1>1, <1>4, <2>2 DEF ReadIndex, StateFlakeTypeOK
<1>5. CASE WriteIndexFile(h)
  <2>1. req[h].todo \in Todos /\ req[h].index \in Indexes
    BY <1>5, RequestFields DEF WriteIndexFile
  <2>2. [at |-> AfterIndex(req[h].todo), todo |-> req[h].todo] \in Requests
    BY <2>1 DEF AfterIndex, Requests, Todos, ApplyTodos, DestroyTodos
  <2>3. req' \in [Handlers -> Requests]
    BY <1>5, <2>2, ToTyped DEF WriteIndexFile
  <2> QED
    BY <1>1, <1>5, <2>1, <2>3 DEF WriteIndexFile, WriteIndex, StateFlakeTypeOK
<1>6. CASE ReadFlake(h)
  <2>1. req[h].todo \in ApplyTodos /\ FlakeOfStore \in Flakes
    BY <1>1, <1>6, RequestFields, FlakeTyped DEF ReadFlake, At
  <2>2. req' \in [Handlers -> Requests]
    BY <1>6, <2>1, ToTyped DEF ReadFlake, Requests
  <2> QED
    BY <1>1, <1>6, <2>2 DEF ReadFlake, StateFlakeTypeOK
<1>7. CASE WriteFlakeFile(h)
  <2>1. req[h].todo \in ApplyTodos /\ req[h].flake \in Flakes
    BY <1>7, RequestFields DEF WriteFlakeFile
  <2>2. req' \in [Handlers -> Requests]
    BY <1>7, <2>1, ToTyped DEF WriteFlakeFile, Requests
  <2> QED
    BY <1>1, <1>7, <2>1, <2>2 DEF WriteFlakeFile, WriteFlake, StateFlakeTypeOK
<1>8. CASE TakeSnapshot(h)
  <2>1. req[h].todo \in ApplyTodos /\ SnapshotOfStore \in Snapshots /\ DOMAIN secret \in SUBSET SecretNames
    BY <1>1, <1>8, RequestFields, SnapshotTyped DEF TakeSnapshot, At
  <2>2. [req[h].todo EXCEPT !.snap = SnapshotOfStore] \in ApplyTodos
    BY <2>1 DEF ApplyTodos
  <2>3. req' \in [Handlers -> Requests]
    BY <1>8, <2>1, <2>2, ToTyped DEF TakeSnapshot, Requests
  <2> QED
    BY <1>1, <1>8, <2>3 DEF TakeSnapshot, StateFlakeTypeOK
<1>9. CASE Prune(h)
  <2>1. req[h].todo \in Todos
    BY <1>9, RequestFields DEF Prune, Todos
  <2>2. req' \in [Handlers -> Requests]
    BY <1>9, <2>1, ToTyped DEF Prune, Requests
  <2> QED
    BY <1>1, <1>9, <2>2, FilesTyped DEF Prune, StateFlakeTypeOK
<1>10. CASE Start(h)
  <2>1. req[h].todo \in Todos
    BY <1>10, RequestFields DEF Start, At
  <2>2. job' \in Jobs
    BY <1>1, <1>10, <2>1 DEF Start, Jobs
  <2> QED
    BY <1>1, <1>10, <2>2, Returned DEF Start, StateFlakeTypeOK
<1> QED
  BY <1>2, <1>3, <1>4, <1>5, <1>6, <1>7, <1>8, <1>9, <1>10 DEF ApplyStep

\* A handler that stops short.
LEMMA AbortTyped ==
  ASSUME TypeOK, NEW h \in Handlers, Abort(h)
  PROVE  TypeOutside'
<1>1. torn' \subseteq Names
  <2>1. req[h].at \in {"create_row", "save_row"} => req[h].name \in Names
    BY RequestFields
  <2> QED
    BY <2>1 DEF Abort, TypeOK
<1> QED
  BY <1>1, Returned DEF Abort, TypeOutside, TypeOK, StateFlakeTypeOK, fileVars, hostVars

\* The job.
LEMMA JobTyped ==
  ASSUME TypeOK, Job
  PROVE  TypeOutside'
<1> USE DEF TypeOutside, MarkOnly, fileVars, histVars, Jobs
<1>1. StateFlakeTypeOK /\ TypeOutside
  BY DEF TypeOK
<1>2. CASE Stage
  <2>1. job.todo \in Todos
    BY <1>2, JobFields DEF Stage, JobAt
  <2>2. job' \in Jobs
    BY <1>1, <1>2, <2>1, SystemTyped DEF Stage
  <2> QED
    BY <1>1, <1>2, <2>2 DEF Stage, StateFlakeTypeOK
<1>3. CASE Switch
  <2>1. job.todo \in Todos /\ job.staged \in Systems
    BY <1>3, JobFields DEF Switch, JobAt
  <2>2. job' \in Jobs
    <3>1. job' = [at |-> AfterSwitch(job.todo.kind), todo |-> job.todo]
      BY <1>3 DEF Switch, JobGoto
    <3>2. CASE job.todo \in ApplyTodos
      BY <2>1, <3>1, <3>2 DEF AfterSwitch, ApplyTodos, Kinds
    <3>3. CASE job.todo \in DestroyTodos
      BY <2>1, <3>1, <3>3 DEF AfterSwitch, DestroyTodos
    <3> QED
      BY <2>1, <3>2, <3>3 DEF Todos
  <2> QED
    BY <1>1, <1>3, <2>1, <2>2 DEF Switch, StateFlakeTypeOK
<1>4. ASSUME NEW id \in Ids, MarkWorkload(id) \/ MarkInput(id) \/ MarkSecret(id) PROVE TypeOutside'
  <2>1. JobAt("mark") /\ job.todo \in ApplyTodos /\ job.todo.snap \in Snapshots
    BY <1>4, JobFields DEF MarkWorkload, MarkInput, MarkSecret, ApplyTodos
  <2>2. \A D \in SUBSET DOMAIN job.todo.snap.workloads : Restrict(job.todo.snap.workloads, D) \in Partial(Ids, Ids)
    BY <2>1, RestrictPartial DEF Snapshots
  <2>3. \E snap \in Snapshots : Marked(snap)
    BY <1>4, <2>1, <2>2 DEF MarkWorkload, MarkInput, MarkSecret, Snapshots
  <2>4. job \in [at : {"mark"}, todo : ApplyTodos]
    BY <1>1, <2>1 DEF JobAt, NoJob
  <2>5. job' \in [at : {"mark"}, todo : ApplyTodos]
    BY <2>3, <2>4 DEF Marked, ApplyTodos
  <2> QED
    BY <1>1, <1>4, <2>5 DEF MarkWorkload, MarkInput, MarkSecret, StateFlakeTypeOK
<1>5. CASE MarkRefused \/ Finish \/ JobStops
  BY <1>1, <1>5 DEF MarkRefused, Finish, JobStops, StateFlakeTypeOK
<1>6. CASE AllMarked
  <2>1. job.todo \in Todos
    BY <1>6, JobFields DEF AllMarked, JobAt
  <2> QED
    BY <1>1, <1>6, <2>1 DEF AllMarked, JobGoto, StateFlakeTypeOK
<1>7. CASE DeleteRow
  <2>1. job.todo \in DestroyTodos
    BY <1>7, JobFields DEF DeleteRow, JobAt
  <2> QED
    BY <1>1, <1>7, <2>1 DEF DeleteRow, JobGoto, StateFlakeTypeOK
<1>8. CASE DeleteFile
  <2>1. job.todo \in DestroyTodos /\ job.todo \in Todos
    BY <1>8, JobFields DEF DeleteFile, JobAt, Todos
  <2>2. job.todo.target.name \in Names
    BY <2>1 DEF DestroyTodos
  <2> QED
    BY <1>1, <1>8, <2>1, <2>2, FilesTyped DEF DeleteFile, JobGoto, StateFlakeTypeOK
<1> QED
  BY <1>2, <1>3, <1>4, <1>5, <1>6, <1>7, <1>8 DEF Job

\* Types and whole rows go together: a snapshot of the latest revisions has
\* its type because every workload has one.
LEMMA StepKeepsRows ==
  ASSUME TypeOK, RowsAreWhole, [Next]_vars
  PROVE  TypeOK' /\ RowsAreWhole'
<1>1. StoreTypeOK' /\ RowsAreWhole'
  <2>1. StoreTypeOK
    BY DEF TypeOK
  <2>2. CASE UNCHANGED storeVars
    BY <2>1, <2>2 DEF storeVars, StoreTypeOK, RowsAreWhole, RevisionsOf, IdsOf
  <2> QED
    BY <2>1, <2>2, StepIsStatement, StatementKeepsTypes, StatementKeepsRows
<1>2. TypeOutside'
  <2>1. CASE UNCHANGED vars
    BY <2>1 DEF vars, fileVars, hostVars, histVars, TypeOK, TypeOutside, StateFlakeTypeOK
  <2> QED
    BY <2>1, WorkloadStepTyped, SecretStepTyped, FlakeStepTyped, ApplyStepTyped, AbortTyped, JobTyped
    DEF Next, Handler
<1> QED
  BY <1>1, <1>2 DEF TypeOK, TypeOutside

\* The two together are inductive.
LEMMA RowsInvariant == Spec => [](TypeOK /\ RowsAreWhole)
<1>1. TypeOK /\ RowsAreWhole /\ [Next]_vars => (TypeOK /\ RowsAreWhole)'
  BY StepKeepsRows
<1> QED
  BY <1>1, ApplyInitInv, PTL DEF Spec

\* Every variable of Apply has its type: ids stay unique and in range, a request
\* and the job hold what the stage they stand at needs (handlers_system.go:77-214).
THEOREM ApplyTyped == Spec => []TypeOK
  BY RowsInvariant, PTL

\* The tables stay whole for any number of concurrent handlers: every workload
\* has its revisions, marks refer to revisions that exist, and no id is shared
\* (migrations.go:3-91, store.go:75-190).
THEOREM ApplyRowsAreWhole == Spec => []RowsAreWhole
  BY RowsInvariant, PTL
-----------------------------------------------------------------------------
(* Secrets, their ciphertexts and the two files that must agree on them,   *)
(* when requests are served one at a time.                                 *)

\* One request at a time.
OneAtATime == \A g, h \in Handlers : g = h

\* Between the first file an apply writes and the slot.
IndexWritten(h) == \/ req[h].at \in {"read_flake", "write_flake", "snapshot", "prune"}
                   \/ At(h, "start") /\ req[h].todo.kind \in Kinds

\* Between the second and the slot.
FlakeWritten(h) == \/ req[h].at \in {"snapshot", "prune"}
                   \/ At(h, "start") /\ req[h].todo.kind \in Kinds

\* Every secret has its ciphertext, and so has the one about to get its row.
SecretsSealed == /\ DOMAIN secret \subseteq DOMAIN secretFile
                 /\ \A h \in Handlers : At(h, "secret_row") => req[h].name \in DOMAIN secretFile

\* What an apply has read and written of the secrets is still so.
SecretsStand ==
  \A h \in Handlers :
    /\ At(h, "write_index") => DOMAIN req[h].index.secrets = DOMAIN secret
    /\ IndexWritten(h) => DOMAIN index.secrets = DOMAIN secret
    /\ At(h, "write_flake") => (req[h].flake.agenix <=> DOMAIN secret # {})
    /\ FlakeWritten(h) => (flake.agenix <=> DOMAIN secret # {})
    /\ At(h, "prune") => req[h].keep = DOMAIN secret

\* The inductive invariant.
CipherInv == SecretsSealed /\ SecretsStand /\ IndexedSecretsHaveCiphertext

\* Empty tables satisfy it.
LEMMA CipherInit == Init => CipherInv
<1> SUFFICES ASSUME Init PROVE CipherInv
  OBVIOUS
<1> USE DEF Init, StoreInit, StateFlakeInit, Idle, At
<1>1. SecretsSealed /\ IndexedSecretsHaveCiphertext
  BY DEF SecretsSealed, IndexedSecretsHaveCiphertext
<1>2. SecretsStand
  BY DEF SecretsStand, IndexWritten, FlakeWritten
<1> QED
  BY <1>1, <1>2 DEF CipherInv

\* A job adds, removes and reseals no secret.
LEMMA JobLeavesSecrets ==
  ASSUME Job
  PROVE  /\ DOMAIN secret' = DOMAIN secret
         /\ UNCHANGED <<secretFile, index, flake, req>>
<1> USE DEF MarkOnly, fileVars, storeVars
<1>1. CASE \E id \in Ids : MarkWorkload(id) \/ MarkInput(id) \/ MarkSecret(id)
  BY <1>1 DEF MarkWorkload, MarkInput, MarkSecret, MarkSecretApplied, UpdateById
<1>2. CASE DeleteRow
  BY <1>2 DEF DeleteRow, DeleteWorkload
<1>3. CASE Stage \/ Switch \/ MarkRefused \/ AllMarked \/ DeleteFile \/ Finish \/ JobStops
  BY <1>3 DEF Stage, Switch, MarkRefused, AllMarked, DeleteFile, Finish, JobStops
<1> QED
  BY <1>1, <1>2, <1>3 DEF Job

\* A request that was sent back or moved, alone.
LEMMA Moves ==
  ASSUME TypeOK, OneAtATime, NEW h \in Handlers
  PROVE  /\ \A r : To(h, r) => req'[h] = r
         /\ Return(h) => req'[h] = Idle
         /\ \A g \in Handlers : g = h
  BY DEF TypeOK, OneAtATime, To, Return

\* A step of the one handler keeps it.
LEMMA CipherHandlerStep ==
  ASSUME TypeOK, OneAtATime, CipherInv, NEW h \in Handlers, Handler(h)
  PROVE  CipherInv'
<1> DEFINE Rest == /\ DOMAIN secret' \subseteq DOMAIN secretFile'
                   /\ DOMAIN index'.secrets \subseteq DOMAIN secretFile'
           Stands == /\ At(h, "secret_row")' => req'[h].name \in DOMAIN secretFile'
                     /\ At(h, "write_index")' => DOMAIN req'[h].index.secrets = DOMAIN secret'
                     /\ IndexWritten(h)' => DOMAIN index'.secrets = DOMAIN secret'
                     /\ At(h, "write_flake")' => (req'[h].flake.agenix <=> DOMAIN secret' # {})
                     /\ FlakeWritten(h)' => (flake'.agenix <=> DOMAIN secret' # {})
                     /\ At(h, "prune")' => req'[h].keep = DOMAIN secret'
<1>1. SUFFICES Rest /\ Stands
  BY Moves DEF CipherInv, SecretsSealed, SecretsStand, IndexedSecretsHaveCiphertext
<1>2. /\ DOMAIN secret \subseteq DOMAIN secretFile
      /\ DOMAIN index.secrets \subseteq DOMAIN secretFile
      /\ At(h, "secret_row") => req[h].name \in DOMAIN secretFile
      /\ At(h, "write_index") => DOMAIN req[h].index.secrets = DOMAIN secret
      /\ IndexWritten(h) => DOMAIN index.secrets = DOMAIN secret
      /\ At(h, "write_flake") => (req[h].flake.agenix <=> DOMAIN secret # {})
      /\ FlakeWritten(h) => (flake.agenix <=> DOMAIN secret # {})
      /\ At(h, "prune") => req[h].keep = DOMAIN secret
  BY DEF CipherInv, SecretsSealed, SecretsStand, IndexedSecretsHaveCiphertext
<1> USE Moves DEF At, IndexWritten, FlakeWritten, Idle
\* Where nothing of the secrets is touched and the request holds nothing of them.
<1>3. ASSUME DOMAIN secret' = DOMAIN secret, UNCHANGED <<secretFile, index, flake>>,
             req'[h].at \notin {"secret_row", "write_index", "read_flake", "write_flake", "snapshot", "prune", "start"}
      PROVE  Rest /\ Stands
  BY <1>2, <1>3
<1>4. CASE WorkloadStep(h)
  <2> USE DEF fileVars, storeVars, ReadOnly, FilesOnly, RowsOnly
  <2>1. DOMAIN secret' = DOMAIN secret /\ UNCHANGED <<secretFile, index, flake>>
    BY <1>4 DEF WorkloadStep, WorkloadCreate, WorkloadRestore, WorkloadSave, WriteWorkloadFile,
                CreateWorkloadRow, SaveRevisionRow, WorkloadRowRefused, SetEnabled
  <2>2. \/ req'[h].at \in {"create_file", "save_file", "create_row", "save_row", "idle"}
        \/ req'[h] = req[h] /\ req[h].at = "idle"
    <3>1. CASE WriteWorkloadFile(h)
      <4>1. req' = [req EXCEPT ![h] = [req[h] EXCEPT !.at = IF At(h, "create_file") THEN "create_row" ELSE "save_row"]]
        BY <3>1 DEF WriteWorkloadFile, Goto, To
      <4>2. req[h] \in [at : {"create_file", "create_row"}, name : Names, doc : Docs]
            \/ req[h] \in [at : {"save_file", "save_row"}, name : Names, id : Ids, doc : Docs]
        BY <3>1, RequestFields DEF WriteWorkloadFile
      <4> QED
        BY <4>1, <4>2 DEF TypeOK
    <3>2. CASE \E n \in Names, doc \in Docs : WorkloadCreate(h, n, doc) \/ WorkloadSave(h, n, doc)
      BY <3>2 DEF WorkloadCreate, WorkloadSave
    <3>3. CASE \E n \in Names, r \in Ids : WorkloadRestore(h, n, r)
      BY <3>3 DEF WorkloadRestore, WorkloadSave
    <3>4. CASE CreateWorkloadRow(h) \/ SaveRevisionRow(h) \/ WorkloadRowRefused(h)
      BY <3>4 DEF CreateWorkloadRow, SaveRevisionRow, WorkloadRowRefused
    <3>5. CASE \E n \in Names, b \in BOOLEAN : SetEnabled(h, n, b)
      BY <3>5 DEF SetEnabled
    <3> QED
      BY <1>4, <3>1, <3>2, <3>3, <3>4, <3>5 DEF WorkloadStep
  <2> QED
    BY <1>3, <2>1, <2>2
<1>5. CASE SecretStep(h)
  <2> USE DEF fileVars, storeVars, ReadOnly, FilesOnly, RowsOnly
  <2>1. ASSUME NEW s \in SecretNames, NEW value \in Values, NEW mounts \in SUBSET Ids, SecretCreate(h, s, value, mounts)
        PROVE  Rest /\ Stands
    BY <1>3, <2>1 DEF SecretCreate
  <2>2. ASSUME NEW s \in SecretNames, NEW blank \in BOOLEAN, NEW value \in Values, NEW mounts \in SUBSET Ids,
               SecretSave(h, s, blank, value, mounts)
        PROVE  Rest /\ Stands
    BY <1>2, <2>2 DEF SecretSave
  <2>3. CASE SealSecret(h)
    <3>1. DOMAIN secretFile' = DOMAIN secretFile \union {req[h].name}
      BY <2>3 DEF SealSecret, WriteSecret, With
    <3>2. req'[h] = [req[h] EXCEPT !.at = "secret_row"]
      BY <2>3 DEF SealSecret, Goto
    <3>3. req'[h].at = "secret_row" /\ req'[h].name = req[h].name
      BY <2>3, <3>2, RequestFields DEF SealSecret
    <3> QED
      BY <1>2, <2>3, <3>1, <3>3 DEF SealSecret
  <2>4. CASE SecretRow(h)
    <3>1. DOMAIN secret' \subseteq DOMAIN secret \union {req[h].name}
      BY <2>4 DEF SecretRow, CreateSecret, UpdateSecret, UpdateById, With
    <3> QED
      BY <1>2, <2>4, <3>1 DEF SecretRow
  <2>5. CASE SecretRowRefused(h)
    BY <1>3, <2>5 DEF SecretRowRefused
  <2>6. ASSUME NEW s \in SecretNames, SecretDelete(h, s) PROVE Rest /\ Stands
    <3>1. DOMAIN secret' \subseteq DOMAIN secret
      BY <2>6 DEF SecretDelete, DeleteSecret, Restrict
    <3> QED
      BY <1>2, <2>6, <3>1 DEF SecretDelete
  <2>7. ASSUME NEW s \in SecretNames, NEW n \in Names, NEW attach \in BOOLEAN, SetMount(h, s, n, attach)
        PROVE  Rest /\ Stands
    BY <1>3, <2>7 DEF SetMount, AddSecretMount, RemoveSecretMount, UpdateById
  <2>8. CASE TouchOnChange(h)
    BY <1>3, <2>8 DEF TouchOnChange, TouchSecret, UpdateById
  <2> QED
    BY <1>5, <2>1, <2>2, <2>3, <2>4, <2>5, <2>6, <2>7, <2>8 DEF SecretStep
<1>6. CASE FlakeStep(h)
  <2>1. FlakeEdit(h)
    BY <1>6 DEF FlakeStep, FlakeCreate, FlakeSave, FlakeDelete
  <2>2. req'[h].at = "idle"
    BY <1>6, <2>1 DEF FlakeStep, FlakeCreate, FlakeSave, FlakeDelete, FlakeEdit
  <2> QED
    BY <1>3, <2>1, <2>2 DEF FlakeEdit, RowsOnly, fileVars
<1>7. CASE ApplyStep(h)
  <2> USE DEF fileVars, storeVars, ReadOnly, FilesOnly, RowsOnly
  <2>1. ASSUME NEW kind \in Kinds, ApplyRequest(h, kind) PROVE Rest /\ Stands
    BY <1>3, <2>1 DEF ApplyRequest
  <2>2. ASSUME NEW n \in Names, DestroyRequest(h, n) PROVE Rest /\ Stands
    BY <1>3, <2>2 DEF DestroyRequest
  <2>3. CASE ReadIndex(h)
    BY <1>2, <2>3 DEF ReadIndex, IndexOfStore
  <2>4. CASE WriteIndexFile(h)
    <3>1. /\ req'[h].at = AfterIndex(req[h].todo) /\ req'[h].todo = req[h].todo
          /\ DOMAIN index'.secrets = DOMAIN secret /\ DOMAIN secret' = DOMAIN secret /\ secretFile' = secretFile
      BY <1>2, <2>4 DEF WriteIndexFile, WriteIndex
    <3>2. req'[h].at = IF req[h].todo.kind = "destroy" THEN "start" ELSE "read_flake"
      BY <3>1 DEF AfterIndex
    <3>3. ~FlakeWritten(h)'
      BY <3>1, <3>2 DEF Kinds
    <3> QED
      BY <1>2, <3>1, <3>2, <3>3
  <2>5. CASE ReadFlake(h)
    <3>1. /\ req'[h] = [at |-> "write_flake", todo |-> req[h].todo, flake |-> FlakeOfStore]
          /\ UNCHANGED <<secret, secretFile, index, flake>>
      BY <2>5 DEF ReadFlake
    <3>2. FlakeOfStore.agenix <=> DOMAIN secret # {}
      BY Zenon DEF FlakeOfStore
    <3>3. DOMAIN index.secrets = DOMAIN secret
      BY <1>2, <2>5 DEF ReadFlake
    <3>4. req'[h].at = "write_flake" /\ req'[h].flake = FlakeOfStore
      BY <3>1
    <3> QED
      BY <1>2, <3>1, <3>2, <3>3, <3>4
  <2>6. CASE WriteFlakeFile(h)
    BY <1>2, <2>6 DEF WriteFlakeFile, WriteFlake
  <2>7. CASE TakeSnapshot(h)
    BY <1>2, <2>7 DEF TakeSnapshot
  <2>8. CASE Prune(h)
    <3>1. DOMAIN secretFile' = DOMAIN secretFile \intersect DOMAIN secret
      BY <1>2, <2>8 DEF Prune, PruneSecrets, Restrict
    <3> QED
      BY <1>2, <2>8, <3>1 DEF Prune
  <2>9. CASE Start(h)
    BY <1>3, <2>9 DEF Start
  <2> QED
    BY <1>7, <2>1, <2>2, <2>3, <2>4, <2>5, <2>6, <2>7, <2>8, <2>9 DEF ApplyStep
<1>8. CASE Abort(h)
  BY <1>3, <1>8 DEF Abort, storeVars, fileVars
<1> QED
  BY <1>4, <1>5, <1>6, <1>7, <1>8 DEF Handler

\* So does every step.
LEMMA CipherStep == TypeOK /\ OneAtATime /\ CipherInv /\ [Next]_vars => CipherInv'
<1> SUFFICES ASSUME TypeOK, OneAtATime, CipherInv, [Next]_vars PROVE CipherInv'
  OBVIOUS
<1> USE DEF CipherInv, SecretsSealed, SecretsStand, IndexedSecretsHaveCiphertext, At, IndexWritten, FlakeWritten
<1>1. CASE Job
  BY <1>1, JobLeavesSecrets
<1>2. CASE UNCHANGED vars
  BY <1>2 DEF vars, storeVars, fileVars
<1> QED
  BY <1>1, <1>2, CipherHandlerStep DEF Next

\* It holds in every state.
LEMMA CipherInvariant == ASSUME OneAtATime PROVE Spec => []CipherInv
<1>1. TypeOK /\ CipherInv /\ [Next]_vars => CipherInv'
  BY CipherStep
<1> QED
  BY <1>1, CipherInit, ApplyTyped, PTL DEF Spec

\* handlers_secrets.go:206-209: with requests served one at a time, the index
\* never points at a ciphertext that is gone.
THEOREM IndexedSecretsSealed == ASSUME OneAtATime PROVE Spec => []IndexedSecretsHaveCiphertext
<1>1. CipherInv => IndexedSecretsHaveCiphertext
  BY DEF CipherInv
<1> QED
  BY <1>1, CipherInvariant, PTL

\* flakes.go:139-140: with requests served one at a time, flake.nix imports
\* agenix exactly when the index declares secrets, for every apply that asks
\* for the slot.
THEOREM ApplyMirrors == ASSUME OneAtATime PROVE Spec => []ApplyMirrorsAgenix
<1>1. CipherInv => ApplyMirrorsAgenix
  BY DEF CipherInv, SecretsStand, IndexWritten, FlakeWritten, ApplyMirrorsAgenix, MirrorsAgenix, AgenixMirrorsIndex,
         Kinds
<1> QED
  BY <1>1, CipherInvariant, PTL
=============================================================================
