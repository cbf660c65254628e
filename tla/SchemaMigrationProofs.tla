------------------------ MODULE SchemaMigrationProofs ------------------------
(***************************************************************************)
(* Proofs about the v1 memory and its migration for every set of memories, *)
(* of processes that use schema 1 and of migrators: what a migration takes *)
(* over, that what was revoked stays revoked, what the index holds, that   *)
(* the keys of the workspace go on opening what was written, and what the  *)
(* migration makes of the transcript of a session.                         *)
(***************************************************************************)
EXTENDS MCSchemaMigration, FiniteSetTheorems, SequenceTheorems, WellFoundedInduction, TLAPS

Stages == Row \cup {Unused, Purged}

RowsOK == version \in {1, 2} /\ rows \in [Memories -> Stages]

\* A row in one of the two states in which it is in the table.
LEMMA StoredRows ==
  ASSUME RowsOK, NEW id \in Memories
  PROVE  /\ Stored(id) => rows[id] \in Row
         /\ ~Stored(id) => rows[id] \in {Unused, Purged}
BY DEF RowsOK, Stages, Stored, Row, Unused, Purged

\* What a step of a v1 process makes of a row.
RowStep(p, id) ==
  \/ rows'[id] = rows[id]
  \/ /\ Remember(p) /\ rows[id] = Unused
     /\ rows'[id].state = "live" /\ rows'[id].index \in {"pending_index", "not_indexed"}
  \/ /\ calls[p].step \in {"mark", "mark_failed"} /\ id = Target(p) /\ Stored(id)
     /\ rows'[id].state = rows[id].state
     /\ rows'[id].index = IF At(p, "mark") THEN "indexed" ELSE "index_failed"
  \/ /\ At(p, "revoke") /\ id = Target(p) /\ rows[id].state = "live"
     /\ rows'[id].state = "deleted" /\ rows'[id].index = "pending_delete"
  \/ /\ At(p, "purge") /\ id = Target(p) /\ rows[id].state = "deleted" /\ rows'[id] = Purged
     /\ Purge(p)

LEMMA RowsMove ==
  ASSUME RowsOK, NEW p \in Procs, V1Step(p)
  PROVE  RowsOK' /\ version' = version /\ \A id \in Memories : RowStep(p, id)
<1>1. version' = version
  BY DEF V1Step, Open, Close, Remember, PutVector, PutVectorFails, Mark, Forget, Revoke, Unindex,
         UnindexFails, Purge, RetryPendingDeletions, ResetIndex, ListLive, RecallForIndex
<1>2. rows \in [Memories -> Stages]
  BY DEF RowsOK
<1>3. CASE rows' = rows
  BY <1>1, <1>3 DEF RowsOK, RowStep
<1>4. ASSUME NEW id \in Memories, NEW row \in Stages, rows' = [rows EXCEPT ![id] = row],
             RowStep(p, id)
      PROVE  RowsOK' /\ \A x \in Memories : RowStep(p, x)
  BY <1>1, <1>2, <1>4 DEF RowsOK, RowStep
<1>5. CASE Remember(p)
  <2>1. PICK scope \in Scopes, id \in Memories :
          /\ rows[id] = Unused
          /\ rows' = [rows EXCEPT ![id] =
                        [state |-> "live", scope |-> scope,
                         index |-> IF ToIndex(p, scope) THEN "pending_index" ELSE "not_indexed"]]
    BY <1>5 DEF Remember
  <2>2. PICK row : row = [state |-> "live", scope |-> scope,
                          index |-> IF ToIndex(p, scope) THEN "pending_index" ELSE "not_indexed"]
    OBVIOUS
  <2>3. /\ row \in Row /\ row.state = "live" /\ row.index \in {"pending_index", "not_indexed"}
    BY <2>2 DEF Row, IndexStatuses
  <2>4. rows'[id] = row
    BY <1>2, <2>1, <2>2
  <2>5. RowStep(p, id)
    BY <1>5, <2>1, <2>3, <2>4 DEF RowStep
  <2>. QED  BY <1>1, <1>4, <2>1, <2>2, <2>3, <2>5 DEF Stages
<1>6. CASE Mark(p) /\ rows' # rows
  <2>1. PICK id, index : id = Target(p) /\ index = StatusAfterPut(p)
    OBVIOUS
  <2>2. /\ calls[p].step \in {"mark", "mark_failed"} /\ Stored(id)
        /\ rows' = [rows EXCEPT ![id].index = index]
    BY <1>6, <2>1 DEF Mark
  <2>3. id \in Memories
    BY <1>2, <1>6, <2>2
  <2>4. rows[id] \in Row
    BY <2>2, <2>3, StoredRows
  <2>5. PICK row : row = [rows[id] EXCEPT !.index = index]
    OBVIOUS
  <2>6. row \in Row /\ row.state = rows[id].state /\ row.index = index
    BY <2>1, <2>4, <2>5 DEF Row, IndexStatuses, StatusAfterPut
  <2>7. rows' = [rows EXCEPT ![id] = row] /\ rows'[id] = row
    BY <1>2, <2>2, <2>3, <2>5
  <2>8. RowStep(p, id)
    BY <2>1, <2>2, <2>6, <2>7 DEF RowStep, StatusAfterPut
  <2>. QED  BY <1>1, <1>4, <2>3, <2>6, <2>7, <2>8 DEF Stages
<1>7. CASE Revoke(p) /\ rows' # rows
  <2>1. PICK id : id = Target(p)
    OBVIOUS
  <2>2. /\ At(p, "revoke") /\ Visible(id)
        /\ rows' = [rows EXCEPT ![id].state = "deleted", ![id].index = "pending_delete"]
    BY <1>7, <2>1 DEF Revoke
  <2>3. id \in Memories
    BY <1>2, <1>7, <2>2
  <2>4. rows[id] \in Row /\ rows[id].state = "live"
    BY <2>2, <2>3, StoredRows DEF Stored, Visible
  <2>5. PICK row : row = [rows[id] EXCEPT !.state = "deleted", !.index = "pending_delete"]
    OBVIOUS
  <2>6. row \in Row /\ row.state = "deleted" /\ row.index = "pending_delete"
    BY <2>4, <2>5 DEF Row, IndexStatuses
  <2>7. rows' = [rows EXCEPT ![id] = row] /\ rows'[id] = row
    BY <1>2, <2>2, <2>3, <2>4, <2>5 DEF Row
  <2>8. RowStep(p, id)
    BY <2>1, <2>2, <2>4, <2>6, <2>7 DEF RowStep
  <2>. QED  BY <1>1, <1>4, <2>3, <2>6, <2>7, <2>8 DEF Stages
<1>8. CASE Purge(p) /\ rows' # rows
  <2>1. PICK id : id = Target(p)
    OBVIOUS
  <2>2. At(p, "purge") /\ rows[id].state = "deleted" /\ rows' = [rows EXCEPT ![id] = Purged]
    BY <1>8, <2>1 DEF Purge
  <2>3. id \in Memories
    BY <1>2, <1>8, <2>2
  <2>4. rows'[id] = Purged
    BY <1>2, <2>2, <2>3
  <2>5. RowStep(p, id)
    BY <1>8, <2>1, <2>2, <2>4 DEF RowStep
  <2>. QED  BY <1>1, <1>4, <2>2, <2>3, <2>5 DEF Stages
<1>9. \/ rows' = rows \/ Remember(p) \/ (Mark(p) /\ rows' # rows)
      \/ (Revoke(p) /\ rows' # rows) \/ (Purge(p) /\ rows' # rows)
  BY DEF V1Step, Open, Close, PutVector, PutVectorFails, Forget, Unindex, UnindexFails,
         RetryPendingDeletions, ResetIndex, ListLive, RecallForIndex
<1>. QED  BY <1>1, <1>3, <1>5, <1>6, <1>7, <1>8, <1>9

-----------------------------------------------------------------------------
(***************************************************************************)
(* The shadow.                                                             *)
(*                                                                         *)
(* Until the switch the shadow is what the journal says of it: empty, or   *)
(* the copy of exactly the rows whose digest was prepared, however often   *)
(* migrators have stopped and copied again.  The switch finds the digest   *)
(* of the rows as they are then.                                           *)
(***************************************************************************)
RecordsOK == /\ journal = [prepared |-> journal.prepared, verified |-> journal.verified]
             /\ shadow = [tables |-> shadow.tables, rows |-> shadow.rows]

ShadowIsPrepared ==
  version = 1 =>
    \/ journal.prepared = {} /\ DOMAIN shadow.rows = {}
    \/ \E S : journal.prepared = {S} /\ shadow.rows = [id \in DOMAIN S |-> Migrated(S[id])]

MigrationInv == RowsOK /\ RecordsOK /\ ShadowIsPrepared

\* What a migrator leaves of the rows and of the shadow.
MigratorCase ==
  \/ UNCHANGED <<version, rows, shadow, journal, backup>>
  \/ /\ UNCHANGED <<version, rows, backup>>
     /\ \/ \E tables : shadow' = [shadow EXCEPT !.tables = tables] /\ UNCHANGED journal
        \/ journal' = [journal EXCEPT !.verified = TRUE] /\ UNCHANGED shadow
        \/ /\ version = 1 /\ SameSource
           /\ shadow' = [shadow EXCEPT !.rows = CopiedRows]
           /\ journal' = [journal EXCEPT !.prepared = {Snapshot}]
  \/ /\ UnchangedSincePrepared
     /\ version' = 2
     /\ backup' = Snapshot
     /\ rows' = [id \in Memories |-> IF id \in DOMAIN shadow.rows THEN shadow.rows[id]
                                     ELSE IF Stored(id) THEN Purged ELSE rows[id]]
     /\ shadow' = [tables |-> "none", rows |-> NoRows]
     /\ UNCHANGED journal

LEMMA MigratorCases ==
  ASSUME NEW m \in Migrators, MigratorStep(m) \/ Stop(m)
  PROVE  MigratorCase /\ UNCHANGED <<vectors, calls>>
<1>1. CASE Copy(m)
  BY <1>1 DEF Copy, MigratorCase
<1>2. CASE Switch(m)
  BY <1>2 DEF Switch, MigratorCase
<1>3. CASE CreateShadow(m) \/ FinishScript(m)
  BY <1>3 DEF CreateShadow, FinishScript, MigratorCase
<1>4. CASE RecordVerified(m)
  BY <1>4 DEF RecordVerified, MigratorCase
<1>5. CASE Prepare(m) \/ VerifyShadow(m) \/ Stop(m)
  BY <1>5 DEF Prepare, VerifyShadow, Stop, MigratorCase
<1>. QED  BY <1>1, <1>2, <1>3, <1>4, <1>5 DEF MigratorStep

\* The switch replaces every row that is in the table by its migration and no other.
LEMMA SwitchedRows ==
  ASSUME MigrationInv, UnchangedSincePrepared,
         rows' = [id \in Memories |-> IF id \in DOMAIN shadow.rows THEN shadow.rows[id]
                                      ELSE IF Stored(id) THEN Purged ELSE rows[id]]
  PROVE  \A id \in Memories :
           /\ rows'[id] = IF Stored(id) THEN Migrated(rows[id]) ELSE rows[id]
           /\ Stored(id) => Migrated(rows[id]) \in Row
                            /\ Migrated(rows[id]).state = rows[id].state
                            /\ Migrated(rows[id]).index = rows[id].index
                            /\ (Migrated(rows[id]).scope = "workspace" <=> rows[id].scope = "workspace")
<1>1. PICK S : journal.prepared = {S} /\ shadow.rows = [id \in DOMAIN S |-> Migrated(S[id])]
  BY DEF MigrationInv, ShadowIsPrepared, UnchangedSincePrepared
<1>2. S = Snapshot
  BY <1>1 DEF UnchangedSincePrepared
<1>3. DOMAIN S = StoredIds /\ \A id \in StoredIds : S[id] = rows[id]
  BY <1>2 DEF Snapshot
<1>4. DOMAIN shadow.rows = StoredIds
      /\ \A id \in StoredIds : shadow.rows[id] = Migrated(rows[id])
  BY <1>1, <1>3
<1>5. ASSUME NEW id \in Memories
      PROVE  rows'[id] = IF Stored(id) THEN Migrated(rows[id]) ELSE rows[id]
  BY <1>4 DEF StoredIds
<1>6. ASSUME NEW id \in Memories, Stored(id)
      PROVE  /\ Migrated(rows[id]) \in Row
             /\ Migrated(rows[id]).state = rows[id].state
             /\ Migrated(rows[id]).index = rows[id].index
             /\ (Migrated(rows[id]).scope = "workspace" <=> rows[id].scope = "workspace")
  <2>1. rows[id] \in Row
    BY <1>6, StoredRows DEF MigrationInv
  <2>. QED  BY <2>1 DEF Migrated, Row, Scopes
<1>. QED  BY <1>5, <1>6

LEMMA MigrationInvStep ==
  ASSUME MigrationInv, [Next]_vars
  PROVE  MigrationInv'
<1>0. RowsOK /\ RecordsOK /\ ShadowIsPrepared
  BY DEF MigrationInv
<1>1. CASE UNCHANGED <<version, rows, shadow, journal>>
  BY <1>0, <1>1 DEF MigrationInv, RowsOK, RecordsOK, ShadowIsPrepared, Migrated
<1>2. ASSUME NEW p \in Procs, V1Call(p)
      PROVE  MigrationInv'
  <2>1. V1Step(p) /\ UNCHANGED <<shadow, journal>>
    BY <1>2 DEF V1Call
  <2>2. RowsOK' /\ version' = version
    BY <1>0, <2>1, RowsMove
  <2>. QED  BY <1>0, <2>1, <2>2 DEF MigrationInv, RecordsOK, ShadowIsPrepared, Migrated
<1>3. CASE MigratorCase
  <2>1. ASSUME NEW tables, shadow' = [shadow EXCEPT !.tables = tables],
               UNCHANGED <<version, rows, journal>>
        PROVE  MigrationInv'
    <3>1. RecordsOK' /\ shadow'.rows = shadow.rows
      BY <1>0, <2>1 DEF RecordsOK
    <3>. QED  BY <1>0, <2>1, <3>1 DEF MigrationInv, RowsOK, ShadowIsPrepared, Migrated
  <2>2. ASSUME journal' = [journal EXCEPT !.verified = TRUE],
               UNCHANGED <<version, rows, shadow>>
        PROVE  MigrationInv'
    <3>1. RecordsOK' /\ journal'.prepared = journal.prepared
      BY <1>0, <2>2 DEF RecordsOK
    <3>. QED  BY <1>0, <2>2, <3>1 DEF MigrationInv, RowsOK, ShadowIsPrepared, Migrated
  <2>3. ASSUME version = 1, SameSource, UNCHANGED <<version, rows>>,
               shadow' = [shadow EXCEPT !.rows = CopiedRows],
               journal' = [journal EXCEPT !.prepared = {Snapshot}]
        PROVE  MigrationInv'
    <3>1. PICK S, copied : S = Snapshot /\ copied = CopiedRows
      OBVIOUS
    <3>2. DOMAIN S = StoredIds /\ \A id \in StoredIds : S[id] = rows[id]
      BY <3>1 DEF Snapshot
    <3>3. RecordsOK' /\ journal'.prepared = {S} /\ shadow'.rows = copied
      BY <1>0, <2>3, <3>1 DEF RecordsOK
    <3>4. copied = [id \in DOMAIN S |-> Migrated(S[id])]
      <4>1. CASE journal.prepared = {} /\ DOMAIN shadow.rows = {}
        BY <3>1, <3>2, <4>1 DEF CopiedRows
      <4>2. ASSUME NEW Q, journal.prepared = {Q},
                   shadow.rows = [id \in DOMAIN Q |-> Migrated(Q[id])]
            PROVE  copied = [id \in DOMAIN S |-> Migrated(S[id])]
        <5>1. Q = S
          BY <2>3, <3>1, <4>2 DEF SameSource
        <5>. QED  BY <3>1, <3>2, <4>2, <5>1 DEF CopiedRows
      <4>. QED  BY <1>0, <2>3, <4>1, <4>2 DEF ShadowIsPrepared
    <3>5. ShadowIsPrepared'
      BY <3>3, <3>4 DEF ShadowIsPrepared, Migrated
    <3>. QED  BY <1>0, <2>3, <3>3, <3>5 DEF MigrationInv, RowsOK
  <2>4. ASSUME UnchangedSincePrepared, version' = 2, UNCHANGED journal,
               rows' = [id \in Memories |-> IF id \in DOMAIN shadow.rows THEN shadow.rows[id]
                                            ELSE IF Stored(id) THEN Purged ELSE rows[id]],
               shadow' = [tables |-> "none", rows |-> NoRows]
        PROVE  MigrationInv'
    <3>1. \A id \in Memories : rows'[id] \in Stages
      BY <1>0, <2>4, SwitchedRows, StoredRows DEF MigrationInv, Stages
    <3>2. RowsOK'
      BY <2>4, <3>1 DEF RowsOK
    <3>3. RecordsOK'
      BY <1>0, <2>4 DEF RecordsOK
    <3>. QED  BY <2>4, <3>2, <3>3 DEF MigrationInv, ShadowIsPrepared
  <2>. QED  BY <1>1, <1>3, <2>1, <2>2, <2>3, <2>4 DEF MigratorCase
<1>. QED  BY <1>1, <1>2, <1>3, MigratorCases DEF Next, vars

LEMMA MigrationInvHolds == Spec => []MigrationInv
<1>1. Init => MigrationInv
  BY DEF Init, V1Init, MigrationInv, RowsOK, RecordsOK, ShadowIsPrepared, Stages, NoRows
<1>2. MigrationInv /\ [Next]_vars => MigrationInv'
  BY MigrationInvStep
<1>. QED  BY <1>1, <1>2, PTL DEF Spec

\* The switch loses no row, brings back none and takes over every deletion, for every
\* interleaving of the processes of schema 1 with migrators that stop at any step.
THEOREM AuthorityKept == Spec => SwitchKeepsAuthority
<1>1. ASSUME MigrationInv, [Next]_vars, version # version'
      PROVE  /\ SameRows(Snapshot, [id \in {i \in Memories : Stored(i)'} |-> rows'[id]])
             /\ backup' = Snapshot
  <2>1. \A p \in Procs : ~V1Call(p)
    BY <1>1, RowsMove DEF V1Call, MigrationInv
  <2>2. /\ UnchangedSincePrepared /\ backup' = Snapshot
        /\ rows' = [id \in Memories |-> IF id \in DOMAIN shadow.rows THEN shadow.rows[id]
                                        ELSE IF Stored(id) THEN Purged ELSE rows[id]]
    BY <1>1, <2>1, MigratorCases DEF Next, vars, MigratorCase
  <2>3. \A id \in Memories : Stored(id)' <=> Stored(id)
    BY <1>1, <2>2, SwitchedRows DEF Stored
  <2>4. PICK old, new : old = Snapshot /\ new = [id \in {i \in Memories : Stored(i)'} |-> rows'[id]]
    OBVIOUS
  <2>5. DOMAIN old = StoredIds /\ \A id \in StoredIds : old[id] = rows[id]
    BY <2>4 DEF Snapshot
  <2>6. DOMAIN new = StoredIds
    BY <2>3, <2>4 DEF StoredIds
  <2>7. \A id \in StoredIds : new[id] = Migrated(rows[id])
    BY <1>1, <2>2, <2>3, <2>4, SwitchedRows DEF StoredIds
  <2>8. SameRows(old, new)
    BY <1>1, <2>2, <2>5, <2>6, <2>7, SwitchedRows DEF SameRows, StoredIds
  <2>. QED  BY <2>2, <2>4, <2>8
<1>2. MigrationInv /\ [Next]_vars =>
        [version # version' =>
           /\ SameRows(Snapshot, [id \in {i \in Memories : Stored(i)'} |-> rows'[id]])
           /\ backup' = Snapshot]_vars
  BY <1>1
<1>. QED  BY <1>2, MigrationInvHolds, PTL DEF Spec, SwitchKeepsAuthority

\* What was revoked stays revoked: no retry, no rebuild, no late mark and no migration
\* brings a forgotten memory back.
THEOREM RevokedStays == Spec => RevokedStaysRevoked
<1>1. ASSUME MigrationInv, [Next]_vars, NEW id \in Memories
      PROVE  /\ rows[id].state = "deleted" => rows'[id].state \in {"deleted", "purged"}
             /\ rows[id] = Purged => rows'[id] = Purged
  <2>0. RowsOK /\ Purged.state = "purged" /\ Unused.state = "unused"
    BY <1>1 DEF MigrationInv, Purged, Unused
  <2>1. CASE rows' = rows
    BY <2>1
  <2>2. ASSUME NEW p \in Procs, V1Call(p)
        PROVE  /\ rows[id].state = "deleted" => rows'[id].state \in {"deleted", "purged"}
               /\ rows[id] = Purged => rows'[id] = Purged
    <3>1. RowStep(p, id)
      BY <2>0, <2>2, RowsMove DEF V1Call
    <3>. QED  BY <2>0, <3>1 DEF RowStep, Stored
  <2>3. CASE /\ UnchangedSincePrepared
             /\ rows' = [x \in Memories |-> IF x \in DOMAIN shadow.rows THEN shadow.rows[x]
                                            ELSE IF Stored(x) THEN Purged ELSE rows[x]]
    BY <1>1, <2>0, <2>3, SwitchedRows DEF Stored
  <2>. QED  BY <1>1, <2>1, <2>2, <2>3, MigratorCases DEF Next, vars, MigratorCase
<1>2. MigrationInv /\ [Next]_vars =>
        [\A id \in Memories :
           /\ rows[id].state = "deleted" => rows'[id].state \in {"deleted", "purged"}
           /\ rows[id] = Purged => rows'[id] = Purged]_v1vars
  BY <1>1
<1>. QED  BY <1>2, MigrationInvHolds, PTL DEF Spec, RevokedStaysRevoked

-----------------------------------------------------------------------------
(***************************************************************************)
(* The index of schema 1.                                                  *)
(*                                                                         *)
(* What a call goes on with was read or written some steps before, and no  *)
(* lock is held in between: GoodCall is what is still true of it then,     *)
(* whatever other calls, rebuilds and migrations have done meanwhile.      *)
(***************************************************************************)
Drawn == {id \in Memories : rows[id] # Unused}
Revoked == {id \in Memories : rows[id].state \in {"deleted", "purged"}}

AtItem == {"put", "mark", "mark_failed", "revoke", "unindex", "purge", "recall"}

Call == [op : {"none", "remember", "forget", "retry", "rebuild"},
         step : AtItem \cup {"closed", "open", "list"},
         todo : Seq(Memories),
         chroma : BOOLEAN]

GoodCall(c) ==
  /\ c.todo \in Seq(Drawn)
  /\ c.step \in AtItem => c.todo # <<>>
  /\ c.op = "retry" => c.todo \in Seq(Revoked)
  /\ c.step \in {"unindex", "purge"} => Head(c.todo) \in Revoked
  /\ c.step = "mark" => Head(c.todo) \in Revoked \cup vectors \cup dropped
  /\ c.step = "purge" /\ c.chroma => Head(c.todo) \notin vectors \ late

LiveAreNotPending ==
  \A id \in Memories : rows[id].state = "live" => rows[id].index # "pending_delete"

\* late is of no matter here: a memory that is live was never revoked.
LiveIndexedHaveVectors ==
  \A id \in Memories \ dropped :
    rows[id].state = "live" /\ rows[id].index = "indexed" => id \in vectors

IndexInv ==
  /\ RowsOK
  /\ IsFiniteSet(StoredIds)
  /\ vectors \subseteq Memories /\ dropped \subseteq Memories
  /\ calls \in [Procs -> Call]
  /\ \A p \in Procs : GoodCall(calls[p])
  /\ LiveAreNotPending
  /\ LiveIndexedHaveVectors
  /\ ForgottenVectorsAreFound

\* A loop goes over the ids that its query returned.
LEMMA LoopItems ==
  ASSUME NEW S, IsFiniteSet(S)
  PROVE  SetToSeq(S) \in Seq(S) /\ (S # {} => SetToSeq(S) # <<>>)
<1>1. PICK n : n = Cardinality(S) /\ n \in Nat /\ ExistsBijection(1..n, S)
  BY FS_CardinalityType
<1>2. \E f \in [1..n -> S] : IsInjective(f)
  BY <1>1 DEF ExistsBijection, Bijection, Injection
<1>3. SetToSeq(S) \in [1..n -> S]
  BY <1>1, <1>2 DEF SetToSeq
<1>4. SetToSeq(S) \in Seq(S)
  BY <1>1, <1>3, SeqDef
<1>5. ASSUME S # {}, SetToSeq(S) = <<>>
      PROVE  FALSE
  <2>1. n # 0
    BY <1>1, <1>5, FS_EmptySet
  <2>2. Len(SetToSeq(S)) = 0 /\ DOMAIN SetToSeq(S) = 1..0
    BY <1>4, <1>5, EmptySeq, LenProperties
  <2>. QED  BY <1>1, <1>3, <2>1, <2>2
<1>. QED  BY <1>4, <1>5

\* What a step may not do to the memories that other calls are at work on.
MemoriesKept ==
  /\ Drawn \subseteq Drawn' /\ Revoked \subseteq Revoked'
  /\ vectors \cup dropped \subseteq vectors' \cup dropped' \cup Revoked'
  /\ Revoked \cap (vectors' \ late') \subseteq vectors \ late

LEMMA CallKept ==
  ASSUME NEW c, GoodCall(c), MemoriesKept
  PROVE  GoodCall(c)'
<1>1. c.todo \in Seq(Drawn') /\ (c.op = "retry" => c.todo \in Seq(Revoked'))
  BY SeqMonotonic DEF GoodCall, MemoriesKept
<1>2. c.step \in {"unindex", "purge"} => Head(c.todo) \in Revoked'
  BY DEF GoodCall, MemoriesKept
<1>3. c.step = "mark" => Head(c.todo) \in Revoked' \cup vectors' \cup dropped'
  BY DEF GoodCall, MemoriesKept
<1>4. c.step = "purge" /\ c.chroma => Head(c.todo) \notin vectors' \ late'
  BY DEF GoodCall, MemoriesKept
<1>. QED  BY <1>1, <1>2, <1>3, <1>4 DEF GoodCall

\* A step of process p with the history variables of the runs.
CallStep(p) ==
  /\ V1Step(p)
  /\ RecordHistory

\* The item of a call, and what its step does to the index.
VectorStep(p) ==
  \/ vectors' = vectors
  \/ /\ At(p, "put") /\ rows' = rows /\ calls'[p] # calls[p]
     /\ vectors' = vectors \cup {Target(p)}
  \/ /\ At(p, "unindex") /\ rows' = rows /\ vectors' = vectors \ {Target(p)}
  \/ /\ At(p, "open") /\ calls'[p].step = "list" /\ rows' = rows /\ vectors' = {}

LEMMA VectorsMove ==
  ASSUME IndexInv, NEW p \in Procs, V1Step(p)
  PROVE  /\ VectorStep(p)
         /\ calls[p].step \in {"mark", "mark_failed"} => calls'[p] # calls[p] /\ vectors' = vectors
         /\ calls[p].step \in AtItem => Target(p) \in Drawn
<1>0. calls[p] \in Call /\ calls \in [Procs -> Call] /\ GoodCall(calls[p])
  BY DEF IndexInv
<1>1. ASSUME PutVector(p)
      PROVE  VectorStep(p)
  <2>1. calls' = [calls EXCEPT ![p].step = "mark"] /\ At(p, "put")
    BY <1>1 DEF PutVector, Goto
  <2>2. calls'[p].step = "mark"
    BY <1>0, <2>1 DEF Call
  <2>3. calls'[p] # calls[p]
    BY <2>1, <2>2 DEF At
  <2>4. rows' = rows /\ vectors' = vectors \cup {Target(p)}
    BY <1>1 DEF PutVector
  <2>. QED  BY <2>1, <2>3, <2>4 DEF VectorStep
<1>2. ASSUME Unindex(p)
      PROVE  VectorStep(p)
  <2>1. At(p, "unindex") /\ rows' = rows /\ vectors' = vectors \ {Target(p)}
    BY <1>2 DEF Unindex
  <2>. QED  BY <2>1 DEF VectorStep
<1>3. ASSUME ResetIndex(p)
      PROVE  VectorStep(p)
  <2>1. calls'[p].step = "list"
    BY <1>0, <1>3 DEF ResetIndex, Continue
  <2>2. At(p, "open") /\ rows' = rows /\ vectors' = {}
    BY <1>3 DEF ResetIndex
  <2>. QED  BY <2>1, <2>2 DEF VectorStep
<1>4. ASSUME calls[p].step \in {"mark", "mark_failed"}
      PROVE  calls'[p] # calls[p] /\ vectors' = vectors
  <2>1. Mark(p) \/ Close(p)
    BY <1>4 DEF V1Step, Open, Remember, PutVector, PutVectorFails, Forget, Revoke, Unindex,
                UnindexFails, Purge, RetryPendingDeletions, ResetIndex, ListLive, RecallForIndex, At
  <2>2. calls'[p].step \in {"recall", "open", "closed"}
    BY <1>0, <2>1 DEF Mark, Close, NextItem, Continue, Return, Closed
  <2>. QED  BY <1>4, <2>1, <2>2 DEF Mark, Close
<1>5. calls[p].step \in AtItem => Target(p) \in Drawn
  BY <1>0, HeadTailProperties DEF GoodCall, Target
<1>6. \/ PutVector(p) \/ Unindex(p) \/ ResetIndex(p) \/ vectors' = vectors
  BY DEF V1Step, Open, Close, Remember, PutVectorFails, Mark, Forget, Revoke, UnindexFails, Purge,
         RetryPendingDeletions, ListLive, RecallForIndex
<1>7. VectorStep(p)
  BY <1>1, <1>2, <1>3, <1>6 DEF VectorStep
<1>. QED  BY <1>4, <1>5, <1>7

\* A step of a process harms no other call, and leaves the index as the statuses say.
LEMMA IndexMoves ==
  ASSUME IndexInv, NEW p \in Procs, CallStep(p)
  PROVE  /\ MemoriesKept
         /\ vectors' \subseteq Memories /\ dropped' \subseteq Memories
         /\ LiveAreNotPending' /\ LiveIndexedHaveVectors' /\ ForgottenVectorsAreFound'
<1>0. /\ RowsOK /\ GoodCall(calls[p]) /\ V1Step(p)
      /\ vectors \subseteq Memories /\ dropped \subseteq Memories
      /\ Unused.state = "unused" /\ Purged.state = "purged"
  BY DEF IndexInv, CallStep, Unused, Purged
<1>1. \A id \in Memories : RowStep(p, id)
  BY <1>0, RowsMove
<1>2. /\ VectorStep(p)
      /\ calls[p].step \in {"mark", "mark_failed"} => calls'[p] # calls[p] /\ vectors' = vectors
      /\ calls[p].step \in AtItem => Target(p) \in Drawn
  BY <1>0, VectorsMove
<1>3. /\ At(p, "unindex") => Target(p) \in Revoked
      /\ At(p, "mark") => Target(p) \in Revoked \cup vectors \cup dropped
      /\ At(p, "purge") /\ calls[p].chroma => Target(p) \notin vectors \ late
  BY <1>0 DEF GoodCall, Target, At
<1>4. late \subseteq late' /\ blind \subseteq blind'
  BY DEF CallStep, RecordHistory
<1>5. ASSUME NEW id \in Memories, calls[p].step \in {"put", "mark", "mark_failed"}, id = Target(p),
             calls'[p] # calls[p], rows[id].state # "live"
      PROVE  id \in late'
  BY <1>5 DEF CallStep, RecordHistory, Written
<1>6. dropped' \subseteq Memories /\ \A id \in dropped : id \in dropped' \/ id \in vectors'
  BY <1>0 DEF CallStep, RecordHistory
<1>7. ASSUME At(p, "open"), calls'[p].step = "list"
      PROVE  dropped' = Memories
  BY <1>7 DEF CallStep, RecordHistory
<1>8. vectors' \subseteq Memories
  BY <1>0, <1>2 DEF VectorStep, At, AtItem, Drawn
<1>9. MemoriesKept
  <2>1. Drawn \subseteq Drawn'
    BY <1>0, <1>1 DEF Drawn, RowStep, Stored
  <2>2. Revoked \subseteq Revoked'
    BY <1>0, <1>1 DEF Revoked, RowStep, Stored
  <2>3. ASSUME NEW id \in vectors \cup dropped
        PROVE  id \in vectors' \cup dropped' \cup Revoked'
    BY <1>0, <1>2, <1>3, <1>6, <1>7, <2>2, <2>3 DEF VectorStep
  <2>4. ASSUME NEW id \in Revoked, id \in vectors', id \notin late'
        PROVE  id \in vectors \ late
    BY <1>2, <1>4, <1>5, <2>4 DEF VectorStep, Revoked, At
  <2>. QED  BY <2>1, <2>2, <2>3, <2>4 DEF MemoriesKept
<1>10. LiveAreNotPending'
  BY <1>0, <1>1 DEF IndexInv, LiveAreNotPending, RowStep, At
<1>11. ASSUME NEW id \in Memories, id \notin dropped', rows'[id].state = "live",
              rows'[id].index = "indexed"
       PROVE  id \in vectors'
  <2>1. SUFFICES ASSUME id \notin dropped
                 PROVE  id \in vectors'
    BY <1>6, <1>11
  <2>2. id \notin Revoked
    BY <1>9, <1>11 DEF MemoriesKept, Revoked
  <2>3. id \in vectors
    BY <1>0, <1>1, <1>3, <1>11, <2>1, <2>2 DEF RowStep, IndexInv, LiveIndexedHaveVectors, At
  <2>. QED  BY <1>2, <1>3, <1>7, <1>11, <2>2, <2>3 DEF VectorStep
<1>12. ASSUME NEW id \in vectors' \ (late' \cup blind')
       PROVE  rows'[id].state = "live" \/ (rows'[id].state = "deleted" /\ rows'[id].index = "pending_delete")
  <2>1. id \in Memories /\ id \notin late /\ id \notin blind
    BY <1>4, <1>8, <1>12
  <2>2. CASE id \notin vectors
    BY <1>2, <1>5, <1>12, <2>1, <2>2 DEF VectorStep, At
  <2>3. CASE id \in vectors
    <3>1. rows[id].state = "live" \/ (rows[id].state = "deleted" /\ rows[id].index = "pending_delete")
      BY <2>1, <2>3 DEF IndexInv, ForgottenVectorsAreFound
    <3>2. ~(Purge(p) /\ id = Target(p) /\ rows'[id] # rows[id] /\ ~calls[p].chroma)
      BY <1>12, <2>1 DEF CallStep, RecordHistory, PurgedBlindly
    <3>. QED  BY <1>0, <1>1, <1>2, <1>3, <1>5, <1>12, <2>1, <2>3, <3>1, <3>2 DEF RowStep
  <2>. QED  BY <2>2, <2>3
<1>13. LiveIndexedHaveVectors'
  BY <1>11 DEF LiveIndexedHaveVectors
<1>14. ForgottenVectorsAreFound'
  BY <1>12 DEF ForgottenVectorsAreFound
<1>. QED  BY <1>6, <1>8, <1>9, <1>10, <1>13, <1>14

\* Where a step takes its own call.
Takes(p, d) == d \in Call /\ calls' = [calls EXCEPT ![p] = d] /\ GoodCall(d)'

LEMMA CallReturns ==
  ASSUME NEW p \in Procs, NEW op \in {"none", "rebuild"}, NEW step \in {"closed", "open", "list"},
         NEW chroma \in BOOLEAN, NEW d,
         d = [op |-> op, step |-> step, todo |-> <<>>, chroma |-> chroma],
         calls' = [calls EXCEPT ![p] = d]
  PROVE  Takes(p, d)
<1>0. <<>> \in Seq(Memories)
  BY EmptySeq
<1>1. /\ d.op # "retry" /\ d.step \notin AtItem /\ d.todo = <<>> /\ d \in Call
      /\ d.step \notin {"unindex", "purge", "mark"}
  BY <1>0 DEF AtItem, Call
<1>2. d.todo \in Seq(Drawn')
  BY <1>1, EmptySeq
<1>3. GoodCall(d)'
  BY <1>1, <1>2 DEF GoodCall
<1>. QED  BY <1>1, <1>3 DEF Takes

\* A call that returns, or a rebuild that goes on to its query.
LEMMA CallEmptied ==
  ASSUME IndexInv, NEW p \in Procs,
         Return(p) \/ Continue(p, "rebuild", "list", <<>>)
  PROVE  \E d : Takes(p, d)
<1>1. PICK chroma : chroma = calls[p].chroma
  OBVIOUS
<1>2. chroma \in BOOLEAN
  BY <1>1 DEF IndexInv, Call
<1>3. ASSUME NEW op \in {"none", "rebuild"}, NEW step \in {"open", "list"},
             Continue(p, op, step, <<>>)
      PROVE  \E d : Takes(p, d)
  <2>1. PICK d : d = [op |-> op, step |-> step, todo |-> <<>>, chroma |-> chroma]
    OBVIOUS
  <2>2. calls' = [calls EXCEPT ![p] = d]
    BY <1>1, <1>3, <2>1 DEF Continue, IndexInv
  <2>3. Takes(p, d)
    BY <1>2, <2>1, <2>2, CallReturns
  <2>. QED  BY <2>3
<1>. QED  BY <1>3 DEF Return

\* The same item, one step further.
LEMMA CallGoesOn ==
  ASSUME IndexInv, MemoriesKept, NEW p \in Procs, calls[p].step \in AtItem,
         NEW step \in AtItem, Goto(p, step),
         step \in {"unindex", "purge"} => Target(p) \in Revoked',
         step = "mark" => Target(p) \in vectors',
         step = "purge" /\ calls[p].chroma => Target(p) \notin vectors'
  PROVE  \E d : Takes(p, d)
<1>0. calls[p] \in Call /\ calls \in [Procs -> Call] /\ GoodCall(calls[p])
  BY DEF IndexInv
<1>1. PICK d : d = [calls[p] EXCEPT !.step = step]
  OBVIOUS
<1>2. /\ d \in Call /\ d.step = step /\ d.op = calls[p].op /\ d.todo = calls[p].todo
      /\ d.chroma = calls[p].chroma
  BY <1>0, <1>1 DEF Call
<1>3. calls' = [calls EXCEPT ![p] = d]
  BY <1>0, <1>1 DEF Goto
<1>4. PICK c : c = calls[p]
  OBVIOUS
<1>5. GoodCall(c)'
  BY <1>0, <1>4, CallKept
<1>6. Head(d.todo) = Target(p)
  BY <1>2 DEF Target
<1>7. /\ d.todo \in Seq(Drawn') /\ d.todo # <<>>
      /\ d.op = "retry" => d.todo \in Seq(Revoked')
  BY <1>2, <1>4, <1>5 DEF GoodCall
<1>8. GoodCall(d)'
  BY <1>2, <1>6, <1>7 DEF GoodCall
<1>. QED  BY <1>2, <1>3, <1>8 DEF Takes

\* The next item of the loop; what retry_pending_deletions found stays revoked.
LEMMA CallGoesNext ==
  ASSUME IndexInv, MemoriesKept, NEW p \in Procs, calls[p].step \in AtItem, NEW step,
         step \in {"recall", "revoke"} \/ (step = Unindexing(p) /\ calls[p].op = "retry"),
         NextItem(p, step)
  PROVE  \E d : Takes(p, d)
<1>0. calls[p] \in Call /\ calls \in [Procs -> Call] /\ GoodCall(calls[p])
  BY DEF IndexInv
<1>1. CASE Return(p)
  BY <1>1, CallEmptied
<1>2. CASE Len(calls[p].todo) > 1 /\ Continue(p, calls[p].op, step, Tail(calls[p].todo))
  <2>1. PICK c : c = calls[p]
    OBVIOUS
  <2>2. PICK d : d = [op |-> c.op, step |-> step, todo |-> Tail(c.todo), chroma |-> c.chroma]
    OBVIOUS
  <2>0. /\ step \in {"recall", "revoke", "unindex", "purge"} /\ (step = "purge" => ~c.chroma)
        /\ step \in {"unindex", "purge"} => c.op = "retry"
    BY <2>1 DEF Unindexing
  <2>3. /\ c.todo \in Seq(Memories) /\ c.todo # <<>> /\ c.chroma \in BOOLEAN
        /\ c.op \in {"none", "remember", "forget", "retry", "rebuild"}
    BY <1>0, <2>1 DEF Call, GoodCall
  <2>4. Tail(c.todo) \in Seq(Memories) /\ Len(Tail(c.todo)) = Len(c.todo) - 1
    BY <2>3, HeadTailProperties
  <2>5. Tail(c.todo) # <<>>
    <3>0. Len(c.todo) \in Nat /\ Len(c.todo) > 1
      <4>1. Len(c.todo) \in Nat
        BY <2>3
      <4>2. Len(c.todo) > 1
        BY <1>2, <2>1
      <4>. QED  BY <4>1, <4>2
    <3>1. Len(Tail(c.todo)) # 0
      <4>1. PICK n, k : n = Len(c.todo) /\ k = Len(Tail(c.todo))
        OBVIOUS
      <4>2. k = n - 1
        BY <2>4, <4>1
      <4>3. n \in Nat /\ n > 1
        BY <3>0, <4>1
      <4>4. k # 0
        BY <4>2, <4>3
      <4>. QED  BY <4>1, <4>4
    <3>2. Len(<<>>) = 0
      BY EmptySeq
    <3>. QED  BY <3>1, <3>2
  <2>6. d \in Call /\ d.op = c.op /\ d.step = step /\ d.todo = Tail(c.todo) /\ d.chroma = c.chroma
    BY <2>0, <2>2, <2>3, <2>4 DEF Call, AtItem
  <2>7. calls' = [calls EXCEPT ![p] = d]
    BY <1>0, <1>2, <2>1, <2>2 DEF Continue
  <2>8. GoodCall(c)'
    BY <1>0, <2>1, CallKept
  <2>9. c.todo \in Seq(Drawn') /\ (c.op = "retry" => c.todo \in Seq(Revoked'))
    BY <2>8 DEF GoodCall
  <2>10. d.todo \in Seq(Drawn') /\ (d.op = "retry" => d.todo \in Seq(Revoked'))
    BY <2>3, <2>6, <2>9, HeadTailProperties
  <2>11. step \in {"unindex", "purge"} => Head(d.todo) \in Revoked'
    BY <2>0, <2>5, <2>6, <2>10, HeadTailProperties
  <2>12. GoodCall(d)'
    BY <2>0, <2>5, <2>6, <2>10, <2>11 DEF GoodCall
  <2>. QED  BY <2>6, <2>7, <2>12 DEF Takes
<1>. QED  BY <1>1, <1>2 DEF NextItem

\* A call that begins with what a query returned.
LEMMA CallBegins ==
  ASSUME IndexInv, MemoriesKept, NEW p \in Procs,
         NEW op \in {"remember", "forget", "retry", "rebuild"},
         NEW step \in {"put", "revoke", "unindex", "purge", "recall"}, NEW todo, todo # <<>>,
         Continue(p, op, step, todo), todo \in Seq(Drawn'), todo \in Seq(Memories),
         op = "retry" => todo \in Seq(Revoked'),
         step \in {"unindex", "purge"} => op = "retry" /\ step = Unindexing(p)
  PROVE  \E d : Takes(p, d)
<1>0. calls \in [Procs -> Call] /\ calls[p].chroma \in BOOLEAN
  BY DEF IndexInv, Call
<1>1. PICK d : d = [op |-> op, step |-> step, todo |-> todo, chroma |-> calls[p].chroma]
  OBVIOUS
<1>2. /\ d \in Call /\ d.op = op /\ d.step = step /\ d.todo = todo
      /\ step = "purge" => ~d.chroma
  BY <1>0, <1>1 DEF Call, AtItem, Unindexing
<1>3. calls' = [calls EXCEPT ![p] = d]
  BY <1>0, <1>1 DEF Continue
<1>4. step \in {"unindex", "purge"} => Head(todo) \in Revoked'
  BY HeadTailProperties
<1>5. GoodCall(d)'
  BY <1>2, <1>4 DEF GoodCall
<1>. QED  BY <1>2, <1>3, <1>5 DEF Takes

LEMMA OwnCall ==
  ASSUME IndexInv, MemoriesKept, NEW p \in Procs, V1Step(p)
  PROVE  \E d : Takes(p, d)
<1>0. /\ calls[p] \in Call /\ GoodCall(calls[p]) /\ IsFiniteSet(StoredIds) /\ RowsOK
      /\ LiveAreNotPending /\ rows \in [Memories -> Stages]
      /\ Drawn \subseteq Drawn' /\ Revoked \subseteq Revoked' /\ Drawn \subseteq Memories
      /\ Unused.state = "unused"
  BY DEF IndexInv, RowsOK, MemoriesKept, Drawn, Unused
<1>1. CASE Open(p) \/ Close(p) \/ ResetIndex(p)
  <2>1. CASE Open(p)
    <3>1. PICK chroma \in BOOLEAN :
            calls' = [calls EXCEPT ![p] = Opened(chroma)]
      BY <2>1 DEF Open
    <3>2. PICK d : d = [op |-> "none", step |-> "open", todo |-> <<>>, chroma |-> chroma]
      OBVIOUS
    <3>3. calls' = [calls EXCEPT ![p] = d]
      BY <3>1, <3>2 DEF Opened
    <3>4. Takes(p, d)
      BY <3>2, <3>3, CallReturns
    <3>. QED  BY <3>4
  <2>2. CASE Close(p)
    BY <2>2, CallReturns DEF Close, Closed
  <2>. QED  BY <1>1, <2>1, <2>2, CallEmptied DEF ResetIndex
<1>2. CASE Return(p)
  BY <1>2, CallEmptied
<1>3. ASSUME NEW ids, ids \subseteq StoredIds, ids # {}
      PROVE  /\ SetToSeq(ids) \in Seq(Drawn') /\ SetToSeq(ids) \in Seq(Memories)
             /\ SetToSeq(ids) # <<>>
             /\ ids \subseteq Revoked => SetToSeq(ids) \in Seq(Revoked')
  <2>1. StoredIds \subseteq Drawn
    BY <1>0 DEF StoredIds, Stored, Drawn
  <2>2. SetToSeq(ids) \in Seq(ids) /\ SetToSeq(ids) # <<>>
    BY <1>0, <1>3, FS_Subset, LoopItems
  <2>. QED  BY <1>0, <1>3, <2>1, <2>2, SeqMonotonic
<1>4. CASE Remember(p)
  <2>1. PICK scope \in Scopes, id \in Memories :
          /\ rows' = [rows EXCEPT ![id] =
                        [state |-> "live", scope |-> scope,
                         index |-> IF ToIndex(p, scope) THEN "pending_index" ELSE "not_indexed"]]
          /\ Return(p) \/ Continue(p, "remember", "put", <<id>>)
    BY <1>4 DEF Remember
  <2>2. rows'[id].state = "live"
    BY <1>0, <2>1
  <2>3. id \in Drawn'
    BY <1>0, <2>2 DEF Drawn
  <2>4. <<id>> \in Seq(Drawn') /\ <<id>> \in Seq(Memories) /\ <<id>> # <<>>
    BY <2>3
  <2>. QED  BY <1>2, <2>1, <2>4, CallBegins
<1>5. CASE Forget(p)
  <2>1. PICK ids : /\ ids # {} /\ ids \subseteq StoredIds
                   /\ Continue(p, "forget", "revoke", SetToSeq(ids))
    BY <1>5 DEF Forget, StoredIds, Stored, Visible
  <2>. QED  BY <1>3, <2>1, CallBegins
<1>6. CASE RetryPendingDeletions(p)
  <2>1. PICK ids : /\ ids = {id \in Memories : Stored(id) /\ rows[id].index = "pending_delete"}
                   /\ ids # {} /\ Continue(p, "retry", Unindexing(p), SetToSeq(ids))
    BY <1>6 DEF RetryPendingDeletions
  <2>2. ids \subseteq StoredIds /\ ids \subseteq Revoked
    BY <1>0, <2>1 DEF StoredIds, Stored, Revoked, LiveAreNotPending
  <2>3. Unindexing(p) \in {"unindex", "purge"}
    BY DEF Unindexing
  <2>. QED  BY <1>3, <2>1, <2>2, <2>3, CallBegins
<1>7. CASE ListLive(p)
  <2>1. PICK ids : ids = {id \in Memories : Visible(id) /\ rows[id].scope = "workspace"}
    OBVIOUS
  <2>2. Return(p) \/ (ids # {} /\ Continue(p, "rebuild", "recall", SetToSeq(ids)))
    BY <1>7, <2>1 DEF ListLive
  <2>3. ids \subseteq StoredIds
    BY <2>1 DEF StoredIds, Stored, Visible
  <2>. QED  BY <1>2, <1>3, <2>2, <2>3, CallBegins
<1>8. CASE PutVector(p)
  BY <1>8, CallGoesOn DEF PutVector, At, AtItem
<1>9. CASE PutVectorFails(p) \/ RecallForIndex(p)
  BY <1>2, <1>9, CallGoesOn DEF PutVectorFails, RecallForIndex, At, AtItem
<1>10. CASE Mark(p)
  BY <1>2, <1>10, CallGoesNext DEF Mark, AtItem
<1>11. CASE Revoke(p)
  <2>1. At(p, "revoke") /\ (Return(p) \/ (Visible(Target(p)) /\ Goto(p, Unindexing(p))))
    BY <1>11 DEF Revoke
  <2>2. ASSUME Visible(Target(p))
        PROVE  Target(p) \in Revoked'
    <3>1. PICK id : id = Target(p)
      OBVIOUS
    <3>2. id \in Drawn
      BY <1>0, <2>1, <3>1, HeadTailProperties DEF GoodCall, Target, At, AtItem
    <3>3. rows' = [rows EXCEPT ![id].state = "deleted", ![id].index = "pending_delete"]
      BY <1>11, <2>2, <3>1 DEF Revoke
    <3>4. rows[id] \in Row
      BY <1>0, <2>2, <3>1, <3>2, StoredRows DEF Drawn, Stored, Visible
    <3>5. rows'[id].state = "deleted"
      BY <1>0, <3>2, <3>3, <3>4 DEF Row
    <3>6. id \in Revoked'
      BY <1>0, <3>2, <3>5 DEF Revoked
    <3>. QED  BY <2>1, <3>1, <3>6
  <2>3. Unindexing(p) \in {"unindex", "purge"} /\ (Unindexing(p) = "purge" => ~calls[p].chroma)
    BY DEF Unindexing
  <2>. QED  BY <1>2, <2>1, <2>2, <2>3, CallGoesOn DEF At, AtItem
<1>12. CASE Unindex(p)
  <2>1. At(p, "unindex") /\ Goto(p, "purge") /\ Target(p) \notin vectors'
    BY <1>12 DEF Unindex
  <2>2. Target(p) \in Revoked'
    BY <1>0, <2>1 DEF GoodCall, Target, At
  <2>. QED  BY <2>1, <2>2, CallGoesOn DEF At, AtItem
<1>13. CASE UnindexFails(p) \/ Purge(p)
  <2>1. Return(p) \/ NextItem(p, LoopStep(p))
    BY <1>13 DEF UnindexFails, Purge, AfterFailedUnindex
  <2>2. calls[p].step \in AtItem
    BY <1>13 DEF UnindexFails, Purge, At, AtItem
  <2>. QED  BY <1>2, <2>1, <2>2, CallGoesNext DEF LoopStep
<1>. QED  BY <1>1, <1>4, <1>5, <1>6, <1>7, <1>8, <1>9, <1>10, <1>11, <1>12, <1>13 DEF V1Step

LEMMA RowsFinite ==
  ASSUME IndexInv, NEW p \in Procs, V1Step(p)
  PROVE  IsFiniteSet(StoredIds')
<1>0. /\ RowsOK /\ RowsOK' /\ IsFiniteSet(StoredIds) /\ \A id \in Memories : RowStep(p, id)
      /\ Unused.state = "unused" /\ Purged.state = "purged"
  BY RowsMove DEF IndexInv, Unused, Purged
<1>1. CASE Remember(p)
  <2>1. PICK id \in Memories : \A x \in Memories \ {id} : rows'[x] = rows[x]
    BY <1>0, <1>1 DEF Remember, RowsOK
  <2>2. StoredIds' \subseteq StoredIds \cup {id}
    BY <2>1 DEF StoredIds, Stored
  <2>. QED  BY <1>0, <2>2, FS_AddElement, FS_Subset
<1>2. CASE ~Remember(p)
  <2>1. StoredIds' \subseteq StoredIds
    BY <1>0, <1>2 DEF StoredIds, Stored, RowStep
  <2>. QED  BY <1>0, <2>1, FS_Subset
<1>. QED  BY <1>1, <1>2

LEMMA CallInvStep ==
  ASSUME IndexInv, NEW p \in Procs, CallStep(p)
  PROVE  IndexInv'
<1>1. V1Step(p) /\ calls \in [Procs -> Call] /\ RowsOK'
  BY RowsMove DEF CallStep, IndexInv
<1>2. /\ MemoriesKept /\ vectors' \subseteq Memories /\ dropped' \subseteq Memories
      /\ LiveAreNotPending' /\ LiveIndexedHaveVectors' /\ ForgottenVectorsAreFound'
  BY IndexMoves
<1>3. PICK d : Takes(p, d)
  BY <1>1, <1>2, OwnCall
<1>4. calls' \in [Procs -> Call]
  BY <1>1, <1>3 DEF Takes
<1>5. ASSUME NEW q \in Procs
      PROVE  GoodCall(calls[q])'
  <2>1. CASE q = p
    <3>1. calls'[q] = d
      BY <1>1, <1>3, <2>1 DEF Takes
    <3>. QED  BY <1>3, <3>1 DEF Takes
  <2>2. CASE q # p
    <3>1. PICK c : c = calls[q]
      OBVIOUS
    <3>2. calls'[q] = c
      BY <1>1, <1>3, <2>2, <3>1 DEF Takes
    <3>3. GoodCall(c)'
      BY <1>2, <3>1, CallKept DEF IndexInv
    <3>. QED  BY <3>2, <3>3
  <2>. QED  BY <2>1, <2>2
<1>. QED  BY <1>1, <1>2, <1>4, <1>5, RowsFinite DEF IndexInv

\* The switch keeps every state and every status.
LEMMA IndexSwitched ==
  ASSUME IndexInv, MigrationInv, UnchangedSincePrepared, RowsOK',
         rows' = [id \in Memories |-> IF id \in DOMAIN shadow.rows THEN shadow.rows[id]
                                      ELSE IF Stored(id) THEN Purged ELSE rows[id]],
         UNCHANGED <<vectors, calls, history>>
  PROVE  IndexInv'
<1>1. \A id \in Memories :
        /\ rows'[id].state = rows[id].state
        /\ Stored(id) => rows'[id].index = rows[id].index
        /\ rows'[id] = Unused <=> rows[id] = Unused
  <2>1. \A id \in Memories :
          /\ rows'[id] = IF Stored(id) THEN Migrated(rows[id]) ELSE rows[id]
          /\ Stored(id) => /\ Migrated(rows[id]).state = rows[id].state
                           /\ Migrated(rows[id]).index = rows[id].index
    BY SwitchedRows
  <2>2. Unused.state = "unused"
    BY DEF Unused
  <2>. QED  BY <2>1, <2>2 DEF Stored
<1>2. Drawn' = Drawn /\ Revoked' = Revoked /\ StoredIds' = StoredIds
  BY <1>1 DEF Drawn, Revoked, StoredIds, Stored
<1>3. \A p \in Procs : GoodCall(calls[p])'
  BY <1>2 DEF IndexInv, GoodCall, history
<1>4. LiveAreNotPending' /\ LiveIndexedHaveVectors'
  BY <1>1 DEF history, IndexInv, LiveAreNotPending, LiveIndexedHaveVectors, Stored
<1>5. ForgottenVectorsAreFound'
  BY <1>1 DEF IndexInv, ForgottenVectorsAreFound, Stored, history
<1>. QED  BY <1>2, <1>3, <1>4, <1>5 DEF IndexInv, history

\* A purge always ends its item.
LEMMA PurgeGoesOn ==
  ASSUME IndexInv, NEW p \in Procs, Purge(p)
  PROVE  calls' # calls
<1>0. calls[p] \in Call /\ calls \in [Procs -> Call] /\ At(p, "purge")
  BY DEF IndexInv, Purge
<1>1. CASE Return(p)
  <2>1. calls'[p].step = "open"
    BY <1>0, <1>1 DEF Return, Continue
  <2>. QED  BY <1>0, <2>1 DEF At
<1>2. CASE Len(calls[p].todo) > 1 /\ Continue(p, calls[p].op, LoopStep(p), Tail(calls[p].todo))
  <2>1. calls'[p].todo = Tail(calls[p].todo)
    BY <1>0, <1>2 DEF Continue
  <2>2. PICK s : s = calls[p].todo
    OBVIOUS
  <2>3. s \in Seq(Memories) /\ Len(s) > 1
    BY <1>0, <1>2, <2>2 DEF Call
  <2>4. Len(s) \in Nat /\ s # <<>>
    BY <2>3, EmptySeq, LenProperties
  <2>5. Len(Tail(s)) = Len(s) - 1
    BY <2>3, <2>4, HeadTailProperties
  <2>6. Tail(s) # s
    <3>1. PICK n : n = Len(s)
      OBVIOUS
    <3>2. n \in Nat /\ n - 1 # n
      BY <2>4, <3>1
    <3>. QED  BY <2>5, <3>1, <3>2
  <2>. QED  BY <2>1, <2>2, <2>6
<1>. QED  BY <1>1, <1>2 DEF Purge, NextItem

LEMMA HistoryMoves ==
  ASSUME MigrationInv, IndexInv, Next, RecordHistory
  PROVE  IndexInv'
<1>1. ASSUME NEW p \in Procs, V1Call(p)
      PROVE  IndexInv'
  BY <1>1, CallInvStep DEF CallStep, V1Call
<1>2. ASSUME NEW m \in Migrators, MigratorStep(m) \/ Stop(m)
      PROVE  IndexInv'
  <2>1. MigratorCase /\ UNCHANGED <<vectors, calls>> /\ [Next]_vars
    BY <1>2, MigratorCases DEF Next
  <2>2. late' = late
    BY <2>1 DEF RecordHistory, Written
  <2>3. blind' = blind
    <3>1. ASSUME NEW p \in Procs, Purge(p)
          PROVE  calls' # calls
      BY <3>1, PurgeGoesOn
    <3>. QED  BY <2>1, <3>1 DEF RecordHistory, PurgedBlindly
  <2>4. dropped' = dropped
    BY <2>1 DEF RecordHistory, At
  <2>5. RowsOK'
    BY <2>1, MigrationInvStep DEF MigrationInv
  <2>6. CASE UNCHANGED <<version, rows>>
    BY <2>1, <2>2, <2>3, <2>4, <2>5, <2>6 DEF IndexInv, GoodCall, LiveAreNotPending, StoredIds,
       Stored, LiveIndexedHaveVectors, ForgottenVectorsAreFound, Drawn, Revoked
  <2>7. CASE ~UNCHANGED <<version, rows>>
    BY <2>1, <2>2, <2>3, <2>4, <2>5, <2>7, IndexSwitched DEF MigratorCase, history
  <2>. QED  BY <2>6, <2>7
<1>. QED  BY <1>1, <1>2 DEF Next

LEMMA IndexInvHolds == RecordedSpec => [](MigrationInv /\ IndexInv)
<1>1. Init /\ late = {} /\ blind = {} /\ dropped = {} => MigrationInv /\ IndexInv
  <2>1. SUFFICES ASSUME Init, late = {}, blind = {}, dropped = {}
                 PROVE  MigrationInv /\ IndexInv
    OBVIOUS
  <2>2. /\ version = 1 /\ rows = [id \in Memories |-> Unused] /\ vectors = {} /\ dropped = {}
        /\ calls = [p \in Procs |-> Closed] /\ Unused.state = "unused"
    BY <2>1 DEF Init, V1Init, Unused
  <2>3. MigrationInv
    BY <2>1 DEF Init, V1Init, MigrationInv, RowsOK, RecordsOK, ShadowIsPrepared, Stages, NoRows
  <2>4. IsFiniteSet(StoredIds)
    <3>1. StoredIds = {}
      BY <2>2 DEF StoredIds, Stored
    <3>. QED  BY <3>1, FS_EmptySet
  <2>5. Closed \in Call /\ GoodCall(Closed)
    BY EmptySeq DEF Closed, Call, GoodCall, AtItem
  <2>. QED  BY <2>2, <2>3, <2>4, <2>5 DEF IndexInv, MigrationInv, LiveAreNotPending,
            LiveIndexedHaveVectors, ForgottenVectorsAreFound
<1>2. ASSUME MigrationInv, IndexInv, [Next /\ RecordHistory]_<<vars, history>>
      PROVE  MigrationInv' /\ IndexInv'
  <2>1. MigrationInv'
    BY <1>2, MigrationInvStep
  <2>2. CASE UNCHANGED <<vars, history>>
    BY <1>2, <2>1, <2>2 DEF vars, history, IndexInv, MigrationInv, GoodCall, LiveAreNotPending,
       StoredIds, Stored, LiveIndexedHaveVectors, ForgottenVectorsAreFound, Drawn, Revoked
  <2>3. CASE Next /\ RecordHistory
    BY <1>2, <2>1, <2>3, HistoryMoves
  <2>. QED  BY <1>2, <2>2, <2>3, <2>1
<1>. QED  BY <1>1, <1>2, PTL DEF RecordedSpec

\* A vector in the index belongs to a memory that can be recalled, or to one that the next
\* retry_pending_deletions finds, unless it was written after the deletion or a process
\* without the index purged the row: no other call, wherever it stops between its steps,
\* and no migration leaves a vector behind, for any number of processes and migrators.
THEOREM ForgottenVectorsFound == RecordedSpec => []ForgottenVectorsAreFound
<1>1. IndexInv => ForgottenVectorsAreFound
  BY DEF IndexInv
<1>. QED  BY <1>1, IndexInvHolds, PTL

\* A row of the workspace that says indexed has a vector, unless a rebuild emptied the
\* collection since.
THEOREM IndexedHaveVectors == RecordedSpec => []IndexedMemoriesHaveVectors
<1>1. IndexInv => IndexedMemoriesHaveVectors
  BY DEF IndexInv, LiveIndexedHaveVectors, IndexedMemoriesHaveVectors
<1>. QED  BY <1>1, IndexInvHolds, PTL

-----------------------------------------------------------------------------
(***************************************************************************)
(* The salt and key files (WorkspaceKeys): every memory can be found and   *)
(* decrypted by whoever opens the workspace next, as long as no two        *)
(* processes create the same file at once: for any number of processes     *)
(* that start, crash and start again, and any number of values drawn.      *)
(*                                                                         *)
(* MemoriesStayReadable is not inductive: a memory is written under what   *)
(* its process read or drew some steps before.  KeysInv follows a value    *)
(* from the temporary file to the file and to the process that goes by it: *)
(* a file that somebody is creating does not exist, one process creates    *)
(* it, and what that process drew is what the temporary file holds.        *)
(***************************************************************************)
KeyPlaces == {"down", "start", "absent", "written", "open", "keyed"}

Processes == [pc : KeyPlaces, salt : Names, value : Names]

\* Files, temporary files, processes and memories hold values that were drawn, or none.
KeysTypeOK ==
  /\ files \in [Names -> Names]
  /\ temporary \in [Names -> Names]
  /\ starter \in [Starters -> Processes]
  /\ drawn \in Names
  /\ memories \subseteq [workspace : Names, key : Names]
  /\ raced \in BOOLEAN

\* A process that has a salt has the one of the workspace.
SaltsAgree ==
  \A p \in Starters : /\ starter[p].salt \in {Missing, files[Salt]}
                      /\ starter[p].pc \in {"down", "start"} => starter[p].salt = Missing
                      /\ starter[p].pc \in {"open", "keyed"} => starter[p].salt # Missing

\* A file is created where there is none, by one process.
OneCreator ==
  \A p \in Starters : starter[p].pc \in {"absent", "written"} =>
    /\ files[Wanted(p)] = Missing
    /\ \A q \in Starters : Creating(q, Wanted(p)) => q = p

\* What a process goes by, or will, is in the file, or in the temporary one.
ValuesAgree ==
  \A p \in Starters :
    /\ starter[p].pc = "written" => /\ starter[p].value # Missing
                                    /\ temporary[Wanted(p)] = starter[p].value
    /\ starter[p].pc = "keyed" => /\ starter[p].value # Missing
                                  /\ files[starter[p].salt] = starter[p].value

\* The files that a memory needs exist, and are those it was written under.
MemoriesReadable ==
  \A m \in memories : /\ m.workspace # Missing /\ m.workspace = files[Salt]
                      /\ m.key # Missing /\ m.key = files[m.workspace]

FilesAgree == SaltsAgree /\ OneCreator /\ ValuesAgree /\ MemoriesReadable

KeysInv == KeysTypeOK /\ (~raced => FilesAgree)

-----------------------------------------------------------------------------
\* The names of the files are the numbers of the values, and the salt file.
LEMMA NamesAreNumbers == /\ Names = 0..MaxValues
                         /\ Values = 1..MaxValues
                         /\ Missing = 0
                         /\ Salt = 0
                         /\ MaxValues \in Nat
                         /\ Missing \in Names
  BY ValuesAssumption DEF Names, Values, Missing, Salt

\* A process that is down.
LEMMA DownIsAPlace == [pc |-> "down", salt |-> Missing, value |-> Missing] \in Processes
  BY NamesAreNumbers DEF Processes, KeyPlaces

\* A process that changes its place and its value is still one.
LEMMA ProcessChanged ==
  ASSUME NEW c \in Processes, NEW pc \in KeyPlaces, NEW value \in Names
  PROVE  /\ [c EXCEPT !.pc = pc] \in Processes
         /\ [c EXCEPT !.pc = pc, !.salt = value] \in Processes
         /\ [c EXCEPT !.pc = pc, !.value = value] \in Processes
BY DEF Processes

\* The types are kept by every step of any process.
LEMMA TypesKept == KeysTypeOK /\ [KeysNext]_keyVars => KeysTypeOK'
<1>. SUFFICES ASSUME KeysTypeOK, [KeysNext]_keyVars PROVE KeysTypeOK'
  OBVIOUS
<1>. USE NamesAreNumbers
<1>1. CASE UNCHANGED keyVars
  BY <1>1 DEF keyVars, KeysTypeOK
<1>. SUFFICES ASSUME NEW p \in Starters,
                     Start(p) \/ Look(p) \/ WriteTemporary(p) \/ Rename(p)
                       \/ EncryptMemory(p) \/ Crash(p)
              PROVE KeysTypeOK'
  BY <1>1 DEF KeysNext
<1>0. starter[p] \in Processes /\ \A pc \in {"start", "open", "keyed", "absent", "written"} : pc \in KeyPlaces
  BY DEF KeysTypeOK, KeyPlaces
<1>2. Wanted(p) \in Names
  <2>1. starter[p].salt \in Names
    BY <1>0 DEF Processes
  <2>. QED  BY <2>1 DEF Wanted
<1>3. \A value \in Names : With(p, value) \in Processes
  BY <1>0, ProcessChanged DEF With
<1>4. CASE Start(p)
  <2>1. [starter[p] EXCEPT !.pc = "start"] \in Processes
    BY <1>0, ProcessChanged
  <2>2. starter' = [starter EXCEPT ![p] = [starter[p] EXCEPT !.pc = "start"]]
    BY <1>4 DEF Start
  <2>. QED  BY <1>4, <2>1, <2>2 DEF Start, KeysTypeOK
<1>5. CASE Look(p)
  <2>1. starter' \in [Starters -> Processes]
    <3>1. CASE files[Wanted(p)] = Missing
      <4>1. [starter[p] EXCEPT !.pc = "absent"] \in Processes
        BY <1>0, ProcessChanged
      <4>2. starter' = [starter EXCEPT ![p] = [starter[p] EXCEPT !.pc = "absent"]]
        BY <1>5, <3>1 DEF Look
      <4>. QED  BY <4>1, <4>2 DEF KeysTypeOK
    <3>2. CASE files[Wanted(p)] # Missing
      <4>1. files[Wanted(p)] \in Names
        BY <1>2 DEF KeysTypeOK
      <4>2. starter' = [starter EXCEPT ![p] = With(p, files[Wanted(p)])]
        BY <1>5, <3>2 DEF Look
      <4>. QED  BY <1>3, <4>1, <4>2 DEF KeysTypeOK
    <3>. QED  BY <3>1, <3>2
  <2>2. raced' \in BOOLEAN
    BY <1>5 DEF Look
  <2>. QED  BY <1>5, <2>1, <2>2 DEF Look, KeysTypeOK
<1>6. CASE WriteTemporary(p)
  <2>1. drawn + 1 \in Names
    <3>1. drawn \in 0..MaxValues /\ drawn < MaxValues
      BY <1>6 DEF WriteTemporary, KeysTypeOK
    <3>. QED  BY <3>1
  <2>2. starter' \in [Starters -> Processes]
    <3>1. [starter[p] EXCEPT !.pc = "written", !.value = drawn + 1] \in Processes
      BY <1>0, <2>1, ProcessChanged
    <3>2. starter' = [starter EXCEPT ![p] = [starter[p] EXCEPT !.pc = "written", !.value = drawn + 1]]
      BY <1>6 DEF WriteTemporary
    <3>. QED  BY <3>1, <3>2 DEF KeysTypeOK
  <2>3. drawn' \in Names /\ temporary' \in [Names -> Names]
    BY <1>2, <1>6, <2>1 DEF WriteTemporary, KeysTypeOK
  <2>. QED  BY <1>6, <2>2, <2>3 DEF WriteTemporary, KeysTypeOK
<1>7. CASE Rename(p)
  <2>1. starter[p].value \in Names /\ temporary[Wanted(p)] \in Names /\ Missing \in Names
    BY <1>2 DEF KeysTypeOK, Processes
  <2>2. CASE temporary[Wanted(p)] = Missing
    <3>1. starter' = [starter EXCEPT ![p] = [pc |-> "down", salt |-> Missing, value |-> Missing]]
      BY <1>7, <2>2 DEF Rename
    <3>2. UNCHANGED <<files, temporary, drawn, memories, raced>>
      BY <1>7, <2>2 DEF Rename
    <3>. QED  BY <3>1, <3>2, DownIsAPlace DEF KeysTypeOK
  <2>3. CASE temporary[Wanted(p)] # Missing
    <3>1. starter' = [starter EXCEPT ![p] = With(p, starter[p].value)]
      BY <1>7, <2>3 DEF Rename
    <3>2. /\ files' = [files EXCEPT ![Wanted(p)] = temporary[Wanted(p)]]
          /\ temporary' = [temporary EXCEPT ![Wanted(p)] = Missing]
          /\ UNCHANGED <<drawn, memories, raced>>
      BY <1>7, <2>3 DEF Rename
    <3>3. starter' \in [Starters -> Processes]
      BY <1>3, <2>1, <3>1 DEF KeysTypeOK
    <3>. QED  BY <1>2, <2>1, <3>2, <3>3 DEF KeysTypeOK
  <2>. QED  BY <2>2, <2>3
<1>8. CASE EncryptMemory(p)
  <2>1. starter' \in [Starters -> Processes]
    <3>. DEFINE after == [pc |-> "open", salt |-> starter[p].salt, value |-> Missing]
    <3>1. after \in Processes
      BY DEF KeysTypeOK, Processes, KeyPlaces
    <3>2. starter' = [starter EXCEPT ![p] = after]
      BY <1>8 DEF EncryptMemory
    <3>. QED  BY <3>1, <3>2 DEF KeysTypeOK
  <2>2. [workspace |-> starter[p].salt, key |-> starter[p].value]
          \in [workspace : Names, key : Names]
    BY DEF KeysTypeOK, Processes
  <2>3. memories' \subseteq [workspace : Names, key : Names]
    BY <1>8, <2>2 DEF EncryptMemory, KeysTypeOK
  <2>. QED  BY <1>8, <2>1, <2>3 DEF EncryptMemory, KeysTypeOK
<1>9. CASE Crash(p)
  BY <1>9, DownIsAPlace DEF Crash, KeysTypeOK
<1>. QED  BY <1>4, <1>5, <1>6, <1>7, <1>8, <1>9

-----------------------------------------------------------------------------
\* Writing a temporary file leaves every other creator's, as it is another file's.
LEMMA WriteTemporaryKeeps ==
  ASSUME KeysTypeOK, FilesAgree, NEW p \in Starters, WriteTemporary(p)
  PROVE  FilesAgree'
<1>. USE NamesAreNumbers
<1>1. /\ starter[p].pc = "absent"
      /\ temporary' = [temporary EXCEPT ![Wanted(p)] = drawn + 1]
      /\ starter' = [starter EXCEPT ![p].pc = "written", ![p].value = drawn + 1]
      /\ UNCHANGED <<files, memories>>
      /\ drawn + 1 # Missing
  BY DEF WriteTemporary, KeysTypeOK
<1>2. /\ starter'[p].pc = "written" /\ starter'[p].value = drawn + 1
      /\ starter'[p].salt = starter[p].salt
      /\ \A q \in Starters : q # p => starter'[q] = starter[q]
  BY <1>1 DEF KeysTypeOK, Processes
<1>3. \A q \in Starters : Wanted(q)' = Wanted(q) /\ Wanted(q) \in Names
  BY <1>2 DEF Wanted, KeysTypeOK, Processes
<1>4. \A q \in Starters : q # p /\ starter[q].pc = "written" => Wanted(q) # Wanted(p)
  BY <1>1 DEF FilesAgree, OneCreator, Creating
<1>5. SaltsAgree'
  BY <1>1, <1>2 DEF FilesAgree, SaltsAgree
<1>6. OneCreator'
  <2>1. \A q \in Starters : \A name : Creating(q, name)' => Creating(q, name)
    BY <1>1, <1>2, <1>3 DEF Creating
  <2>. QED  BY <1>1, <1>2, <1>3, <2>1 DEF FilesAgree, OneCreator
<1>7. ValuesAgree'
  <2>. SUFFICES ASSUME NEW q \in Starters
       PROVE /\ starter'[q].pc = "written" => /\ starter'[q].value # Missing
                                              /\ temporary'[Wanted(q)'] = starter'[q].value
             /\ starter'[q].pc = "keyed" => /\ starter'[q].value # Missing
                                            /\ files'[starter'[q].salt] = starter'[q].value
    BY DEF ValuesAgree
  <2>1. CASE q = p
    <3>1. temporary'[Wanted(p)] = drawn + 1
      BY <1>1, <1>3 DEF KeysTypeOK
    <3>. QED  BY <1>1, <1>2, <1>3, <2>1, <3>1
  <2>2. CASE q # p
    <3>1. starter[q].pc = "written" => temporary'[Wanted(q)] = temporary[Wanted(q)]
      BY <1>1, <1>3, <1>4, <2>2 DEF KeysTypeOK
    <3>. QED  BY <1>1, <1>2, <1>3, <2>2, <3>1 DEF FilesAgree, ValuesAgree
  <2>. QED  BY <2>1, <2>2
<1>8. MemoriesReadable'
  BY <1>1 DEF FilesAgree, MemoriesReadable
<1>. QED  BY <1>5, <1>6, <1>7, <1>8 DEF FilesAgree

\* A rename makes a file that nobody goes by yet, of what its process drew.
LEMMA RenameKeeps ==
  ASSUME KeysTypeOK, FilesAgree, NEW p \in Starters, Rename(p)
  PROVE  FilesAgree'
<1>. USE NamesAreNumbers
<1>. DEFINE name == Wanted(p)
<1>1. starter[p].pc = "written" /\ starter[p].value # Missing /\ files[name] = Missing
      /\ temporary[name] = starter[p].value
  BY DEF Rename, FilesAgree, OneCreator, ValuesAgree
<1>2. /\ files' = [files EXCEPT ![name] = starter[p].value]
      /\ temporary' = [temporary EXCEPT ![name] = Missing]
      /\ starter' = [starter EXCEPT ![p] = With(p, starter[p].value)]
      /\ UNCHANGED memories
  BY <1>1 DEF Rename
<1>3. \A q \in Starters : q # p => starter'[q] = starter[q] /\ Wanted(q)' = Wanted(q)
  BY <1>2 DEF Wanted, KeysTypeOK
<1>4. \A q \in Starters : Wanted(q) \in Names /\ starter[q].salt \in Names
  BY DEF Wanted, KeysTypeOK, Processes
<1>5. /\ files'[name] = starter[p].value
      /\ \A n \in Names : n # name => files'[n] = files[n] /\ temporary'[n] = temporary[n]
  BY <1>2, <1>4 DEF KeysTypeOK
<1>6. \A q \in Starters : q # p /\ starter[q].pc \in {"absent", "written"} => Wanted(q) # name
  BY <1>1 DEF FilesAgree, OneCreator, Creating
<1>7. starter'[p] = IF name = Salt THEN [starter[p] EXCEPT !.pc = "open", !.salt = starter[p].value]
                    ELSE [starter[p] EXCEPT !.pc = "keyed", !.value = starter[p].value]
  BY <1>2 DEF With, KeysTypeOK
<1>8. /\ starter'[p].pc = (IF name = Salt THEN "open" ELSE "keyed")
      /\ starter'[p].salt = (IF name = Salt THEN starter[p].value ELSE starter[p].salt)
      /\ starter'[p].value = starter[p].value
  BY <1>7 DEF KeysTypeOK, Processes
<1>9. name # Salt => starter[p].salt = name /\ files'[Salt] = files[Salt]
  BY <1>4, <1>5 DEF Wanted
<1>10. name = Salt => \A q \in Starters : starter[q].salt = Missing
  BY <1>1 DEF FilesAgree, SaltsAgree
<1>11. SaltsAgree'
  <2>. SUFFICES ASSUME NEW q \in Starters
       PROVE /\ starter'[q].salt \in {Missing, files'[Salt]}
             /\ starter'[q].pc \in {"down", "start"} => starter'[q].salt = Missing
             /\ starter'[q].pc \in {"open", "keyed"} => starter'[q].salt # Missing
    BY DEF SaltsAgree
  <2>1. CASE q = p
    BY <1>1, <1>4, <1>5, <1>8, <1>9, <2>1 DEF FilesAgree, SaltsAgree
  <2>2. CASE q # p
    BY <1>3, <1>5, <1>9, <1>10, <2>2 DEF FilesAgree, SaltsAgree
  <2>. QED  BY <2>1, <2>2
<1>12. OneCreator'
  <2>. SUFFICES ASSUME NEW q \in Starters, starter'[q].pc \in {"absent", "written"}
       PROVE /\ files'[Wanted(q)'] = Missing
             /\ \A r \in Starters : Creating(r, Wanted(q))' => r = q
    BY DEF OneCreator
  <2>1. q # p /\ starter[q].pc \in {"absent", "written"} /\ Wanted(q)' = Wanted(q)
    BY <1>3, <1>8
  <2>2. files'[Wanted(q)] = files[Wanted(q)]
    BY <1>4, <1>5, <1>6, <2>1
  <2>3. \A r \in Starters : Creating(r, Wanted(q))' => r # p /\ Creating(r, Wanted(q))
    BY <1>3, <1>8, <2>1 DEF Creating
  <2>. QED  BY <2>1, <2>2, <2>3 DEF FilesAgree, OneCreator
<1>13. ValuesAgree'
  <2>. SUFFICES ASSUME NEW q \in Starters
       PROVE /\ starter'[q].pc = "written" => /\ starter'[q].value # Missing
                                              /\ temporary'[Wanted(q)'] = starter'[q].value
             /\ starter'[q].pc = "keyed" => /\ starter'[q].value # Missing
                                            /\ files'[starter'[q].salt] = starter'[q].value
    BY DEF ValuesAgree
  <2>1. CASE q = p
    BY <1>1, <1>5, <1>8, <1>9, <2>1
  <2>2. CASE q # p /\ starter[q].pc = "written"
    BY <1>3, <1>4, <1>5, <1>6, <2>2 DEF FilesAgree, ValuesAgree
  <2>3. CASE q # p /\ starter[q].pc = "keyed"
    <3>1. starter[q].salt # name
      BY <1>1, <2>3 DEF FilesAgree, ValuesAgree
    <3>. QED  BY <1>3, <1>4, <1>5, <2>3, <3>1 DEF FilesAgree, ValuesAgree
  <2>. QED  BY <1>3, <2>1, <2>2, <2>3
<1>14. MemoriesReadable'
  <2>. SUFFICES ASSUME NEW m \in memories
       PROVE /\ m.workspace # Missing /\ m.workspace = files'[Salt]
             /\ m.key # Missing /\ m.key = files'[m.workspace]
    BY <1>2 DEF MemoriesReadable
  <2>1. /\ m.workspace # Missing /\ m.workspace = files[Salt]
        /\ m.key # Missing /\ m.key = files[m.workspace]
        /\ m.workspace \in Names
    BY DEF FilesAgree, MemoriesReadable, KeysTypeOK
  <2>2. name # Salt /\ m.workspace # name
    BY <1>1, <2>1
  <2>. QED  BY <1>5, <1>9, <2>1, <2>2
<1>. QED  BY <1>11, <1>12, <1>13, <1>14 DEF FilesAgree

\* A process that looks goes by the file, or is its only creator.
LEMMA LookKeeps ==
  ASSUME KeysTypeOK, FilesAgree, NEW p \in Starters, Look(p), ~raced'
  PROVE  FilesAgree'
<1>. USE NamesAreNumbers
<1>. DEFINE name == Wanted(p)
<1>1. /\ starter[p].pc \in {"start", "open"}
      /\ UNCHANGED <<files, temporary, memories>>
      /\ files[name] = Missing => \A q \in Starters : ~Creating(q, name)
  BY DEF Look
<1>2. starter' = [starter EXCEPT ![p] = IF files[name] = Missing THEN [@ EXCEPT !.pc = "absent"]
                                        ELSE With(p, files[name])]
  BY DEF Look
<1>3. \A q \in Starters : q # p => starter'[q] = starter[q] /\ Wanted(q)' = Wanted(q)
  BY <1>2 DEF Wanted, KeysTypeOK
<1>4. MemoriesReadable'
  BY <1>1 DEF FilesAgree, MemoriesReadable
<1>5. CASE files[name] = Missing
  <2>1. /\ starter'[p].pc = "absent" /\ starter'[p].salt = starter[p].salt
        /\ Wanted(p)' = name
    BY <1>2, <1>5 DEF Wanted, KeysTypeOK, Processes
  <2>2. SaltsAgree'
    BY <1>1, <1>3, <2>1 DEF FilesAgree, SaltsAgree
  <2>3. OneCreator'
    <3>1. \A q \in Starters : q # p => \A n : Creating(q, n)' = Creating(q, n)
      BY <1>3 DEF Creating
    <3>2. ~Creating(p, name) /\ \A n : Creating(p, n)' => n = name
      BY <1>1, <1>5, <2>1 DEF Creating
    <3>3. \A q \in Starters : q # p /\ starter[q].pc \in {"absent", "written"} => Wanted(q) # name
      BY <1>1, <1>5 DEF Creating
    <3>. QED  BY <1>1, <1>3, <1>5, <2>1, <3>1, <3>2, <3>3 DEF FilesAgree, OneCreator
  <2>4. ValuesAgree'
    BY <1>1, <1>3, <2>1 DEF FilesAgree, ValuesAgree
  <2>. QED  BY <1>4, <2>2, <2>3, <2>4 DEF FilesAgree
<1>6. CASE files[name] # Missing
  <2>1. starter'[p] = With(p, files[name])
    BY <1>2, <1>6 DEF KeysTypeOK
  <2>2. /\ starter'[p].pc = (IF name = Salt THEN "open" ELSE "keyed")
        /\ starter'[p].salt = (IF name = Salt THEN files[name] ELSE starter[p].salt)
        /\ name # Salt => starter'[p].value = files[name]
    BY <2>1 DEF With, KeysTypeOK, Processes
  <2>3. name # Salt => starter[p].salt = name
    BY DEF Wanted
  <2>4. SaltsAgree'
    BY <1>1, <1>3, <1>6, <2>2, <2>3 DEF FilesAgree, SaltsAgree
  <2>5. OneCreator'
    <3>1. \A q \in Starters : q # p => \A n : Creating(q, n)' = Creating(q, n)
      BY <1>3 DEF Creating
    <3>2. \A n : ~Creating(p, n)'
      BY <2>2 DEF Creating
    <3>. QED  BY <1>1, <1>3, <2>2, <3>1, <3>2 DEF FilesAgree, OneCreator
  <2>6. ValuesAgree'
    BY <1>1, <1>3, <1>6, <2>2, <2>3 DEF FilesAgree, ValuesAgree
  <2>. QED  BY <1>4, <2>4, <2>5, <2>6 DEF FilesAgree
<1>. QED  BY <1>5, <1>6

\* A start, a memory and a crash change no file.
LEMMA OthersKeep ==
  ASSUME KeysTypeOK, FilesAgree, NEW p \in Starters, Start(p) \/ EncryptMemory(p) \/ Crash(p)
  PROVE  FilesAgree'
<1>. USE NamesAreNumbers
<1>1. /\ UNCHANGED <<files, temporary>>
      /\ \A q \in Starters : q # p => starter'[q] = starter[q] /\ Wanted(q)' = Wanted(q)
  BY DEF Start, EncryptMemory, Crash, Wanted, KeysTypeOK
<1>2. /\ starter'[p].pc \in {"down", "start", "open"}
      /\ starter'[p].pc \in {"down", "start"} => starter'[p].salt = Missing
      /\ starter'[p].pc = "open" => starter'[p].salt = starter[p].salt /\ starter[p].pc = "keyed"
  BY DEF Start, EncryptMemory, Crash, KeysTypeOK, Processes, FilesAgree, SaltsAgree
<1>3. SaltsAgree'
  BY <1>1, <1>2 DEF FilesAgree, SaltsAgree
<1>4. OneCreator'
  <2>1. \A q \in Starters : q # p => \A n : Creating(q, n)' = Creating(q, n)
    BY <1>1 DEF Creating
  <2>2. \A n : ~Creating(p, n)'
    BY <1>2 DEF Creating
  <2>. QED  BY <1>1, <1>2, <2>1, <2>2 DEF FilesAgree, OneCreator
<1>5. ValuesAgree'
  BY <1>1, <1>2 DEF FilesAgree, ValuesAgree
<1>6. MemoriesReadable'
  <2>1. CASE EncryptMemory(p)
    <3>1. /\ starter[p].pc = "keyed"
          /\ memories' = memories \cup {[workspace |-> starter[p].salt, key |-> starter[p].value]}
      BY <2>1 DEF EncryptMemory
    <3>. QED  BY <1>1, <3>1 DEF FilesAgree, SaltsAgree, ValuesAgree, MemoriesReadable
  <2>2. CASE ~EncryptMemory(p)
    <3>1. UNCHANGED memories
      BY <2>2 DEF Start, Crash
    <3>. QED  BY <1>1, <3>1 DEF FilesAgree, MemoriesReadable
  <2>. QED  BY <2>1, <2>2
<1>. QED  BY <1>3, <1>4, <1>5, <1>6 DEF FilesAgree

\* No step of any process breaks the invariant.
LEMMA KeysInvKept == KeysInv /\ [KeysNext]_keyVars => KeysInv'
<1>. SUFFICES ASSUME KeysInv, [KeysNext]_keyVars, ~raced' PROVE FilesAgree'
  BY TypesKept DEF KeysInv
<1>1. KeysTypeOK /\ FilesAgree
  <2>1. ~raced
    BY DEF KeysInv, KeysTypeOK, KeysNext, keyVars, Start, Look, WriteTemporary, Rename,
           EncryptMemory, Crash
  <2>. QED  BY <2>1 DEF KeysInv
<1>2. CASE UNCHANGED keyVars
  BY <1>1, <1>2 DEF keyVars, FilesAgree, SaltsAgree, OneCreator, ValuesAgree, MemoriesReadable,
                    Creating, Wanted
<1>3. CASE KeysNext
  BY <1>1, <1>3, WriteTemporaryKeeps, RenameKeeps, LookKeeps, OthersKeep DEF KeysNext
<1>. QED  BY <1>2, <1>3

\* Every memory can be found and decrypted by whoever opens the workspace next, as long as
\* no two processes create the same file at once: load_or_create_local_salt and get_key.
THEOREM MemoriesReadableAlways == KeysSpec => []MemoriesStayReadable
<1>1. KeysInit => KeysInv
  <2>. SUFFICES ASSUME KeysInit PROVE KeysInv
    OBVIOUS
  <2>1. KeysTypeOK
    <3>1. starter \in [Starters -> Processes]
      BY DownIsAPlace DEF KeysInit
    <3>2. drawn \in Names /\ files \in [Names -> Names] /\ temporary \in [Names -> Names]
      BY NamesAreNumbers DEF KeysInit
    <3>. QED  BY <3>1, <3>2 DEF KeysInit, KeysTypeOK
  <2>2. FilesAgree
    BY NamesAreNumbers DEF KeysInit, FilesAgree, SaltsAgree, OneCreator, ValuesAgree, MemoriesReadable
  <2>. QED  BY <2>1, <2>2 DEF KeysInv
<1>2. KeysInv => MemoriesStayReadable
  BY DEF KeysInv, FilesAgree, MemoriesReadable, MemoriesStayReadable
<1>. QED  BY <1>1, <1>2, KeysInvKept, PTL DEF KeysSpec

-----------------------------------------------------------------------------
(***************************************************************************)
(* LegacyTranscript: sequences that are built one element after the other, *)
(* and the places of the rows in the thread.                               *)
(***************************************************************************)
\* A nonempty set of numbers has a least one.
LEMMA Least ==
  ASSUME NEW S \in SUBSET Nat, S # {}
  PROVE  \E m \in S : \A n \in S : m <= n
<1>. DEFINE R == OpToRel(<, Nat)
<1>1. IsWellFoundedOn(R, Nat)
  BY NatLessThanWellFounded
<1>2. PICK m \in S : \A n \in S : <<n, m>> \notin R
  <2>. HIDE DEF R
  <2>. QED  BY <1>1, WFMin
<1>3. \A n \in S : ~(n < m)
  BY <1>2 DEF OpToRel
<1>. QED  BY <1>3

LEMMA FiniteToSet ==
  ASSUME NEW S, NEW q \in Seq(S)
  PROVE  IsFiniteSet(ToSet(q)) /\ Cardinality(ToSet(q)) \in Nat
<1>1. q \in Surjection(1..Len(q), ToSet(q))
  BY DEF Surjection, ToSet
<1>2. IsFiniteSet(1..Len(q))
  BY FS_Interval
<1>. QED  BY <1>1, <1>2, FS_Surjection, FS_CardinalityType

\* There is a free number at or after seq, and the first is taken.
LEMMA FreePlaceIsFirst ==
  ASSUME NEW taken, IsFiniteSet(taken), NEW seq \in Nat
  PROVE  LET place == FreePlace(taken, seq)
         IN /\ place \in Nat /\ place >= seq /\ place \notin taken
            /\ \A k \in seq..(place - 1) : k \in taken
<1>. DEFINE size == Cardinality(taken)
            free == {n \in seq..(seq + size) : n \notin taken}
<1>1. size \in Nat
  BY FS_CardinalityType
<1>. HIDE DEF size
<1>2. free # {}
  <2>1. ASSUME seq..(seq + size) \in SUBSET taken PROVE FALSE
    <3>1. Cardinality(seq..(seq + size)) = size + 1
      BY <1>1, FS_Interval
    <3>2. Cardinality(seq..(seq + size)) <= size
      BY <2>1, FS_Subset DEF size
    <3>. QED  BY <1>1, <3>1, <3>2
  <2>. QED  BY <2>1
<1>3. PICK n \in free : \A m \in free : n <= m
  <2>1. free \in SUBSET Nat
    BY <1>1
  <2>. HIDE DEF free
  <2>. QED  BY <1>2, <2>1, Least
<1>4. \A k \in seq..(n - 1) : k \in taken
  BY <1>1, <1>3
<1>5. \E m \in seq..(seq + size) : m \notin taken /\ \A k \in seq..(m - 1) : k \in taken
  BY <1>3, <1>4
<1>6. FreePlace(taken, seq) =
        CHOOSE m \in seq..(seq + size) : m \notin taken /\ \A k \in seq..(m - 1) : k \in taken
  BY DEF FreePlace, size
<1>. QED  BY <1>1, <1>5, <1>6

-----------------------------------------------------------------------------
\* d is what is drawn for rows with the numbers s, one after the other.
DrawnFor(d, N, s) ==
  d = [n \in 0..N |-> IF n = 0 THEN <<>> ELSE Append(d[n - 1], FreePlace(ToSet(d[n - 1]), s[n]))]

LEMMA DrawnExists ==
  ASSUME NEW N \in Nat, NEW s
  PROVE  \E d : DrawnFor(d, N, s)
<1>. DEFINE bad == {m \in Nat : ~\E d : DrawnFor(d, m, s)}
<1>. SUFFICES ASSUME bad # {} PROVE FALSE
  OBVIOUS
<1>1. PICK m \in bad : \A n \in bad : m <= n
  <2>1. bad \in SUBSET Nat
    OBVIOUS
  <2>. HIDE DEF bad
  <2>. QED  BY <2>1, Least
<1>2. m # 0
  <2>. DEFINE d == [n \in 0..0 |-> <<>>]
  <2>1. DrawnFor(d, 0, s)
    BY DEF DrawnFor
  <2>. QED  BY <1>1, <2>1
<1>3. m - 1 \in Nat /\ m - 1 \notin bad
  BY <1>1, <1>2
<1>4. PICK d : DrawnFor(d, m - 1, s)
  BY <1>3
<1>. DEFINE e == [n \in 0..m |-> IF n < m THEN d[n]
                                 ELSE Append(d[m - 1], FreePlace(ToSet(d[m - 1]), s[m]))]
<1>5. \A n \in 0..(m - 1) : e[n] = d[n]
  BY <1>3
<1>6. \A n \in 0..m : e[n] = IF n = 0 THEN <<>> ELSE Append(e[n - 1], FreePlace(ToSet(e[n - 1]), s[n]))
  <2>. SUFFICES ASSUME NEW n \in 0..m
                PROVE  e[n] = IF n = 0 THEN <<>> ELSE Append(e[n - 1], FreePlace(ToSet(e[n - 1]), s[n]))
    OBVIOUS
  <2>1. CASE n = m
    BY <1>2, <1>3, <1>5, <2>1
  <2>2. CASE n # m
    <3>1. n \in 0..(m - 1)
      BY <1>3, <2>2
    <3>2. d[n] = IF n = 0 THEN <<>> ELSE Append(d[n - 1], FreePlace(ToSet(d[n - 1]), s[n]))
      BY <1>4, <3>1 DEF DrawnFor
    <3>3. n # 0 => n - 1 \in 0..(m - 1)
      BY <3>1
    <3>4. e[n] = d[n] /\ (n # 0 => e[n - 1] = d[n - 1])
      BY <1>5, <3>1, <3>3
    <3>. HIDE DEF e
    <3>. QED  BY <3>2, <3>4
  <2>. QED  BY <2>1, <2>2
<1>7. DrawnFor(e, m, s)
  <2>1. e = [n \in 0..m |-> e[n]]
    OBVIOUS
  <2>. HIDE DEF e
  <2>. QED  BY <1>6, <2>1 DEF DrawnFor
<1>. QED  BY <1>1, <1>7

\* What is drawn so far goes up, and from the number of the last row to its place all is taken.
GoesUp(p, n, s) ==
  /\ p \in Seq(Nat) /\ Len(p) = n
  /\ \A h, k \in 1..n : h < k => p[h] < p[k]
  /\ n > 0 => s[n] <= p[n] /\ \A k \in s[n]..p[n] : k \in ToSet(p)

LEMMA DrawnGoesUp ==
  ASSUME NEW N \in Nat, NEW s \in [1..N -> Nat], \A h, k \in 1..N : h < k => s[h] <= s[k],
         NEW d, DrawnFor(d, N, s)
  PROVE  \A n \in 0..N : GoesUp(d[n], n, s)
<1>. DEFINE bad == {m \in 0..N : ~GoesUp(d[m], m, s)}
<1>. SUFFICES ASSUME bad # {} PROVE FALSE
  OBVIOUS
<1>1. PICK m \in bad : \A n \in bad : m <= n
  <2>1. bad \in SUBSET Nat
    OBVIOUS
  <2>. HIDE DEF bad
  <2>. QED  BY <2>1, Least
<1>2. m # 0
  <2>1. d[0] = <<>>
    BY DEF DrawnFor
  <2>2. GoesUp(d[0], 0, s)
    BY <2>1 DEF GoesUp
  <2>. QED  BY <1>1, <2>2
<1>3. m - 1 \in 0..N /\ m \in 1..N /\ m \in Nat /\ GoesUp(d[m - 1], m - 1, s)
  BY <1>1, <1>2
<1>. HIDE DEF bad
<1>. DEFINE p == d[m - 1]
            place == FreePlace(ToSet(p), s[m])
<1>4. d[m] = Append(p, place)
  <2>1. \A n \in 0..N : d[n] = IF n = 0 THEN <<>> ELSE Append(d[n - 1], FreePlace(ToSet(d[n - 1]), s[n]))
    BY DEF DrawnFor
  <2>2. m \in 0..N /\ m # 0
    BY <1>3
  <2>. QED  BY <2>1, <2>2
<1>5. p \in Seq(Nat) /\ Len(p) = m - 1
  BY <1>3 DEF GoesUp
<1>6. /\ place \in Nat /\ place >= s[m] /\ place \notin ToSet(p)
      /\ \A k \in s[m]..(place - 1) : k \in ToSet(p)
  <2>1. IsFiniteSet(ToSet(p)) /\ s[m] \in Nat
    BY <1>3, <1>5, FiniteToSet
  <2>. HIDE DEF p
  <2>. QED  BY <2>1, FreePlaceIsFirst
<1>. HIDE DEF p, place
<1>7. ASSUME m > 1 PROVE p[m - 1] < place
  <2>1. s[m - 1] \in Nat /\ s[m - 1] <= s[m] /\ s[m] \in Nat
    BY <1>3, <1>7
  <2>2. s[m - 1] <= p[m - 1] /\ (\A k \in s[m - 1]..p[m - 1] : k \in ToSet(p)) /\ p[m - 1] \in Nat
    BY <1>3, <1>5, <1>7 DEF GoesUp, p
  <2>3. ~(place <= p[m - 1])
    BY <1>6, <2>1, <2>2
  <2>. QED  BY <1>6, <2>2, <2>3
<1>8. GoesUp(d[m], m, s)
  <2>. DEFINE q == Append(p, place)
  <2>1. d[m] = q
    BY <1>4
  <2>2. q \in Seq(Nat) /\ Len(q) = m /\ q[m] = place /\ \A k \in 1..(m - 1) : q[k] = p[k]
    <3>1. Append(p, place) \in Seq(Nat) /\ Len(Append(p, place)) = Len(p) + 1
      BY <1>5, <1>6
    <3>2. /\ \A k \in 1..Len(p) : Append(p, place)[k] = p[k]
          /\ Append(p, place)[Len(p) + 1] = place
      BY <1>5, <1>6
    <3>3. Len(p) + 1 = m
      BY <1>3, <1>5
    <3>. QED  BY <1>5, <3>1, <3>2, <3>3
  <2>. HIDE DEF q
  <2>3. /\ \A k \in 1..(m - 1) : p[k] \in Nat
        /\ \A h, k \in 1..(m - 1) : h < k => p[h] < p[k]
    <3>1. \A k \in 1..(m - 1) : p[k] \in Nat
      BY <1>5
    <3>2. GoesUp(p, m - 1, s)
      BY <1>3 DEF p
    <3>3. \A h, k \in 1..(m - 1) : h < k => p[h] < p[k]
      BY <3>2 DEF GoesUp
    <3>. QED  BY <3>1, <3>3
  <2>4. ASSUME NEW h \in 1..m, NEW k \in 1..m, h < k PROVE q[h] < q[k]
    <3>1. h \in 1..(m - 1)
      BY <1>3, <2>4
    <3>2. q[h] = p[h] /\ p[h] \in Nat
      BY <2>2, <2>3, <3>1
    <3>3. CASE k = m
      <4>1. m > 1 /\ m - 1 \in 1..(m - 1)
        BY <1>3, <3>1
      <4>2. p[m - 1] \in Nat /\ p[m - 1] < place
        BY <1>7, <2>3, <4>1
      <4>3. h = m - 1 \/ h < m - 1
        BY <1>3, <3>1
      <4>4. h = m - 1 \/ p[h] < p[m - 1]
        BY <2>3, <3>1, <4>1, <4>3
      <4>5. p[h] < place
        BY <1>6, <3>2, <4>2, <4>4
      <4>6. q[h] = p[h] /\ q[k] = place
        BY <2>2, <3>2, <3>3
      <4>. QED  BY <4>5, <4>6
    <3>4. CASE k # m
      <4>1. k \in 1..(m - 1)
        BY <1>3, <3>4
      <4>. QED  BY <2>2, <2>3, <2>4, <3>1, <4>1
    <3>. QED  BY <3>3, <3>4
  <2>5. ToSet(p) \subseteq ToSet(q) /\ place \in ToSet(q)
    <3>1. DOMAIN p = 1..(m - 1) /\ DOMAIN q = 1..m
      BY <1>5, <2>2
    <3>2. ToSet(p) = {p[k] : k \in 1..(m - 1)} /\ ToSet(q) = {q[k] : k \in 1..m}
      BY <3>1 DEF ToSet
    <3>3. m \in 1..m /\ \A k \in 1..(m - 1) : k \in 1..m
      BY <1>3
    <3>. QED  BY <2>2, <3>2, <3>3
  <2>6. s[m] \in Nat
    BY <1>3
  <2>7. \A k \in s[m]..place : k \in ToSet(q)
    BY <1>6, <2>5, <2>6
  <2>8. s[m] <= q[m] /\ \A k \in s[m]..q[m] : k \in ToSet(q)
    BY <1>6, <2>2, <2>6, <2>7
  <2>9. GoesUp(q, m, s)
    BY <2>2, <2>4, <2>8 DEF GoesUp
  <2>. QED  BY <2>1, <2>9
<1>. QED  BY <1>1, <1>8 DEF bad

-----------------------------------------------------------------------------
LegacyRow == [seq : Nat, kind : Kinds, call : Nat]

LEMMA SessionRows ==
  ASSUME session \in Seq(LegacyRow)
  PROVE  /\ Len(session) \in Nat /\ DOMAIN session = 1..Len(session)
         /\ \A i \in DOMAIN session : session[i].seq \in Nat
<1>1. \A i \in DOMAIN session : session[i] \in LegacyRow
  OBVIOUS
<1>2. \A row \in LegacyRow : row.seq \in Nat
  BY DEF LegacyRow
<1>. QED  BY <1>1, <1>2

\* The order in which load() of v1 returned the rows.
Before(i, j) == session[i].seq < session[j].seq \/ (session[i].seq = session[j].seq /\ i < j)

\* The position of a row in this order, from 0.
RowRank(i) == Cardinality({j \in DOMAIN session : Before(j, i)})

\* Every position is that of one row.
LEMMA RowRanks ==
  ASSUME session \in Seq(LegacyRow)
  PROVE  /\ \A i \in DOMAIN session : RowRank(i) \in 0..(Len(session) - 1)
         /\ \A i, j \in DOMAIN session : Before(i, j) => RowRank(i) < RowRank(j)
         /\ \A i, j \in DOMAIN session : RowRank(i) = RowRank(j) => i = j
         /\ \A n \in 1..Len(session) : \E i \in DOMAIN session : RowRank(i) = n - 1
<1>. DEFINE R == DOMAIN session
            N == Len(session)
            first(i) == {j \in R : Before(j, i)}
<1>0. R = 1..N /\ N \in Nat
  BY SessionRows
<1>2. \A i \in R : session[i].seq \in Nat
  BY SessionRows
<1>. HIDE DEF R, N
<1>1. R = 1..N /\ N \in Nat /\ IsFiniteSet(R) /\ Cardinality(R) = N
  BY <1>0, FS_Interval
<1>3. /\ \A i, j \in R : Before(i, j) => ~Before(j, i)
      /\ \A i, j \in R : i # j => Before(i, j) \/ Before(j, i)
      /\ \A i, j, k \in R : Before(i, j) /\ Before(j, k) => Before(i, k)
  BY <1>1, <1>2 DEF Before
<1>4. \A i \in R : IsFiniteSet(first(i)) /\ Cardinality(first(i)) \in Nat
  BY <1>1, FS_Subset, FS_CardinalityType
<1>5. ASSUME NEW i \in R, NEW j \in R, Before(i, j) PROVE Cardinality(first(i)) < Cardinality(first(j))
  <2>1. first(i) \subseteq first(j) /\ i \in first(j) /\ i \notin first(i)
    BY <1>3, <1>5
  <2>2. /\ Cardinality(first(i)) <= Cardinality(first(j))
        /\ Cardinality(first(j)) = Cardinality(first(i)) => first(j) = first(i)
    <3>. HIDE DEF first
    <3>. QED  BY <1>4, <2>1, FS_Subset
  <2>. HIDE DEF first
  <2>. QED  BY <1>4, <2>1, <2>2
<1>6. ASSUME NEW i \in R PROVE Cardinality(first(i)) \in 0..(N - 1)
  <2>1. i \notin first(i) /\ first(i) \subseteq R
    BY <1>3
  <2>2. /\ Cardinality(first(i)) <= Cardinality(R)
        /\ Cardinality(R) = Cardinality(first(i)) => R = first(i)
    <3>. HIDE DEF first
    <3>. QED  BY <1>1, <2>1, FS_Subset
  <2>. HIDE DEF first
  <2>. QED  BY <1>1, <1>4, <2>1, <2>2
<1>7. \A i \in R : RowRank(i) = Cardinality(first(i))
  BY DEF RowRank, R
<1>. HIDE DEF first
<1>8. /\ \A i \in R : RowRank(i) \in 0..(N - 1)
      /\ \A i, j \in R : Before(i, j) => RowRank(i) < RowRank(j)
  BY <1>5, <1>6, <1>7
<1>9. \A i, j \in R : RowRank(i) = RowRank(j) => i = j
  BY <1>1, <1>3, <1>8
<1>10. \A n \in 1..N : \E i \in R : RowRank(i) = n - 1
  <2>. DEFINE T == 0..(N - 1)
              f == [i \in R |-> RowRank(i)]
  <2>1. f \in Injection(R, T)
    <3>1. f \in [R -> T]
      BY <1>8
    <3>2. \A i, j \in R : f[i] = f[j] => i = j
      BY <1>9
    <3>. HIDE DEF f, T
    <3>. QED  BY <3>1, <3>2 DEF Injection, IsInjective
  <2>2. IsFiniteSet(T) /\ Cardinality(T) = N
    BY <1>1, FS_Interval
  <2>3. f \in Surjection(R, T)
    <3>. HIDE DEF f, T
    <3>. QED  BY <1>1, <2>1, <2>2, FS_Injection
  <2>4. \A t \in T : \E i \in R : f[i] = t
    <3>. HIDE DEF f, T
    <3>. QED  BY <2>3 DEF Surjection
  <2>. QED  BY <1>1, <2>4
<1>. QED  BY <1>8, <1>9, <1>10 DEF R, N

\* The places of the rows go up in this order.
LEMMA PlacesGoUp ==
  ASSUME session \in Seq(LegacyRow)
  PROVE  /\ \A i \in DOMAIN session : Places[i] \in Nat
         /\ \A i, j \in DOMAIN session : Before(i, j) => Places[i] < Places[j]
<1>. DEFINE order == ByNumberAndTime
            N == Len(session)
            s == [n \in 1..N |-> session[order[n]].seq]
<1>1. order = [n \in DOMAIN session |-> CHOOSE i \in DOMAIN session : RowRank(i) = n - 1]
  BY DEF ByNumberAndTime, Ordered, RowRank, Before
<1>. HIDE DEF order
<1>2. N \in Nat /\ DOMAIN session = 1..N
  BY SessionRows
<1>3. \A n \in 1..N : order[n] \in DOMAIN session /\ RowRank(order[n]) = n - 1
  BY <1>1, <1>2, RowRanks
<1>4. s \in [1..N -> Nat]
  BY <1>3, SessionRows
<1>5. \A h, k \in 1..N : h < k => s[h] <= s[k]
  <2>. SUFFICES ASSUME NEW h \in 1..N, NEW k \in 1..N, h < k PROVE s[h] <= s[k]
    OBVIOUS
  <2>1. RowRank(order[h]) < RowRank(order[k])
    BY <1>2, <1>3
  <2>2. ~Before(order[k], order[h])
    <3>1. \A i, j \in DOMAIN session : Before(i, j) => RowRank(i) < RowRank(j)
      BY RowRanks
    <3>. QED  BY <1>2, <1>3, <2>1, <3>1
  <2>3. s[h] \in Nat /\ s[k] \in Nat /\ s[h] = session[order[h]].seq /\ s[k] = session[order[k]].seq
    BY <1>4
  <2>. HIDE DEF s
  <2>. QED  BY <2>2, <2>3 DEF Before
<1>. DEFINE Draws(x) == x = [n \in 0..N |-> IF n = 0 THEN <<>>
                               ELSE Append(x[n - 1], FreePlace(ToSet(x[n - 1]), session[order[n]].seq))]
            d == CHOOSE x : Draws(x)
<1>6. ASSUME NEW x PROVE Draws(x) <=> DrawnFor(x, N, s)
  <2>1. \A n \in 0..N : n # 0 => session[order[n]].seq = s[n]
    BY <1>2
  <2>2. [n \in 0..N |-> IF n = 0 THEN <<>>
                        ELSE Append(x[n - 1], FreePlace(ToSet(x[n - 1]), session[order[n]].seq))]
          = [n \in 0..N |-> IF n = 0 THEN <<>> ELSE Append(x[n - 1], FreePlace(ToSet(x[n - 1]), s[n]))]
    <3>. HIDE DEF s, N
    <3>. QED  BY <2>1
  <2>. QED  BY <2>2 DEF DrawnFor
<1>7. DrawnFor(d, N, s)
  <2>1. \E x : DrawnFor(x, N, s)
    BY <1>2, DrawnExists
  <2>. HIDE DEF Draws, s
  <2>. QED  BY <1>6, <2>1
<1>8. Places = [i \in DOMAIN session |-> d[N][CHOOSE n \in DOMAIN session : order[n] = i]]
  BY DEF Places, order
<1>. HIDE DEF d, s, Draws
<1>9. GoesUp(d[N], N, s)
  BY <1>2, <1>4, <1>5, <1>7, DrawnGoesUp
<1>10. ASSUME NEW i \in DOMAIN session
       PROVE  RowRank(i) + 1 \in 1..N /\ Places[i] = d[N][RowRank(i) + 1]
  <2>1. RowRank(i) + 1 \in 1..N
    BY <1>2, RowRanks
  <2>2. order[RowRank(i) + 1] = i
    <3>1. RowRank(order[RowRank(i) + 1]) = RowRank(i) /\ order[RowRank(i) + 1] \in DOMAIN session
      BY <1>2, <1>3, <2>1, RowRanks
    <3>2. \A j, k \in DOMAIN session : RowRank(j) = RowRank(k) => j = k
      BY <1>2, RowRanks
    <3>. QED  BY <3>1, <3>2
  <2>3. \A n \in DOMAIN session : order[n] = i => n = RowRank(i) + 1
    BY <1>2, <1>3
  <2>4. (CHOOSE n \in DOMAIN session : order[n] = i) = RowRank(i) + 1
    BY <1>2, <2>1, <2>2, <2>3
  <2>. QED  BY <1>8, <2>1, <2>4
<1>15. \A i \in DOMAIN session : Places[i] \in Nat
  <2>1. d[N] \in Seq(Nat) /\ Len(d[N]) = N
    BY <1>9 DEF GoesUp
  <2>2. \A k \in 1..N : d[N][k] \in Nat
    BY <2>1
  <2>. QED  BY <1>10, <2>2
<1>. SUFFICES ASSUME NEW i \in DOMAIN session, NEW j \in DOMAIN session, Before(i, j)
              PROVE  Places[i] < Places[j]
  BY <1>15
<1>11. RowRank(i) < RowRank(j)
  BY RowRanks
<1>12. RowRank(i) \in Nat /\ RowRank(j) \in Nat
  BY RowRanks, <1>2
<1>13. /\ RowRank(i) + 1 \in 1..N /\ RowRank(j) + 1 \in 1..N
       /\ Places[i] = d[N][RowRank(i) + 1] /\ Places[j] = d[N][RowRank(j) + 1]
  BY <1>10
<1>14. \A h, k \in 1..N : h < k => d[N][h] < d[N][k]
  BY <1>9 DEF GoesUp
<1>. HIDE DEF N
<1>. QED  BY <1>11, <1>12, <1>13, <1>14

-----------------------------------------------------------------------------
Chat == [step : {"away", "prompt", "model", "tool", "result"}, next : Nat, call : Nat]

LegacyInv ==
  /\ session \in Seq(LegacyRow) /\ chats \in [Chats -> Chat]
  /\ MigratedOrderKept
  /\ thread # NotMigrated => \A i \in DOMAIN session : thread.places[i] \in Nat

\* The next number a chat draws is a number.
LEMMA NextNumber ==
  ASSUME session \in Seq(LegacyRow)
  PROVE  Max({0} \cup SequenceNos) \in Nat /\ Max({0} \cup SequenceNos) \in {0} \cup SequenceNos
<1>. DEFINE numbers == {0} \cup SequenceNos
            above(n) == {k \in numbers : k > n}
            counts == {Cardinality(above(n)) : n \in numbers}
<1>1. numbers \in SUBSET Nat /\ numbers # {}
  BY SessionRows DEF SequenceNos
<1>2. IsFiniteSet(numbers)
  <2>. DEFINE f == [i \in DOMAIN session |-> session[i].seq]
  <2>1. f \in Surjection(1..Len(session), SequenceNos)
    BY DEF Surjection, SequenceNos
  <2>2. IsFiniteSet(1..Len(session))
    BY FS_Interval
  <2>3. IsFiniteSet(SequenceNos)
    <3>. HIDE DEF f
    <3>. QED  BY <2>1, <2>2, FS_Surjection
  <2>4. IsFiniteSet(SequenceNos \cup {0}) /\ SequenceNos \cup {0} = numbers
    BY <2>3, FS_AddElement
  <2>. QED  BY <2>4
<1>. HIDE DEF numbers
<1>3. \A n \in numbers : IsFiniteSet(above(n)) /\ Cardinality(above(n)) \in Nat
  BY <1>2, FS_Subset, FS_CardinalityType
<1>4. PICK c \in counts : \A k \in counts : c <= k
  <2>1. counts \in SUBSET Nat /\ counts # {}
    BY <1>1, <1>3
  <2>. HIDE DEF counts
  <2>. QED  BY <2>1, Least
<1>5. PICK n \in numbers : Cardinality(above(n)) = c
  BY <1>4
<1>. HIDE DEF counts
<1>6. ASSUME NEW k \in numbers, k > n PROVE FALSE
  <2>0. k \in Nat /\ n \in Nat /\ numbers \subseteq Nat
    BY <1>1
  <2>1. above(k) \subseteq above(n) /\ k \in above(n) /\ k \notin above(k)
    <3>1. ASSUME NEW x \in above(k) PROVE x \in above(n)
      <4>1. x \in numbers /\ x \in Nat /\ x > k
        BY <2>0
      <4>. QED  BY <1>6, <2>0, <4>1
    <3>2. ~(k > k)
      BY <2>0
    <3>. QED  BY <1>6, <3>1, <3>2
  <2>2. c <= Cardinality(above(k))
    BY <1>4 DEF counts
  <2>. HIDE DEF above
  <2>3. /\ Cardinality(above(k)) <= Cardinality(above(n))
        /\ Cardinality(above(n)) = Cardinality(above(k)) => above(n) = above(k)
    BY <1>3, <2>1, FS_Subset
  <2>. QED  BY <1>3, <1>5, <2>1, <2>2, <2>3
<1>7. \A k \in numbers : n >= k
  BY <1>1, <1>6
<1>8. Max(numbers) \in numbers
  BY <1>7 DEF Max
<1>. QED  BY <1>1, <1>8 DEF numbers

LEMMA LegacyInvStep ==
  ASSUME LegacyInv, [LegacyNext]_legacyVars
  PROVE  LegacyInv'
<1>1. ASSUME NEW p \in Chats, Load(p) PROVE LegacyInv'
  <2>1. Max({0} \cup SequenceNos) \in Nat
    BY NextNumber DEF LegacyInv
  <2>. QED  BY <1>1, <2>1 DEF Load, LegacyInv, Chat, MigratedOrderKept
<1>2. ASSUME NEW p \in Chats, Interrupt(p) PROVE LegacyInv'
  <2>1. Away \in Chat /\ \A step \in {"prompt", "away"} : [chats[p] EXCEPT !.step = step, !.call = 0] \in Chat
    BY DEF LegacyInv, Chat, Away
  <2>2. chats' \in [Chats -> Chat] /\ UNCHANGED <<session, thread>>
    <3>1. PICK step \in {"prompt", "away"} :
            chats' = [chats EXCEPT ![p] =
                        IF step = "away" THEN Away ELSE [@ EXCEPT !.step = step, !.call = 0]]
      BY <1>2 DEF Interrupt
    <3>. QED  BY <1>2, <2>1, <3>1 DEF Interrupt, LegacyInv
  <2>. QED  BY <2>2 DEF LegacyInv, MigratedOrderKept
<1>3. ASSUME NEW p \in Chats, NEW kind \in Kinds, NEW call \in Nat,
             NEW step \in {"away", "prompt", "model", "tool", "result"}, Store(p, kind, call, step)
      PROVE  LegacyInv'
  <2>1. [seq |-> chats[p].next, kind |-> kind, call |-> call] \in LegacyRow
    BY <1>3 DEF LegacyInv, Chat, LegacyRow
  <2>2. session' \in Seq(LegacyRow)
    BY <1>3, <2>1 DEF Store, LegacyInv
  <2>3. chats' \in [Chats -> Chat]
    BY <1>3 DEF Store, LegacyInv, Chat
  <2>. QED  BY <1>3, <2>2, <2>3 DEF Store, LegacyInv, MigratedOrderKept
<1>4. ASSUME NEW p \in Chats,
             \/ RecordPrompt(p) \/ RecordAnswer(p) \/ RecordCall(p) \/ RecordEvent(p) \/ RecordResult(p)
      PROVE  LegacyInv'
  <2>1. chats[p].call \in Nat /\ Len(session) + 1 \in Nat
    BY <1>4 DEF LegacyInv, Chat
  <2>. QED  BY <1>3, <1>4, <2>1 DEF RecordPrompt, RecordAnswer, RecordCall, RecordEvent, RecordResult, Kinds
<1>5. CASE Migrate
  <2>1. thread'.places = Places /\ session' = session /\ chats' = [p \in Chats |-> Away]
    BY <1>5 DEF Migrate
  <2>2. MigratedOrderKept'
    BY <2>1, PlacesGoUp DEF LegacyInv, MigratedOrderKept, Before
  <2>3. \A i \in DOMAIN session : Places[i] \in Nat
    BY PlacesGoUp DEF LegacyInv
  <2>. QED  BY <2>1, <2>2, <2>3 DEF LegacyInv, Chat, Away
<1>6. CASE UNCHANGED legacyVars
  BY <1>6 DEF legacyVars, LegacyInv, MigratedOrderKept
<1>. QED  BY <1>1, <1>2, <1>4, <1>5, <1>6 DEF LegacyNext

\* Every row of a v1 session gets a place of its own, in the order in which v1 returned
\* the rows, whatever numbers any chats drew.
THEOREM MigrationKeepsOrder == LegacySpec => []MigratedOrderKept
<1>1. LegacyInit => LegacyInv
  BY DEF LegacyInit, LegacyInv, MigratedOrderKept, Chat, Away
<1>2. LegacyInv => MigratedOrderKept
  BY DEF LegacyInv
<1>. QED  BY <1>1, <1>2, LegacyInvStep, PTL DEF LegacySpec

-----------------------------------------------------------------------------
(***************************************************************************)
(* Sessions in which no two rows have the same number.  Chats that load    *)
(* one after the other, also with interrupted ones in between, number the  *)
(* rows one by one; a chat that was overtaken holds a number that is       *)
(* taken.  So only the chat that stored the last row is in the middle of   *)
(* its loop, and each row is one that can follow the row before it.        *)
(***************************************************************************)
Numbered == \A i, j \in DOMAIN session : session[i].seq = session[j].seq => i = j

\* Row i can follow row i - 1.
Follows(i) ==
  LET kind == session[i].kind
      last == session[i - 1].kind
  IN \/ kind = "user"
     \/ i > 1 /\ kind \in {"answer", "call"} /\ last \in {"user", "result"}
     \/ i > 1 /\ kind = "event" /\ last = "call" /\ session[i].call = i - 1
     \/ i > 2 /\ kind = "result" /\ last = "event" /\ session[i].call = i - 2

\* A chat that can store the next row goes on from the last one.
InTurn(p) ==
  LET last == Len(session) IN
  /\ chats[p].step = "model" => last > 0 /\ session[last].kind \in {"user", "result"}
  /\ chats[p].step = "tool" => last > 0 /\ session[last].kind = "call" /\ chats[p].call = last
  /\ chats[p].step = "result" => last > 1 /\ session[last].kind = "event" /\ chats[p].call = last - 1

RowsInTurn ==
  /\ \A i \in DOMAIN session : session[i].seq = i /\ Follows(i)
  /\ \A p \in Chats : /\ chats[p].next <= Len(session) + 1
                      /\ chats[p].next = Len(session) + 1 => InTurn(p)

\* The events of an inferred run: from a user message on, up to before the next.
GoodRun(run) ==
  LET e == run.events IN
  /\ e \in Seq(DOMAIN session) /\ e # <<>>
  /\ session[e[1]].kind = "user"
  /\ \A h \in 1..Len(e) : e[h] = e[1] + h - 1 /\ (h > 1 => session[e[h]].kind # "user")

LegacyRun == [status : {"running", "interrupted", "completed"}, events : Seq(DOMAIN session)]

GoodRuns(runs) == runs \in Seq(LegacyRun) /\ \A k \in 1..Len(runs) : GoodRun(runs[k])

ChatsLoaded == \A p \in Chats : chats[p] = Away \/ (chats[p].step # "away" /\ chats[p].next > 0)

SerialInv ==
  /\ LegacyInv
  /\ ChatsLoaded
  /\ Numbered => RowsInTurn
  /\ thread # NotMigrated /\ Numbered => GoodRuns(thread.runs)

-----------------------------------------------------------------------------
(***************************************************************************)
(* The rows.                                                               *)
(***************************************************************************)
\* Where the number of a new row is not taken, its chat is the one in turn.
LEMMA StoreInTurn ==
  ASSUME SerialInv, NEW p \in Chats, NEW kind \in Kinds, NEW call \in Nat,
         NEW step \in {"prompt", "model", "tool", "result"},
         Store(p, kind, call, step), chats[p].step # "away", Numbered',
         LET n == Len(session) IN
         RowsInTurn /\ InTurn(p) =>
           /\ \/ kind = "user"
              \/ n > 0 /\ kind \in {"answer", "call"} /\ session[n].kind \in {"user", "result"}
              \/ n > 0 /\ kind = "event" /\ session[n].kind = "call" /\ call = n
              \/ n > 1 /\ kind = "result" /\ session[n].kind = "event" /\ call = n - 1
           /\ step = "model" => kind \in {"user", "result"}
           /\ step = "tool" => kind = "call" /\ call = n + 1
           /\ step = "result" => n > 0 /\ kind = "event" /\ call = n
  PROVE  RowsInTurn'
<1>. DEFINE n == Len(session)
            row == [seq |-> chats[p].next, kind |-> kind, call |-> call]
<1>1. session \in Seq(LegacyRow) /\ n \in Nat /\ DOMAIN session = 1..n
  BY SessionRows DEF SerialInv, LegacyInv
<1>2. /\ session' = Append(session, row)
      /\ chats' = [chats EXCEPT ![p] = [step |-> step, next |-> @.next + 1, call |-> call]]
  BY DEF Store
<1>3. chats[p] \in Chat /\ chats[p].next \in Nat /\ chats[p].next > 0
  BY DEF SerialInv, LegacyInv, Chat, ChatsLoaded, Away
<1>4. /\ Len(session') = n + 1 /\ DOMAIN session' = 1..(n + 1)
      /\ session'[n + 1] = row /\ \A i \in 1..n : session'[i] = session[i]
  <2>1. row \in LegacyRow
    BY <1>3 DEF LegacyRow
  <2>. HIDE DEF row
  <2>2. /\ Append(session, row) \in Seq(LegacyRow) /\ Len(Append(session, row)) = n + 1
        /\ Append(session, row)[n + 1] = row /\ \A i \in 1..n : Append(session, row)[i] = session[i]
    <3>. HIDE DEF n
    <3>1. /\ Append(session, row) \in Seq(LegacyRow) /\ Len(Append(session, row)) = Len(session) + 1
          /\ \A i \in 1..Len(session) : Append(session, row)[i] = session[i]
          /\ Append(session, row)[Len(session) + 1] = row
      BY <1>1, <2>1, AppendProperties
    <3>2. n = Len(session)
      BY DEF n
    <3>. QED  BY <3>1, <3>2
  <2>3. session' \in Seq(LegacyRow) /\ Len(session') = n + 1
    BY <1>2, <2>2
  <2>4. DOMAIN session' = 1..(n + 1)
    BY <2>3
  <2>. QED  BY <1>2, <2>2, <2>3, <2>4
<1>5. /\ chats'[p] = [step |-> step, next |-> chats[p].next + 1, call |-> call]
      /\ \A q \in Chats \ {p} : chats'[q] = chats[q]
  BY <1>2 DEF SerialInv, LegacyInv
<1>. HIDE DEF n, row
<1>6. Numbered
  BY <1>1, <1>4 DEF Numbered
<1>7. RowsInTurn
  BY <1>6 DEF SerialInv
<1>8. chats[p].next = n + 1
  <2>1. chats[p].next <= n + 1
    BY <1>7 DEF RowsInTurn, n
  <2>2. ASSUME chats[p].next \in 1..n PROVE FALSE
    <3>1. session[chats[p].next].seq = chats[p].next
      BY <1>1, <1>7, <2>2 DEF RowsInTurn
    <3>2. session'[chats[p].next].seq = session'[n + 1].seq
      BY <1>4, <2>2, <3>1 DEF row
    <3>3. chats[p].next = n + 1
      BY <1>1, <1>4, <2>2, <3>2 DEF Numbered
    <3>. QED  BY <1>1, <2>2, <3>3
  <2>. QED  BY <1>1, <1>3, <2>1, <2>2
<1>9. InTurn(p)
  BY <1>7, <1>8 DEF RowsInTurn, n
<1>. DEFINE stands == /\ \/ kind = "user"
                         \/ n > 0 /\ kind \in {"answer", "call"} /\ session[n].kind \in {"user", "result"}
                         \/ n > 0 /\ kind = "event" /\ session[n].kind = "call" /\ call = n
                         \/ n > 1 /\ kind = "result" /\ session[n].kind = "event" /\ call = n - 1
                      /\ step = "model" => kind \in {"user", "result"}
                      /\ step = "tool" => kind = "call" /\ call = n + 1
                      /\ step = "result" => n > 0 /\ kind = "event" /\ call = n
<1>10. stands
  BY <1>7, <1>9 DEF n
<1>11. ASSUME NEW i \in 1..(n + 1) PROVE session'[i].seq = i /\ Follows(i)'
  <2>1. CASE i = n + 1
    <3>1. session'[i].seq = i /\ session'[i].kind = kind /\ session'[i].call = call
      BY <1>4, <1>8, <2>1 DEF row
    <3>2. n > 0 => session'[i - 1] = session[n]
      BY <1>1, <1>4, <2>1
    <3>3. i - 1 = n /\ i - 2 = n - 1
      BY <1>1, <2>1
    <3>4. CASE kind = "user"
      BY <3>1, <3>4 DEF Follows
    <3>5. CASE kind # "user"
      <4>1. n > 0 /\ i > 1 /\ session'[i - 1].kind = session[n].kind
        BY <1>1, <1>10, <2>1, <3>2, <3>5
      <4>2. n > 1 => i > 2
        BY <1>1, <2>1
      <4>. HIDE DEF stands
      <4>3. \/ kind \in {"answer", "call"} /\ session[n].kind \in {"user", "result"}
            \/ kind = "event" /\ session[n].kind = "call" /\ call = i - 1
            \/ i > 2 /\ kind = "result" /\ session[n].kind = "event" /\ call = i - 2
        BY <1>10, <3>3, <3>5, <4>2 DEF stands
      <4>4. Follows(i)'
        BY <3>1, <4>1, <4>3 DEF Follows
      <4>. QED  BY <3>1, <4>4
    <3>. QED  BY <3>4, <3>5
  <2>2. CASE i # n + 1
    <3>1. i \in 1..n /\ session'[i] = session[i] /\ (i > 1 => session'[i - 1] = session[i - 1])
      BY <1>1, <1>4, <2>2
    <3>2. session[i].seq = i /\ Follows(i)
      BY <1>1, <1>7, <3>1 DEF RowsInTurn
    <3>. QED  BY <3>1, <3>2 DEF Follows
  <2>. QED  BY <2>1, <2>2
<1>12. ASSUME NEW q \in Chats
       PROVE  chats'[q].next <= n + 2 /\ (chats'[q].next = n + 2 => InTurn(q)')
  <2>1. CASE q = p
    <3>1. chats'[q].next = n + 2 /\ chats'[q].step = step /\ chats'[q].call = call
      BY <1>1, <1>5, <1>8, <2>1
    <3>2. session'[n + 1].kind = kind
      BY <1>4 DEF row
    <3>3. /\ step = "model" => kind \in {"user", "result"}
          /\ step = "tool" => kind = "call" /\ call = n + 1
          /\ step = "result" => n > 0 /\ kind = "event" /\ call = n
      BY <1>10
    <3>4. n + 1 > 0 /\ (n + 1) - 1 = n /\ (n > 0 => n + 1 > 1)
      BY <1>1
    <3>5. InTurn(q)'
      <4>. HIDE DEF stands
      <4>. QED  BY <1>4, <3>1, <3>2, <3>3, <3>4 DEF InTurn
    <3>. QED  BY <1>1, <3>1, <3>5
  <2>2. CASE q # p
    <3>1. chats'[q] = chats[q] /\ chats[q].next <= n + 1 /\ chats[q].next \in Nat
      BY <1>5, <1>7, <2>2 DEF RowsInTurn, n, SerialInv, LegacyInv, Chat
    <3>. QED  BY <1>1, <3>1
  <2>. QED  BY <2>1, <2>2
<1>. QED  BY <1>1, <1>4, <1>11, <1>12 DEF RowsInTurn

-----------------------------------------------------------------------------
(***************************************************************************)
(* infer_legacy_runs.                                                      *)
(***************************************************************************)
\* What it has of the first n rows.
RunsSoFar(acc, n) ==
  /\ acc = [runs |-> acc.runs, current |-> acc.current, unassigned |-> acc.unassigned]
  /\ GoodRuns(acc.runs)
  /\ acc.unassigned = NoRun
  /\ n = 0 => acc.runs = <<>>
  /\ n > 0 => LET last == acc.runs[Len(acc.runs)].events
              IN acc.runs # <<>> /\ last[Len(last)] = n
  /\ acc.current = IF n > 0 /\ session[n].kind # "answer" THEN Len(acc.runs) ELSE NoRun

\* A status says nothing about the events.
LEMMA StatusSet ==
  ASSUME NEW runs, GoodRuns(runs), NEW k \in 1..Len(runs),
         NEW status \in {"running", "interrupted", "completed"}
  PROVE  LET more == [runs EXCEPT ![k].status = status]
         IN GoodRuns(more) /\ Len(more) = Len(runs) /\ \A h \in 1..Len(runs) : more[h].events = runs[h].events
<1>. DEFINE more == [runs EXCEPT ![k].status = status]
<1>1. runs \in Seq(LegacyRun) /\ DOMAIN runs = 1..Len(runs) /\ Len(runs) \in Nat
  BY DEF GoodRuns
<1>2. \A h \in 1..Len(runs) : runs[h] \in LegacyRun /\ GoodRun(runs[h])
  BY <1>1 DEF GoodRuns
<1>3. /\ [runs[k] EXCEPT !.status = status] \in LegacyRun
      /\ [runs[k] EXCEPT !.status = status].events = runs[k].events
  BY <1>2 DEF LegacyRun
<1>4. more = [runs EXCEPT ![k] = [runs[k] EXCEPT !.status = status]]
  OBVIOUS
<1>5. more \in Seq(LegacyRun) /\ Len(more) = Len(runs)
  BY <1>1, <1>3, <1>4
<1>6. \A h \in 1..Len(runs) : more[h].events = runs[h].events
  BY <1>1, <1>3, <1>4
<1>. HIDE DEF more
<1>7. \A h \in 1..Len(runs) : GoodRun(more[h])
  <2>. SUFFICES ASSUME NEW h \in 1..Len(runs) PROVE GoodRun(more[h])
    OBVIOUS
  <2>1. GoodRun(runs[h]) /\ more[h].events = runs[h].events
    BY <1>2, <1>6
  <2>. QED  BY <2>1 DEF GoodRun
<1>8. GoodRuns(more) /\ Len(more) = Len(runs) /\ \A h \in 1..Len(runs) : more[h].events = runs[h].events
  BY <1>5, <1>6, <1>7 DEF GoodRuns
<1>. QED  BY <1>8 DEF more

LEMMA AssignStep ==
  ASSUME session \in Seq(LegacyRow), NEW n \in 1..Len(session), Follows(n),
         NEW acc, RunsSoFar(acc, n - 1)
  PROVE  RunsSoFar(AssignRow(acc, n), n)
<1>. DEFINE new == AssignRow(acc, n)
<1>1. Len(session) \in Nat /\ DOMAIN session = 1..Len(session) /\ n \in Nat /\ n > 0
  BY SessionRows
<1>2. GoodRuns(acc.runs) /\ acc.runs \in Seq(LegacyRun) /\ Len(acc.runs) \in Nat
  BY DEF RunsSoFar, GoodRuns
<1>3. CASE session[n].kind = "user"
  <2>. DEFINE left == IF acc.current # NoRun THEN [acc.runs EXCEPT ![acc.current].status = "interrupted"]
                      ELSE acc.runs
              fresh == [status |-> "running", events |-> <<>>]
              runs == Append(left, fresh)
              first == [status |-> "running", events |-> <<n>>]
  <2>1. new = [runs |-> [runs EXCEPT ![Len(runs)] = [status |-> @.status, events |-> Append(@.events, n)]],
               current |-> Len(runs), unassigned |-> acc.unassigned]
    BY <1>3 DEF AssignRow, BeginsRun
  <2>2. GoodRuns(left) /\ Len(left) = Len(acc.runs)
    <3>1. CASE acc.current = NoRun
      BY <1>2, <3>1
    <3>2. CASE acc.current # NoRun
      <4>1. acc.current = Len(acc.runs) /\ acc.current \in 1..Len(acc.runs)
        BY <1>2, <3>2 DEF RunsSoFar, NoRun
      <4>. QED  BY <1>2, <3>2, <4>1, StatusSet
    <3>. QED  BY <3>1, <3>2
  <2>. HIDE DEF left
  <2>3. left \in Seq(LegacyRun) /\ fresh \in LegacyRun /\ first \in LegacyRun
    BY <1>1, <2>2 DEF GoodRuns, LegacyRun
  <2>4. /\ runs \in Seq(LegacyRun) /\ Len(runs) = Len(left) + 1 /\ Len(left) \in Nat
        /\ runs[Len(runs)] = fresh /\ \A k \in 1..Len(left) : runs[k] = left[k]
    BY <2>3
  <2>5. [status |-> runs[Len(runs)].status, events |-> Append(runs[Len(runs)].events, n)] = first
    BY <2>4
  <2>6. new.runs = [runs EXCEPT ![Len(runs)] = first]
    BY <2>1, <2>5
  <2>. HIDE DEF fresh, runs
  <2>7. /\ new.runs \in Seq(LegacyRun) /\ Len(new.runs) = Len(left) + 1
        /\ new.runs[Len(left) + 1] = first /\ \A k \in 1..Len(left) : new.runs[k] = left[k]
    BY <2>3, <2>4, <2>6
  <2>8. GoodRun(first)
    BY <1>1, <1>3 DEF GoodRun
  <2>9. GoodRuns(new.runs)
    <3>1. \A k \in 1..Len(left) : GoodRun(new.runs[k])
      BY <2>2, <2>7 DEF GoodRuns
    <3>2. GoodRun(new.runs[Len(left) + 1])
      BY <2>7, <2>8
    <3>3. \A k \in 1..Len(new.runs) : k \in 1..Len(left) \/ k = Len(left) + 1
      BY <2>4, <2>7
    <3>4. \A k \in 1..Len(new.runs) : GoodRun(new.runs[k])
      BY <3>1, <3>2, <3>3
    <3>. HIDE DEF new
    <3>. QED  BY <2>7, <3>4 DEF GoodRuns
  <2>10. new.current = Len(new.runs) /\ new.unassigned = NoRun
         /\ new = [runs |-> new.runs, current |-> new.current, unassigned |-> new.unassigned]
    BY <2>1, <2>4, <2>7 DEF RunsSoFar
  <2>11. new.runs # <<>> /\ new.runs[Len(new.runs)] = first
    BY <2>4, <2>7
  <2>. HIDE DEF new
  <2>12. LET last == new.runs[Len(new.runs)].events IN last[Len(last)] = n
    BY <2>11
  <2>13. RunsSoFar(new, n)
    BY <1>1, <1>3, <2>9, <2>10, <2>11, <2>12 DEF RunsSoFar
  <2>. QED  BY <2>13 DEF new
<1>4. CASE session[n].kind # "user"
  <2>. DEFINE no == acc.current
              ends == session[n].kind = "answer"
              grown == [status |-> IF ends THEN "completed" ELSE acc.runs[no].status,
                        events |-> Append(acc.runs[no].events, n)]
              e == acc.runs[no].events
  <2>1. n > 1 /\ session[n - 1].kind # "answer"
    BY <1>1, <1>4 DEF Follows
  <2>2. no = Len(acc.runs) /\ no \in 1..Len(acc.runs) /\ no # NoRun /\ e[Len(e)] = n - 1
    BY <1>1, <1>2, <2>1 DEF RunsSoFar, NoRun
  <2>3. new = [runs |-> [acc.runs EXCEPT ![no] = [status |-> IF ends THEN "completed" ELSE @.status,
                                                  events |-> Append(@.events, n)]],
               current |-> IF ends THEN NoRun ELSE no, unassigned |-> acc.unassigned]
    BY <1>4, <2>2 DEF AssignRow, BeginsRun
  <2>4. acc.runs[no] \in LegacyRun /\ GoodRun(acc.runs[no]) /\ e \in Seq(1..Len(session)) /\ e # <<>>
    <3>1. acc.runs[no] \in LegacyRun /\ GoodRun(acc.runs[no])
      BY <1>2, <2>2 DEF GoodRuns
    <3>2. e \in Seq(DOMAIN session) /\ e # <<>>
      BY <3>1 DEF GoodRun
    <3>. QED  BY <1>1, <3>1, <3>2
  <2>5. /\ Append(e, n) \in Seq(1..Len(session)) /\ Len(Append(e, n)) = Len(e) + 1 /\ Len(e) \in Nat \ {0}
        /\ Append(e, n)[Len(e) + 1] = n /\ \A h \in 1..Len(e) : Append(e, n)[h] = e[h]
    <3>. HIDE DEF e
    <3>. QED  BY <2>4
  <2>6. grown \in LegacyRun /\ grown.events = Append(e, n)
    BY <1>1, <2>4, <2>5 DEF LegacyRun
  <2>7. GoodRun(grown)
    <3>. DEFINE f == Append(e, n)
    <3>1. /\ session[e[1]].kind = "user" /\ e[1] \in 1..Len(session)
          /\ \A h \in 1..Len(e) : e[h] = e[1] + h - 1 /\ (h > 1 => session[e[h]].kind # "user")
      <4>1. /\ session[e[1]].kind = "user"
            /\ \A h \in 1..Len(e) : e[h] = e[1] + h - 1 /\ (h > 1 => session[e[h]].kind # "user")
        BY <2>4 DEF GoodRun
      <4>. HIDE DEF e
      <4>2. e[1] \in 1..Len(session)
        BY <2>4, <2>5
      <4>. QED  BY <4>1, <4>2
    <3>2. n = e[1] + (Len(e) + 1) - 1 /\ f[1] = e[1]
      <4>. HIDE DEF e
      <4>1. f[1] = e[1]
        BY <2>5
      <4>. HIDE DEF f
      <4>2. Len(e) \in Nat \ {0} /\ Len(e) \in 1..Len(e) /\ e[1] \in Nat
        BY <1>1, <2>5, <3>1
      <4>3. e[Len(e)] = e[1] + Len(e) - 1
        BY <3>1, <4>2
      <4>4. e[Len(e)] = n - 1
        BY <2>2
      <4>. HIDE DEF no
      <4>5. n = e[1] + (Len(e) + 1) - 1
        BY <1>1, <4>2, <4>3, <4>4
      <4>. QED  BY <4>1, <4>5
    <3>. HIDE DEF e
    <3>3. \A h \in 1..(Len(e) + 1) : f[h] = f[1] + h - 1 /\ (h > 1 => session[f[h]].kind # "user")
      <4>. HIDE DEF f
      <4>. SUFFICES ASSUME NEW h \in 1..(Len(e) + 1)
                    PROVE  f[h] = f[1] + h - 1 /\ (h > 1 => session[f[h]].kind # "user")
        OBVIOUS
      <4>1. CASE h = Len(e) + 1
        BY <1>4, <2>5, <3>2, <4>1 DEF f
      <4>2. CASE h # Len(e) + 1
        <5>1. h \in 1..Len(e) /\ f[h] = e[h]
          BY <2>5, <4>2 DEF f
        <5>. QED  BY <3>1, <3>2, <5>1
      <4>. QED  BY <4>1, <4>2
    <3>4. f \in Seq(DOMAIN session) /\ f # <<>> /\ Len(f) = Len(e) + 1 /\ session[f[1]].kind = "user"
      <4>1. f \in Seq(DOMAIN session) /\ f # <<>> /\ Len(f) = Len(e) + 1
        BY <1>1, <2>5
      <4>. HIDE DEF f
      <4>. QED  BY <3>1, <3>2, <4>1
    <3>5. grown.events = f
      BY <2>6
    <3>. HIDE DEF f, grown
    <3>. QED  BY <3>3, <3>4, <3>5 DEF GoodRun
  <2>8. new.runs = [acc.runs EXCEPT ![no] = grown]
    BY <2>3
  <2>. HIDE DEF grown, e
  <2>9. /\ new.runs \in Seq(LegacyRun) /\ Len(new.runs) = Len(acc.runs)
        /\ new.runs[no] = grown /\ \A k \in 1..Len(acc.runs) : k # no => new.runs[k] = acc.runs[k]
    BY <1>2, <2>2, <2>6, <2>8
  <2>10. GoodRuns(new.runs)
    BY <1>2, <2>7, <2>9 DEF GoodRuns
  <2>11. new.current = (IF ends THEN NoRun ELSE Len(new.runs)) /\ new.unassigned = NoRun
         /\ new = [runs |-> new.runs, current |-> new.current, unassigned |-> new.unassigned]
    BY <2>2, <2>3, <2>9 DEF RunsSoFar
  <2>. HIDE DEF new
  <2>12. new.runs # <<>> /\ new.runs[Len(new.runs)] = grown
    BY <1>2, <2>2, <2>9
  <2>13. LET last == new.runs[Len(new.runs)].events IN last[Len(last)] = n
    BY <2>5, <2>6, <2>12
  <2>14. RunsSoFar(new, n)
    BY <1>1, <2>10, <2>11, <2>12, <2>13 DEF RunsSoFar
  <2>. QED  BY <2>14 DEF new
<1>. QED  BY <1>3, <1>4

\* f is what is inferred row by row.
InferredBy(f, N, order) ==
  f = [n \in 0..N |-> IF n = 0 THEN [runs |-> <<>>, current |-> NoRun, unassigned |-> NoRun]
                      ELSE AssignRow(f[n - 1], order[n])]

LEMMA InferredExists ==
  ASSUME NEW N \in Nat, NEW order
  PROVE  \E f : InferredBy(f, N, order)
<1>. DEFINE none == [runs |-> <<>>, current |-> NoRun, unassigned |-> NoRun]
            bad == {m \in Nat : ~\E f : InferredBy(f, m, order)}
<1>. SUFFICES ASSUME bad # {} PROVE FALSE
  OBVIOUS
<1>1. PICK m \in bad : \A n \in bad : m <= n
  <2>1. bad \in SUBSET Nat
    OBVIOUS
  <2>. HIDE DEF bad
  <2>. QED  BY <2>1, Least
<1>2. m # 0
  <2>. DEFINE f == [n \in 0..0 |-> none]
  <2>1. InferredBy(f, 0, order)
    BY DEF InferredBy
  <2>. QED  BY <1>1, <2>1
<1>3. m - 1 \in Nat /\ m - 1 \notin bad
  BY <1>1, <1>2
<1>4. PICK f : InferredBy(f, m - 1, order)
  BY <1>3
<1>. DEFINE g == [n \in 0..m |-> IF n < m THEN f[n] ELSE AssignRow(f[m - 1], order[m])]
<1>5. \A n \in 0..(m - 1) : g[n] = f[n]
  BY <1>3
<1>6. \A n \in 0..m : g[n] = IF n = 0 THEN none ELSE AssignRow(g[n - 1], order[n])
  <2>. SUFFICES ASSUME NEW n \in 0..m
                PROVE  g[n] = IF n = 0 THEN none ELSE AssignRow(g[n - 1], order[n])
    OBVIOUS
  <2>1. CASE n = m
    BY <1>2, <1>3, <1>5, <2>1
  <2>2. CASE n # m
    <3>1. n \in 0..(m - 1)
      BY <1>3, <2>2
    <3>2. f[n] = IF n = 0 THEN none ELSE AssignRow(f[n - 1], order[n])
      BY <1>4, <3>1 DEF InferredBy
    <3>3. n # 0 => n - 1 \in 0..(m - 1)
      BY <3>1
    <3>4. g[n] = f[n] /\ (n # 0 => g[n - 1] = f[n - 1])
      BY <1>5, <3>1, <3>3
    <3>. HIDE DEF g, none
    <3>. QED  BY <3>2, <3>4
  <2>. QED  BY <2>1, <2>2
<1>7. InferredBy(g, m, order)
  <2>1. g = [n \in 0..m |-> g[n]]
    OBVIOUS
  <2>. HIDE DEF g
  <2>. QED  BY <1>6, <2>1 DEF InferredBy
<1>. QED  BY <1>1, <1>7

\* Rows that are numbered one by one are read in the order in which they were stored.
LEMMA NumberedOrder ==
  ASSUME session \in Seq(LegacyRow), \A i \in DOMAIN session : session[i].seq = i, NEW reversed
  PROVE  \A n \in 1..Len(session) : ByNumberAndId(reversed)[n] = n
<1>1. Len(session) \in Nat /\ DOMAIN session = 1..Len(session)
  BY SessionRows
<1>. DEFINE before(i, j) == \/ session[i].seq < session[j].seq
                            \/ session[i].seq = session[j].seq
                                 /\ (IF session[i].seq \in reversed THEN j < i ELSE i < j)
<1>2. \A i, j \in DOMAIN session : before(i, j) <=> i < j
  BY <1>1
<1>3. ByNumberAndId(reversed) =
        [n \in DOMAIN session |->
           CHOOSE i \in DOMAIN session : Cardinality({j \in DOMAIN session : before(j, i)}) = n - 1]
  BY DEF ByNumberAndId, Ordered
<1>. HIDE DEF before
<1>4. ASSUME NEW i \in DOMAIN session
      PROVE  Cardinality({j \in DOMAIN session : before(j, i)}) = i - 1
  <2>1. {j \in DOMAIN session : before(j, i)} = 1..(i - 1)
    BY <1>1, <1>2
  <2>2. Cardinality(1..(i - 1)) = i - 1
    BY <1>1, FS_Interval
  <2>. QED  BY <2>1, <2>2
<1>5. \A n \in 1..Len(session) :
        (CHOOSE i \in DOMAIN session : Cardinality({j \in DOMAIN session : before(j, i)}) = n - 1) = n
  <2>. SUFFICES ASSUME NEW n \in 1..Len(session)
                PROVE  (CHOOSE i \in DOMAIN session :
                          Cardinality({j \in DOMAIN session : before(j, i)}) = n - 1) = n
    OBVIOUS
  <2>1. \A i \in DOMAIN session : Cardinality({j \in DOMAIN session : before(j, i)}) = n - 1 <=> i = n
    BY <1>1, <1>4
  <2>. QED  BY <1>1, <2>1
<1>. QED  BY <1>1, <1>3, <1>5

LEMMA InferredAreGood ==
  ASSUME session \in Seq(LegacyRow), \A i \in DOMAIN session : session[i].seq = i /\ Follows(i), NEW reversed
  PROVE  GoodRuns(InferredRuns(reversed))
<1>. DEFINE N == Len(session)
            order == ByNumberAndId(reversed)
            Infers(x) ==
              x = [n \in 0..N |-> IF n = 0 THEN [runs |-> <<>>, current |-> NoRun, unassigned |-> NoRun]
                                  ELSE AssignRow(x[n - 1], order[n])]
            after == CHOOSE x : Infers(x)
<1>1. N \in Nat /\ DOMAIN session = 1..N
  BY SessionRows
<1>2. \A n \in 1..N : order[n] = n
  BY NumberedOrder
<1>3. InferredRuns(reversed) = ClosedRuns(after[N])
  BY DEF InferredRuns
<1>4. InferredBy(after, N, order)
  <2>1. \E x : InferredBy(x, N, order)
    <3>. HIDE DEF order
    <3>. QED  BY <1>1, InferredExists
  <2>. HIDE DEF order, N
  <2>. QED  BY <2>1 DEF InferredBy
<1>. HIDE DEF after, order, Infers
<1>5. \A n \in 0..N : RunsSoFar(after[n], n)
  <2>. DEFINE bad == {m \in 0..N : ~RunsSoFar(after[m], m)}
  <2>. SUFFICES ASSUME bad # {} PROVE FALSE
    OBVIOUS
  <2>1. PICK m \in bad : \A n \in bad : m <= n
    <3>1. bad \in SUBSET Nat
      OBVIOUS
    <3>. HIDE DEF bad
    <3>. QED  BY <3>1, Least
  <2>2. \A n \in 0..N : after[n] = IF n = 0 THEN [runs |-> <<>>, current |-> NoRun, unassigned |-> NoRun]
                                   ELSE AssignRow(after[n - 1], order[n])
    BY <1>4 DEF InferredBy
  <2>3. m # 0
    <3>1. after[0] = [runs |-> <<>>, current |-> NoRun, unassigned |-> NoRun]
      BY <1>1, <2>2
    <3>2. GoodRuns(<<>>)
      BY DEF GoodRuns
    <3>3. RunsSoFar(after[0], 0)
      BY <3>1, <3>2 DEF RunsSoFar
    <3>. QED  BY <2>1, <3>3
  <2>4. m \in 1..N /\ m - 1 \in 0..N /\ RunsSoFar(after[m - 1], m - 1)
    BY <1>1, <2>1, <2>3
  <2>5. after[m] = AssignRow(after[m - 1], m)
    BY <1>2, <2>2, <2>3, <2>4
  <2>6. RunsSoFar(after[m], m)
    BY <1>1, <2>4, <2>5, AssignStep
  <2>. QED  BY <2>1, <2>6
<1>6. RunsSoFar(after[N], N)
  BY <1>1, <1>5
<1>7. GoodRuns(ClosedRuns(after[N]))
  <2>. DEFINE acc == after[N]
  <2>. HIDE DEF acc, N
  <2>1. GoodRuns(acc.runs) /\ Len(acc.runs) \in Nat
    BY <1>6 DEF acc, RunsSoFar, GoodRuns
  <2>2. CASE acc.current = NoRun
    BY <2>1, <2>2 DEF ClosedRuns, acc
  <2>3. CASE acc.current # NoRun
    <3>1. acc.current \in 1..Len(acc.runs)
      BY <1>6, <2>1, <2>3 DEF acc, RunsSoFar, NoRun
    <3>2. ClosedRuns(acc) = [acc.runs EXCEPT ![acc.current].status = "interrupted"]
      BY <2>3 DEF ClosedRuns
    <3>3. GoodRuns([acc.runs EXCEPT ![acc.current].status = "interrupted"])
      BY <2>1, <3>1, StatusSet
    <3>4. GoodRuns(ClosedRuns(acc))
      BY <3>2, <3>3
    <3>. QED  BY <3>4 DEF acc
  <2>. QED  BY <2>2, <2>3
<1>. QED  BY <1>3, <1>7

-----------------------------------------------------------------------------
(***************************************************************************)
(* resume().                                                               *)
(***************************************************************************)
LEMMA GoodRunsAccepted ==
  ASSUME SerialInv, thread # NotMigrated, Numbered, NEW run, GoodRun(run)
  PROVE  RunAccepted(run, Messages)
<1>. DEFINE e == run.events
            N == Len(session)
            before(k) == {e[h] : h \in 1..(k - 1)} \cap Messages
            open(k) == {i \in before(k) : /\ session[i].kind = "call"
                                          /\ \A j \in before(k) :
                                               session[j].kind = "result" => session[j].call # i}
<1>1. /\ session \in Seq(LegacyRow) /\ N \in Nat /\ DOMAIN session = 1..N
      /\ \A i \in 1..N : session[i].seq = i /\ Follows(i)
  BY SessionRows DEF SerialInv, LegacyInv, RowsInTurn
<1>2. /\ e \in Seq(1..N) /\ Len(e) \in Nat /\ DOMAIN e = 1..Len(e) /\ e[1] \in 1..N
      /\ \A h \in 1..Len(e) : /\ e[h] \in 1..N /\ e[h] = e[1] + h - 1
                              /\ (h > 1 => session[e[h]].kind # "user")
  <2>1. /\ e \in Seq(DOMAIN session) /\ e # <<>>
        /\ \A h \in 1..Len(e) : e[h] = e[1] + h - 1 /\ (h > 1 => session[e[h]].kind # "user")
    BY DEF GoodRun
  <2>. HIDE DEF e
  <2>2. e \in Seq(1..N)
    BY <1>1, <2>1
  <2>3. Len(e) \in Nat /\ DOMAIN e = 1..Len(e) /\ \A h \in 1..Len(e) : e[h] \in 1..N
    BY <2>2
  <2>4. e[1] \in 1..N
    BY <2>1, <2>2
  <2>. QED  BY <2>1, <2>2, <2>3, <2>4
<1>3. \A i, j \in 1..N : i < j => thread.places[i] < thread.places[j]
  BY <1>1 DEF SerialInv, LegacyInv, MigratedOrderKept
<1>4. Messages = {i \in 1..N : session[i].kind # "event"}
  BY <1>1 DEF Messages
<1>. HIDE DEF e, N
<1>5. ASSUME NEW k \in 1..Len(e), e[k] \in Messages
      PROVE  /\ \A j \in before(k) : thread.places[j] < thread.places[e[k]]
             /\ IF session[e[k]].kind = "result" THEN session[e[k]].call \in open(k) ELSE open(k) = {}
  <2>. DEFINE i == e[k]
  <2>1. ASSUME NEW j \in before(k)
        PROVE  j \in 1..N /\ j < i /\ \E h \in 1..(k - 1) : j = e[h]
    <3>1. PICK h \in 1..(k - 1) : j = e[h]
      OBVIOUS
    <3>2. h \in 1..Len(e) /\ h < k
      BY <1>2
    <3>. QED  BY <1>2, <3>1, <3>2
  <2>2. \A h \in 1..(k - 1) : e[h] \in Messages => e[h] \in before(k)
    OBVIOUS
  <2>3. i \in 1..N /\ session[i].kind # "event" /\ i = e[1] + k - 1
    BY <1>2, <1>4, <1>5
  <2>4. \A j \in before(k) : thread.places[j] < thread.places[i]
    BY <1>3, <2>1, <2>3
  <2>. HIDE DEF before, i
  \* Each row of the run but the first follows the one before it in the run.
  <2>5. ASSUME NEW h \in 1..(k - 1)
        PROVE  /\ h + 1 \in 1..Len(e) /\ e[h + 1] = e[h] + 1
               /\ session[e[h + 1]].kind # "user" /\ Follows(e[h + 1])
    <3>1. h \in 1..Len(e) /\ h + 1 \in 1..Len(e) /\ h + 1 > 1
      BY <1>2
    <3>2. e[h + 1] \in 1..N /\ session[e[h + 1]].kind # "user"
      BY <1>2, <3>1
    <3>3. e[h] = e[1] + h - 1 /\ e[h + 1] = e[1] + (h + 1) - 1 /\ e[1] \in Nat
      <4>1. e[1] \in Nat
        BY <1>1, <1>2
      <4>. QED  BY <1>2, <3>1, <4>1
    <3>4. e[h + 1] = e[h] + 1
      BY <3>3
    <3>5. Follows(e[h + 1])
      BY <1>1, <3>2
    <3>. QED  BY <3>1, <3>2, <3>4, <3>5
  <2>6. CASE session[i].kind = "result"
    <3>1. k > 1
      <4>1. session[e[1]].kind = "user"
        BY DEF GoodRun, e
      <4>. QED  BY <1>2, <2>6, <4>1 DEF i
    <3>2. /\ session[i].call = i - 2 /\ session[i - 1].kind = "event" /\ i > 2
      BY <1>1, <2>3, <2>6 DEF Follows
    <3>3. e[k - 1] = i - 1 /\ k - 1 \in 1..(k - 1)
      <4>1. k - 1 \in 1..(k - 1) /\ k - 1 \in 1..Len(e) /\ k \in Nat /\ e[1] \in Nat
        BY <1>1, <1>2, <3>1
      <4>2. e[k - 1] = e[1] + (k - 1) - 1
        BY <1>2, <4>1
      <4>3. e[1] + (k - 1) - 1 = i - 1
        BY <2>3, <4>1
      <4>. QED  BY <4>1, <4>2, <4>3
    <3>4. k - 1 > 1
      <4>1. session[e[1]].kind = "user"
        BY DEF GoodRun, e
      <4>. QED  BY <1>2, <3>1, <3>2, <3>3, <4>1
    <3>5. k - 2 \in 1..(k - 1) /\ e[k - 2] = i - 2 /\ i - 2 \in 1..N
      <4>1. k - 2 \in 1..(k - 1) /\ k - 2 \in 1..Len(e) /\ k \in Nat /\ e[1] \in Nat
        BY <1>1, <1>2, <3>4
      <4>2. e[k - 2] = e[1] + (k - 2) - 1 /\ e[k - 2] \in 1..N
        BY <1>2, <4>1
      <4>. QED  BY SMTT(20), <2>3, <4>1, <4>2
    <3>6. session[i - 2].kind = "call"
      <4>1. Follows(i - 1) /\ (i - 1) - 1 = i - 2
        BY <1>1, <2>3, <3>2
      <4>. QED  BY <3>2, <4>1 DEF Follows
    <3>7. i - 2 \in before(k)
      BY <1>4, <2>2, <3>5, <3>6
    <3>8. ASSUME NEW j \in before(k), session[j].kind = "result" PROVE session[j].call # i - 2
      <4>1. j \in 1..N /\ j < i
        BY <2>1
      <4>2. session[j].call = j - 2
        BY <1>1, <3>8, <4>1 DEF Follows
      <4>. QED  BY <2>3, <4>1, <4>2
    <3>. QED  BY <2>4, <2>6, <3>2, <3>6, <3>7, <3>8 DEF i
  <2>7. CASE session[i].kind # "result"
    <3>1. ASSUME NEW j \in before(k), session[j].kind = "call"
          PROVE  \E r \in before(k) : session[r].kind = "result" /\ session[r].call = j
      <4>1. PICK h \in 1..(k - 1) : j = e[h]
        BY <2>1
      <4>2. j \in 1..N /\ k - 1 \in Nat /\ h + 1 <= k
        BY <2>1, <1>2
      <4>3. session[j + 1].kind = "event" /\ h + 1 # k
        <5>1. e[h + 1] = j + 1 /\ session[j + 1].kind # "user" /\ Follows(j + 1) /\ (j + 1) - 1 = j
          BY <2>5, <4>1, <4>2
        <5>2. session[j + 1].kind = "event"
          BY <3>1, <5>1 DEF Follows
        <5>. QED  BY <2>3, <5>1, <5>2 DEF i
      <4>4. h + 1 \in 1..(k - 1)
        BY <4>2, <4>3
      <4>5. e[h + 1] = j + 1
        BY <2>5, <4>1
      <4>6. session[j + 2].kind = "result" /\ session[j + 2].call = j /\ h + 2 # k /\ e[h + 2] = j + 2
        <5>1. e[h + 2] = j + 2 /\ session[j + 2].kind # "user" /\ Follows(j + 2) /\ (j + 2) - 1 = j + 1
          <6>1. (h + 1) + 1 = h + 2 /\ (j + 1) + 1 = j + 2 /\ (j + 2) - 1 = j + 1
            BY <4>2
          <6>2. /\ e[(h + 1) + 1] = e[h + 1] + 1
                /\ session[e[(h + 1) + 1]].kind # "user" /\ Follows(e[(h + 1) + 1])
            BY <2>5, <4>4
          <6>. QED  BY <4>5, <6>1, <6>2
        <5>2. session[j + 2].kind = "result" /\ session[j + 2].call = j
          BY <4>2, <4>3, <5>1 DEF Follows
        <5>. QED  BY <2>7, <5>1, <5>2 DEF i
      <4>7. h + 2 \in 1..(k - 1)
        BY <4>2, <4>4, <4>6
      <4>8. j + 2 \in Messages
        <5>1. e[h + 2] \in 1..N
          BY <1>2, <4>7
        <5>. QED  BY <1>4, <4>6, <5>1
      <4>9. j + 2 \in before(k)
        BY <2>2, <4>6, <4>7, <4>8
      <4>. QED  BY <4>6, <4>9
    <3>2. open(k) = {}
      BY <3>1
    <3>. QED  BY <2>4, <2>7, <3>2 DEF i
  <2>. QED  BY <2>6, <2>7
<1>6. DOMAIN e = 1..Len(e)
  BY <1>2
<1>. QED  BY <1>5, <1>6 DEF RunAccepted, e

-----------------------------------------------------------------------------
(***************************************************************************)
(* The invariant holds in every state.                                     *)
(***************************************************************************)
LEMMA SerialInvStep ==
  ASSUME SerialInv, [LegacyNext]_legacyVars
  PROVE  SerialInv'
<1>1. LegacyInv /\ LegacyInv'
  BY LegacyInvStep DEF SerialInv
<1>2. /\ session \in Seq(LegacyRow) /\ Len(session) \in Nat /\ DOMAIN session = 1..Len(session)
      /\ chats \in [Chats -> Chat]
  BY <1>1, SessionRows DEF LegacyInv
<1>3. ASSUME NEW p \in Chats, Load(p) PROVE SerialInv'
  <2>. DEFINE next == Max({0} \cup SequenceNos) + 1
  <2>1. /\ chats' = [chats EXCEPT ![p] = [step |-> "prompt", next |-> next, call |-> 0]]
        /\ UNCHANGED <<session, thread>> /\ thread = NotMigrated
    BY <1>3 DEF Load
  <2>2. next \in Nat /\ next > 0 /\ next - 1 \in {0} \cup SequenceNos
    BY <1>2, NextNumber
  <2>. HIDE DEF next
  <2>3. ASSUME NEW q \in Chats
        PROVE  chats'[q] = IF q = p THEN [step |-> "prompt", next |-> next, call |-> 0] ELSE chats[q]
    BY <1>2, <2>1
  <2>4. ChatsLoaded'
    BY <2>2, <2>3 DEF SerialInv, ChatsLoaded, Away
  <2>5. Numbered' => RowsInTurn'
    <3>. SUFFICES ASSUME Numbered' PROVE RowsInTurn'
      OBVIOUS
    <3>1. RowsInTurn
      BY <2>1 DEF SerialInv, Numbered
    <3>2. next <= Len(session) + 1
      <4>1. \A m \in SequenceNos : m \in 1..Len(session)
        BY <1>2, <3>1 DEF SequenceNos, RowsInTurn
      <4>. QED  BY <1>2, <2>2, <4>1
    <3>3. \A q \in Chats : /\ chats'[q].next <= Len(session) + 1
                           /\ chats'[q].next = Len(session) + 1 => InTurn(q)'
      <4>. SUFFICES ASSUME NEW q \in Chats
                    PROVE  /\ chats'[q].next <= Len(session) + 1
                           /\ chats'[q].next = Len(session) + 1 => InTurn(q)'
        OBVIOUS
      <4>1. CASE q = p
        BY <2>1, <2>3, <3>2, <4>1 DEF InTurn
      <4>2. CASE q # p
        BY <2>1, <2>3, <3>1, <4>2 DEF RowsInTurn, InTurn
      <4>. QED  BY <4>1, <4>2
    <3>4. \A i \in DOMAIN session : session'[i].seq = i /\ Follows(i)'
      BY <2>1, <3>1 DEF RowsInTurn, Follows
    <3>. QED  BY <2>1, <3>3, <3>4 DEF RowsInTurn
  <2>. QED  BY <1>1, <2>1, <2>4, <2>5 DEF SerialInv
<1>4. ASSUME NEW p \in Chats, Interrupt(p) PROVE SerialInv'
  <2>1. UNCHANGED <<session, thread>> /\ chats[p] # Away
    BY <1>4 DEF Interrupt
  <2>2. PICK c \in {Away, [chats[p] EXCEPT !.step = "prompt", !.call = 0]} : chats' = [chats EXCEPT ![p] = c]
    BY <1>4 DEF Interrupt
  <2>3. \A q \in Chats : chats'[q] = IF q = p THEN c ELSE chats[q]
    BY <1>2, <2>2
  <2>4. chats[p].next \in Nat /\ chats[p].next > 0
    BY <1>2, <2>1 DEF SerialInv, ChatsLoaded, Chat
  <2>5. c = Away \/ (c.step = "prompt" /\ c.next = chats[p].next)
    BY <1>2 DEF Chat
  <2>6. ChatsLoaded'
    BY <2>3, <2>4, <2>5 DEF SerialInv, ChatsLoaded
  <2>7. Numbered' => RowsInTurn'
    <3>. SUFFICES ASSUME Numbered' PROVE RowsInTurn'
      OBVIOUS
    <3>1. RowsInTurn
      BY <2>1 DEF SerialInv, Numbered
    <3>2. ASSUME NEW q \in Chats
          PROVE  /\ chats'[q].next <= Len(session) + 1
                 /\ chats'[q].next = Len(session) + 1 => InTurn(q)'
      <4>1. CASE q = p /\ c = Away
        BY <1>2, <2>3, <4>1 DEF Away
      <4>2. CASE q = p /\ c # Away
        BY <2>1, <2>3, <2>5, <3>1, <4>2 DEF RowsInTurn, InTurn
      <4>3. CASE q # p
        BY <2>1, <2>3, <3>1, <4>3 DEF RowsInTurn, InTurn
      <4>. QED  BY <4>1, <4>2, <4>3
    <3>3. \A i \in DOMAIN session : session'[i].seq = i /\ Follows(i)'
      BY <2>1, <3>1 DEF RowsInTurn, Follows
    <3>. QED  BY <2>1, <3>2, <3>3 DEF RowsInTurn
  <2>8. (thread # NotMigrated /\ Numbered => GoodRuns(thread.runs))'
    BY <2>1 DEF SerialInv, Numbered, GoodRuns, GoodRun, LegacyRun
  <2>. QED  BY <1>1, <2>6, <2>7, <2>8 DEF SerialInv
<1>5. ASSUME NEW p \in Chats, NEW kind \in Kinds, NEW call \in Nat,
             NEW step \in {"prompt", "model", "tool", "result"}, Store(p, kind, call, step),
             chats[p].step # "away", Numbered' => RowsInTurn'
      PROVE  SerialInv'
  <2>1. thread' = NotMigrated
    BY <1>5 DEF Store
  <2>2. chats' = [chats EXCEPT ![p] = [step |-> step, next |-> chats[p].next + 1, call |-> call]]
    BY <1>5 DEF Store
  <2>3. chats[p].next \in Nat
    BY <1>2 DEF Chat
  <2>4. ChatsLoaded'
    <3>. SUFFICES ASSUME NEW q \in Chats
                  PROVE  chats'[q] = Away \/ (chats'[q].step # "away" /\ chats'[q].next > 0)
      BY DEF ChatsLoaded
    <3>1. CASE q = p
      BY <1>2, <1>5, <2>2, <2>3, <3>1
    <3>2. CASE q # p
      BY <1>2, <2>2, <3>2 DEF SerialInv, ChatsLoaded
    <3>. QED  BY <3>1, <3>2
  <2>. QED  BY <1>1, <1>5, <2>1, <2>4 DEF SerialInv
<1>6. ASSUME NEW p \in Chats, RecordPrompt(p) PROVE SerialInv'
  <2>1. chats[p].step # "away" /\ Store(p, "user", 0, "model")
    BY <1>6 DEF RecordPrompt
  <2>2. Numbered' => RowsInTurn'
    BY <2>1, StoreInTurn DEF Kinds
  <2>. QED  BY <1>5, <2>1, <2>2 DEF Kinds
<1>7. ASSUME NEW p \in Chats, RecordAnswer(p) PROVE SerialInv'
  <2>1. chats[p].step = "model" /\ Store(p, "answer", 0, "prompt")
    BY <1>7 DEF RecordAnswer
  <2>2. InTurn(p) => Len(session) > 0 /\ session[Len(session)].kind \in {"user", "result"}
    BY <2>1 DEF InTurn
  <2>3. Numbered' => RowsInTurn'
    BY <2>1, <2>2, StoreInTurn DEF Kinds
  <2>. QED  BY <1>5, <2>1, <2>3 DEF Kinds
<1>8. ASSUME NEW p \in Chats, RecordCall(p) PROVE SerialInv'
  <2>1. chats[p].step = "model" /\ Store(p, "call", Len(session) + 1, "tool") /\ Len(session) + 1 \in Nat
    BY <1>2, <1>8 DEF RecordCall
  <2>2. InTurn(p) => Len(session) > 0 /\ session[Len(session)].kind \in {"user", "result"}
    BY <2>1 DEF InTurn
  <2>3. Numbered' => RowsInTurn'
    BY <2>1, <2>2, StoreInTurn DEF Kinds
  <2>. QED  BY <1>5, <2>1, <2>3 DEF Kinds
<1>9. ASSUME NEW p \in Chats, RecordEvent(p) PROVE SerialInv'
  <2>1. chats[p].step = "tool" /\ Store(p, "event", chats[p].call, "result") /\ chats[p].call \in Nat
    BY <1>2, <1>9 DEF RecordEvent, Chat
  <2>2. InTurn(p) => Len(session) > 0 /\ session[Len(session)].kind = "call" /\ chats[p].call = Len(session)
    BY <2>1 DEF InTurn
  <2>3. Numbered' => RowsInTurn'
    BY <2>1, <2>2, StoreInTurn DEF Kinds
  <2>. QED  BY <1>5, <2>1, <2>3 DEF Kinds
<1>10. ASSUME NEW p \in Chats, RecordResult(p) PROVE SerialInv'
  <2>1. chats[p].step = "result" /\ Store(p, "result", chats[p].call, "model") /\ chats[p].call \in Nat
    BY <1>2, <1>10 DEF RecordResult, Chat
  <2>2. InTurn(p) => /\ Len(session) > 1 /\ session[Len(session)].kind = "event"
                     /\ chats[p].call = Len(session) - 1
    BY <2>1 DEF InTurn
  <2>3. Numbered' => RowsInTurn'
    BY <2>1, <2>2, StoreInTurn DEF Kinds
  <2>. QED  BY <1>5, <2>1, <2>3 DEF Kinds
<1>11. CASE Migrate
  <2>1. PICK reversed : thread'.runs = InferredRuns(reversed)
    BY <1>11 DEF Migrate
  <2>2. session' = session /\ chats' = [p \in Chats |-> Away]
    BY <1>11 DEF Migrate
  <2>3. ChatsLoaded'
    BY <2>2 DEF ChatsLoaded
  <2>4. Numbered' => RowsInTurn /\ GoodRuns(InferredRuns(reversed))
    <3>1. Numbered' => RowsInTurn
      BY <2>2 DEF SerialInv, Numbered
    <3>2. RowsInTurn => GoodRuns(InferredRuns(reversed))
      BY <1>2, InferredAreGood DEF RowsInTurn
    <3>. QED  BY <3>1, <3>2
  <2>5. Numbered' => RowsInTurn'
    <3>1. \A q \in Chats : chats'[q].next = 0
      BY <2>2 DEF Away
    <3>2. RowsInTurn => \A i \in DOMAIN session : session'[i].seq = i /\ Follows(i)'
      BY <2>2 DEF RowsInTurn, Follows
    <3>. QED  BY <1>2, <2>2, <2>4, <3>1, <3>2 DEF RowsInTurn
  <2>6. Numbered' => GoodRuns(thread.runs)'
    <3>1. thread.runs' = InferredRuns(reversed)
      BY <2>1
    <3>2. GoodRuns(thread.runs)' <=> GoodRuns(InferredRuns(reversed))
      BY <2>2, <3>1 DEF GoodRuns, GoodRun, LegacyRun
    <3>. QED  BY <2>4, <3>2
  <2>. QED  BY <1>1, <2>3, <2>5, <2>6 DEF SerialInv
<1>12. CASE UNCHANGED legacyVars
  BY <1>1, <1>12 DEF legacyVars, SerialInv, Numbered, RowsInTurn, Follows, InTurn, ChatsLoaded,
     GoodRuns, GoodRun, LegacyRun
<1>. QED  BY <1>3, <1>4, <1>6, <1>7, <1>8, <1>9, <1>10, <1>11, <1>12 DEF LegacyNext

\* The messages of a migrated session in which no two rows have the same number pass the
\* checks of resume(), for any chats that were interrupted, overtaken and loaded again.
THEOREM NumberedAreReadable == LegacySpec => []NumberedMessagesReadable
<1>1. LegacyInit => SerialInv
  BY DEF LegacyInit, SerialInv, LegacyInv, ChatsLoaded, MigratedOrderKept, Chat, Away,
         Numbered, RowsInTurn, InTurn
<1>2. SerialInv => NumberedMessagesReadable
  <2>. SUFFICES ASSUME SerialInv, thread # NotMigrated, Numbered
                PROVE  ResumeAccepts(Messages)
    BY DEF NumberedMessagesReadable, Numbered
  <2>1. session \in Seq(LegacyRow) /\ DOMAIN session = 1..Len(session) /\ Len(session) \in Nat
    BY SessionRows DEF SerialInv, LegacyInv
  <2>2. \A i, j \in DOMAIN session : i # j => thread.places[i] # thread.places[j]
    <3>. SUFFICES ASSUME NEW i \in DOMAIN session, NEW j \in DOMAIN session, i # j
                  PROVE  thread.places[i] # thread.places[j]
      OBVIOUS
    <3>1. session[i].seq = i /\ session[j].seq = j /\ i \in Nat /\ j \in Nat
      BY <2>1 DEF SerialInv, RowsInTurn
    <3>2. thread.places[i] \in Nat /\ thread.places[j] \in Nat
      BY DEF SerialInv, LegacyInv
    <3>3. thread.places[i] < thread.places[j] \/ thread.places[j] < thread.places[i]
      BY <3>1 DEF SerialInv, LegacyInv, MigratedOrderKept
    <3>. QED  BY <3>2, <3>3
  <2>3. GoodRuns(thread.runs)
    BY DEF SerialInv
  <2>4. \A k \in DOMAIN thread.runs : GoodRun(thread.runs[k])
    BY <2>3 DEF GoodRuns
  <2>5. \A k \in DOMAIN thread.runs : RunAccepted(thread.runs[k], Messages)
    BY <2>4, GoodRunsAccepted
  <2>6. Messages \subseteq DOMAIN session /\ \A i \in Messages : session[i].kind # "event"
    BY DEF Messages
  <2>. QED  BY <2>2, <2>5, <2>6 DEF ResumeAccepts
<1>. QED  BY <1>1, <1>2, SerialInvStep, PTL DEF LegacySpec

=============================================================================
