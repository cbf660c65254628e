--------------------------- MODULE SchemaMigration ---------------------------
(***************************************************************************)
(* The migration of the memory database from schema 1 to schema 2, while   *)
(* processes that use schema 1 go on writing (V1Memory).                   *)
(*                                                                         *)
(* migrate-schema creates shadow tables, copies the rows into them in one  *)
(* transaction that also records a digest of the rows in the journal,      *)
(* verifies the copy on a connection without a transaction, and renames    *)
(* the tables in one more transaction that compares the digest again.      *)
(* Between these steps the migrator may stop, and another may run.         *)
(***************************************************************************)
EXTENDS V1Memory

CONSTANT Migrators   \* processes that run migrate-schema

VARIABLES
  shadow,      \* the tables with the suffix _v2: how many there are, and memories_v2
  journal,     \* the digest in the entry "prepared" ({} before it), is "verified" there
  migrators,   \* migrator -> its next step
  backup,      \* memories_v1_backup
  unsealed     \* the rows of schema 2 whose MAC does not fit them

vars == <<version, rows, vectors, calls, shadow, journal, migrators, backup, unsealed>>

NoRows == [id \in {} |-> Unused]

StoredIds == {id \in Memories : Stored(id)}

\* source_snapshot, the digest of every column of every row of schema 1.
Snapshot == [id \in StoredIds |-> rows[id]]

\* Mutant: a deleted row is copied without its deleted_at.
MigratedLive(row) ==
  [row EXCEPT !.state = "live", !.scope = IF row.scope = "session" THEN "thread" ELSE row.scope]

\* A row of a session, but for the one that describes it, becomes one of the session's
\* main thread; deleted_at and index_status are copied.
Migrated(row) ==
  [row EXCEPT !.scope = IF row.scope = "session" THEN "thread" ELSE row.scope]

\* INSERT OR IGNORE into memories_v2.
CopiedRows ==
  [id \in DOMAIN shadow.rows \cup StoredIds |->
     IF id \in DOMAIN shadow.rows THEN shadow.rows[id] ELSE Migrated(rows[id])]

Init ==
  /\ V1Init
  /\ shadow = [tables |-> "none", rows |-> NoRows]
  /\ journal = [prepared |-> {}, verified |-> FALSE]
  /\ migrators = [m \in Migrators |-> "idle"]
  /\ backup = NoRows
  /\ unsealed = {}

MigratorAt(m, step) == migrators[m] = step
MigratorGoto(m, step) == migrators' = [migrators EXCEPT ![m] = step]

-----------------------------------------------------------------------------
\* A v1 process; what it changes in a row of schema 2 is not signed.
V1Call(p) ==
  /\ V1Step(p)
  /\ unsealed' = IF version = 2
                 THEN {id \in unsealed : Stored(id)'} \cup {id \in StoredIds : Stored(id)' /\ rows'[id] # rows[id]}
                 ELSE {}
  /\ UNCHANGED <<shadow, journal, migrators, backup>>

\* prepare_shadow, also as resume: schema 1 with at least one row.
Prepare(m) ==
  /\ MigratorAt(m, "idle")
  /\ version = 1
  /\ StoredIds # {}
  /\ MigratorGoto(m, "create")
  /\ UNCHANGED <<version, rows, vectors, calls, shadow, journal, backup, unsealed>>

\* create_v2_shadow runs a script outside of a transaction; a shadow that exists,
\* complete or not, is left as it is.
CreateShadow(m) ==
  /\ MigratorAt(m, "create")
  /\ IF version # 1 THEN MigratorGoto(m, "idle") /\ UNCHANGED shadow
     ELSE IF shadow.tables = "none"
     THEN MigratorGoto(m, "script") /\ shadow' = [shadow EXCEPT !.tables = "some"]
     ELSE MigratorGoto(m, "copy") /\ UNCHANGED shadow
  /\ UNCHANGED <<version, rows, vectors, calls, journal, backup, unsealed>>

FinishScript(m) ==
  /\ MigratorAt(m, "script")
  /\ shadow' = [shadow EXCEPT !.tables = "all"]
  /\ MigratorGoto(m, "copy")
  /\ UNCHANGED <<version, rows, vectors, calls, journal, backup, unsealed>>

SameSource == journal.prepared \subseteq {Snapshot}

\* The transaction of prepare_shadow.  A snapshot other than the prepared one raises
\* MIGRATION_SOURCE_CHANGED, this time and every later time.
Copy(m) ==
  /\ MigratorAt(m, "copy")
  /\ IF version = 1 /\ shadow.tables = "all" /\ SameSource
     THEN /\ shadow' = [shadow EXCEPT !.rows = CopiedRows]
          /\ journal' = [journal EXCEPT !.prepared = {Snapshot}]
          /\ MigratorGoto(m, "verify")
     ELSE MigratorGoto(m, "idle") /\ UNCHANGED <<shadow, journal>>
  /\ UNCHANGED <<version, rows, vectors, calls, backup, unsealed>>

\* verify_shadow compares the digest and the number of rows.
ShadowValid ==
  /\ version = 1
  /\ shadow.tables = "all"
  /\ journal.prepared = {Snapshot}
  /\ Cardinality(DOMAIN shadow.rows) = Cardinality(StoredIds)

VerifyShadow(m) ==
  /\ migrators[m] \in {"verify", "verify_again"}
  /\ MigratorGoto(m, IF ~ShadowValid THEN "idle"
                     ELSE IF MigratorAt(m, "verify") THEN "record" ELSE "switch")
  /\ UNCHANGED <<version, rows, vectors, calls, shadow, journal, backup, unsealed>>

\* The entry "verified", after which migrate-schema calls activate.
RecordVerified(m) ==
  /\ MigratorAt(m, "record")
  /\ IF version = 1
     THEN journal' = [journal EXCEPT !.verified = TRUE] /\ MigratorGoto(m, "verify_again")
     ELSE UNCHANGED journal /\ MigratorGoto(m, "idle")
  /\ UNCHANGED <<version, rows, vectors, calls, shadow, backup, unsealed>>

\* Mutant: the rows are not compared again under the lock.
UnchangedSincePreparedTrusted == version = 1

\* Where another migrator has switched, the rows of schema 2 have no such digest.
UnchangedSincePrepared == version = 1 /\ journal.prepared = {Snapshot}

\* The transaction of _activate.
Switch(m) ==
  /\ MigratorAt(m, "switch")
  /\ IF UnchangedSincePrepared
     THEN /\ version' = 2
          /\ backup' = Snapshot
          /\ rows' = [id \in Memories |-> IF id \in DOMAIN shadow.rows THEN shadow.rows[id]
                                          ELSE IF Stored(id) THEN Purged ELSE rows[id]]
          /\ shadow' = [tables |-> "none", rows |-> NoRows]
     ELSE UNCHANGED <<version, rows, shadow, backup>>
  /\ MigratorGoto(m, "idle")
  /\ UNCHANGED <<vectors, calls, journal, unsealed>>

\* A crash, a failpoint or a lock held by another process.
Stop(m) ==
  /\ ~MigratorAt(m, "idle")
  /\ MigratorGoto(m, "idle")
  /\ UNCHANGED <<version, rows, vectors, calls, shadow, journal, backup, unsealed>>

MigratorStep(m) ==
  \/ Prepare(m) \/ CreateShadow(m) \/ FinishScript(m) \/ Copy(m)
  \/ VerifyShadow(m) \/ RecordVerified(m) \/ Switch(m)

Next == \/ \E p \in Procs : V1Call(p)
        \/ \E m \in Migrators : MigratorStep(m) \/ Stop(m)

Spec == Init /\ [][Next]_vars

-----------------------------------------------------------------------------
(***************************************************************************)
(* Properties.                                                             *)
(***************************************************************************)
\* What tells whether a row of schema 2 is the row of schema 1.
SameRows(old, new) ==
  /\ DOMAIN old = DOMAIN new
  /\ \A id \in DOMAIN old : /\ new[id].state = old[id].state
                            /\ new[id].index = old[id].index
                            /\ new[id].scope = "workspace" <=> old[id].scope = "workspace"

\* The switch loses no row, brings back none and takes over every deletion, although
\* the shadow was filled in an earlier transaction and schema 1 was written since.
SwitchKeepsAuthority ==
  [][version # version' =>
       /\ SameRows(Snapshot, [id \in {i \in Memories : Stored(i)'} |-> rows'[id]])
       /\ backup' = Snapshot]_vars

=============================================================================
