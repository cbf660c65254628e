-------------------------- MODULE MCSchemaMigration --------------------------
(***************************************************************************)
(* SchemaMigration with history: late, the memories whose vector or status *)
(* was written after they were revoked, blind, those whose row a process   *)
(* without the index purged, and dropped, those whose vector a rebuild     *)
(* emptied out and nobody has put back.  The transcripts that the          *)
(* migration reads beside the memories (LegacyTranscript), and the salt    *)
(* and key files of the workspace (WorkspaceKeys), are behaviours of their *)
(* own: they share nothing with the rows that this model could tell.       *)
(***************************************************************************)
EXTENDS SchemaMigration, LegacyTranscript, WorkspaceKeys, TLC

VARIABLES late, blind, dropped, active

history == <<late, blind, dropped>>

Written == {id \in Memories :
              \E p \in Procs : /\ calls[p].step \in {"put", "mark", "mark_failed"}
                               /\ calls'[p] # calls[p] /\ Target(p) = id}

\* The memories a process without the index purges in this step.
PurgedBlindly == {id \in Memories :
                    \E p \in Procs : /\ Purge(p) /\ ~calls[p].chroma /\ Target(p) = id
                                     /\ rows'[id] # rows[id]}

RecordHistory ==
  /\ late' = late \cup {id \in Written : rows[id].state # "live"}
  /\ blind' = blind \cup PurgedBlindly
  /\ dropped' = IF \E p \in Procs : At(p, "open") /\ calls'[p].step = "list" THEN Memories
                ELSE dropped \ (vectors' \ vectors)

\* Every v1 process beside every migrator, with the history: what the proofs are about.
RecordedSpec ==
  Init /\ late = {} /\ blind = {} /\ dropped = {} /\ [][Next /\ RecordHistory]_<<vars, history>>

\* A behaviour is of two v1 processes, of one of them and one or two migrators, of chats or
\* of processes that start.
MCInit ==
  /\ Init
  /\ LegacyInit
  /\ KeysInit
  /\ late = {} /\ blind = {} /\ dropped = {}
  /\ active \in {Procs, Chats, Starters} \cup {{p} \cup Migrators : p \in Procs}
                \cup {{p, m} : p \in Procs, m \in Migrators}

Moves(actor) ==
  \/ actor \in Procs /\ V1Call(actor)
  \/ actor \in Migrators /\ (MigratorStep(actor) \/ Stop(actor))

\* What keeps the instances small: one migrator meets the row that describes a session and
\* a process without the index, two migrators the other rows and a process with the index.
Suits(n) ==
  /\ \A id \in Memories : Stored(id)' =>
       rows'[id].scope # (IF n = 1 THEN "session" ELSE "session_meta")
  /\ n > 1 => \A p \in Procs : calls'[p] = Closed \/ calls'[p].chroma

MemoryNext ==
  /\ \E actor \in active : Moves(actor)
  /\ Suits(Cardinality(active \cap Migrators))
  /\ RecordHistory

MCNext ==
  /\ UNCHANGED active
  /\ \/ MemoryNext /\ UNCHANGED <<legacyVars, keyVars>>
     \/ active = Chats /\ LegacyNext /\ UNCHANGED <<vars, history, keyVars>>
     \/ active = Starters /\ KeysNext /\ UNCHANGED <<vars, history, legacyVars>>

MCSpec == MCInit /\ [][MCNext]_<<vars, legacyVars, keyVars, history, active>>

Symmetry == Permutations(Procs) \cup Permutations(Memories) \cup Permutations(Migrators)
              \cup Permutations(Chats)

\* A vector in the index belongs to a memory that can be recalled, or to one the next
\* retry_pending_deletions will find, unless it was written after the deletion or the
\* row was purged by a process without the index (forget and retry_pending_deletions
\* then purge it with no call of the index, and report it deleted).
ForgottenVectorsAreFound ==
  \A id \in vectors \ (late \cup blind) :
    rows[id].state = "live" \/ (rows[id].state = "deleted" /\ rows[id].index = "pending_delete")

\* A row of the workspace that says indexed has a vector, unless a rebuild emptied the
\* collection since: the status is what tells a user that a search can find the memory.
IndexedMemoriesHaveVectors ==
  \A id \in Memories \ (late \cup dropped) :
    rows[id].state = "live" /\ rows[id].index = "indexed" => id \in vectors

=============================================================================
