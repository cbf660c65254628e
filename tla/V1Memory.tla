------------------------------ MODULE V1Memory ------------------------------
(***************************************************************************)
(* The v1 memory service: LocalMemoryService over SQLiteMemoryStore and a  *)
(* Chroma index.  A store call is one transaction, an index call is none,  *)
(* and nothing is held between two of them: every action is one store or   *)
(* index call of a process that has the service open.                      *)
(*                                                                         *)
(* A process opens the service on schema 1 only, but it may still have it  *)
(* open when a migration (SchemaMigration) has switched the table: its SQL *)
(* then runs on the table of schema 2.                                     *)
(*                                                                         *)
(* Chroma is optional: a process that cannot import it, or that asks for   *)
(* none as a chat does, has no index, while another process of the same    *)
(* workspace may have one.                                                 *)
(***************************************************************************)
EXTENDS Integers, Sequences, FiniteSets, SequencesExt

CONSTANTS
  Procs,      \* processes that use the v1 service
  Memories    \* ids remember may draw

VARIABLES
  version,    \* PRAGMA user_version
  rows,       \* the table memories
  vectors,    \* the ids in the Chroma collection
  calls       \* process -> what it is doing

v1vars == <<version, rows, vectors, calls>>

Unused == [state |-> "unused"]   \* an id not drawn yet
Purged == [state |-> "purged"]   \* a row that was deleted from the table

\* A session's rows are its messages and tool results, "session", and the row that
\* describes it, "session_meta"; "thread" is of schema 2 only.
SessionScopes == {"session", "session_meta"}
Scopes == {"workspace", "thread"} \cup SessionScopes
IndexStatuses == {"not_indexed", "pending_index", "indexed", "index_failed", "pending_delete"}
Row == [state : {"live", "deleted"}, scope : Scopes, index : IndexStatuses]

Closed == [op |-> "none", step |-> "closed", todo |-> <<>>, chroma |-> FALSE]
Opened(chroma) == [op |-> "none", step |-> "open", todo |-> <<>>, chroma |-> chroma]

Stored(id) == rows[id].state \in {"live", "deleted"}

\* A row the queries of v1 find: not deleted, of the workspace or of the session.
Visible(id) == rows[id].state = "live" /\ rows[id].scope # "thread"

At(p, step) == calls[p].step = step
Target(p) == Head(calls[p].todo)

Continue(p, op, step, todo) ==
  calls' = [calls EXCEPT ![p] = [op |-> op, step |-> step, todo |-> todo, chroma |-> @.chroma]]
Goto(p, step) == calls' = [calls EXCEPT ![p].step = step]
Return(p) == Continue(p, "none", "open", <<>>)

\* The next memory of a loop, which begins with step.
NextItem(p, step) ==
  IF Len(calls[p].todo) > 1 THEN Continue(p, calls[p].op, step, Tail(calls[p].todo)) ELSE Return(p)

V1Init ==
  /\ version = 1
  /\ rows = [id \in Memories |-> Unused]
  /\ vectors = {}
  /\ calls = [p \in Procs |-> Closed]

-----------------------------------------------------------------------------
\* With the index or, where Chroma is missing or not asked for, without.
Open(p) ==
  /\ At(p, "closed")
  /\ version = 1
  /\ \E chroma \in BOOLEAN : calls' = [calls EXCEPT ![p] = Opened(chroma)]
  /\ UNCHANGED <<version, rows, vectors>>

\* The process ends, also in the middle of a call.
Close(p) ==
  /\ ~At(p, "closed")
  /\ calls' = [calls EXCEPT ![p] = Closed]
  /\ UNCHANGED <<version, rows, vectors>>

ToIndex(p, scope) == scope = "workspace" /\ calls[p].chroma

\* remember inserts the row first; on schema 2 the statement fails.
Remember(p) ==
  /\ At(p, "open")
  /\ version = 1
  /\ \E scope \in Scopes \ {"thread"}, id \in Memories :
       /\ rows[id] = Unused
       /\ rows' = [rows EXCEPT ![id] =
                     [state |-> "live", scope |-> scope,
                      index |-> IF ToIndex(p, scope) THEN "pending_index" ELSE "not_indexed"]]
       /\ IF ToIndex(p, scope) THEN Continue(p, "remember", "put", <<id>>) ELSE Return(p)
  /\ UNCHANGED <<version, vectors>>

PutVector(p) ==
  /\ At(p, "put")
  /\ vectors' = vectors \cup {Target(p)}
  /\ Goto(p, "mark")
  /\ UNCHANGED <<version, rows>>

\* remember catches the failure of the index, rebuild_index does not.
PutVectorFails(p) ==
  /\ At(p, "put")
  /\ IF calls[p].op = "remember" THEN Goto(p, "mark_failed") ELSE Return(p)
  /\ UNCHANGED <<version, rows, vectors>>

\* Mutant: a row whose vector was not written is marked indexed too.
StatusAlwaysIndexed(p) == "indexed"

StatusAfterPut(p) == IF At(p, "mark") THEN "indexed" ELSE "index_failed"

\* update_index_status finds the row by its id, deleted or not; where there is none
\* the call raises.
Mark(p) ==
  /\ calls[p].step \in {"mark", "mark_failed"}
  /\ rows' = IF Stored(Target(p))
             THEN [rows EXCEPT ![Target(p)].index = StatusAfterPut(p)] ELSE rows
  /\ IF Stored(Target(p)) THEN NextItem(p, "recall") ELSE Return(p)
  /\ UNCHANGED <<version, vectors>>

\* forget of one memory, or of all of a session or of the workspace.
Forget(p) ==
  /\ At(p, "open")
  /\ \E ids \in {{id} : id \in {i \in Memories : Stored(i)}}
                  \cup IF version = 1
                       THEN {{i \in Memories : Visible(i)},
                             {i \in Memories : Visible(i) /\ rows[i].scope \in SessionScopes}}
                       ELSE {} :
       ids # {} /\ Continue(p, "forget", "revoke", SetToSeq(ids))
  /\ UNCHANGED <<version, rows, vectors>>

\* Where the row goes next: without the index there is no vector to delete first.
Unindexing(p) == IF calls[p].chroma THEN "unindex" ELSE "purge"

\* mark_pending_delete.  On schema 2 the update is committed before the row it
\* returns fails to decode.
Revoke(p) ==
  /\ At(p, "revoke")
  /\ rows' = IF Visible(Target(p))
             THEN [rows EXCEPT ![Target(p)].state = "deleted", ![Target(p)].index = "pending_delete"]
             ELSE rows
  /\ IF Visible(Target(p)) /\ version = 1 THEN Goto(p, Unindexing(p)) ELSE Return(p)
  /\ UNCHANGED <<version, vectors>>

Unindex(p) ==
  /\ At(p, "unindex")
  /\ vectors' = vectors \ {Target(p)}
  /\ Goto(p, "purge")
  /\ UNCHANGED <<version, rows>>

LoopStep(p) == IF calls[p].op = "retry" THEN Unindexing(p) ELSE "revoke"

\* Mutant: the row is purged although its vector was not deleted.
AfterFailedUnindexPurge(p) == Goto(p, "purge")

\* The row waits for retry_pending_deletions.
AfterFailedUnindex(p) == NextItem(p, LoopStep(p))

UnindexFails(p) ==
  /\ At(p, "unindex")
  /\ AfterFailedUnindex(p)
  /\ UNCHANGED <<version, rows, vectors>>

\* purge_ciphertext raises when the row is gone: retry_pending_deletions goes on,
\* forget does not.
Purge(p) ==
  /\ At(p, "purge")
  /\ rows' = IF rows[Target(p)].state = "deleted" THEN [rows EXCEPT ![Target(p)] = Purged] ELSE rows
  /\ IF rows[Target(p)].state = "deleted" \/ calls[p].op = "retry"
     THEN NextItem(p, LoopStep(p)) ELSE Return(p)
  /\ UNCHANGED <<version, vectors>>

\* retry_pending_deletions finds the rows by their index status.
RetryPendingDeletions(p) ==
  /\ At(p, "open")
  /\ LET ids == {id \in Memories : Stored(id) /\ rows[id].index = "pending_delete"}
     IN ids # {} /\ Continue(p, "retry", Unindexing(p), SetToSeq(ids))
  /\ UNCHANGED <<version, rows, vectors>>

\* rebuild_index empties the collection and then lists the rows to put back; without
\* the index it does nothing.
ResetIndex(p) ==
  /\ At(p, "open") /\ calls[p].chroma
  /\ vectors' = {}
  /\ Continue(p, "rebuild", "list", <<>>)
  /\ UNCHANGED <<version, rows>>

ListLive(p) ==
  /\ At(p, "list")
  /\ LET ids == {id \in Memories : Visible(id) /\ rows[id].scope = "workspace"}
     IN IF version = 1 /\ ids # {} THEN Continue(p, "rebuild", "recall", SetToSeq(ids)) ELSE Return(p)
  /\ UNCHANGED <<version, rows, vectors>>

\* A row that was deleted since, or that is of schema 2, ends the rebuild.
RecallForIndex(p) ==
  /\ At(p, "recall")
  /\ IF version = 1 /\ Visible(Target(p)) THEN Goto(p, "put") ELSE Return(p)
  /\ UNCHANGED <<version, rows, vectors>>

V1Step(p) ==
  \/ Open(p) \/ Close(p)
  \/ Remember(p) \/ PutVector(p) \/ PutVectorFails(p) \/ Mark(p)
  \/ Forget(p) \/ Revoke(p) \/ Unindex(p) \/ UnindexFails(p) \/ Purge(p)
  \/ RetryPendingDeletions(p)
  \/ ResetIndex(p) \/ ListLive(p) \/ RecallForIndex(p)

V1Next == \E p \in Procs : V1Step(p)

-----------------------------------------------------------------------------
(***************************************************************************)
(* Properties.                                                             *)
(***************************************************************************)
\* What was revoked stays revoked: no retry, rebuild, late mark or migration brings
\* a forgotten memory back.
RevokedStaysRevoked ==
  [][\A id \in Memories :
       /\ rows[id].state = "deleted" => rows'[id].state \in {"deleted", "purged"}
       /\ rows[id] = Purged => rows'[id] = Purged]_v1vars

=============================================================================
