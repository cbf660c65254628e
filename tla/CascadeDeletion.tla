--------------------------- MODULE CascadeDeletion ---------------------------
(***************************************************************************)
(* Deleting a run or a whole thread with everything derived from it, while *)
(* other processes go on using the thread: CascadeDeletionService over the *)
(* rows that the transcript, the notes, the rolling summary and the        *)
(* promotion to the workspace leave in the tables memories and             *)
(* memory_relations, and over the vector index beside them.                *)
(*                                                                         *)
(* One thread of one session.  A write of the services is one BEGIN        *)
(* IMMEDIATE transaction and one action here; an operation the code        *)
(* refuses changes nothing and is no step.  A deletion is several          *)
(* transactions of a process that can stop between any two of them:        *)
(*                                                                         *)
(*   preview -> execute: plan again, compare with the token, write the job *)
(*           -> apply: revoke rows, relations and root in one transaction  *)
(*           -> sync: delete every item from the index -> close the job    *)
(*                                                                         *)
(* The plan of execute and the transaction that writes the job are one     *)
(* step: no other operation reads or writes the job tables, so whatever    *)
(* happens between the two may as well happen after both.                  *)
(*                                                                         *)
(* The vector index is optional: a process that cannot load Chroma has     *)
(* none.  It promotes and copies notes unindexed, deletes nothing from the *)
(* index of the others and closes its jobs all the same.                   *)
(*                                                                         *)
(* A memory id is the position of its row.  Not modelled here: expiry,     *)
(* revisions, session scope, secret rows (never indexed), and the limits   *)
(* max_nodes and max_depth.                                                *)
(***************************************************************************)
EXTENDS Integers, Sequences, FiniteSets

CONSTANTS
  Runs,         \* run ids that may be begun in the thread
  Deleters,     \* processes that delete
  Indexers,     \* processes that promote and index notes
  MaxRows,      \* bound on the rows written by others than the deletion
  MaxJobs,      \* bound on the rows of table deletion_jobs
  MaxVersion    \* bound on the state_version a row reaches by being indexed again

ASSUME DeletionBounds == MaxRows \in Nat /\ MaxJobs \in Nat /\ MaxVersion \in Nat

ThreadRoot == "thread"
ASSUME RootAssumption == ThreadRoot \notin Runs

VARIABLES
  thread,       \* status of the thread
  runs,         \* run id -> status
  rows,         \* rows of table memories, in insertion order
  relations,    \* rows of table memory_relations with deleted_at NULL
  index,        \* memory ids in the vector collection
  proposals,    \* conflicts submitted whose relations are still to be written
  jobs,         \* rows of table deletion_jobs with their deletion_items
  deleter,      \* state of each deleting process
  indexer       \* state of each promoting process

records == <<thread, runs, rows, relations>>
vars == <<thread, runs, rows, relations, index, proposals, jobs, deleter, indexer>>

Ids == DOMAIN rows
JobIds == DOMAIN jobs
Roots == Runs \cup {ThreadRoot}
NoRun == "no_run"
NoCopy == 0

Kinds == {"message", "note", "summary", "promoted", "copy"}
NoteKinds == {"note", "promoted", "copy"}          \* note_kind IS NOT NULL
WorkspaceKinds == {"promoted", "copy"}             \* scope = 'workspace'
Statuses == {"candidate", "active", "superseded", "retracted", "deleted"}
Revoked == {"retracted", "deleted"}

Row == [kind : Kinds,
        run : Runs \cup {NoRun},
        refs : SUBSET (Nat \ {0}),
        status : Statuses,
        confirmed : BOOLEAN,
        index : {"not_indexed", "pending_index", "indexed", "index_failed", "pending_delete"},
        version : Nat \ {0}]

NewRow(kind, run, refs, status) ==
  [kind |-> kind, run |-> run, refs |-> refs, status |-> status, confirmed |-> FALSE,
   index |-> "not_indexed", version |-> 1]

RelationTypes == {"derived_from", "summarizes", "promoted_from", "conflicts_with"}

Relation(source, target, type) == [source |-> source, target |-> target, type |-> type]

\* deleted_at IS NULL: only the deletion of a direct row sets it.
Live(i) == rows[i].status # "deleted"

-----------------------------------------------------------------------------
(***************************************************************************)
(* Provenance.  The sources a note or summary names in its payload must be *)
(* exactly the targets of its live relations.                              *)
(***************************************************************************)
ProvenanceType(kind) ==
  CASE kind = "summary" -> "summarizes" [] kind = "promoted" -> "promoted_from"
    [] OTHER -> "derived_from"

Targets(i) ==
  {rel.target : rel \in {rel \in relations :
                           rel.source = i /\ rel.type = ProvenanceType(rows[i].kind)}}

SourcesOf(i, refs) == {Relation(i, s, ProvenanceType("note")) : s \in refs}

ProvenanceIntact(i) == Targets(i) = rows[i].refs /\ \A s \in Targets(i) : Live(s)

\* The plan checks the sources of a summary by id only.
PlanProvenance(i) ==
  /\ rows[i].kind \in NoteKinds => ProvenanceIntact(i)
  /\ rows[i].kind = "summary" => Targets(i) = rows[i].refs

(***************************************************************************)
(* The plan of a deletion: the rows of the root and, over relations of     *)
(* every type, the rows derived from them.                                 *)
(***************************************************************************)
Direct(root) ==
  IF root = ThreadRoot THEN {i \in Ids : Live(i) /\ rows[i].kind \notin WorkspaceKinds}
  ELSE {i \in Ids : Live(i) /\ rows[i].run = root}

Children(i) == {rel.source : rel \in {rel \in relations : rel.target = i}}

\* The least set that contains D and the children of its members.
Closure(D) ==
  {i \in Ids : \A C \in SUBSET Ids :
                 D \subseteq C /\ (\A j \in C : Children(j) \subseteq C) => i \in C}

Cyclic(C) == \E S \in SUBSET C : S # {} /\ \A i \in S : Children(i) \cap S # {}

AffectedRuns(root) == IF root = ThreadRoot THEN {r \in Runs : runs[r] \notin {"none", "deleted"}}
                      ELSE {root}

RootPresent(root) == IF root = ThreadRoot THEN thread # "deleted"
                     ELSE runs[root] \notin {"none", "deleted"}

Plannable(root) == LET C == Closure(Direct(root)) IN
  /\ thread = "active"
  /\ RootPresent(root)
  /\ \A i \in C : Live(i) /\ PlanProvenance(i)
  /\ ~Cyclic(C)

Snapshot(root) == LET C == Closure(Direct(root)) IN
  [root |-> root,
   memories |-> {<<i, rows[i].version>> : i \in C},
   relations |-> {rel \in relations : rel.target \in C},
   runs |-> AffectedRuns(root)]

NoToken == [root |-> "none", memories |-> {}, relations |-> {}, runs |-> {}]

Idle == [phase |-> "idle", token |-> NoToken, job |-> 0, todo |-> {}, failed |-> FALSE,
         chroma |-> FALSE]

-----------------------------------------------------------------------------
Init ==
  /\ thread = "active"
  /\ runs = [r \in Runs |-> "none"]
  /\ rows = <<>>
  /\ relations = {}
  /\ index = {}
  /\ proposals = {}
  /\ jobs = <<>>
  /\ deleter = [d \in Deleters |-> Idle]
  /\ indexer = [x \in Indexers |-> [phase |-> "idle", row |-> 0]]

(***************************************************************************)
(* The thread in use.                                                      *)
(***************************************************************************)
BeginRun(r) ==
  /\ thread = "active"
  /\ \A s \in Runs : runs[s] # "running"
  /\ runs[r] = "none"
  /\ runs' = [runs EXCEPT ![r] = "running"]
  /\ UNCHANGED <<thread, rows, relations, index, proposals, jobs, deleter, indexer>>

CompleteRun(r) ==
  /\ runs[r] = "running"
  /\ runs' = [runs EXCEPT ![r] = "completed"]
  /\ UNCHANGED <<thread, rows, relations, index, proposals, jobs, deleter, indexer>>

ArchiveThread ==
  /\ thread = "active"
  /\ \A r \in Runs : runs[r] # "running"
  /\ thread' = "archived"
  /\ UNCHANGED <<runs, rows, relations, index, proposals, jobs, deleter, indexer>>

CanAppend(r) == thread = "active" /\ runs[r] = "running"

AppendMessage(r) ==
  /\ Len(rows) < MaxRows
  /\ CanAppend(r)
  /\ rows' = Append(rows, NewRow("message", r, {}, "active"))
  /\ UNCHANGED <<thread, runs, relations, index, proposals, jobs, deleter, indexer>>

(***************************************************************************)
(* Notes.  A note of the user has no sources; a candidate proposed by the  *)
(* model cites messages of completed runs or confirmed notes.              *)
(***************************************************************************)
CanCite(s) ==
  /\ Live(s)
  /\ IF rows[s].kind = "message" THEN runs[rows[s].run] = "completed" ELSE rows[s].confirmed

AddCandidate(refs) ==
  /\ Len(rows) < MaxRows
  /\ thread = "active"
  /\ rows' = Append(rows, NewRow("note", NoRun, refs, "candidate"))
  /\ relations' = relations \cup SourcesOf(Len(rows) + 1, refs)

SubmitNote(refs) ==
  /\ \A s \in refs : CanCite(s)
  /\ AddCandidate(refs)
  /\ UNCHANGED <<thread, runs, index, proposals, jobs, deleter, indexer>>

\* A proposal that contradicts a note: the candidate is one transaction, the two
\* relations are a later one that checks nothing.
SubmitConflict(refs, related) ==
  /\ refs # {}
  /\ \A s \in refs : CanCite(s)
  /\ rows[related].kind \in NoteKinds /\ rows[related].status = "active"
  /\ AddCandidate(refs)
  /\ proposals' = proposals \cup {<<Len(rows) + 1, related>>}
  /\ UNCHANGED <<thread, runs, index, jobs, deleter, indexer>>

LinkConflict(proposal) ==
  /\ proposals' = proposals \ {proposal}
  /\ relations' = relations \cup {Relation(proposal[1], proposal[2], "conflicts_with"),
                                  Relation(proposal[2], proposal[1], "conflicts_with")}
  /\ UNCHANGED <<thread, runs, rows, index, jobs, deleter, indexer>>

LoseConflict(proposal) ==
  /\ proposals' = proposals \ {proposal}
  /\ UNCHANGED <<records, index, jobs, deleter, indexer>>

WithStatus(row, status, confirmed) ==
  [row EXCEPT !.status = status, !.confirmed = confirmed, !.version = @ + 1]

SetNoteStatus(i, status, confirmed) ==
  /\ rows' = [rows EXCEPT ![i] = WithStatus(@, status, confirmed)]
  /\ UNCHANGED <<thread, runs, relations, index, proposals, jobs, deleter, indexer>>

\* Mutant: whatever is not yet active may be confirmed.
CanConfirmInactive(i) == rows[i].kind \in NoteKinds /\ Live(i) /\ rows[i].status # "active"

CanConfirm(i) == rows[i].kind \in NoteKinds /\ rows[i].status = "candidate"

ConfirmNote(i) == CanConfirm(i) /\ SetNoteStatus(i, "active", TRUE)

RetractNote(i) ==
  /\ rows[i].kind \in NoteKinds /\ rows[i].status \in {"candidate", "active"}
  /\ SetNoteStatus(i, "retracted", rows[i].confirmed)

(***************************************************************************)
(* The rolling summary, which covers every message since the last one.     *)
(* build() reads without a lock and _activate compares what it read before *)
(* it writes, so a build that succeeds is one step.                        *)
(***************************************************************************)
LiveMessages == {i \in Ids : rows[i].kind = "message" /\ Live(i)}
ActiveSummaries == {i \in Ids : rows[i].kind = "summary" /\ rows[i].status = "active"}

\* resume() verifies the run of every message it returns.
Loadable == \A i \in LiveMessages : runs[rows[i].run] # "deleted"

Covered == UNION {rows[i].refs : i \in ActiveSummaries}
Uncovered == {i \in LiveMessages : \A s \in Covered : i > s}

Superseded(row) == [row EXCEPT !.status = "superseded", !.version = @ + 1]

BuildSummary ==
  /\ Len(rows) < MaxRows
  /\ thread = "active"
  /\ \A i \in ActiveSummaries : ProvenanceIntact(i)
  /\ Loadable
  /\ Uncovered # {}
  /\ LET new == Len(rows) + 1
         sources == Covered \cup Uncovered
     IN /\ rows' = Append([i \in Ids |-> IF i \in ActiveSummaries THEN Superseded(rows[i])
                                         ELSE rows[i]],
                          NewRow("summary", NoRun, sources, "active"))
        /\ relations' = relations \cup {Relation(new, s, "summarizes") : s \in sources}
  /\ UNCHANGED <<thread, runs, index, proposals, jobs, deleter, indexer>>

(***************************************************************************)
(* Promotion of a confirmed note to the workspace.  The row is written     *)
(* first, then the index, then the outcome is marked on the row, whatever  *)
(* has become of it.  Without the index the row is all there is.           *)
(***************************************************************************)
Promoted(i) == {rel \in relations : rel.target = i /\ rel.type = "promoted_from"}

\* The index status of a new row of the workspace, with the index and without.
NewIndexStatus(chroma) == IF chroma THEN "pending_index" ELSE "not_indexed"

PromoteNote(x, i) ==
  /\ Len(rows) < MaxRows
  /\ indexer[x].phase = "idle"
  /\ rows[i].kind = "note" /\ rows[i].status = "active"
  /\ ProvenanceIntact(i)
  /\ Promoted(i) = {}
  /\ \E chroma \in BOOLEAN :
       /\ rows' = Append(rows, [NewRow("promoted", NoRun, {i}, "active")
                                  EXCEPT !.confirmed = TRUE, !.index = NewIndexStatus(chroma)])
       /\ indexer' = IF chroma
                     THEN [indexer EXCEPT ![x] = [phase |-> "put", row |-> Len(rows) + 1]]
                     ELSE indexer
  /\ relations' = relations \cup {Relation(Len(rows) + 1, i, "promoted_from")}
  /\ UNCHANGED <<thread, runs, index, proposals, jobs, deleter>>

\* retry_index, which needs the index.
RetryIndex(x, i) ==
  /\ indexer[x].phase = "idle"
  /\ rows[i].kind \in WorkspaceKinds /\ rows[i].status = "active"
  /\ rows[i].index \in {"pending_index", "index_failed"}
  /\ rows[i].version < MaxVersion
  /\ indexer' = [indexer EXCEPT ![x] = [phase |-> "put", row |-> i]]
  /\ UNCHANGED <<records, index, proposals, jobs, deleter>>

PutIndex(x) ==
  /\ indexer[x].phase = "put"
  /\ \/ /\ index' = index \cup {indexer[x].row}
        /\ indexer' = [indexer EXCEPT ![x].phase = "indexed"]
     \/ /\ indexer' = [indexer EXCEPT ![x].phase = "index_failed"]
        /\ UNCHANGED index
  /\ UNCHANGED <<records, proposals, jobs, deleter>>

WithIndex(row, outcome) == [row EXCEPT !.index = outcome, !.version = @ + 1]

MarkIndex(x) ==
  /\ indexer[x].phase \in {"indexed", "index_failed"}
  /\ rows' = [rows EXCEPT ![indexer[x].row] = WithIndex(@, indexer[x].phase)]
  /\ indexer' = [indexer EXCEPT ![x] = [phase |-> "idle", row |-> 0]]
  /\ UNCHANGED <<thread, runs, relations, index, proposals, jobs, deleter>>

StopIndexer(x) ==
  /\ indexer[x].phase # "idle"
  /\ indexer' = [indexer EXCEPT ![x] = [phase |-> "idle", row |-> 0]]
  /\ UNCHANGED <<records, index, proposals, jobs, deleter>>

-----------------------------------------------------------------------------
(***************************************************************************)
(* Deletion.                                                               *)
(***************************************************************************)
Preview(d, root) ==
  /\ deleter[d].phase = "idle"
  /\ Plannable(root)
  /\ deleter' = [deleter EXCEPT ![d] = [Idle EXCEPT !.phase = "previewed",
                                                    !.token = Snapshot(root)]]
  /\ UNCHANGED <<records, index, proposals, jobs, indexer>>

\* Mutant: the token is bound to the root, not to the snapshot.
ConfirmedByRoot(token) == token.root \in Roots

Confirmed(token) == token = Snapshot(token.root)

\* Promoted rows are the ones the user may choose to keep a copy of.
Retainable(root) ==
  {i \in Closure(Direct(root)) \ Direct(root) : rows[i].kind = "promoted"}

NewJob(token, retained) ==
  [root |-> token.root,
   status |-> "authorized",
   confirmed |-> {memory[1] : memory \in token.memories},
   action |-> [i \in Closure(Direct(token.root)) |->
                 IF i \in Direct(token.root) THEN "delete"
                 ELSE IF i \in retained THEN "retain_independent" ELSE "retract"],
   copy |-> [i \in Closure(Direct(token.root)) |-> NoCopy]]

\* The job id is a hash of the token: a token that already has a job resumes it.
Execute(d, retained) ==
  /\ Len(jobs) < MaxJobs
  /\ deleter[d].phase = "previewed"
  /\ Plannable(deleter[d].token.root)
  /\ Confirmed(deleter[d].token)
  /\ retained \subseteq Retainable(deleter[d].token.root)
  /\ jobs' = Append(jobs, NewJob(deleter[d].token, retained))
  /\ deleter' = [deleter EXCEPT ![d] = [Idle EXCEPT !.phase = "applying",
                                                    !.job = Len(jobs) + 1]]
  /\ UNCHANGED <<records, index, proposals, indexer>>

Items(j) == DOMAIN jobs[j].action

\* Without the index no item is visited.
Syncing(j, chroma) ==
  [phase |-> "syncing", token |-> NoToken, job |-> j,
   todo |-> IF chroma THEN Items(j) ELSE {}, failed |-> FALSE, chroma |-> chroma]

\* Mutants: an item that is already retracted or deleted is not skipped; only
\* the direct rows are revoked.
RevocableTwice(j) == Items(j)
RevocableDirect(j) == {i \in Items(j) : jobs[j].action[i] = "delete"}

Revocable(j) == {i \in Items(j) : rows[i].status \notin Revoked}

Retained(j) == {i \in Revocable(j) : jobs[j].action[i] = "retain_independent"}

\* Mutant: the item records an id that no row has.
CopyOfMissing(j, i) == IF i \in Retained(j) THEN Len(rows) + Cardinality(Retained(j)) + 1 ELSE NoCopy

\* The copies are appended in the order of the items.
CopyOf(j, i) == IF i \in Retained(j) THEN Len(rows) + Cardinality({k \in Retained(j) : k <= i})
                ELSE NoCopy

RevokedRow(row, action) ==
  [row EXCEPT !.status = IF action = "delete" THEN "deleted" ELSE "retracted",
              !.index = IF row.kind \in WorkspaceKinds THEN "pending_delete" ELSE @,
              !.version = @ + 1]

IndependentCopy(chroma) == [NewRow("copy", NoRun, {}, "active")
                              EXCEPT !.confirmed = TRUE, !.index = NewIndexStatus(chroma)]

RevokeItems(j, chroma) ==
  rows' = [i \in 1..(Len(rows) + Cardinality(Retained(j))) |->
             IF i \notin Ids THEN IndependentCopy(chroma)
             ELSE IF i \in Revocable(j) THEN RevokedRow(rows[i], jobs[j].action[i])
             ELSE rows[i]]

\* Every run the thread has by now is deleted with it.
DeleteRoot(root) ==
  IF root = ThreadRoot
  THEN /\ thread' = "deleted"
       /\ runs' = [r \in Runs |-> IF runs[r] = "none" THEN "none" ELSE "deleted"]
  ELSE /\ runs' = [runs EXCEPT ![root] = "deleted"]
       /\ UNCHANGED thread

\* The process has the index or not: from here on it matters.
ApplySqlite(d) == LET j == deleter[d].job IN
  /\ deleter[d].phase = "applying"
  /\ jobs[j].status = "authorized"
  /\ RootPresent(jobs[j].root)
  /\ \E chroma \in BOOLEAN :
       /\ RevokeItems(j, chroma)
       /\ deleter' = [deleter EXCEPT ![d] = Syncing(j, chroma)]
  /\ relations' = {rel \in relations : {rel.source, rel.target} \cap Items(j) = {}}
  /\ DeleteRoot(jobs[j].root)
  /\ jobs' = [jobs EXCEPT ![j] = [@ EXCEPT !.status = "index_pending",
                                           !.copy = [i \in Items(j) |-> CopyOf(j, i)]]]
  /\ UNCHANGED <<index, proposals, indexer>>

\* Another process has applied the job in the meantime.
ApplyDone(d) ==
  /\ deleter[d].phase = "applying"
  /\ jobs[deleter[d].job].status = "index_pending"
  /\ \E chroma \in BOOLEAN : deleter' = [deleter EXCEPT ![d] = Syncing(deleter[d].job, chroma)]
  /\ UNCHANGED <<records, index, proposals, jobs, indexer>>

\* The index may refuse a delete or a put; the process counts and goes on.
SyncItem(d, i) == LET copy == jobs[deleter[d].job].copy[i] IN
  /\ deleter[d].phase = "syncing"
  /\ i \in deleter[d].todo
  /\ \E ok, copied \in BOOLEAN :
       LET toIndex == {c \in {copy} \ {NoCopy} : rows[c].index \in {"pending_index", "index_failed"}}
       IN /\ toIndex = {} => copied
          /\ ~copied => rows[copy].version < MaxVersion
          /\ index' = (IF ok THEN index \ {i} ELSE index) \cup (IF copied THEN toIndex ELSE {})
          /\ rows' = [c \in Ids |-> IF c \in toIndex
                                    THEN WithIndex(rows[c], IF copied THEN "indexed"
                                                            ELSE "index_failed")
                                    ELSE rows[c]]
          /\ deleter' = [deleter EXCEPT ![d].todo = @ \ {i},
                                        ![d].failed = @ \/ ~ok \/ ~copied]
  /\ UNCHANGED <<thread, runs, relations, proposals, jobs, indexer>>

\* Mutant: the job is closed whatever the index answered.
OutcomeAlways(failed) == "complete"

Outcome(failed) == IF failed THEN "index_pending" ELSE "complete"

FinishSync(d) ==
  /\ deleter[d].phase = "syncing"
  /\ deleter[d].todo = {}
  /\ jobs' = [jobs EXCEPT ![deleter[d].job].status = Outcome(deleter[d].failed)]
  /\ deleter' = [deleter EXCEPT ![d] = Idle]
  /\ UNCHANGED <<records, index, proposals, indexer>>

\* Resuming plans again, to no other end than to raise if it cannot.
Resume(d, j) ==
  /\ deleter[d].phase = "idle"
  /\ \/ /\ jobs[j].status = "authorized"
        /\ Plannable(jobs[j].root)
        /\ deleter' = [deleter EXCEPT ![d] = [Idle EXCEPT !.phase = "applying", !.job = j]]
     \/ /\ jobs[j].status = "index_pending"
        /\ \E chroma \in BOOLEAN : deleter' = [deleter EXCEPT ![d] = Syncing(j, chroma)]
  /\ UNCHANGED <<records, index, proposals, jobs, indexer>>

\* The process dies, or raises because the token no longer holds, the root is
\* gone or the job was closed before it read it; or the user drops the token.
StopDeleter(d) ==
  /\ deleter[d].phase # "idle"
  /\ deleter' = [deleter EXCEPT ![d] = Idle]
  /\ UNCHANGED <<records, index, proposals, jobs, indexer>>

-----------------------------------------------------------------------------
TranscriptStep == \E r \in Runs : BeginRun(r) \/ CompleteRun(r) \/ AppendMessage(r)

NoteStep == \/ \E refs \in SUBSET Ids : SubmitNote(refs)
            \/ \E i \in Ids : ConfirmNote(i) \/ RetractNote(i)

ConflictStep == \/ \E refs \in SUBSET Ids, i \in Ids : SubmitConflict(refs, i)
                \/ \E proposal \in proposals : LinkConflict(proposal) \/ LoseConflict(proposal)

IndexStep == \E x \in Indexers :
  \/ \E i \in Ids : PromoteNote(x, i) \/ RetryIndex(x, i)
  \/ PutIndex(x) \/ MarkIndex(x) \/ StopIndexer(x)

AuthorizeStep(d) == \/ \E root \in Roots : Preview(d, root)
                    \/ \E retained \in SUBSET Ids : Execute(d, retained)

JobStep(d) == \/ ApplySqlite(d) \/ ApplyDone(d)
              \/ \E i \in Ids : SyncItem(d, i)
              \/ FinishSync(d)
              \/ \E j \in JobIds : Resume(d, j)
              \/ StopDeleter(d)

DeletionStep == \E d \in Deleters : AuthorizeStep(d) \/ JobStep(d)

Next == \/ TranscriptStep \/ ArchiveThread \/ NoteStep \/ ConflictStep \/ BuildSummary
        \/ IndexStep \/ DeletionStep

Spec == Init /\ [][Next]_vars

-----------------------------------------------------------------------------
(***************************************************************************)
(* Properties.                                                             *)
(***************************************************************************)
RelationRow == [source : Ids, target : Ids, type : RelationTypes]

Token == [root : Roots \cup {"none"}, memories : SUBSET (Ids \X (Nat \ {0})),
          relations : SUBSET RelationRow, runs : SUBSET Runs]

Job == [root : Roots,
        status : {"authorized", "index_pending", "complete"},
        confirmed : SUBSET Ids,
        action : UNION {[I -> {"delete", "retract", "retain_independent"}] : I \in SUBSET Ids},
        copy : UNION {[I -> Ids \cup {NoCopy}] : I \in SUBSET Ids}]

DeleterState == [phase : {"idle", "previewed", "applying", "syncing"},
                 token : Token,
                 job : {0} \cup JobIds,
                 todo : SUBSET Ids,
                 failed : BOOLEAN,
                 chroma : BOOLEAN]

IndexerState == [phase : {"idle", "put", "indexed", "index_failed"}, row : {0} \cup Ids]

\* Relations, index entries, jobs, tokens and process states name existing rows,
\* and a process at work has one.
DeletionTypeOK ==
  /\ thread \in {"active", "archived", "deleted"}
  /\ runs \in [Runs -> {"none", "running", "completed", "deleted"}]
  /\ rows \in Seq(Row) /\ \A i \in Ids : rows[i].refs \subseteq Ids
  /\ relations \subseteq RelationRow
  /\ index \subseteq Ids
  /\ proposals \subseteq Ids \X Ids
  /\ jobs \in Seq(Job) /\ \A j \in JobIds : DOMAIN jobs[j].copy = Items(j)
  /\ deleter \in [Deleters -> DeleterState]
  /\ \A d \in Deleters :
       /\ deleter[d].phase = "previewed" => deleter[d].token.root \in Roots
       /\ deleter[d].phase \in {"applying", "syncing"} => deleter[d].job \in JobIds
       /\ deleter[d].phase = "syncing" => deleter[d].todo \subseteq Items(deleter[d].job)
  /\ indexer \in [Indexers -> IndexerState]
  /\ \A x \in Indexers : indexer[x].phase # "idle" => indexer[x].row \in Ids

Committed == {j \in JobIds : jobs[j].status # "authorized"}

\* Once the SQLite transaction of a deletion has committed, its root is deleted
\* and no item of it is accessible any more, whatever other deletions, index
\* retries, confirmations and crashes go on around it.
CommittedJobsRevoke ==
  \A j \in Committed :
    /\ IF jobs[j].root = ThreadRoot THEN thread = "deleted" ELSE runs[jobs[j].root] = "deleted"
    /\ \A i \in Items(j) : rows[i].status \in Revoked

\* A row is destroyed only by a committed deletion whose preview showed it: a row
\* that came into the run or thread after the preview is never destroyed unseen,
\* also when the job is resumed much later by another process.
OnlyConfirmedRowsAreDestroyed ==
  \A i \in Ids : rows[i].status = "deleted" =>
    \E j \in Committed : i \in jobs[j].confirmed /\ jobs[j].action[i] = "delete"

\* A promoted note the user asked to keep is copied at most once, although two
\* deletions may both retain it and each may be resumed: no two items of any jobs
\* made a copy of the same row, and no copy belongs to two items.
OneCopyPerRetention ==
  /\ \A j, k \in JobIds : \A i \in Items(j) \cap Items(k) :
       jobs[j].copy[i] # NoCopy /\ jobs[k].copy[i] # NoCopy => j = k
  /\ \A c \in Ids : rows[c].kind = "copy" =>
       Cardinality({i \in Ids : \E j \in JobIds : i \in Items(j) /\ jobs[j].copy[i] = c}) = 1

\* What was retracted or deleted never becomes accessible again, whoever confirms,
\* retries, marks or resumes.
RevokedStaysRevoked ==
  [][\A i \in Ids : rows[i].status \in Revoked =>
       rows'[i].status \in {rows[i].status, "deleted"}]_vars

\* A complete job has left none of its items in the vector index.
CompleteMeansUnindexed ==
  \A j \in JobIds : jobs[j].status = "complete" => index \cap Items(j) = {}

\* A deleted run has no message left that SQLite still serves (README.md says a
\* deletion first revokes the authoritative access in SQLite).
DeletedRunsAreEmpty == \A i \in LiveMessages : runs[rows[i].run] # "deleted"

\* An active thread can be deleted when no deletion is under way (README.md:
\* cascading deletion of runs and threads).
ThreadDeletable ==
  thread = "active" /\ Committed = JobIds /\ proposals = {} => Plannable(ThreadRoot)

\* A deletion that was confirmed and interrupted can be resumed (README.md: the
\* deletion token supports recovery from interruption).
InterruptedJobsCanResume ==
  \A j \in JobIds : jobs[j].status = "authorized" => Plannable(jobs[j].root)

=============================================================================
