---------------------------- MODULE NoteLifecycle ----------------------------
(***************************************************************************)
(* The structured notes of one session: what LongTermMemoryService,        *)
(* NotesService, ControlledCandidateService, RetentionService and          *)
(* HybridMemorySearch do to the note rows of table memories, to their      *)
(* relations and to the vector index of the workspace rows.                *)
(*                                                                         *)
(* A call of one transaction is one action.  A call of several is a        *)
(* sequence of steps of its process, kept in op, between which the other   *)
(* processes act and at any of which the process may crash.  A call the    *)
(* code refuses changes no row: it is no step, or the end of a call.       *)
(*                                                                         *)
(* All threads are active threads of the session (ThreadRun has their      *)
(* lifecycle, CascadeDeletion the deletion of rows, sources of a note and  *)
(* independent retention).  A row is identified by its insertion order; a  *)
(* text by its fingerprint, which only a model's proposal has.             *)
(***************************************************************************)
EXTENDS Integers, Sequences, FiniteSets

CONSTANTS
  Threads,    \* active threads of the session
  Processes,  \* processes that work on the session
  Contents,   \* fingerprints of the texts a model proposes
  MaxNotes,   \* bound on the note rows
  MaxTime     \* bound on the clock

ASSUME NoteBoundsAssumption == MaxNotes \in Nat /\ MaxTime \in Nat

VARIABLES
  notes,      \* note rows of table memories, in insertion order
  relations,  \* rows of table memory_relations that are not deleted
  index,      \* ids the vector index holds
  clock,      \* the time rows expire by
  op,         \* process -> the call it is in the middle of
  stale       \* process -> _stale_index_ids of its HybridMemorySearch

noteVars == <<notes, relations, index, clock, op, stale>>

NoThread == "no_thread"   \* thread_id NULL: a promoted row
NoPrint == "no_print"     \* dedup_fingerprint NULL
Never == 0                \* expires_at NULL
NoNote == 0               \* supersedes_id NULL

ASSUME FingerprintsAssumption == NoPrint \notin Contents /\ NoThread \notin Threads

Scopes == {"thread", "session", "workspace"}
Statuses == {"candidate", "active", "rejected", "superseded", "retracted", "expired"}
Live == {"candidate", "active"}   \* "disputed" is accepted everywhere and set nowhere
Marks == {"not_indexed", "pending_index", "indexed", "index_failed"}
Policies == {"none", "default", "explicit"}
Relationships == {"novel", "revision", "conflict"}

NoteIds == DOMAIN notes

NoteRow == [thread : Threads \cup {NoThread}, scope : Scopes,
            fingerprint : Contents \cup {NoPrint}, by : {"user", "model"},
            status : Statuses, confirmed : BOOLEAN, revision : Nat \ {0},
            supersedes : Nat, mark : Marks,
            expires : Nat, pinned : BOOLEAN, policy : Policies]

Idle == [step |-> "idle"]

Calls ==
  {Idle}
  \cup [step : {"adding", "replaced"}, note : NoteIds]
  \cup [step : {"revising"}, note : NoteIds, read : Live]
  \cup [step : {"checked"}, thread : Threads, fingerprint : Contents, related : NoteIds \cup {NoNote},
        relationship : Relationships, revision : Nat \ {0}]
  \cup [step : {"proposed"}, note : NoteIds, related : NoteIds,
        relationship : Relationships \ {"novel"}]
  \cup [step : {"putting"}, thread : Threads, note : NoteIds, rest : SUBSET NoteIds]
  \cup [step : {"marking"}, thread : Threads, note : NoteIds, rest : SUBSET NoteIds,
        mark : {"indexed", "index_failed"}]
  \cup [step : {"reconciling"}, thread : Threads, rest : SUBSET NoteIds]
  \cup [step : {"expiring"}, thread : Threads, rest : SUBSET NoteIds, now : Nat]

NoteInit ==
  /\ notes = <<>>
  /\ relations = {}
  /\ index = {}
  /\ clock = 1
  /\ op = [p \in Processes |-> Idle]
  /\ stale = [p \in Processes |-> {}]

(***************************************************************************)
(* Who may see a row.                                                      *)
(***************************************************************************)
Held(i) == notes[i].pinned /\ notes[i].policy = "default"

Due(i) == notes[i].expires # Never /\ notes[i].expires <= clock /\ ~Held(i)

InThread(t, i) == notes[i].scope = "thread" => notes[i].thread = t

Authorized(t, i) == InThread(t, i) /\ ~Due(i)

Supersedes(i) == {j \in NoteIds : <<i, j, "supersedes">> \in relations}

\* Call of process p goes on with c, or ends with Idle.
Goes(p, c) == op' = [op EXCEPT ![p] = c]
At(p, step) == op[p].step = step

(***************************************************************************)
(* New rows.                                                               *)
(***************************************************************************)
NewCandidate(t, by, print, revision, old) ==
  [thread |-> t, scope |-> "thread", fingerprint |-> print, by |-> by,
   status |-> "candidate", confirmed |-> FALSE, revision |-> revision,
   supersedes |-> old, mark |-> "not_indexed",
   expires |-> Never, pinned |-> FALSE, policy |-> "none"]

NewId == Len(notes) + 1

AddCandidate(t, by, print, revision) ==
  /\ Len(notes) < MaxNotes
  /\ notes' = Append(notes, NewCandidate(t, by, print, revision, NoNote))

\* add_candidate with supersedes_id: only a thread row of the same thread is a
\* source (_note_row), and the old row leaves its state in the same transaction.
\* Mutant: the state of the old row is taken from the earlier read.
CanReplaceUnchecked(t, old) ==
  notes[old].scope = "thread" /\ notes[old].thread = t /\ ~Due(old)

CanReplace(t, old) ==
  /\ notes[old].scope = "thread"
  /\ notes[old].thread = t
  /\ ~Due(old)
  /\ notes[old].status \in Live

ReplacedStatus(old) == IF notes[old].status = "candidate" THEN "rejected" ELSE "superseded"

ReplaceBy(t, old) ==
  /\ Len(notes) < MaxNotes
  /\ CanReplace(t, old)
  /\ notes' = Append([notes EXCEPT ![old].status = ReplacedStatus(old)],
                     NewCandidate(t, "user", NoPrint, notes[old].revision + 1, old))
  /\ relations' = relations \cup {<<NewId, old, "supersedes">>}

(***************************************************************************)
(* confirm_note.  Confirming a row that is already active and confirmed    *)
(* returns it; any other state than candidate is refused, and so is a      *)
(* revision of a row that is due or of another thread: the whole           *)
(* transaction rolls back.                                                 *)
(***************************************************************************)
\* Mutant: a rejected candidate may be confirmed after all.
CanConfirmRejected(t, i) ==
  Authorized(t, i) /\ notes[i].status \in {"candidate", "rejected"}

CanConfirm(t, i) ==
  /\ Authorized(t, i)
  /\ notes[i].status = "candidate"
  /\ \A j \in Supersedes(i) : Authorized(t, j)

\* Mutant: the row the confirmed one revises stays as it is.
ConfirmedAlone(i) ==
  notes' = [notes EXCEPT ![i].status = "active", ![i].confirmed = TRUE]

Confirmed(i) ==
  notes' = [j \in NoteIds |->
              IF j = i THEN [notes[j] EXCEPT !.status = "active", !.confirmed = TRUE]
              ELSE IF j \in Supersedes(i) /\ notes[j].status = "active"
                   THEN [notes[j] EXCEPT !.status = "superseded"]
                   ELSE notes[j]]

ConfirmNote(t, i) ==
  /\ CanConfirm(t, i)
  /\ Confirmed(i)
  /\ UNCHANGED <<relations, index, clock, op, stale>>

\* The second transaction of add_note and of revise_note: the candidate is
\* confirmed, or what happened to it meanwhile makes confirm_note return or raise.
ConfirmOwn(p) ==
  /\ op[p].step \in {"adding", "replaced"}
  /\ LET i == op[p].note IN
       IF CanConfirm(notes[i].thread, i) THEN Confirmed(i) ELSE UNCHANGED notes
  /\ Goes(p, Idle)
  /\ UNCHANGED <<relations, index, clock, stale>>

AddNoteCandidate(p, t) ==
  /\ At(p, "idle")
  /\ AddCandidate(t, "user", NoPrint, 1)
  /\ Goes(p, [step |-> "adding", note |-> NewId])
  /\ UNCHANGED <<relations, index, clock, stale>>

(***************************************************************************)
(* revise_note reads the old note on a connection of its own; what it read *)
(* decides whether the replacement is confirmed.                           *)
(***************************************************************************)
ReviseRead(p, t, i) ==
  /\ At(p, "idle")
  /\ Authorized(t, i)
  /\ notes[i].status \in Live
  /\ Goes(p, [step |-> "revising", note |-> i, read |-> notes[i].status])
  /\ UNCHANGED <<notes, relations, index, clock, stale>>

\* The call is one of the old row's thread: CanReplace refuses any other.
ReviseReplace(p) ==
  /\ At(p, "revising")
  /\ ReplaceBy(notes[op[p].note].thread, op[p].note)
  /\ Goes(p, IF op[p].read = "candidate" THEN Idle
             ELSE [step |-> "replaced", note |-> NewId])
  /\ UNCHANGED <<index, clock, stale>>

ReviseRefused(p) ==
  /\ At(p, "revising")
  /\ ~CanReplace(notes[op[p].note].thread, op[p].note)
  /\ Goes(p, Idle)
  /\ UNCHANGED <<notes, relations, index, clock, stale>>

RetractNote(t, i) ==
  /\ Authorized(t, i)
  /\ notes[i].status \in Live
  /\ notes' = [notes EXCEPT ![i].status = "retracted"]
  /\ UNCHANGED <<relations, index, clock, op, stale>>

RejectCandidate(t, i) ==
  /\ Authorized(t, i)
  /\ notes[i].status = "candidate"
  /\ notes' = [notes EXCEPT ![i].status = "rejected"]
  /\ UNCHANGED <<relations, index, clock, op, stale>>

(***************************************************************************)
(* submit: a model's proposal is checked, added and related to an active   *)
(* note in three transactions.  A text the thread already holds in any     *)
(* state is returned instead of added.                                     *)
(***************************************************************************)
\* Mutant: only a live row makes a proposal a duplicate.
DuplicatesLive(t, print) ==
  {i \in NoteIds : notes[i].thread = t /\ notes[i].fingerprint = print /\ notes[i].status \in Live}

Duplicates(t, print) ==
  {i \in NoteIds : notes[i].thread = t /\ notes[i].fingerprint = print}

\* Mutant: the revision number goes back.
ProposedRevisionBack(relationship, related) ==
  IF relationship = "revision" THEN notes[related].revision - 1 ELSE 1

ProposedRevision(relationship, related) ==
  IF relationship = "revision" THEN notes[related].revision + 1 ELSE 1

SubmitCheck(p, t, print, relationship, related) ==
  /\ At(p, "idle")
  /\ Duplicates(t, print) = {}
  /\ (relationship = "novel") = (related = NoNote)
  /\ related # NoNote => Authorized(t, related) /\ notes[related].status = "active"
  /\ Goes(p, [step |-> "checked", thread |-> t, fingerprint |-> print,
              related |-> related, relationship |-> relationship,
              revision |-> ProposedRevision(relationship, related)])
  /\ UNCHANGED <<notes, relations, index, clock, stale>>

SubmitAdd(p) ==
  /\ At(p, "checked")
  /\ AddCandidate(op[p].thread, "model", op[p].fingerprint, op[p].revision)
  /\ Goes(p, IF op[p].related = NoNote THEN Idle
             ELSE [step |-> "proposed", note |-> NewId, related |-> op[p].related,
                   relationship |-> op[p].relationship])
  /\ UNCHANGED <<relations, index, clock, stale>>

\* Mutant: the proposal takes the related note out of use at once.
SubmitRelateAtOnce(p) ==
  /\ At(p, "proposed")
  /\ relations' = relations \cup {<<op[p].note, op[p].related, "supersedes">>}
  /\ notes' = [notes EXCEPT ![op[p].related].status = "superseded"]
  /\ Goes(p, Idle)
  /\ UNCHANGED <<index, clock, stale>>

SubmitRelate(p) ==
  /\ At(p, "proposed")
  /\ LET i == op[p].note
         j == op[p].related
     IN relations' = relations \cup
          (IF op[p].relationship = "revision" THEN {<<i, j, "supersedes">>}
           ELSE {<<i, j, "conflicts_with">>, <<j, i, "conflicts_with">>})
  /\ Goes(p, Idle)
  /\ UNCHANGED <<notes, index, clock, stale>>

(***************************************************************************)
(* Promotion.  The confirmation token of preview_promotion is bound to the *)
(* note, its revision and its classification, which no step changes, and   *)
(* issued for an active confirmed note; promote_note asks again that it is *)
(* active, and a status left is never taken again, so the token is no      *)
(* state of its own.  Repeating a promotion returns the row it made, or is *)
(* refused when that row is no longer active.                              *)
(***************************************************************************)
Broader == {<<"thread", "session">>, <<"thread", "workspace">>, <<"session", "workspace">>}

\* Mutant: only an active row counts as an existing promotion.
PromotionsActive(i, scope) ==
  {j \in NoteIds : /\ <<j, i, "promoted_from">> \in relations
                   /\ notes[j].scope = scope /\ notes[j].status = "active"}

Promotions(i, scope) ==
  {j \in NoteIds : <<j, i, "promoted_from">> \in relations /\ notes[j].scope = scope}

CanPromote(t, i, scope) ==
  /\ Authorized(t, i)
  /\ notes[i].status = "active"
  /\ notes[i].confirmed
  /\ <<notes[i].scope, scope>> \in Broader
  /\ Promotions(i, scope) = {}

PromotedRow(scope, mark) ==
  [thread |-> NoThread, scope |-> scope, fingerprint |-> NoPrint, by |-> "user",
   status |-> "active", confirmed |-> TRUE, revision |-> 1, supersedes |-> NoNote,
   mark |-> mark, expires |-> Never, pinned |-> FALSE, policy |-> "none"]

\* A row of the workspace goes on to the index, where the process has one: Chroma is
\* optional.  One promoted without it stays out, retry_index does not take it either.
PromoteNote(p, t, i, scope) ==
  /\ At(p, "idle")
  /\ Len(notes) < MaxNotes
  /\ CanPromote(t, i, scope)
  /\ relations' = relations \cup {<<NewId, i, "promoted_from">>}
  /\ \/ /\ scope = "workspace"
        /\ notes' = Append(notes, PromotedRow(scope, "pending_index"))
        /\ Goes(p, [step |-> "putting", thread |-> t, note |-> NewId, rest |-> {}])
     \/ /\ notes' = Append(notes, PromotedRow(scope, "not_indexed"))
        /\ Goes(p, Idle)
  /\ UNCHANGED <<index, clock, stale>>

(***************************************************************************)
(* The index of a workspace row: the vector is put, or fails to be, and    *)
(* the row marked afterwards, whatever became of it meanwhile.             *)
(***************************************************************************)
Indexable(t, i) ==
  /\ notes[i].scope = "workspace"
  /\ Authorized(t, i)
  /\ notes[i].status = "active"
  /\ notes[i].confirmed

\* What the rest of a reconcile_index call is, and the end of a call without one.
Reconciling(t, rest) ==
  IF rest = {} THEN Idle ELSE [step |-> "reconciling", thread |-> t, rest |-> rest]

PutVector(p) ==
  /\ At(p, "putting")
  /\ \E ok \in BOOLEAN :
       /\ index' = IF ok THEN index \cup {op[p].note} ELSE index
       /\ Goes(p, [step |-> "marking", thread |-> op[p].thread, note |-> op[p].note,
                   rest |-> op[p].rest,
                   mark |-> IF ok THEN "indexed" ELSE "index_failed"])
  /\ UNCHANGED <<notes, relations, clock, stale>>

\* Mutant: the row is marked indexed although the put failed.
MarkAlwaysIndexed(p) == notes' = [notes EXCEPT ![op[p].note].mark = "indexed"]

Mark(p) == notes' = [notes EXCEPT ![op[p].note].mark = op[p].mark]

MarkRow(p) ==
  /\ At(p, "marking")
  /\ Mark(p)
  /\ Goes(p, Reconciling(op[p].thread, op[p].rest))
  /\ UNCHANGED <<relations, index, clock, stale>>

\* reconcile_index lists what waits for the index, whether due or not, and
\* retries each row on its own.
Unindexed == {i \in NoteIds :
  /\ notes[i].scope = "workspace" /\ notes[i].status = "active" /\ notes[i].confirmed
  /\ notes[i].mark \in {"pending_index", "index_failed"}}

ReconcileIndex(p, t) ==
  /\ At(p, "idle")
  /\ Unindexed # {}
  /\ Goes(p, [step |-> "reconciling", thread |-> t, rest |-> Unindexed])
  /\ UNCHANGED <<notes, relations, index, clock, stale>>

\* retry_index of the next row: it is put, was put by another process, or is
\* refused, which ends reconcile_index with every row after it.
RetryNext(p) ==
  /\ At(p, "reconciling")
  /\ \E i \in op[p].rest :
       LET t == op[p].thread
           rest == op[p].rest \ {i}
       IN Goes(p, IF ~Indexable(t, i) THEN Idle
                  ELSE IF notes[i].mark = "indexed" THEN Reconciling(t, rest)
                  ELSE [step |-> "putting", thread |-> t, note |-> i, rest |-> rest])
  /\ UNCHANGED <<notes, relations, index, clock, stale>>

(***************************************************************************)
(* Search: the index proposes ids, the rows of the query's scopes that are *)
(* active and not due are what it may return, and the other ids are kept   *)
(* as stale until reconcile_stale removes their vectors, each or not.      *)
(***************************************************************************)
Searchable(t, scopes) ==
  {i \in NoteIds : Authorized(t, i) /\ notes[i].status = "active" /\ notes[i].scope \in scopes}

Search(p, t, scopes, ids) ==
  /\ At(p, "idle")
  /\ ids \subseteq index
  /\ stale' = [stale EXCEPT ![p] = @ \cup (ids \ Searchable(t, scopes))]
  /\ stale' # stale
  /\ UNCHANGED <<notes, relations, index, clock, op>>

ReconcileStale(p, deleted) ==
  /\ At(p, "idle")
  /\ deleted \subseteq stale[p]
  /\ deleted # {}
  /\ index' = index \ deleted
  /\ stale' = [stale EXCEPT ![p] = @ \ deleted]
  /\ UNCHANGED <<notes, relations, clock, op>>

(***************************************************************************)
(* Retention.                                                              *)
(***************************************************************************)
\* set_expiry takes any expiry up to a maximum, a past one too, under either kind of
\* policy; apply_default_ttl is one of these steps.
SetExpiry(t, i, expires, policy) ==
  /\ InThread(t, i)
  /\ notes' = [notes EXCEPT ![i].expires = expires, ![i].policy = policy]
  /\ UNCHANGED <<relations, index, clock, op, stale>>

Pin(t, i, pinned) ==
  /\ InThread(t, i)
  /\ notes' = [notes EXCEPT ![i].pinned = pinned]
  /\ UNCHANGED <<relations, index, clock, op, stale>>

\* scan_expired lists the due rows of the whole workspace, other threads'
\* included, and expires each in a transaction of its own, by the time it began.
Expirable == {i \in NoteIds : notes[i].status # "expired" /\ Due(i)}

ScanExpired(p, t) ==
  /\ At(p, "idle")
  /\ Expirable # {}
  /\ Goes(p, [step |-> "expiring", thread |-> t, rest |-> Expirable, now |-> clock])
  /\ UNCHANGED <<notes, relations, index, clock, stale>>

\* Mutant: the row is expired as it was listed, without a second look.
StillDueUnchecked(i, now) == TRUE

StillDue(i, now) == notes[i].expires # Never /\ notes[i].expires <= now /\ ~Held(i)

\* A row of another thread makes _row raise, which ends the scan.
ExpireNext(p) ==
  /\ At(p, "expiring")
  /\ \E i \in op[p].rest :
       LET rest == op[p].rest \ {i}
           next == IF rest = {} THEN Idle ELSE [op[p] EXCEPT !.rest = rest]
       IN IF InThread(op[p].thread, i)
          THEN /\ Goes(p, next)
               /\ notes' = IF StillDue(i, op[p].now)
                           THEN [notes EXCEPT ![i].status = "expired"] ELSE notes
          ELSE Goes(p, Idle) /\ UNCHANGED notes
  /\ UNCHANGED <<relations, index, clock, stale>>

TimePasses ==
  /\ clock < MaxTime
  /\ clock' = clock + 1
  /\ UNCHANGED <<notes, relations, index, op, stale>>

\* A process dies: its call stops between two transactions, its memory is lost.
Crash(p) ==
  /\ op[p] # Idle \/ stale[p] # {}
  /\ Goes(p, Idle)
  /\ stale' = [stale EXCEPT ![p] = {}]
  /\ UNCHANGED <<notes, relations, index, clock>>

-----------------------------------------------------------------------------
UserStep == \E t \in Threads :
  \/ \E p \in Processes : AddNoteCandidate(p, t)
  \/ \E i \in NoteIds :
       \/ ConfirmNote(t, i)
       \/ RetractNote(t, i)
       \/ RejectCandidate(t, i)
       \/ \E p \in Processes : ReviseRead(p, t, i)

CallStep == \E p \in Processes : ConfirmOwn(p) \/ ReviseReplace(p) \/ ReviseRefused(p)

SubmitStep == \E p \in Processes :
  \/ \E t \in Threads, print \in Contents, relationship \in Relationships,
        related \in NoteIds \cup {NoNote} : SubmitCheck(p, t, print, relationship, related)
  \/ SubmitAdd(p)
  \/ SubmitRelate(p)

PromoteStep == \E p \in Processes, t \in Threads, i \in NoteIds, scope \in Scopes :
  PromoteNote(p, t, i, scope)

IndexStep == \E p \in Processes :
  \/ PutVector(p)
  \/ MarkRow(p)
  \/ \E t \in Threads : ReconcileIndex(p, t)
  \/ RetryNext(p)

SearchStep == \E p \in Processes :
  \/ \E t \in Threads, scopes \in SUBSET Scopes, ids \in SUBSET index :
       Search(p, t, scopes, ids)
  \/ \E deleted \in SUBSET stale[p] : ReconcileStale(p, deleted)

RetentionStep ==
  \/ \E t \in Threads, i \in NoteIds :
       \/ \E expires \in 1..MaxTime, policy \in {"default", "explicit"} :
            SetExpiry(t, i, expires, policy)
       \/ \E pinned \in BOOLEAN : Pin(t, i, pinned)
  \/ \E p \in Processes : ExpireNext(p) \/ \E t \in Threads : ScanExpired(p, t)

CrashStep == \E p \in Processes : Crash(p)

NoteNext ==
  \/ UserStep \/ CallStep \/ SubmitStep \/ PromoteStep \/ IndexStep
  \/ SearchStep \/ RetentionStep \/ TimePasses \/ CrashStep

NoteSpec == NoteInit /\ [][NoteNext]_noteVars

-----------------------------------------------------------------------------
(***************************************************************************)
(* Properties.                                                             *)
(***************************************************************************)

\* Two processes that revise the same note, having both read it as live, do not
\* both replace it: a note has at most one user replacement (add_candidate).
OneReplacement ==
  \A i, j \in NoteIds :
    notes[i].supersedes = notes[j].supersedes /\ notes[i].supersedes # NoNote => i = j

\* Whatever steps of add, revise, submit and confirm interleave or crash, a note
\* is superseded only when a replacement exists that the user wrote or confirmed:
\* no proposal of a model takes a confirmed fact out of use (submit).
ProposalsWaitForConfirmation ==
  \A i \in NoteIds : notes[i].status = "superseded" =>
    \E j \in NoteIds : /\ <<j, i, "supersedes">> \in relations
                       /\ notes[j].by = "user" \/ notes[j].confirmed

\* A note is promoted to a scope at most once, even when the promoted row was
\* retracted or expired since and the same token is used again (promote_note).
PromotedOnce ==
  \A i, j, k \in NoteIds :
    /\ {<<j, i, "promoted_from">>, <<k, i, "promoted_from">>} \subseteq relations
    /\ notes[j].scope = notes[k].scope
    => j = k

\* A row the user rejected, retracted or replaced never becomes live again,
\* through no late step of a call that read it as live; retention may expire it.
RetiredStaysRetired ==
  [][\A i \in NoteIds : notes[i].status \notin Live => notes'[i].status \notin Live]_noteVars

\* A row expires only at a moment it is due and not pinned under a default
\* policy, although the scan listed it earlier (scan_expired).
OnlyDueRowsExpire ==
  [][\A i \in NoteIds : notes[i].status # "expired" /\ notes'[i].status = "expired" => Due(i)]_noteVars

=============================================================================
