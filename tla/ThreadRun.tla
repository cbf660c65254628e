------------------------------ MODULE ThreadRun ------------------------------
(***************************************************************************)
(* The authoritative rows of one session: its threads, their runs and the  *)
(* transcript messages of those runs, as ThreadRunStore, ThreadRunService  *)
(* and ThreadTranscriptService keep them in SQLite.                        *)
(*                                                                         *)
(* Every write of these classes is one BEGIN IMMEDIATE transaction, so it  *)
(* is one action here, whichever process issues it; an operation the code  *)
(* refuses raises, rolls back and changes nothing, so it is no step.  The  *)
(* exception is recover_running, which reads the running runs on one       *)
(* connection and interrupts them in later transactions: it is a scan      *)
(* followed by one step per run, and other processes act in between.       *)
(*                                                                         *)
(* Run and message ids are fresh random tokens (secrets.token_hex); a row  *)
(* is identified here by its position in the table, its insertion order.   *)
(***************************************************************************)
EXTENDS Integers, Sequences, FiniteSets

CONSTANTS
  Threads,      \* thread ids that may be created in the session
  CallIds,      \* tool-call ids a model may use
  Recoverers,   \* processes that may call recover_running_runs
  MaxRuns,      \* bound on the rows of table runs
  MaxMessages,  \* bound on the transcript rows of table memories
  MaxNotes      \* bound on the notes and summaries of a thread

ASSUME BoundsAssumption == MaxRuns \in Nat /\ MaxMessages \in Nat /\ MaxNotes \in Nat

VARIABLES
  threads,      \* thread id -> row of table threads
  runs,         \* rows of table runs, in insertion order
  messages,     \* transcript rows of table memories, in insertion order
  recovery      \* recoverer -> runs it read as running and has yet to visit

vars == <<threads, runs, messages, recovery>>

NoMessage == 0                \* NULL in input_message_id and final_message_id
NoCall == "no_call"           \* tool_call_id of a message that is no result

ASSUME CallIdsAssumption == NoCall \notin CallIds

Terminal == {"completed", "failed", "interrupted"}
Roles == {"user", "assistant", "tool"}
Reasons == {"NULL", "AGENT_RUN_FAILED", "USER_INTERRUPTED", "PROCESS_RECOVERY"}

ThreadRow == [status : {"none", "active", "archived"},
              next_run_no : Nat \ {0},
              next_thread_sequence : Nat \ {0}]

RunRow == [thread : Threads,
           run_no : Nat \ {0},
           status : {"running"} \cup Terminal,
           next_run_sequence : Nat \ {0},
           turn_count : Nat,
           input_message_id : Nat,
           final_message_id : Nat,
           reason : Reasons]

MessageRow == [thread : Threads,
               run : Nat \ {0},
               role : Roles,
               calls : SUBSET CallIds,
               result : CallIds \cup {NoCall},
               thread_sequence : Nat \ {0},
               run_sequence : Nat \ {0}]

RunIds == DOMAIN runs
MessageIds == DOMAIN messages

RunsOf(t) == {r \in RunIds : runs[r].thread = t}
RunningIn(t) == {r \in RunsOf(t) : runs[r].status = "running"}
MessagesOf(r) == {m \in MessageIds : messages[m].run = r}

(***************************************************************************)
(* Tool-call groups: an assistant message declares call ids, the tool      *)
(* messages that follow consume them.                                      *)
(***************************************************************************)
Declared(M) == UNION {messages[m].calls : m \in M}
Consumed(M) == {messages[m].result : m \in M} \ {NoCall}
Pending(M) == Declared(M) \ Consumed(M)

-----------------------------------------------------------------------------
Init ==
  /\ threads = [t \in Threads |-> [status |-> "none", next_run_no |-> 1,
                                   next_thread_sequence |-> 1]]
  /\ runs = <<>>
  /\ messages = <<>>
  /\ recovery = [p \in Recoverers |-> {}]

(***************************************************************************)
(* Threads.                                                                *)
(***************************************************************************)
CreateThread(t) ==
  /\ threads[t].status = "none"
  /\ threads' = [threads EXCEPT ![t].status = "active"]
  /\ UNCHANGED <<runs, messages, recovery>>

ArchiveThread(t) ==
  /\ threads[t].status = "active"
  /\ RunningIn(t) = {}
  /\ threads' = [threads EXCEPT ![t].status = "archived"]
  /\ UNCHANGED <<runs, messages, recovery>>

(***************************************************************************)
(* Runs.                                                                   *)
(***************************************************************************)
\* Mutant: begin_run does not look for a running run.
CanBeginOverRunning(t) == threads[t].status = "active"

CanBegin(t) == threads[t].status = "active" /\ RunningIn(t) = {}

\* Mutant: the number comes from a counter that starts at 0.
NewRunFromZero(t) == [thread |-> t, run_no |-> threads[t].next_run_no - 1,
                      status |-> "running", next_run_sequence |-> 1, turn_count |-> 0,
                      input_message_id |-> NoMessage, final_message_id |-> NoMessage,
                      reason |-> "NULL"]

NewRun(t) == [thread |-> t, run_no |-> threads[t].next_run_no,
              status |-> "running", next_run_sequence |-> 1, turn_count |-> 0,
              input_message_id |-> NoMessage, final_message_id |-> NoMessage,
              reason |-> "NULL"]

BeginRun(t) ==
  /\ Len(runs) < MaxRuns
  /\ CanBegin(t)
  /\ threads' = [threads EXCEPT ![t].next_run_no = @ + 1]
  /\ runs' = Append(runs, NewRun(t))
  /\ UNCHANGED <<messages, recovery>>

\* Mutant: only a completed run is final.
CanTransitionUnlessCompleted(r) == runs[r].status # "completed"

\* transition_run asks no more of the thread than that it exists: a run of an
\* archived thread may still be transitioned.
CanTransition(r) == runs[r].status = "running"

\* Mutant: any message of the run may be its final one.
ValidFinalOfAnyRole(r, m) == m = NoMessage \/ m \in MessagesOf(r)

\* The final message is a row of type 'message' (not 'tool_result') of the run.
ValidFinal(r, m) == m = NoMessage \/ (m \in MessagesOf(r) /\ messages[m].role # "tool")

TransitionRun(r, target, final, reason) ==
  /\ CanTransition(r)
  /\ ValidFinal(r, final)
  /\ runs' = [runs EXCEPT ![r] = [@ EXCEPT !.status = target, !.reason = reason,
                                           !.final_message_id = final]]
  /\ UNCHANGED <<threads, messages>>

CompleteRun(r, final) == TransitionRun(r, "completed", final, "NULL") /\ UNCHANGED recovery

FailRun(r) == TransitionRun(r, "failed", NoMessage, "AGENT_RUN_FAILED") /\ UNCHANGED recovery

InterruptRun(r) ==
  TransitionRun(r, "interrupted", NoMessage, "USER_INTERRUPTED") /\ UNCHANGED recovery

(***************************************************************************)
(* Recovery after a crash: recover_running reads, then visits what it read *)
(* one transaction at a time; a run that became terminal otherwise in      *)
(* between makes transition_run raise and ends the call.                   *)
(***************************************************************************)
RecoverScan(p, scope) ==
  /\ recovery[p] = {}
  /\ recovery' = [recovery EXCEPT ![p] = UNION {RunningIn(t) : t \in scope}]
  /\ recovery'[p] # {}
  /\ UNCHANGED <<threads, runs, messages>>

RecoveredBefore(r) == runs[r].status = "interrupted" /\ runs[r].reason = "PROCESS_RECOVERY"

RecoverNext(p) == \E r \in recovery[p] :
  /\ \/ TransitionRun(r, "interrupted", NoMessage, "PROCESS_RECOVERY")
     \/ RecoveredBefore(r) /\ UNCHANGED <<threads, runs, messages>>
  /\ recovery' = [recovery EXCEPT ![p] = @ \ {r}]

RecoverAbort(p) == \E r \in recovery[p] :
  /\ ~CanTransition(r) /\ ~RecoveredBefore(r)
  /\ recovery' = [recovery EXCEPT ![p] = {}]
  /\ UNCHANGED <<threads, runs, messages>>

(***************************************************************************)
(* Transcript append: one transaction validates the message against the    *)
(* whole run, allocates both sequences, inserts the row and records the    *)
(* progress of the run.                                                    *)
(***************************************************************************)
\* Mutant: an open group of tool calls does not hold back other messages.
ValidToolMessageInOpenGroup(M, role, calls, result) ==
  /\ calls \cap (Declared(M) \cup Consumed(M)) = {}
  /\ role = "tool" => result \in Declared(M) \ Consumed(M)

ValidToolMessage(M, role, calls, result) ==
  /\ Pending(M) # {} => role = "tool"
  /\ calls \cap (Declared(M) \cup Consumed(M)) = {}
  /\ role = "tool" => result \in Declared(M) \ Consumed(M)

\* Mutant: append checks the thread, not the run.
CanAppendToSettled(r, role, calls, result) ==
  /\ threads[runs[r].thread].status = "active"
  /\ ValidToolMessage(MessagesOf(r), role, calls, result)

CanAppend(r, role, calls, result) ==
  /\ threads[runs[r].thread].status = "active"
  /\ runs[r].status = "running"
  /\ ValidToolMessage(MessagesOf(r), role, calls, result)

NewMessage(r, role, calls, result) ==
  [thread |-> runs[r].thread, run |-> r, role |-> role, calls |-> calls,
   result |-> result,
   thread_sequence |-> threads[runs[r].thread].next_thread_sequence,
   run_sequence |-> runs[r].next_run_sequence]

AllocateThreadSequence(t) == threads' = [threads EXCEPT ![t].next_thread_sequence = @ + 1]

AllocateRunSequence(run) == [run EXCEPT !.next_run_sequence = @ + 1]

RecordProgress(run, role, id) ==
  [run EXCEPT !.turn_count = IF role = "assistant" THEN @ + 1 ELSE @,
              !.input_message_id = IF role = "user" /\ @ = NoMessage THEN id ELSE @]

AppendMessage(r, role, calls, result) ==
  /\ Len(messages) < MaxMessages
  /\ CanAppend(r, role, calls, result)
  /\ messages' = Append(messages, NewMessage(r, role, calls, result))
  /\ AllocateThreadSequence(runs[r].thread)
  /\ runs' = [runs EXCEPT ![r] = RecordProgress(AllocateRunSequence(@), role,
                                                Len(messages) + 1)]
  /\ UNCHANGED recovery

\* A note or a summary is a row of the thread that is no message: all this module
\* sees of it is the thread sequence number it takes.
NotesOf(t) == threads[t].next_thread_sequence - 1
                - Cardinality({m \in MessageIds : messages[m].thread = t})

AddNote(t) ==
  /\ NotesOf(t) < MaxNotes
  /\ threads[t].status = "active"
  /\ AllocateThreadSequence(t)
  /\ UNCHANGED <<runs, messages, recovery>>

\* The shapes _message_shape accepts: calls only from an assistant, a result id
\* only from a tool.
AppendUser(r) == AppendMessage(r, "user", {}, NoCall)
AppendAssistant(r) == \E calls \in SUBSET CallIds : AppendMessage(r, "assistant", calls, NoCall)
AppendTool(r) == \E result \in CallIds : AppendMessage(r, "tool", {}, result)

(***************************************************************************)
(* Reading a transcript back: resume() orders the messages of a thread by  *)
(* thread_sequence and _validate_sequence_and_pairs walks those of each run*)
(* with the calls declared and consumed so far.                            *)
(***************************************************************************)
SeenBefore(m) ==
  {n \in MessagesOf(messages[m].run) : messages[n].thread_sequence < messages[m].thread_sequence}

ReadableAt(m) == LET seen == SeenBefore(m) IN
  /\ \A n \in seen : messages[n].run_sequence < messages[m].run_sequence
  /\ Pending(seen) # {} => messages[m].result # NoCall
  /\ messages[m].calls \cap (Declared(seen) \cup Consumed(seen)) = {}
  /\ messages[m].result # NoCall => messages[m].result \in Pending(seen)

-----------------------------------------------------------------------------
ThreadStep == \E t \in Threads : CreateThread(t) \/ ArchiveThread(t) \/ BeginRun(t) \/ AddNote(t)

TransitionStep == \E r \in RunIds :
  \/ \E final \in {NoMessage} \cup MessageIds : CompleteRun(r, final)
  \/ FailRun(r)
  \/ InterruptRun(r)

AppendStep == \E r \in RunIds : AppendUser(r) \/ AppendAssistant(r) \/ AppendTool(r)

RecoverStep == \E p \in Recoverers :
  \/ \E scope \in {Threads} \cup {{t} : t \in Threads} : RecoverScan(p, scope)
  \/ RecoverNext(p)
  \/ RecoverAbort(p)

Next == ThreadStep \/ TransitionStep \/ AppendStep \/ RecoverStep

Spec == Init /\ [][Next]_vars

-----------------------------------------------------------------------------
(***************************************************************************)
(* Properties.                                                             *)
(***************************************************************************)

\* The rows have the types of the schema, and the message ids a run points to
\* exist (build_v2_ddl of schema.py).
TypeOK ==
  /\ threads \in [Threads -> ThreadRow]
  /\ runs \in Seq(RunRow)
  /\ messages \in Seq(MessageRow)
  /\ recovery \in [Recoverers -> SUBSET RunIds]
  /\ \A r \in RunIds : {runs[r].input_message_id, runs[r].final_message_id}
                          \subseteq {NoMessage} \cup MessageIds
  /\ \A m \in MessageIds : messages[m].run \in RunIds

\* A running run is the newest run of its thread, and the thread is active: no
\* thread has two running runs, none is left behind by a later one, and no
\* archived thread can still be written to, whichever processes begin, archive,
\* interrupt and recover.
RunningRunIsNewest ==
  \A r \in RunIds : runs[r].status = "running" =>
    /\ threads[runs[r].thread].status = "active"
    /\ \A s \in RunsOf(runs[r].thread) : s <= r

\* In thread order the transcript is a succession of whole runs: two runs of a
\* thread never interleave, and a later run never precedes an earlier one.  The
\* context assembler and the rolling summary cut the transcript by sequence and
\* rely on it.
RunsDoNotInterleave ==
  \A m, n \in MessageIds :
    /\ messages[m].thread = messages[n].thread
    /\ messages[m].thread_sequence < messages[n].thread_sequence
    => runs[messages[m].run].run_no <= runs[messages[n].run].run_no

\* resume() decodes the whole thread and raises MemoryIntegrityError unless both
\* sequences increase together and every tool result follows its call with
\* nothing but results in between.  append checks each message against the set
\* of messages of the run, so whatever append accepts, in whatever order and
\* with runs failing half-way through a group, resume must be able to read: a
\* thread that could not be read could never be loaded again.
ThreadsReadable == \A m \in MessageIds : ReadableAt(m)

\* A terminal run is history: no completion, failure, user interrupt or late step
\* of a recovery that read it as running changes its row or adds a message to it.
TerminalRunsAreFrozen ==
  [][\A r \in RunIds : runs[r].status \in Terminal =>
       runs'[r] = runs[r] /\ MessagesOf(r)' = MessagesOf(r)]_vars

=============================================================================
