-------------------------- MODULE LegacyTranscript --------------------------
(***************************************************************************)
(* What the migration makes of the transcript of a v1 session, and whether *)
(* resume() of schema 2 accepts it.                                        *)
(*                                                                         *)
(* Chats of v1 load a session, number their rows from what they found, and *)
(* record user messages, answers, calls, the event "tool_call" of the      *)
(* agent loop, and results.  The migration infers runs (infer_legacy_runs) *)
(* and thread sequences (_session_inference) in two different orders.      *)
(***************************************************************************)
EXTENDS Integers, Sequences, FiniteSets, FiniteSetsExt, SequencesExt

CONSTANTS
  Chats,     \* processes that chat in the session
  MaxRows    \* bound on the rows of the session

ASSUME MaxRowsAssumption == MaxRows \in Nat

VARIABLES
  session,   \* the rows of the session in the order of created_at
  chats,     \* chat -> its SessionState, and where its agent loop stands
  thread     \* the main thread the migration made of the session

legacyVars == <<session, chats, thread>>

NotMigrated == [runs |-> <<>>, places |-> <<>>]
Away == [step |-> "away", next |-> 0, call |-> 0]

Kinds == {"user", "answer", "call", "event", "result"}

SequenceNos == {session[i].seq : i \in DOMAIN session}

LegacyInit ==
  /\ session = <<>>
  /\ chats = [p \in Chats |-> Away]
  /\ thread = NotMigrated

-----------------------------------------------------------------------------
\* SecureTranscriptStore.load: the next number is read once.
Load(p) ==
  /\ chats[p] = Away
  /\ thread = NotMigrated
  /\ chats' = [chats EXCEPT ![p] = [step |-> "prompt", next |-> Max({0} \cup SequenceNos) + 1, call |-> 0]]
  /\ UNCHANGED <<session, thread>>

\* Append a row with the number the chat holds.
Store(p, kind, call, step) ==
  /\ thread = NotMigrated
  /\ Len(session) < MaxRows
  /\ session' = Append(session, [seq |-> chats[p].next, kind |-> kind, call |-> call])
  /\ chats' = [chats EXCEPT ![p] = [step |-> step, next |-> @.next + 1, call |-> call]]
  /\ UNCHANGED thread

RecordPrompt(p) == chats[p].step = "prompt" /\ Store(p, "user", 0, "model")
RecordAnswer(p) == chats[p].step = "model" /\ Store(p, "answer", 0, "prompt")
RecordCall(p) == chats[p].step = "model" /\ Store(p, "call", Len(session) + 1, "tool")
RecordEvent(p) == chats[p].step = "tool" /\ Store(p, "event", chats[p].call, "result")
RecordResult(p) == chats[p].step = "result" /\ Store(p, "result", chats[p].call, "model")

\* The loop of v1 ends by an exception or max_turns, or the process ends.
Interrupt(p) ==
  /\ chats[p] # Away
  /\ \E step \in {"prompt", "away"} :
       chats' = [chats EXCEPT ![p] = IF step = "away" THEN Away ELSE [@ EXCEPT !.step = step, !.call = 0]]
  /\ chats' # chats
  /\ UNCHANGED <<session, thread>>

-----------------------------------------------------------------------------
(***************************************************************************)
(* infer_legacy_runs.                                                      *)
(***************************************************************************)
NoRun == 0

\* Mutant: a user message in an open run does not begin a run.
BeginsRunUnlessOpen(acc, row) == row.kind = "user" /\ acc.current = NoRun

BeginsRun(acc, row) == row.kind = "user"

\* acc: the runs so far, the open one, the one for rows outside of a run.
AssignRow(acc, i) ==
  LET row == session[i]
      begins == BeginsRun(acc, row)
      orphan == ~begins /\ acc.current = NoRun
      new == begins \/ (orphan /\ acc.unassigned = NoRun)
      left == IF begins /\ acc.current # NoRun
              THEN [acc.runs EXCEPT ![acc.current].status = "interrupted"] ELSE acc.runs
      runs == IF new THEN Append(left, [status |-> IF orphan THEN "interrupted" ELSE "running", events |-> <<>>])
              ELSE left
      no == IF new THEN Len(runs) ELSE IF orphan THEN acc.unassigned ELSE acc.current
      ends == row.kind = "answer" /\ ~orphan
  IN [runs |-> [runs EXCEPT ![no] = [status |-> IF ends THEN "completed" ELSE @.status,
                                     events |-> Append(@.events, i)]],
      current |-> IF ends THEN NoRun ELSE IF orphan THEN acc.current ELSE no,
      unassigned |-> IF orphan THEN no ELSE acc.unassigned]

ClosedRuns(acc) ==
  IF acc.current = NoRun THEN acc.runs
  ELSE [acc.runs EXCEPT ![acc.current].status = "interrupted"]

\* The rows in a strict total order.
Ordered(before(_, _)) ==
  [n \in DOMAIN session |->
     CHOOSE i \in DOMAIN session : Cardinality({j \in DOMAIN session : before(j, i)}) = n - 1]

\* Rows by sequence number, and by id where two chats drew the same: the numbers in
\* reversed are those whose rows' ids are not in the order of creation.
ByNumberAndId(reversed) ==
  Ordered(LAMBDA i, j : \/ session[i].seq < session[j].seq
                        \/ session[i].seq = session[j].seq /\ (IF session[i].seq \in reversed THEN j < i ELSE i < j))

InferredRuns(reversed) ==
  LET order == ByNumberAndId(reversed)
      after[n \in 0..Len(session)] ==
        IF n = 0 THEN [runs |-> <<>>, current |-> NoRun, unassigned |-> NoRun]
        ELSE AssignRow(after[n - 1], order[n])
  IN ClosedRuns(after[Len(session)])

(***************************************************************************)
(* The thread sequences of _session_inference.                             *)
(***************************************************************************)
ByNumberAndTime ==
  Ordered(LAMBDA i, j : session[i].seq < session[j].seq \/ (session[i].seq = session[j].seq /\ i < j))

\* Mutant: a number that is taken is drawn again.
FreePlaceTaken(taken, seq) == seq

FreePlace(taken, seq) == CHOOSE n \in seq..(seq + Cardinality(taken)) :
                           n \notin taken /\ \A k \in seq..(n - 1) : k \in taken

\* row -> thread sequence
Places ==
  LET order == ByNumberAndTime
      drawn[n \in 0..Len(session)] ==
        IF n = 0 THEN <<>>
        ELSE Append(drawn[n - 1], FreePlace(ToSet(drawn[n - 1]), session[order[n]].seq))
      places == drawn[Len(session)]
  IN [i \in DOMAIN session |-> places[CHOOSE n \in DOMAIN session : order[n] = i]]

\* migrate-schema, when a later chat reads its result.
Migrate ==
  /\ thread = NotMigrated
  /\ session # <<>>
  /\ \E reversed \in SUBSET {n \in SequenceNos : Cardinality({i \in DOMAIN session : session[i].seq = n}) > 1} :
       thread' = [runs |-> InferredRuns(reversed), places |-> Places]
  /\ chats' = [p \in Chats |-> Away]
  /\ UNCHANGED session

LegacyNext ==
  \/ \E p \in Chats : \/ Load(p) \/ Interrupt(p)
                      \/ RecordPrompt(p) \/ RecordAnswer(p) \/ RecordCall(p)
                      \/ RecordEvent(p) \/ RecordResult(p)
  \/ Migrate

LegacySpec == LegacyInit /\ [][LegacyNext]_legacyVars

-----------------------------------------------------------------------------
(***************************************************************************)
(* _validate_sequence_and_pairs, for the rows among chosen.                *)
(***************************************************************************)
\* The chosen rows of a run come in the same order in the thread, a call is followed by
\* its result, and a result follows its call.
RunAccepted(run, chosen) ==
  LET before(k) == {run.events[h] : h \in 1..(k - 1)} \cap chosen
      open(k) == {i \in before(k) : /\ session[i].kind = "call"
                                    /\ \A j \in before(k) : session[j].kind = "result" => session[j].call # i}
  IN \A k \in {h \in DOMAIN run.events : run.events[h] \in chosen} :
       LET i == run.events[k]
       IN /\ \A j \in before(k) : thread.places[j] < thread.places[i]
          /\ IF session[i].kind = "result" THEN session[i].call \in open(k) ELSE open(k) = {}

\* A row that is no message has no role, and makes resume() raise.
ResumeAccepts(chosen) ==
  /\ \A i \in chosen : session[i].kind # "event"
  /\ \A i, j \in chosen : i # j => thread.places[i] # thread.places[j]
  /\ \A k \in DOMAIN thread.runs : RunAccepted(thread.runs[k], chosen)

-----------------------------------------------------------------------------
(***************************************************************************)
(* Properties.                                                             *)
(***************************************************************************)
Messages == {i \in DOMAIN session : session[i].kind # "event"}

\* Every row has a place of its own in the thread, in the order in which load() of v1
\* returned the rows, also where two chats drew the same numbers.
MigratedOrderKept ==
  thread # NotMigrated =>
    \A i, j \in DOMAIN session :
      session[i].seq < session[j].seq \/ (session[i].seq = session[j].seq /\ i < j)
        => thread.places[i] < thread.places[j]

\* Where no two rows have the same number, the messages of a migrated thread pass the
\* checks of resume(), however often the session was interrupted and loaded again.
NumberedMessagesReadable ==
  /\ thread # NotMigrated
  /\ \A i, j \in DOMAIN session : session[i].seq = session[j].seq => i = j
  => ResumeAccepts(Messages)

\* A migrated session can be read ("reads_legacy", tests/memory/test_transcript_activation.py
\* line 26).
MigratedThreadsReadable == thread # NotMigrated => ResumeAccepts(DOMAIN session)

=============================================================================
