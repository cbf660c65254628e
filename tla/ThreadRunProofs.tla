--------------------------- MODULE ThreadRunProofs ---------------------------
(***************************************************************************)
(* Proofs about ThreadRun, and that it implements ThreadJournal, for every *)
(* set of threads, tool-call ids and recovering processes, and every bound *)
(* on the rows.                                                            *)
(***************************************************************************)
EXTENDS ThreadRunJournal, SequenceTheorems, TLAPS

(***************************************************************************)
(* The five ways a step can change the tables.                             *)
(***************************************************************************)
ThreadChange == \E t \in Threads :
  /\ \/ threads[t].status = "none" /\ threads' = [threads EXCEPT ![t].status = "active"]
     \/ /\ threads[t].status = "active" /\ RunningIn(t) = {}
        /\ threads' = [threads EXCEPT ![t].status = "archived"]
     \/ threads[t].status = "active" /\ AllocateThreadSequence(t)
  /\ UNCHANGED <<runs, messages>>

Settling == \E r \in RunIds, target \in Terminal, final \in {NoMessage} \cup MessageIds,
               reason \in Reasons : TransitionRun(r, target, final, reason)

Appending == \E r \in RunIds, role \in Roles, calls \in SUBSET CallIds,
                result \in CallIds \cup {NoCall} :
  /\ AppendMessage(r, role, calls, result)
  /\ role = "tool" <=> result # NoCall
  /\ role = "tool" => calls = {}

StepCase == \/ ThreadChange
            \/ \E t \in Threads : BeginRun(t)
            \/ Settling
            \/ Appending
            \/ UNCHANGED <<threads, runs, messages>>

LEMMA StepCases ==
  ASSUME TypeOK, [Next]_vars
  PROVE  StepCase
<1>1. CASE ThreadStep
  BY <1>1 DEF ThreadStep, CreateThread, ArchiveThread, AddNote, StepCase, ThreadChange
<1>2. CASE TransitionStep
  BY <1>2 DEF TransitionStep, CompleteRun, FailRun, InterruptRun, StepCase, Settling,
              Terminal, Reasons
<1>3. CASE AppendStep
  <2>1. \A c \in CallIds : c # NoCall
    BY CallIdsAssumption
  <2>2. PICK r \in RunIds : AppendUser(r) \/ AppendAssistant(r) \/ AppendTool(r)
    BY <1>3 DEF AppendStep
  <2>3. CASE AppendUser(r)
    BY <2>3 DEF AppendUser, StepCase, Appending, Roles
  <2>4. CASE AppendAssistant(r)
    BY <2>4 DEF AppendAssistant, StepCase, Appending, Roles
  <2>5. CASE AppendTool(r)
    BY <2>1, <2>5 DEF AppendTool, StepCase, Appending, Roles
  <2>. QED  BY <2>2, <2>3, <2>4, <2>5
<1>4. CASE RecoverStep
  <2>1. PICK p \in Recoverers :
           \/ \E scope \in {Threads} \cup {{t} : t \in Threads} : RecoverScan(p, scope)
           \/ RecoverNext(p)
           \/ RecoverAbort(p)
    BY <1>4 DEF RecoverStep
  <2>2. CASE RecoverNext(p)
    <3>1. recovery[p] \subseteq RunIds
      BY DEF TypeOK
    <3>. QED  BY <2>2, <3>1 DEF RecoverNext, StepCase, Settling, Terminal, Reasons
  <2>. QED  BY <2>1, <2>2 DEF RecoverScan, RecoverAbort, StepCase
<1>5. CASE UNCHANGED vars
  BY <1>5 DEF vars, StepCase
<1>. QED  BY <1>1, <1>2, <1>3, <1>4, <1>5 DEF Next

(***************************************************************************)
(* What a step does to the rows of runs and messages.                      *)
(***************************************************************************)
LEMMA ProgressRow ==
  ASSUME NEW run \in RunRow, NEW role, NEW id \in Nat
  PROVE  LET row == RecordProgress(AllocateRunSequence(run), role, id)
         IN /\ row \in RunRow
            /\ row.thread = run.thread /\ row.run_no = run.run_no /\ row.status = run.status
            /\ row.next_run_sequence = run.next_run_sequence + 1
            /\ row.input_message_id \in {run.input_message_id, id}
            /\ row.final_message_id = run.final_message_id
<1>. DEFINE next == run.next_run_sequence + 1
            allocated == [run EXCEPT !.next_run_sequence = next]
            turns == IF role = "assistant" THEN run.turn_count + 1 ELSE run.turn_count
            input == IF role = "user" /\ run.input_message_id = NoMessage THEN id
                     ELSE run.input_message_id
            row == [allocated EXCEPT !.turn_count = turns, !.input_message_id = input]
<1>1. /\ next \in Nat \ {0} /\ turns \in Nat /\ input \in Nat
      /\ input \in {run.input_message_id, id}
  BY DEF RunRow
<1>2. /\ AllocateRunSequence(run) = allocated
      /\ allocated.turn_count = run.turn_count
      /\ allocated.input_message_id = run.input_message_id
  BY DEF RunRow, AllocateRunSequence
<1>3. RecordProgress(AllocateRunSequence(run), role, id) = row
  BY <1>2 DEF RunRow, RecordProgress
<1>4. next = run.next_run_sequence + 1
  OBVIOUS
<1>. HIDE DEF next, turns, input
<1>5. /\ allocated \in RunRow /\ allocated.next_run_sequence = next
      /\ allocated.thread = run.thread /\ allocated.run_no = run.run_no
      /\ allocated.status = run.status
      /\ allocated.final_message_id = run.final_message_id
  BY <1>1 DEF RunRow
<1>. HIDE DEF allocated
<1>6. /\ row \in RunRow
      /\ row.thread = allocated.thread /\ row.run_no = allocated.run_no
      /\ row.status = allocated.status
      /\ row.next_run_sequence = allocated.next_run_sequence
      /\ row.input_message_id = input
      /\ row.final_message_id = allocated.final_message_id
  BY <1>1, <1>5 DEF RunRow
<1>. QED  BY <1>1, <1>3, <1>4, <1>5, <1>6

LEMMA BeginRows ==
  ASSUME TypeOK, NEW t \in Threads, BeginRun(t)
  PROVE  /\ NewRun(t) \in RunRow
         /\ runs' \in Seq(RunRow)
         /\ Len(runs') = Len(runs) + 1
         /\ RunIds' = RunIds \cup {Len(runs) + 1}
         /\ Len(runs) + 1 \notin RunIds
         /\ \A r \in RunIds : runs'[r] = runs[r]
         /\ runs'[Len(runs) + 1] = NewRun(t)
<1>1. NewRun(t) \in RunRow
  BY DEF NewRun, RunRow, TypeOK, ThreadRow, NoMessage, Reasons
<1>2. runs \in Seq(RunRow) /\ runs' = Append(runs, NewRun(t))
  BY DEF BeginRun, TypeOK
<1>. QED  BY <1>1, <1>2, AppendProperties, LenProperties DEF RunIds

LEMMA SettleRows ==
  ASSUME TypeOK, NEW r \in RunIds, NEW target \in Terminal,
         NEW final \in {NoMessage} \cup MessageIds, NEW reason \in Reasons,
         TransitionRun(r, target, final, reason)
  PROVE  /\ runs' \in Seq(RunRow)
         /\ RunIds' = RunIds
         /\ \A s \in RunIds \ {r} : runs'[s] = runs[s]
         /\ runs'[r].thread = runs[r].thread /\ runs'[r].run_no = runs[r].run_no
         /\ runs'[r].status = target
         /\ runs'[r].next_run_sequence = runs[r].next_run_sequence
         /\ runs'[r].input_message_id = runs[r].input_message_id
         /\ runs'[r].final_message_id = final
<1>. DEFINE row == [runs[r] EXCEPT !.status = target, !.reason = reason,
                                   !.final_message_id = final]
<1>1. runs \in Seq(RunRow) /\ messages \in Seq(MessageRow)
  BY DEF TypeOK
<1>2. RunIds = 1..Len(runs) /\ MessageIds = 1..Len(messages) /\ Len(messages) \in Nat
  BY <1>1, LenProperties DEF RunIds, MessageIds
<1>3. runs[r] \in RunRow
  BY <1>1, <1>2, ElementOfSeq
<1>4. /\ row \in RunRow
      /\ row.thread = runs[r].thread /\ row.run_no = runs[r].run_no /\ row.status = target
      /\ row.next_run_sequence = runs[r].next_run_sequence
      /\ row.input_message_id = runs[r].input_message_id
      /\ row.final_message_id = final
  <2>1. final \in Nat
    BY <1>2 DEF NoMessage
  <2>. QED  BY <2>1, <1>3 DEF RunRow
<1>5. runs' = [runs EXCEPT ![r] = row]
  BY DEF TransitionRun
<1>6. /\ runs' \in Seq(RunRow) /\ Len(runs') = Len(runs)
      /\ \A j \in 1..Len(runs) : runs'[j] = IF j = r THEN row ELSE runs[j]
  BY <1>1, <1>2, <1>4, <1>5, ExceptSeq
<1>7. RunIds' = RunIds
  BY <1>2, <1>6, LenProperties DEF RunIds
<1>. HIDE DEF row
<1>. QED  BY <1>2, <1>4, <1>6, <1>7

LEMMA AppendRows ==
  ASSUME TypeOK, NEW r \in RunIds, NEW role \in Roles, NEW calls \in SUBSET CallIds,
         NEW result \in CallIds \cup {NoCall}, AppendMessage(r, role, calls, result)
  PROVE  /\ runs' \in Seq(RunRow)
         /\ RunIds' = RunIds
         /\ \A s \in RunIds \ {r} : runs'[s] = runs[s]
         /\ runs'[r].thread = runs[r].thread /\ runs'[r].run_no = runs[r].run_no
         /\ runs'[r].status = runs[r].status
         /\ runs'[r].next_run_sequence = runs[r].next_run_sequence + 1
         /\ runs'[r].input_message_id \in {runs[r].input_message_id, Len(messages) + 1}
         /\ runs'[r].final_message_id = runs[r].final_message_id
         /\ NewMessage(r, role, calls, result) \in MessageRow
         /\ messages' \in Seq(MessageRow)
         /\ Len(messages) \in Nat
         /\ MessageIds = 1..Len(messages)
         /\ MessageIds' = MessageIds \cup {Len(messages) + 1}
         /\ Len(messages) + 1 \notin MessageIds
         /\ \A m \in MessageIds : messages'[m] = messages[m]
         /\ messages'[Len(messages) + 1] = NewMessage(r, role, calls, result)
<1>. DEFINE row == RecordProgress(AllocateRunSequence(runs[r]), role, Len(messages) + 1)
<1>. DEFINE new == NewMessage(r, role, calls, result)
<1>1. runs \in Seq(RunRow) /\ messages \in Seq(MessageRow)
  BY DEF TypeOK
<1>2. RunIds = 1..Len(runs) /\ MessageIds = 1..Len(messages) /\ Len(messages) \in Nat
      /\ Len(runs) \in Nat
  BY <1>1, LenProperties DEF RunIds, MessageIds
<1>3. runs[r] \in RunRow
  BY <1>1, <1>2, ElementOfSeq
<1>4. /\ row \in RunRow
      /\ row.thread = runs[r].thread /\ row.run_no = runs[r].run_no
      /\ row.status = runs[r].status
      /\ row.next_run_sequence = runs[r].next_run_sequence + 1
      /\ row.input_message_id \in {runs[r].input_message_id, Len(messages) + 1}
      /\ row.final_message_id = runs[r].final_message_id
  BY <1>2, <1>3, ProgressRow
<1>5. runs' = [runs EXCEPT ![r] = row]
  BY DEF AppendMessage
<1>6. /\ runs' \in Seq(RunRow) /\ Len(runs') = Len(runs)
      /\ \A j \in 1..Len(runs) : runs'[j] = IF j = r THEN row ELSE runs[j]
  BY <1>1, <1>2, <1>4, <1>5, ExceptSeq
<1>7. new \in MessageRow
  <2>1. threads[runs[r].thread] \in ThreadRow
    BY <1>3 DEF TypeOK, RunRow
  <2>. QED  BY <1>2, <1>3, <2>1 DEF NewMessage, MessageRow, RunRow, ThreadRow
<1>8. messages' = Append(messages, new)
  BY DEF AppendMessage
<1>9. /\ messages' \in Seq(MessageRow) /\ Len(messages') = Len(messages) + 1
      /\ \A m \in 1..Len(messages) : messages'[m] = messages[m]
      /\ messages'[Len(messages) + 1] = new
  BY <1>1, <1>7, <1>8, AppendProperties
<1>10. RunIds' = 1..Len(runs') /\ MessageIds' = 1..Len(messages')
  BY <1>6, <1>9, LenProperties DEF RunIds, MessageIds
<1>. HIDE DEF row, new
<1>11. new = NewMessage(r, role, calls, result)
  BY DEF new
<1>. QED  BY <1>2, <1>4, <1>6, <1>7, <1>9, <1>10, <1>11

\* The ids of the tables, and the rows they name, are typed.
LEMMA RowTypes ==
  ASSUME TypeOK
  PROVE  /\ Len(runs) \in Nat /\ RunIds = 1..Len(runs)
         /\ \A r \in RunIds : runs[r] \in RunRow /\ runs[r].thread \in Threads
         /\ Len(messages) \in Nat /\ MessageIds = 1..Len(messages)
         /\ \A m \in MessageIds : messages[m] \in MessageRow /\ messages[m].run \in RunIds
<1>1. runs \in Seq(RunRow) /\ messages \in Seq(MessageRow)
  BY DEF TypeOK
<1>2. /\ Len(runs) \in Nat /\ RunIds = 1..Len(runs)
      /\ Len(messages) \in Nat /\ MessageIds = 1..Len(messages)
  BY <1>1, LenProperties DEF RunIds, MessageIds
<1>3. \A r \in RunIds : runs[r] \in RunRow
  BY <1>1, <1>2, ElementOfSeq
<1>4. \A m \in MessageIds : messages[m] \in MessageRow
  BY <1>1, <1>2, ElementOfSeq
<1>5. \A r \in RunIds : runs[r].thread \in Threads
  BY <1>3 DEF RunRow
<1>. QED  BY <1>2, <1>3, <1>4, <1>5 DEF TypeOK

\* A step that leaves messages alone leaves the transcript of every run alone.
LEMMA MessagesKept ==
  ASSUME messages' = messages
  PROVE  MessageIds' = MessageIds /\ \A r : MessagesOf(r)' = MessagesOf(r)
  BY DEF MessageIds, MessagesOf

\* An append adds its message to the transcript of its run and to no other.
LEMMA MessagesExtended ==
  ASSUME TypeOK, NEW r \in RunIds, NEW role \in Roles, NEW calls \in SUBSET CallIds,
         NEW result \in CallIds \cup {NoCall}, AppendMessage(r, role, calls, result)
  PROVE  /\ MessagesOf(r)' = MessagesOf(r) \cup {Len(messages) + 1}
         /\ \A s : s # r => MessagesOf(s)' = MessagesOf(s)
<1>1. NewMessage(r, role, calls, result).run = r
  BY DEF NewMessage
<1>2. /\ MessageIds' = MessageIds \cup {Len(messages) + 1}
      /\ \A m \in MessageIds : messages'[m] = messages[m]
      /\ messages'[Len(messages) + 1].run = r
  BY <1>1, AppendRows
<1>. QED  BY <1>2 DEF MessagesOf

-----------------------------------------------------------------------------
(***************************************************************************)
(* Type correctness.                                                       *)
(***************************************************************************)

\* Types survive a step that adds a run.
LEMMA BeginTypes ==
  ASSUME TypeOK, NEW t \in Threads, BeginRun(t)
  PROVE  /\ threads' \in [Threads -> ThreadRow]
         /\ \A r \in RunIds' : {runs'[r].input_message_id, runs'[r].final_message_id}
                                 \subseteq {NoMessage} \cup MessageIds'
<1>1. threads[t].next_run_no + 1 \in Nat \ {0}
  BY DEF TypeOK, ThreadRow
<1>2. threads' \in [Threads -> ThreadRow]
  BY <1>1 DEF TypeOK, ThreadRow, BeginRun
<1>3. MessageIds' = MessageIds
  BY DEF BeginRun, MessageIds
<1>4. \A r \in RunIds : {runs[r].input_message_id, runs[r].final_message_id}
                          \subseteq {NoMessage} \cup MessageIds
  BY DEF TypeOK
<1>5. NewRun(t).input_message_id = NoMessage /\ NewRun(t).final_message_id = NoMessage
  BY DEF NewRun
<1>. QED  BY <1>2, <1>3, <1>4, <1>5, BeginRows

\* Types survive a step that settles a run.
LEMMA SettleTypes ==
  ASSUME TypeOK, NEW r \in RunIds, NEW target \in Terminal,
         NEW final \in {NoMessage} \cup MessageIds, NEW reason \in Reasons,
         TransitionRun(r, target, final, reason)
  PROVE  \A s \in RunIds' : {runs'[s].input_message_id, runs'[s].final_message_id}
                             \subseteq {NoMessage} \cup MessageIds'
<1>1. MessageIds' = MessageIds
  BY DEF TransitionRun, MessageIds
<1>2. \A s \in RunIds : {runs[s].input_message_id, runs[s].final_message_id}
                          \subseteq {NoMessage} \cup MessageIds
  BY DEF TypeOK
<1>3. /\ RunIds' = RunIds
      /\ \A s \in RunIds \ {r} : runs'[s] = runs[s]
      /\ runs'[r].input_message_id = runs[r].input_message_id
      /\ runs'[r].final_message_id = final
  BY SettleRows
<1>. QED  BY <1>1, <1>2, <1>3

\* Types survive a step that appends a message.
LEMMA AppendTypes ==
  ASSUME TypeOK, NEW r \in RunIds, NEW role \in Roles, NEW calls \in SUBSET CallIds,
         NEW result \in CallIds \cup {NoCall}, AppendMessage(r, role, calls, result)
  PROVE  /\ threads' \in [Threads -> ThreadRow]
         /\ \A s \in RunIds' : {runs'[s].input_message_id, runs'[s].final_message_id}
                                 \subseteq {NoMessage} \cup MessageIds'
         /\ \A m \in MessageIds' : messages'[m].run \in RunIds'
<1>1. runs[r] \in RunRow
  BY DEF TypeOK, RunIds
<1>2. runs[r].thread \in Threads
  BY <1>1 DEF RunRow
<1>3. threads[runs[r].thread].next_thread_sequence + 1 \in Nat \ {0}
  BY <1>2 DEF TypeOK, ThreadRow
<1>4. threads' \in [Threads -> ThreadRow]
  BY <1>2, <1>3 DEF TypeOK, ThreadRow, AppendMessage, AllocateThreadSequence
<1>5. \A s \in RunIds : {runs[s].input_message_id, runs[s].final_message_id}
                          \subseteq {NoMessage} \cup MessageIds
  BY DEF TypeOK
<1>6. /\ runs'[r].input_message_id \in {runs[r].input_message_id, Len(messages) + 1}
      /\ runs'[r].final_message_id = runs[r].final_message_id
  BY AppendRows
<1>7. \A m \in MessageIds : messages[m].run \in RunIds
  BY DEF TypeOK
<1>8. NewMessage(r, role, calls, result).run = r
  BY DEF NewMessage
<1>. QED  BY SMTT(20), <1>4, <1>5, <1>6, <1>7, <1>8, AppendRows

\* Whatever a recovery has yet to visit was a run when it was read.
LEMMA RecoveryTypes ==
  ASSUME TypeOK, [Next]_vars
  PROVE  recovery' \in [Recoverers -> SUBSET RunIds]
<1>1. recovery \in [Recoverers -> SUBSET RunIds]
  BY DEF TypeOK
<1>2. CASE ThreadStep
  BY <1>1, <1>2 DEF ThreadStep, CreateThread, ArchiveThread, AddNote, BeginRun
<1>3. CASE TransitionStep
  BY <1>1, <1>3 DEF TransitionStep, CompleteRun, FailRun, InterruptRun
<1>4. CASE AppendStep
  BY <1>1, <1>4 DEF AppendStep, AppendUser, AppendAssistant, AppendTool, AppendMessage
<1>5. CASE RecoverStep
  <2>1. PICK p \in Recoverers :
           \/ \E scope \in {Threads} \cup {{t} : t \in Threads} : RecoverScan(p, scope)
           \/ RecoverNext(p)
           \/ RecoverAbort(p)
    BY <1>5 DEF RecoverStep
  <2>2. \A t : RunningIn(t) \subseteq RunIds
    BY DEF RunningIn, RunsOf
  <2>. QED  BY <1>1, <2>1, <2>2 DEF RecoverScan, RecoverNext, RecoverAbort
<1>6. CASE UNCHANGED vars
  BY <1>1, <1>6 DEF vars
<1>. QED  BY <1>2, <1>3, <1>4, <1>5, <1>6 DEF Next

\* Types survive every step.
LEMMA TypeStep ==
  ASSUME TypeOK, StepCase, recovery' \in [Recoverers -> SUBSET RunIds]
  PROVE  TypeOK'
<1>. DEFINE References ==
       /\ \A r \in RunIds : {runs[r].input_message_id, runs[r].final_message_id}
                              \subseteq {NoMessage} \cup MessageIds
       /\ \A m \in MessageIds : messages[m].run \in RunIds
<1>1. /\ threads \in [Threads -> ThreadRow] /\ runs \in Seq(RunRow)
      /\ messages \in Seq(MessageRow) /\ References
  BY DEF TypeOK
<1>2. SUFFICES /\ threads' \in [Threads -> ThreadRow] /\ runs' \in Seq(RunRow)
               /\ messages' \in Seq(MessageRow) /\ References'
               /\ RunIds \subseteq RunIds'
  BY DEF TypeOK
<1>3. CASE ThreadChange
  <2>1. RunIds' = RunIds /\ MessageIds' = MessageIds
    BY <1>3 DEF ThreadChange, RunIds, MessageIds
  <2>2. PICK t \in Threads :
           \/ threads' = [threads EXCEPT ![t].status = "active"]
           \/ threads' = [threads EXCEPT ![t].status = "archived"]
           \/ AllocateThreadSequence(t)
    BY <1>3 DEF ThreadChange
  <2>3. threads' \in [Threads -> ThreadRow]
    <3>1. threads[t].next_thread_sequence + 1 \in Nat \ {0}
      BY <1>1 DEF ThreadRow
    <3>2. CASE AllocateThreadSequence(t)
      BY <1>1, <3>1, <3>2 DEF ThreadRow, AllocateThreadSequence
    <3>3. threads \in [Threads -> ThreadRow]
      BY DEF TypeOK
    <3>4. CASE \/ threads' = [threads EXCEPT ![t].status = "active"]
               \/ threads' = [threads EXCEPT ![t].status = "archived"]
      BY <3>3, <3>4 DEF ThreadRow
    <3>. QED  BY <2>2, <3>2, <3>4
  <2>. QED  BY <1>1, <1>3, <2>1, <2>3 DEF ThreadChange
<1>4. ASSUME NEW t \in Threads, BeginRun(t)
      PROVE  /\ threads' \in [Threads -> ThreadRow] /\ runs' \in Seq(RunRow)
             /\ messages' \in Seq(MessageRow) /\ References'
             /\ RunIds \subseteq RunIds'
  <2>1. messages' = messages /\ MessageIds' = MessageIds
    BY <1>4 DEF BeginRun, MessageIds
  <2>. QED  BY <1>1, <1>4, <2>1, BeginRows, BeginTypes
<1>5. CASE Settling
  <2>1. PICK r \in RunIds, target \in Terminal, final \in {NoMessage} \cup MessageIds,
             reason \in Reasons : TransitionRun(r, target, final, reason)
    BY <1>5 DEF Settling
  <2>2. threads' = threads /\ messages' = messages /\ MessageIds' = MessageIds
    BY <2>1 DEF TransitionRun, MessageIds
  <2>. QED  BY <1>1, <2>1, <2>2, SettleRows, SettleTypes
<1>6. CASE Appending
  <2>1. PICK r \in RunIds, role \in Roles, calls \in SUBSET CallIds,
             result \in CallIds \cup {NoCall} : AppendMessage(r, role, calls, result)
    BY <1>6 DEF Appending
  <2>. QED  BY <1>1, <2>1, AppendRows, AppendTypes
<1>7. CASE UNCHANGED <<threads, runs, messages>>
  BY <1>1, <1>7 DEF RunIds, MessageIds
<1>. QED  BY <1>3, <1>4, <1>5, <1>6, <1>7 DEF StepCase

\* The rows of the tables keep the types of the schema (build_v2_ddl), and the
\* references from runs to messages and from messages to runs stay valid.
THEOREM TypeCorrect == Spec => []TypeOK
<1>1. Init => TypeOK
  BY EmptySeq DEF Init, TypeOK, ThreadRow, RunIds, MessageIds
<1>2. TypeOK /\ [Next]_vars => TypeOK'
  BY StepCases, RecoveryTypes, TypeStep
<1>. QED  BY <1>1, <1>2, PTL DEF Spec

-----------------------------------------------------------------------------
(***************************************************************************)
(* Runs.                                                                   *)
(***************************************************************************)

\* A step that begins a run finds no running run, one that archives a thread too.
LEMMA NewestStep ==
  ASSUME TypeOK, RunningRunIsNewest, StepCase
  PROVE  RunningRunIsNewest'
<1>. DEFINE Newest(r) == /\ threads[runs[r].thread].status = "active"
                         /\ \A s \in RunIds : runs[s].thread = runs[r].thread => s <= r
<1>. SUFFICES ASSUME NEW r \in RunIds', runs'[r].status = "running"
              PROVE  Newest(r)'
  BY DEF RunningRunIsNewest, RunsOf
<1>1. r \in RunIds /\ runs[r].status = "running" => Newest(r)
  BY DEF RunningRunIsNewest, RunsOf
<1>2. CASE ThreadChange
  <2>1. RunIds' = RunIds /\ runs' = runs
    BY <1>2 DEF ThreadChange, RunIds
  <2>2. threads'[runs[r].thread].status = threads[runs[r].thread].status
    <3>1. PICK t \in Threads :
             \/ threads[t].status = "none" /\ threads' = [threads EXCEPT ![t].status = "active"]
             \/ /\ threads[t].status = "active" /\ RunningIn(t) = {}
                /\ threads' = [threads EXCEPT ![t].status = "archived"]
             \/ AllocateThreadSequence(t)
      BY <1>2 DEF ThreadChange
    <3>2. runs[r].thread \in Threads /\ runs[r].status = "running"
      BY <2>1, RowTypes
    <3>3. threads \in [Threads -> ThreadRow]
      BY DEF TypeOK
    <3>. QED  BY <1>1, <2>1, <3>1, <3>2, <3>3
              DEF AllocateThreadSequence, RunningIn, RunsOf, ThreadRow
  <2>. QED  BY <1>1, <2>1, <2>2
<1>3. ASSUME NEW t \in Threads, BeginRun(t)
      PROVE  Newest(r)'
  <2>1. \A u \in Threads : threads'[u].status = threads[u].status
    BY <1>3 DEF BeginRun, TypeOK, ThreadRow
  <2>2. /\ threads[t].status = "active"
        /\ \A s \in RunIds : runs[s].status = "running" => runs[s].thread # t
    BY <1>3 DEF BeginRun, CanBegin, RunningIn, RunsOf
  <2>3. /\ RunIds' = RunIds \cup {Len(runs) + 1}
        /\ \A s \in RunIds : runs'[s] = runs[s]
        /\ runs'[Len(runs) + 1].thread = t
    <3>1. NewRun(t).thread = t
      BY DEF NewRun
    <3>. QED  BY <1>3, <3>1, BeginRows
  <2>4. CASE r \in RunIds
    BY <1>1, <2>1, <2>2, <2>3, <2>4, RowTypes
  <2>5. CASE r = Len(runs) + 1
    <3>1. \A s \in RunIds' : s <= Len(runs) + 1
      BY <2>3, RowTypes
    <3>. QED  BY <2>1, <2>2, <2>3, <2>5, <3>1
  <2>. QED  BY <2>3, <2>4, <2>5
<1>4. CASE Settling
  <2>1. PICK q \in RunIds, target \in Terminal, final \in {NoMessage} \cup MessageIds,
             reason \in Reasons : TransitionRun(q, target, final, reason)
    BY <1>4 DEF Settling
  <2>2. threads' = threads /\ target # "running"
    BY <2>1 DEF TransitionRun, Terminal
  <2>3. /\ RunIds' = RunIds /\ runs'[q].status # "running"
        /\ \A s \in RunIds : /\ runs'[s].thread = runs[s].thread
                             /\ s # q => runs'[s] = runs[s]
    BY <2>1, <2>2, SettleRows
  <2>4. r \in RunIds /\ r # q /\ runs'[r] = runs[r]
    BY <2>3
  <2>5. Newest(r)
    BY <1>1, <2>4
  <2>. QED  BY <2>2, <2>3, <2>4, <2>5
<1>5. CASE Appending
  <2>1. PICK q \in RunIds, role \in Roles, calls \in SUBSET CallIds,
             result \in CallIds \cup {NoCall} : AppendMessage(q, role, calls, result)
    BY <1>5 DEF Appending
  <2>2. \A u \in Threads : threads'[u].status = threads[u].status
    BY <2>1 DEF AppendMessage, AllocateThreadSequence, TypeOK, ThreadRow
  <2>3. /\ RunIds' = RunIds
        /\ \A s \in RunIds : /\ runs'[s].thread = runs[s].thread
                             /\ runs'[s].status = runs[s].status
    BY <2>1, AppendRows
  <2>4. r \in RunIds /\ runs[r].thread \in Threads /\ runs[r].status = "running"
    BY <2>3, RowTypes
  <2>5. threads'[runs'[r].thread].status = "active"
    BY <1>1, <2>2, <2>3, <2>4
  <2>6. \A s \in RunIds : runs[s].thread = runs[r].thread => s <= r
    BY <1>1, <2>4
  <2>. QED  BY <2>3, <2>4, <2>5, <2>6
<1>6. CASE UNCHANGED <<threads, runs, messages>>
  BY <1>1, <1>6 DEF RunIds
<1>. QED  BY <1>2, <1>3, <1>4, <1>5, <1>6 DEF StepCase

\* A running run is the newest of its thread and the thread is active
\* (begin_run, archive_thread): inductive given the types.
THEOREM RunningRunCorrect == Spec => []RunningRunIsNewest
<1>1. Init => RunningRunIsNewest
  BY DEF Init, RunningRunIsNewest, RunIds
<1>2. TypeOK /\ RunningRunIsNewest /\ [Next]_vars => RunningRunIsNewest'
  BY StepCases, NewestStep
<1>. QED  BY <1>1, <1>2, TypeCorrect, PTL DEF Spec

\* The row and the messages of a terminal run are those of the step before.
LEMMA TerminalKept ==
  ASSUME TypeOK, StepCase, NEW r \in RunIds, runs[r].status \in Terminal
  PROVE  runs'[r] = runs[r] /\ MessagesOf(r)' = MessagesOf(r)
<1>1. runs[r].status # "running"
  BY DEF Terminal
<1>2. CASE UNCHANGED <<runs, messages>>
  BY <1>2, MessagesKept
<1>3. ASSUME NEW t \in Threads, BeginRun(t)
      PROVE  runs'[r] = runs[r] /\ MessagesOf(r)' = MessagesOf(r)
  <2>1. messages' = messages
    BY <1>3 DEF BeginRun
  <2>2. runs'[r] = runs[r]
    BY <1>3, BeginRows
  <2>. QED  BY <2>1, <2>2, MessagesKept
<1>4. CASE Settling
  <2>1. PICK s \in RunIds, target \in Terminal, final \in {NoMessage} \cup MessageIds,
             reason \in Reasons : TransitionRun(s, target, final, reason)
    BY <1>4 DEF Settling
  <2>2. messages' = messages /\ s # r
    BY <1>1, <2>1 DEF TransitionRun, CanTransition
  <2>3. runs'[r] = runs[r]
    BY <2>1, <2>2, SettleRows
  <2>. QED  BY <2>2, <2>3, MessagesKept
<1>5. CASE Appending
  <2>1. PICK s \in RunIds, role \in Roles, calls \in SUBSET CallIds,
             result \in CallIds \cup {NoCall} : AppendMessage(s, role, calls, result)
    BY <1>5 DEF Appending
  <2>2. s # r
    BY <1>1, <2>1 DEF AppendMessage, CanAppend
  <2>3. runs'[r] = runs[r]
    BY <2>1, <2>2, AppendRows
  <2>. QED  BY <2>1, <2>2, <2>3, MessagesExtended
<1>. QED  BY <1>2, <1>3, <1>4, <1>5 DEF StepCase, ThreadChange

\* A terminal run keeps its row and its messages: transition_run and append both
\* ask for a running run in the transaction that writes, so a recovery that read
\* the run as running earlier can do it no harm.
THEOREM HistoryFrozen == Spec => TerminalRunsAreFrozen
<1>1. TypeOK /\ [Next]_vars =>
        [\A r \in RunIds : runs[r].status \in Terminal =>
            runs'[r] = runs[r] /\ MessagesOf(r)' = MessagesOf(r)]_vars
  BY StepCases, TerminalKept
<1>. QED  BY <1>1, TypeCorrect, PTL DEF Spec, TerminalRunsAreFrozen

-----------------------------------------------------------------------------
(***************************************************************************)
(* The order of the transcript.                                            *)
(*                                                                         *)
(* append allocates from two counters and inserts at the end of the table, *)
(* so what has to be kept is that insertion order, both sequences and the  *)
(* numbers of the runs agree.  A message goes to a running run, which is   *)
(* the newest of its thread: this is why no older run gets a message later.*)
(***************************************************************************)
RunOrder ==
  /\ \A r \in RunIds : runs[r].run_no < threads[runs[r].thread].next_run_no
  /\ \A r, s \in RunIds :
       r < s /\ runs[r].thread = runs[s].thread => runs[r].run_no < runs[s].run_no

MessagesNumbered ==
  \A m \in MessageIds :
    /\ messages[m].thread = runs[messages[m].run].thread
    /\ messages[m].thread_sequence < threads[messages[m].thread].next_thread_sequence
    /\ messages[m].run_sequence < runs[messages[m].run].next_run_sequence

MessagesOrdered ==
  \A m, n \in MessageIds : m < n =>
    /\ messages[m].thread = messages[n].thread =>
         /\ messages[m].thread_sequence < messages[n].thread_sequence
         /\ messages[m].run <= messages[n].run
    /\ messages[m].run = messages[n].run => messages[m].run_sequence < messages[n].run_sequence

TranscriptOrder == RunOrder /\ MessagesNumbered /\ MessagesOrdered

\* No step takes a counter of a thread back; only begin_run and append move one.
LEMMA CountersGrow ==
  ASSUME TypeOK, StepCase, NEW u \in Threads
  PROVE  /\ threads'[u].next_run_no \in Nat /\ threads[u].next_run_no \in Nat
         /\ threads'[u].next_thread_sequence \in Nat /\ threads[u].next_thread_sequence \in Nat
         /\ threads'[u].next_thread_sequence >= threads[u].next_thread_sequence
         /\ threads'[u].next_run_no >= threads[u].next_run_no
<1>1. threads \in [Threads -> ThreadRow]
  BY DEF TypeOK
<1>2. threads[u].next_run_no \in Nat /\ threads[u].next_thread_sequence \in Nat
  BY <1>1 DEF ThreadRow
<1>3. CASE ThreadChange
  <2>1. PICK t \in Threads :
           \/ threads' = [threads EXCEPT ![t].status = "active"]
           \/ threads' = [threads EXCEPT ![t].status = "archived"]
           \/ AllocateThreadSequence(t)
    BY <1>3 DEF ThreadChange
  <2>. QED  BY <1>1, <1>2, <2>1 DEF ThreadRow, AllocateThreadSequence
<1>4. ASSUME NEW t \in Threads, BeginRun(t)
      PROVE  /\ threads'[u].next_run_no \in {threads[u].next_run_no, threads[u].next_run_no + 1}
             /\ threads'[u].next_thread_sequence = threads[u].next_thread_sequence
  BY <1>1, <1>4 DEF ThreadRow, BeginRun
<1>5. CASE Settling
  BY <1>2, <1>5 DEF Settling, TransitionRun
<1>6. CASE Appending
  <2>1. PICK r \in RunIds : AllocateThreadSequence(runs[r].thread)
    BY <1>6 DEF Appending, AppendMessage
  <2>. QED  BY <1>1, <1>2, <2>1 DEF ThreadRow, AllocateThreadSequence
<1>7. CASE UNCHANGED <<threads, runs, messages>>
  BY <1>2, <1>7
<1>. QED  BY <1>2, <1>3, <1>4, <1>5, <1>6, <1>7 DEF StepCase

LEMMA RunOrderStep ==
  ASSUME TypeOK, RunOrder, StepCase
  PROVE  RunOrder'
<1>1. \A r \in RunIds : /\ runs[r].thread \in Threads /\ runs[r].run_no \in Nat
                        /\ runs[r].run_no < threads[runs[r].thread].next_run_no
  BY RowTypes DEF RunOrder, RunRow
<1>2. \A r, s \in RunIds :
        r < s /\ runs[r].thread = runs[s].thread => runs[r].run_no < runs[s].run_no
  BY DEF RunOrder
<1>3. ASSUME RunIds' = RunIds,
             \A r \in RunIds : /\ runs'[r].thread = runs[r].thread
                               /\ runs'[r].run_no = runs[r].run_no
      PROVE  RunOrder'
  BY <1>1, <1>2, <1>3, CountersGrow DEF RunOrder
<1>4. CASE UNCHANGED <<runs>>
  BY <1>3, <1>4 DEF RunIds
<1>5. ASSUME NEW t \in Threads, BeginRun(t)
      PROVE  RunOrder'
  <2>1. /\ RunIds' = RunIds \cup {Len(runs) + 1}
        /\ \A r \in RunIds : runs'[r] = runs[r]
        /\ runs'[Len(runs) + 1].thread = t
        /\ runs'[Len(runs) + 1].run_no = threads[t].next_run_no
    <3>1. NewRun(t).thread = t /\ NewRun(t).run_no = threads[t].next_run_no
      BY DEF NewRun
    <3>. QED  BY <1>5, <3>1, BeginRows
  <2>2. threads'[t].next_run_no = threads[t].next_run_no + 1 /\ threads[t].next_run_no \in Nat
    BY <1>5 DEF BeginRun, TypeOK, ThreadRow
  <2>3. \A r \in RunIds : runs'[r].run_no < threads'[runs'[r].thread].next_run_no
    BY SMTT(20), <1>1, <2>1, CountersGrow
  <2>4. \A r, s \in RunIds' :
          r < s /\ runs'[r].thread = runs'[s].thread => runs'[r].run_no < runs'[s].run_no
    BY <1>1, <1>2, <2>1, RowTypes
  <2>. QED  BY <2>1, <2>2, <2>3, <2>4 DEF RunOrder
<1>6. CASE Settling
  BY <1>3, <1>6, SettleRows DEF Settling
<1>7. CASE Appending
  BY <1>3, <1>7, AppendRows DEF Appending
<1>. QED  BY <1>4, <1>5, <1>6, <1>7 DEF StepCase, ThreadChange

\* A step that appends no message and moves no counter back keeps the transcript
\* in order.
LEMMA OrderKept ==
  ASSUME TypeOK, MessagesNumbered, MessagesOrdered, StepCase, UNCHANGED messages,
         RunIds \subseteq RunIds',
         \A r \in RunIds : /\ runs'[r].thread = runs[r].thread
                           /\ runs'[r].next_run_sequence = runs[r].next_run_sequence
  PROVE  MessagesNumbered' /\ MessagesOrdered'
<1>1. MessageIds' = MessageIds
  BY DEF MessageIds
<1>2. \A m \in MessageIds : /\ messages[m].run \in RunIds /\ messages[m].thread \in Threads
                            /\ messages[m].thread_sequence \in Nat
  BY RowTypes DEF MessageRow
<1>. QED  BY <1>1, <1>2, CountersGrow DEF MessagesNumbered, MessagesOrdered

LEMMA OrderExtended ==
  ASSUME TypeOK, RunningRunIsNewest, MessagesNumbered, MessagesOrdered,
         NEW r \in RunIds, NEW role \in Roles, NEW calls \in SUBSET CallIds,
         NEW result \in CallIds \cup {NoCall}, AppendMessage(r, role, calls, result)
  PROVE  MessagesNumbered' /\ MessagesOrdered'
<1>. DEFINE t == runs[r].thread
            new == Len(messages) + 1
<1>1. /\ RunIds' = RunIds
      /\ \A s \in RunIds : /\ runs'[s].thread = runs[s].thread
                           /\ s # r => runs'[s] = runs[s]
      /\ runs'[r].next_run_sequence = runs[r].next_run_sequence + 1
      /\ MessageIds' = MessageIds \cup {new} /\ new \notin MessageIds
      /\ \A m \in MessageIds : messages'[m] = messages[m]
      /\ \A m \in MessageIds : m < new
      /\ messages'[new] = NewMessage(r, role, calls, result)
  <2>1. \A m \in MessageIds : m < new
    BY RowTypes
  <2>. QED  BY <2>1, AppendRows
<1>2. /\ messages'[new].thread = t /\ messages'[new].run = r
      /\ messages'[new].thread_sequence = threads[t].next_thread_sequence
      /\ messages'[new].run_sequence = runs[r].next_run_sequence
  BY <1>1 DEF NewMessage
<1>3. /\ t \in Threads /\ threads[t].next_thread_sequence \in Nat
      /\ runs[r].next_run_sequence \in Nat
      /\ \A u \in Threads : /\ threads[u].next_thread_sequence \in Nat
                            /\ threads'[u].next_thread_sequence =
                                 IF u = t THEN threads[u].next_thread_sequence + 1
                                 ELSE threads[u].next_thread_sequence
  <2>1. t \in Threads /\ runs[r].next_run_sequence \in Nat
    BY RowTypes DEF RunRow
  <2>2. threads \in [Threads -> ThreadRow] /\ AllocateThreadSequence(t)
    BY DEF TypeOK, AppendMessage
  <2>. QED  BY <2>1, <2>2 DEF AllocateThreadSequence, ThreadRow
<1>4. \A m \in MessageIds :
        /\ messages[m].run \in RunIds /\ messages[m].thread \in Threads
        /\ messages[m].thread_sequence \in Nat /\ messages[m].run_sequence \in Nat
        /\ messages[m].thread = runs[messages[m].run].thread
        /\ messages[m].thread_sequence < threads[messages[m].thread].next_thread_sequence
        /\ messages[m].run_sequence < runs[messages[m].run].next_run_sequence
  BY RowTypes DEF MessageRow, MessagesNumbered
<1>5. \A s \in RunIds : runs[s].thread = t => s <= r
  BY DEF AppendMessage, CanAppend, RunningRunIsNewest, RunsOf
<1>. HIDE DEF t, new
<1>6. MessagesNumbered'
  <2>1. \A m \in MessageIds :
          /\ messages'[m].thread = runs'[messages'[m].run].thread
          /\ messages'[m].thread_sequence < threads'[messages'[m].thread].next_thread_sequence
    BY <1>1, <1>3, <1>4
  <2>2. \A m \in MessageIds :
          messages'[m].run_sequence < runs'[messages'[m].run].next_run_sequence
    BY <1>1, <1>3, <1>4
  <2>3. /\ messages'[new].thread = runs'[messages'[new].run].thread
        /\ messages'[new].thread_sequence < threads'[messages'[new].thread].next_thread_sequence
        /\ messages'[new].run_sequence < runs'[messages'[new].run].next_run_sequence
    BY <1>1, <1>2, <1>3 DEF t
  <2>. QED  BY <1>1, <2>1, <2>2, <2>3 DEF MessagesNumbered
<1>7. MessagesOrdered'
  <2>. SUFFICES ASSUME NEW m \in MessageIds', NEW n \in MessageIds', m < n
                PROVE  /\ messages'[m].thread = messages'[n].thread =>
                            /\ messages'[m].thread_sequence < messages'[n].thread_sequence
                            /\ messages'[m].run <= messages'[n].run
                       /\ messages'[m].run = messages'[n].run =>
                            messages'[m].run_sequence < messages'[n].run_sequence
    BY DEF MessagesOrdered
  <2>1. m \in MessageIds
    BY <1>1, RowTypes DEF new
  <2>2. CASE n \in MessageIds
    BY <1>1, <2>1, <2>2 DEF MessagesOrdered
  <2>3. CASE n = new
    BY <1>1, <1>2, <1>4, <1>5, <2>1, <2>3
  <2>. QED  BY <1>1, <2>2, <2>3
<1>. QED  BY <1>6, <1>7

LEMMA TranscriptOrderStep ==
  ASSUME TypeOK, RunningRunIsNewest, TranscriptOrder, StepCase
  PROVE  TranscriptOrder'
<1>1. RunOrder'
  BY RunOrderStep DEF TranscriptOrder
<1>2. MessagesNumbered' /\ MessagesOrdered'
  <2>. USE DEF TranscriptOrder
  <2>1. CASE UNCHANGED <<runs, messages>>
    BY <2>1, OrderKept DEF RunIds
  <2>2. ASSUME NEW t \in Threads, BeginRun(t)
        PROVE  MessagesNumbered' /\ MessagesOrdered'
    <3>1. messages' = messages
      BY <2>2 DEF BeginRun
    <3>. QED  BY <2>2, <3>1, BeginRows, OrderKept
  <2>3. CASE Settling
    <3>1. PICK r \in RunIds, target \in Terminal, final \in {NoMessage} \cup MessageIds,
               reason \in Reasons : TransitionRun(r, target, final, reason)
      BY <2>3 DEF Settling
    <3>2. messages' = messages
      BY <3>1 DEF TransitionRun
    <3>. QED  BY <3>1, <3>2, SettleRows, OrderKept
  <2>4. CASE Appending
    BY <2>4, OrderExtended DEF Appending
  <2>. QED  BY <2>1, <2>2, <2>3, <2>4 DEF StepCase, ThreadChange
<1>. QED  BY <1>1, <1>2 DEF TranscriptOrder

\* Insertion order, thread order, run order and run numbers agree in every state.
THEOREM TranscriptOrdered == Spec => []TranscriptOrder
<1>1. Init => TranscriptOrder
  BY DEF Init, TranscriptOrder, RunOrder, MessagesNumbered, MessagesOrdered, RunIds, MessageIds
<1>2. TypeOK /\ RunningRunIsNewest /\ TranscriptOrder /\ [Next]_vars => TranscriptOrder'
  BY StepCases, TranscriptOrderStep
<1>. QED  BY <1>1, <1>2, TypeCorrect, RunningRunCorrect, PTL DEF Spec

\* In thread order the transcript is a succession of whole runs: what append and
\* begin_run allocate, in whichever interleaving, never lets a message of an
\* earlier run follow one of a later run.
THEOREM RunsContiguous == Spec => []RunsDoNotInterleave
<1>1. TypeOK /\ TranscriptOrder => RunsDoNotInterleave
  <2>. SUFFICES ASSUME TypeOK, TranscriptOrder, NEW m \in MessageIds, NEW n \in MessageIds,
                       messages[m].thread = messages[n].thread,
                       messages[m].thread_sequence < messages[n].thread_sequence
                PROVE  runs[messages[m].run].run_no <= runs[messages[n].run].run_no
    BY DEF RunsDoNotInterleave
  <2>. DEFINE r == messages[m].run  s == messages[n].run
  <2>1. /\ m \in Nat /\ n \in Nat /\ r \in RunIds /\ s \in RunIds /\ r \in Nat /\ s \in Nat
        /\ messages[m].thread_sequence \in Nat /\ messages[n].thread_sequence \in Nat
        /\ runs[r].run_no \in Nat /\ runs[s].run_no \in Nat
    <3>1. r \in RunIds /\ s \in RunIds
      BY RowTypes
    <3>2. messages[m] \in MessageRow /\ messages[n] \in MessageRow
      BY RowTypes
    <3>3. runs[r] \in RunRow /\ runs[s] \in RunRow
      BY <3>1, RowTypes
    <3>4. m \in Nat /\ n \in Nat /\ r \in Nat /\ s \in Nat
      BY <3>1, RowTypes
    <3>5. messages[m].thread_sequence \in Nat /\ messages[n].thread_sequence \in Nat
      BY <3>2 DEF MessageRow
    <3>6. runs[r].run_no \in Nat /\ runs[s].run_no \in Nat
      BY <3>3 DEF RunRow
    <3>. QED  BY <3>1, <3>4, <3>5, <3>6
  <2>2. m < n
    BY <2>1 DEF TranscriptOrder, MessagesOrdered
  <2>3. r <= s
    BY <2>2 DEF TranscriptOrder, MessagesOrdered
  <2>4. runs[r].thread = runs[s].thread
    BY DEF TranscriptOrder, MessagesNumbered
  <2>. QED  BY <2>1, <2>3, <2>4 DEF TranscriptOrder, RunOrder
<1>. QED  BY <1>1, TypeCorrect, TranscriptOrdered, PTL

\* What a set of messages declares and consumes, as long as its rows stay.
LEMMA CallsKept ==
  ASSUME NEW M, \A m \in M : messages'[m] = messages[m]
  PROVE  Declared(M)' = Declared(M) /\ Consumed(M)' = Consumed(M) /\ Pending(M)' = Pending(M)
<1>1. {messages'[m].calls : m \in M} = {messages[m].calls : m \in M}
  OBVIOUS
<1>2. {messages'[m].result : m \in M} = {messages[m].result : m \in M}
  OBVIOUS
<1>3. Declared(M)' = Declared(M)
  BY <1>1 DEF Declared
<1>4. Consumed(M)' = Consumed(M)
  BY <1>2 DEF Consumed
<1>. QED  BY <1>3, <1>4 DEF Pending

\* A message whose row and predecessors stay as they are stays readable.
LEMMA ReadableKept ==
  ASSUME NEW m \in MessageIds, ReadableAt(m), messages'[m] = messages[m],
         SeenBefore(m)' = SeenBefore(m), \A n \in MessageIds : messages'[n] = messages[n]
  PROVE  ReadableAt(m)'
<1>. DEFINE S == SeenBefore(m)
<1>1. \A n \in S : n \in MessageIds /\ messages'[n] = messages[n]
  BY DEF SeenBefore, MessagesOf
<1>2. /\ \A n \in S : messages[n].run_sequence < messages[m].run_sequence
      /\ Pending(S) # {} => messages[m].result # NoCall
      /\ messages[m].calls \cap (Declared(S) \cup Consumed(S)) = {}
      /\ messages[m].result # NoCall => messages[m].result \in Pending(S)
  BY DEF ReadableAt
<1>3. S' = S
  OBVIOUS
<1>. HIDE DEF S
<1>4. Declared(S)' = Declared(S) /\ Consumed(S)' = Consumed(S) /\ Pending(S)' = Pending(S)
  BY <1>1, <1>3, CallsKept DEF Declared, Consumed, Pending
<1>5. /\ \A n \in S' : messages'[n].run_sequence < messages'[m].run_sequence
      /\ Pending(S)' # {} => messages'[m].result # NoCall
      /\ messages'[m].calls \cap (Declared(S)' \cup Consumed(S)') = {}
      /\ messages'[m].result # NoCall => messages'[m].result \in Pending(S)'
  BY <1>1, <1>2, <1>3, <1>4
<1>. QED  BY <1>5 DEF ReadableAt, S

\* append validates a message against the set of messages of its run; in thread
\* order these are the messages that resume has seen before it.
LEMMA ReadableExtended ==
  ASSUME TypeOK, MessagesNumbered, ThreadsReadable, NEW r \in RunIds, NEW role \in Roles,
         NEW calls \in SUBSET CallIds, NEW result \in CallIds \cup {NoCall},
         AppendMessage(r, role, calls, result), role = "tool" <=> result # NoCall
  PROVE  ThreadsReadable'
<1>0. PICK new : new = Len(messages) + 1
  OBVIOUS
<1>1. /\ MessageIds' = MessageIds \cup {new} /\ new \notin MessageIds
      /\ \A m \in MessageIds : messages'[m] = messages[m]
      /\ messages'[new] = NewMessage(r, role, calls, result)
  BY <1>0, AppendRows
<1>2. /\ messages'[new].run = r /\ messages'[new].calls = calls
      /\ messages'[new].result = result
      /\ messages'[new].thread_sequence = threads[runs[r].thread].next_thread_sequence
      /\ messages'[new].run_sequence = runs[r].next_run_sequence
  BY <1>1 DEF NewMessage
<1>3. MessagesOf(r)' = MessagesOf(r) \cup {new} /\ \A s : s # r => MessagesOf(s)' = MessagesOf(s)
  BY <1>0, MessagesExtended
<1>4. \A m \in MessagesOf(r) :
        /\ messages[m].thread_sequence < threads[runs[r].thread].next_thread_sequence
        /\ messages[m].run_sequence < runs[r].next_run_sequence
  BY DEF MessagesNumbered, MessagesOf
<1>5. /\ \A m \in MessageIds : messages[m].thread_sequence \in Nat
      /\ threads[runs[r].thread].next_thread_sequence \in Nat
  <2>1. \A m \in MessageIds : messages[m] \in MessageRow
    BY RowTypes
  <2>2. runs[r].thread \in Threads
    BY RowTypes
  <2>. QED  BY <2>1, <2>2 DEF TypeOK, MessageRow, ThreadRow
<1>6. ASSUME NEW m \in MessageIds
      PROVE  ReadableAt(m)'
  <2>1. \A n \in MessagesOf(messages[m].run) : n \in MessageIds
    BY DEF MessagesOf
  <2>2. messages[m].run = r => messages[m].thread_sequence < messages'[new].thread_sequence
    BY <1>2, <1>4 DEF MessagesOf
  <2>3. SeenBefore(m)' = SeenBefore(m)
    BY <1>1, <1>2, <1>3, <1>5, <2>1, <2>2 DEF SeenBefore
  <2>. QED  BY <1>1, <2>3, ReadableKept DEF ThreadsReadable
<1>7. ReadableAt(new)'
  <2>. DEFINE S == MessagesOf(r)
  <2>1. \A n \in S : n \in MessageIds /\ messages'[n] = messages[n]
    BY <1>1 DEF MessagesOf
  <2>2. SeenBefore(new)' = S
    BY <1>1, <1>2, <1>3, <1>4, <1>5, <2>1 DEF SeenBefore
  <2>3. ValidToolMessage(S, role, calls, result)
    BY DEF AppendMessage, CanAppend
  <2>. HIDE DEF S
  <2>4. /\ Pending(S) # {} => result # NoCall
        /\ calls \cap (Declared(S) \cup Consumed(S)) = {}
        /\ result # NoCall => result \in Pending(S)
    BY <2>3 DEF ValidToolMessage, Pending
  <2>5. /\ Declared(SeenBefore(new))' = Declared(S) /\ Consumed(SeenBefore(new))' = Consumed(S)
        /\ Pending(SeenBefore(new))' = Pending(S)
    BY <2>1, <2>2, CallsKept DEF Declared, Consumed, Pending
  <2>6. \A n \in SeenBefore(new)' : messages'[n].run_sequence < messages'[new].run_sequence
    BY <1>2, <1>4, <2>1, <2>2 DEF S
  <2>. QED  BY <1>2, <2>4, <2>5, <2>6 DEF ReadableAt
<1>. QED  BY <1>1, <1>6, <1>7 DEF ThreadsReadable

\* A step that appends no message leaves every message as readable as it was.
LEMMA ReadableStep ==
  ASSUME TypeOK, TranscriptOrder, ThreadsReadable, StepCase
  PROVE  ThreadsReadable'
<1>1. CASE UNCHANGED messages
  <2>1. MessageIds' = MessageIds
    BY <1>1 DEF MessageIds
  <2>2. \A m : SeenBefore(m)' = SeenBefore(m)
    BY <1>1, <2>1 DEF SeenBefore, MessagesOf
  <2>. QED  BY <1>1, <2>1, <2>2, ReadableKept DEF ThreadsReadable
<1>2. CASE Appending
  BY <1>2, ReadableExtended DEF Appending, TranscriptOrder
<1>. QED  BY <1>1, <1>2 DEF StepCase, ThreadChange, BeginRun, Settling, TransitionRun

\* Whatever append accepts, in whatever order and with runs failing half-way
\* through a group, resume() can read.
THEOREM ThreadsAlwaysReadable == Spec => []ThreadsReadable
<1>1. Init => ThreadsReadable
  BY DEF Init, ThreadsReadable, MessageIds
<1>2. TypeOK /\ TranscriptOrder /\ ThreadsReadable /\ [Next]_vars => ThreadsReadable'
  BY StepCases, ReadableStep
<1>. QED  BY <1>1, <1>2, TypeCorrect, TranscriptOrdered, PTL DEF Spec

-----------------------------------------------------------------------------
(***************************************************************************)
(* What the modules that work on these tables rely on, over every step of  *)
(* theirs that is one of the five.                                         *)
(***************************************************************************)
ResultsCallNothing == \A m \in MessageIds : messages[m].result # NoCall => messages[m].calls = {}

ThreadInv == /\ TypeOK /\ RunningRunIsNewest /\ TranscriptOrder /\ ThreadsReadable
             /\ ResultsCallNothing

LEMMA ThreadInvInit ==
  ASSUME Init
  PROVE  ThreadInv
<1>1. TypeOK
  BY EmptySeq DEF Init, TypeOK, ThreadRow, RunIds, MessageIds
<1>. QED  BY <1>1 DEF Init, ThreadInv, RunningRunIsNewest, TranscriptOrder, RunOrder,
             MessagesNumbered, MessagesOrdered, ThreadsReadable, ResultsCallNothing,
             RunIds, MessageIds

LEMMA ThreadInvStep ==
  ASSUME ThreadInv, StepCase, recovery' \in [Recoverers -> SUBSET RunIds]
  PROVE  ThreadInv'
<1>1. ResultsCallNothing'
  <2>1. CASE messages' = messages
    BY <2>1 DEF ThreadInv, ResultsCallNothing, MessageIds
  <2>2. CASE Appending
    <3>1. PICK r \in RunIds, role \in Roles, calls \in SUBSET CallIds,
               result \in CallIds \cup {NoCall} :
            AppendMessage(r, role, calls, result) /\ (result # NoCall => calls = {})
      BY <2>2 DEF Appending
    <3>2. /\ NewMessage(r, role, calls, result).result = result
          /\ NewMessage(r, role, calls, result).calls = calls
      BY DEF NewMessage
    <3>3. PICK new : new = Len(messages) + 1
      OBVIOUS
    <3>4. /\ MessageIds' = MessageIds \cup {new}
          /\ \A m \in MessageIds : messages'[m] = messages[m]
          /\ messages'[new] = NewMessage(r, role, calls, result)
      BY ZenonT(40), <3>1, <3>3, AppendRows DEF ThreadInv
    <3>. QED  BY <3>1, <3>2, <3>4 DEF ThreadInv, ResultsCallNothing
  <2>. QED  BY <2>1, <2>2 DEF StepCase, ThreadChange, BeginRun, Settling, TransitionRun
<1>. QED  BY <1>1, TypeStep, NewestStep, TranscriptOrderStep, ReadableStep DEF ThreadInv

\* The messages a step finds stay, and one it adds takes the next number of its
\* thread and, when it is a result, an open call of its run.
LEMMA MessageSteps ==
  ASSUME ThreadInv, StepCase
  PROVE  /\ MessageIds \subseteq MessageIds'
         /\ \A m \in MessageIds : messages'[m] = messages[m]
         /\ \A n \in MessageIds' \ MessageIds :
              /\ messages'[n].thread \in Threads
              /\ messages'[n].thread_sequence = threads[messages'[n].thread].next_thread_sequence
              /\ threads'[messages'[n].thread].next_thread_sequence
                   = threads[messages'[n].thread].next_thread_sequence + 1
              /\ messages'[n].result # NoCall =>
                   messages'[n].result \in Pending(MessagesOf(messages'[n].run))
<1>1. CASE messages' = messages
  BY <1>1 DEF MessageIds
<1>2. CASE Appending
  <2>1. PICK r \in RunIds, role \in Roles, calls \in SUBSET CallIds,
             result \in CallIds \cup {NoCall} :
          AppendMessage(r, role, calls, result) /\ (role = "tool" <=> result # NoCall)
    BY <1>2 DEF Appending
  <2>2. PICK new : new = Len(messages) + 1
    OBVIOUS
  <2>3. PICK t : t = runs[r].thread
    OBVIOUS
  <2>4. /\ MessageIds' = MessageIds \cup {new}
        /\ \A m \in MessageIds : messages'[m] = messages[m]
        /\ messages'[new] = NewMessage(r, role, calls, result)
    BY <2>1, <2>2, AppendRows DEF ThreadInv
  <2>5. /\ messages'[new].thread = t /\ messages'[new].run = r /\ messages'[new].result = result
        /\ messages'[new].thread_sequence = threads[t].next_thread_sequence
    BY <2>3, <2>4 DEF NewMessage
  <2>6. t \in Threads /\ threads \in [Threads -> ThreadRow]
    BY <2>3, RowTypes DEF ThreadInv, TypeOK
  <2>7. threads'[t].next_thread_sequence = threads[t].next_thread_sequence + 1
    BY <2>1, <2>3, <2>6 DEF AppendMessage, AllocateThreadSequence, ThreadRow
  <2>8. result # NoCall => result \in Pending(MessagesOf(r))
    BY <2>1 DEF AppendMessage, CanAppend, ValidToolMessage, Pending
  <2>. QED  BY <2>4, <2>5, <2>6, <2>7, <2>8
<1>. QED  BY <1>1, <1>2 DEF StepCase, ThreadChange, BeginRun, Settling, TransitionRun

-----------------------------------------------------------------------------
(***************************************************************************)
(* ThreadRun implements ThreadJournal.                                     *)
(***************************************************************************)
\* The runs of a thread are numbered without a gap.  With RunOrder, run_no is then
\* a bijection of the runs of a thread and 1..next_run_no - 1, and RunAt is its
\* inverse: this is what makes the mapping well defined.
RunsDense ==
  \A t \in Threads : \A n \in 1..(threads[t].next_run_no - 1) :
    \E r \in RunsOf(t) : runs[r].run_no = n

JournalInv == TypeOK /\ RunningRunIsNewest /\ RunOrder /\ RunsDense

EntriesOf(t) == [n \in 1..(threads[t].next_run_no - 1) |-> EntryOf(RunAt(t, n))]

journal == [t \in Threads |-> JournalOf(t)]

-----------------------------------------------------------------------------
(***************************************************************************)
(* Run numbers.                                                            *)
(***************************************************************************)
LEMMA RunsDenseStep ==
  ASSUME TypeOK, RunsDense, StepCase
  PROVE  RunsDense'
<1>1. ASSUME RunIds' = RunIds, \A t \in Threads : threads'[t].next_run_no = threads[t].next_run_no,
             \A r \in RunIds : /\ runs'[r].thread = runs[r].thread
                               /\ runs'[r].run_no = runs[r].run_no
      PROVE  RunsDense'
  BY <1>1 DEF RunsDense, RunsOf
<1>2. threads \in [Threads -> ThreadRow]
  BY DEF TypeOK
<1>3. CASE ThreadChange
  <2>1. PICK t \in Threads :
           \/ threads' = [threads EXCEPT ![t].status = "active"]
           \/ threads' = [threads EXCEPT ![t].status = "archived"]
           \/ AllocateThreadSequence(t)
    BY <1>3 DEF ThreadChange
  <2>2. \A u \in Threads : threads'[u].next_run_no = threads[u].next_run_no
    BY <1>2, <2>1 DEF ThreadRow, AllocateThreadSequence
  <2>. QED  BY <1>1, <1>3, <2>2 DEF ThreadChange, RunIds
<1>4. ASSUME NEW t \in Threads, BeginRun(t)
      PROVE  RunsDense'
  <2>0. PICK new : new = Len(runs) + 1
    OBVIOUS
  <2>1. NewRun(t).thread = t /\ NewRun(t).run_no = threads[t].next_run_no
    BY DEF NewRun
  <2>2. /\ RunIds' = RunIds \cup {new}
        /\ \A r \in RunIds : runs'[r] = runs[r]
        /\ runs'[new].thread = t
        /\ runs'[new].run_no = threads[t].next_run_no
    BY <1>4, <2>0, <2>1, BeginRows
  <2>3. \A u \in Threads : /\ threads[u].next_run_no \in Nat \ {0}
                           /\ threads'[u].next_run_no = IF u = t THEN threads[u].next_run_no + 1
                                                        ELSE threads[u].next_run_no
    BY <1>2, <1>4 DEF BeginRun, ThreadRow
  <2>. SUFFICES ASSUME NEW u \in Threads, NEW n \in 1..(threads'[u].next_run_no - 1)
                PROVE  \E r \in RunsOf(u)' : runs'[r].run_no = n
    BY DEF RunsDense
  <2>4. CASE n \in 1..(threads[u].next_run_no - 1)
    BY <2>2, <2>4 DEF RunsDense, RunsOf
  <2>5. CASE u = t /\ n = threads[t].next_run_no
    BY <2>2, <2>5 DEF RunsOf
  <2>. QED  BY <2>3, <2>4, <2>5
<1>5. CASE Settling
  <2>1. PICK r \in RunIds, target \in Terminal, final \in {NoMessage} \cup MessageIds,
             reason \in Reasons : TransitionRun(r, target, final, reason)
    BY <1>5 DEF Settling
  <2>2. threads' = threads
    BY <2>1 DEF TransitionRun
  <2>. QED  BY <1>1, <2>1, <2>2, SettleRows
<1>6. CASE Appending
  <2>1. PICK r \in RunIds, role \in Roles, calls \in SUBSET CallIds,
             result \in CallIds \cup {NoCall} : AppendMessage(r, role, calls, result)
    BY <1>6 DEF Appending
  <2>2. \A u \in Threads : threads'[u].next_run_no = threads[u].next_run_no
    BY <1>2, <2>1 DEF AppendMessage, AllocateThreadSequence, ThreadRow
  <2>. QED  BY <1>1, <2>1, <2>2, AppendRows
<1>7. CASE UNCHANGED <<threads, runs, messages>>
  BY <1>1, <1>7 DEF RunIds
<1>. QED  BY <1>3, <1>4, <1>5, <1>6, <1>7 DEF StepCase

LEMMA JournalInvariant == Spec => []JournalInv
<1>1. Init => RunsDense
  BY DEF Init, RunsDense
<1>2. TypeOK /\ RunsDense /\ [Next]_vars => RunsDense'
  BY StepCases, RunsDenseStep
<1>3. Spec => []RunsDense
  BY <1>1, <1>2, TypeCorrect, PTL DEF Spec
<1>. QED  BY <1>3, TypeCorrect, RunningRunCorrect, TranscriptOrdered, PTL
          DEF JournalInv, TranscriptOrder

\* RunAt is the inverse of run_no.
Numbering ==
  \A t \in Threads :
    /\ threads[t].next_run_no - 1 \in Nat
    /\ \A r \in RunsOf(t) : runs[r].run_no \in 1..(threads[t].next_run_no - 1)
    /\ \A r \in RunsOf(t), n \in Nat : runs[r].run_no = n => RunAt(t, n) = r
    /\ \A n \in 1..(threads[t].next_run_no - 1) :
         RunAt(t, n) \in RunsOf(t) /\ runs[RunAt(t, n)].run_no = n

LEMMA RunsNumbered == JournalInv => Numbering
<1>. SUFFICES ASSUME JournalInv, NEW t \in Threads
              PROVE  /\ threads[t].next_run_no - 1 \in Nat
                     /\ \A r \in RunsOf(t) : runs[r].run_no \in 1..(threads[t].next_run_no - 1)
                     /\ \A r \in RunsOf(t), n \in Nat : runs[r].run_no = n => RunAt(t, n) = r
                     /\ \A n \in 1..(threads[t].next_run_no - 1) :
                          RunAt(t, n) \in RunsOf(t) /\ runs[RunAt(t, n)].run_no = n
  BY DEF Numbering
<1>1. /\ \A r \in RunIds : r \in Nat /\ runs[r].run_no \in Nat \ {0}
      /\ threads[t].next_run_no \in Nat \ {0}
  <2>1. threads[t] \in ThreadRow
    BY DEF JournalInv, TypeOK
  <2>2. \A r \in RunIds : r \in Nat /\ runs[r] \in RunRow
    BY RowTypes DEF JournalInv
  <2>. QED  BY <2>1, <2>2 DEF ThreadRow, RunRow
<1>2. \A r \in RunsOf(t) :
        /\ r \in Nat /\ runs[r].run_no \in Nat \ {0}
        /\ runs[r].run_no < threads[t].next_run_no
  BY <1>1 DEF RunsOf, JournalInv, RunOrder
<1>3. \A r \in RunsOf(t) : runs[r].run_no \in 1..(threads[t].next_run_no - 1)
  BY <1>1, <1>2
<1>4. \A r, s \in RunsOf(t) : runs[r].run_no = runs[s].run_no => r = s
  <2>1. \A r, s \in RunsOf(t) : r < s => runs[r].run_no < runs[s].run_no
    BY DEF RunsOf, JournalInv, RunOrder
  <2>. QED  BY <1>2, <2>1
<1>5. ASSUME NEW r \in RunsOf(t), NEW n \in Nat, runs[r].run_no = n
      PROVE  RunAt(t, n) = r
  <2>1. RunAt(t, n) \in RunsOf(t) /\ runs[RunAt(t, n)].run_no = n
    BY <1>5 DEF RunAt
  <2>. QED  BY <1>4, <1>5, <2>1
<1>6. ASSUME NEW n \in 1..(threads[t].next_run_no - 1)
      PROVE  RunAt(t, n) \in RunsOf(t) /\ runs[RunAt(t, n)].run_no = n
  BY <1>6 DEF JournalInv, RunsDense, RunAt
<1>. QED  BY <1>1, <1>3, <1>5, <1>6

LEMMA RunsNumberedNext ==
  ASSUME JournalInv'
  PROVE  \A t \in Threads :
    /\ \A r \in RunsOf(t)', n \in Nat : runs'[r].run_no = n => RunAt(t, n)' = r
    /\ \A n \in 1..(threads'[t].next_run_no - 1) :
         RunAt(t, n)' \in RunsOf(t)' /\ runs'[RunAt(t, n)'].run_no = n
<1>1. JournalInv' => Numbering'
  BY RunsNumbered, PTL
<1>. QED  BY <1>1 DEF Numbering

\* Where the runs of a thread keep their numbers and their entries, its journal keeps
\* its entries.
LEMMA EntriesKept ==
  ASSUME JournalInv, JournalInv', NEW t \in Threads,
         threads'[t].next_run_no = threads[t].next_run_no, RunsOf(t)' = RunsOf(t),
         \A r \in RunsOf(t) : runs'[r].run_no = runs[r].run_no /\ EntryOf(r)' = EntryOf(r)
  PROVE  EntriesOf(t)' = EntriesOf(t)
<1>1. \A n \in 1..(threads[t].next_run_no - 1) :
        RunAt(t, n) \in RunsOf(t) /\ runs[RunAt(t, n)].run_no = n
  BY RunsNumbered DEF Numbering
<1>2. \A n \in 1..(threads[t].next_run_no - 1) : RunAt(t, n)' = RunAt(t, n)
  BY <1>1, RunsNumberedNext
<1>. SUFFICES ASSUME NEW n \in 1..(threads[t].next_run_no - 1)
              PROVE  EntryOf(RunAt(t, n))' = EntryOf(RunAt(t, n))
  BY DEF EntriesOf
<1>3. PICK r \in RunsOf(t) : RunAt(t, n) = r /\ RunAt(t, n)' = r
  BY <1>1, <1>2
<1>. QED  BY <1>3 DEF EntryOf

-----------------------------------------------------------------------------
(***************************************************************************)
(* The steps.                                                              *)
(***************************************************************************)
LEMMA JournalFields ==
  ASSUME JournalInv, NEW t \in Threads
  PROVE  /\ journal[t] = [state |-> threads[t].status, next |-> threads[t].next_thread_sequence,
                          entries |-> EntriesOf(t)]
         /\ journal[t].state = threads[t].status
         /\ journal[t].next = threads[t].next_thread_sequence
         /\ journal[t].entries = EntriesOf(t)
         /\ EntriesOf(t) \in Seq(Abstract!Entry)
         /\ Len(EntriesOf(t)) = threads[t].next_run_no - 1
         /\ threads[t].next_run_no - 1 \in Nat
         /\ \A n \in 1..(threads[t].next_run_no - 1) :
              EntriesOf(t)[n].outcome = runs[RunAt(t, n)].status
<1>1. threads[t].next_run_no - 1 \in Nat
  BY RunsNumbered DEF Numbering
<1>2. \A r \in RunIds : EntryOf(r) \in Abstract!Entry /\ EntryOf(r).outcome = runs[r].status
  <2>. SUFFICES ASSUME NEW r \in RunIds
                PROVE  EntryOf(r) \in Abstract!Entry /\ EntryOf(r).outcome = runs[r].status
    OBVIOUS
  <2>1. runs[r].status \in {"running", "completed", "failed", "interrupted"}
    BY RowTypes DEF JournalInv, RunRow, Terminal
  <2>2. \A m \in MessagesOf(r) : messages[m].thread_sequence \in Nat \ {0}
    <3>1. \A m \in MessagesOf(r) : messages[m] \in MessageRow
      BY RowTypes DEF JournalInv, MessagesOf
    <3>. QED  BY <3>1 DEF MessageRow
  <2>. QED  BY <2>1, <2>2 DEF EntryOf, Abstract!Entry, Abstract!Outcomes
<1>3. \A n \in 1..(threads[t].next_run_no - 1) : RunAt(t, n) \in RunIds
  BY RunsNumbered DEF Numbering, RunsOf
<1>4. /\ EntriesOf(t) \in [1..(threads[t].next_run_no - 1) -> Abstract!Entry]
      /\ \A n \in 1..(threads[t].next_run_no - 1) :
           EntriesOf(t)[n].outcome = runs[RunAt(t, n)].status
  BY <1>2, <1>3 DEF EntriesOf
<1>5. EntriesOf(t) \in Seq(Abstract!Entry) /\ Len(EntriesOf(t)) = threads[t].next_run_no - 1
  BY <1>1, <1>4, SeqDef
<1>6. journal[t] = [state |-> threads[t].status, next |-> threads[t].next_thread_sequence,
                    entries |-> EntriesOf(t)]
  BY DEF journal, JournalOf, EntriesOf
<1>. QED  BY <1>1, <1>4, <1>5, <1>6

LEMMA JournalNext ==
  ASSUME NEW t \in Threads
  PROVE  journal'[t] = [state |-> threads'[t].status, next |-> threads'[t].next_thread_sequence,
                        entries |-> EntriesOf(t)']
  BY DEF journal, JournalOf, EntriesOf

LEMMA JournalIs ==
  /\ journal = [t \in Threads |-> journal[t]]
  /\ journal' = [t \in Threads |-> journal'[t]]
  BY DEF journal

\* No run of the thread is running: its journal is settled.
LEMMA SettledJournal ==
  ASSUME JournalInv, NEW t \in Threads, RunningIn(t) = {}
  PROVE  Abstract!Settled(journal[t])
<1>1. \A n \in 1..(threads[t].next_run_no - 1) : runs[RunAt(t, n)].status # "running"
  BY RunsNumbered DEF Numbering, RunningIn
<1>2. /\ journal[t].entries = EntriesOf(t) /\ Len(EntriesOf(t)) = threads[t].next_run_no - 1
      /\ \A n \in 1..(threads[t].next_run_no - 1) :
           EntriesOf(t)[n].outcome = runs[RunAt(t, n)].status
  BY JournalFields
<1>. QED  BY <1>1, <1>2 DEF Abstract!Settled

\* The running run of a thread is the last entry of its journal.
LEMMA OpenJournal ==
  ASSUME JournalInv, NEW r \in RunIds, runs[r].status = "running"
  PROVE  LET t == runs[r].thread
             last == Len(EntriesOf(t))
         IN /\ t \in Threads /\ threads[t].status = "active"
            /\ last \in 1..(threads[t].next_run_no - 1) /\ RunAt(t, last) = r
            /\ EntriesOf(t)[last] = EntryOf(r)
            /\ Abstract!Open(journal[t])
<1>. DEFINE t == runs[r].thread
            last == Len(EntriesOf(t))
<1>1. t \in Threads /\ threads[t].status = "active" /\ r \in RunsOf(t)
      /\ \A s \in RunsOf(t) : s <= r
  BY RowTypes DEF JournalInv, RunningRunIsNewest, RunsOf
<1>2. /\ last = threads[t].next_run_no - 1 /\ last \in Nat
      /\ journal[t].entries = EntriesOf(t)
      /\ EntriesOf(t) \in Seq(Abstract!Entry)
      /\ \A n \in 1..last : EntriesOf(t)[n].outcome = runs[RunAt(t, n)].status
  <2>1. t \in Threads
    BY <1>1
  <2>. HIDE DEF t
  <2>. QED  BY <2>1, JournalFields
<1>3. runs[r].run_no \in 1..last /\ RunAt(t, runs[r].run_no) = r
  BY <1>1, <1>2, RunsNumbered DEF Numbering
<1>4. RunAt(t, last) \in RunsOf(t) /\ runs[RunAt(t, last)].run_no = last
  BY <1>1, <1>2, <1>3, RunsNumbered DEF Numbering
<1>5. RunAt(t, last) = r
  <2>1. PICK s \in RunsOf(t) : s = RunAt(t, last) /\ runs[s].run_no = last
    BY <1>4
  <2>2. s <= r /\ s \in Nat /\ r \in Nat
    BY <1>1, <2>1, RowTypes DEF JournalInv, RunsOf
  <2>3. s < r => last < runs[r].run_no
    BY <1>1, <2>1 DEF JournalInv, RunOrder, RunsOf
  <2>. QED  BY <1>2, <1>3, <2>1, <2>2, <2>3
<1>6. EntriesOf(t)[last] = EntryOf(r)
  <2>1. \A n \in 1..(threads[t].next_run_no - 1) : EntriesOf(t)[n] = EntryOf(RunAt(t, n))
    BY DEF EntriesOf
  <2>2. last \in 1..(threads[t].next_run_no - 1)
    BY <1>2, <1>3
  <2>. HIDE DEF last
  <2>. QED  BY <1>5, <2>1, <2>2
<1>7. Abstract!Open(journal[t])
  BY <1>2, <1>3, <1>5, EmptySeq DEF Abstract!Open
<1>. QED  BY <1>1, <1>2, <1>3, <1>5, <1>6, <1>7

LEMMA JournalKept ==
  ASSUME JournalInv, JournalInv', NEW t \in Threads, threads'[t] = threads[t],
         RunsOf(t)' = RunsOf(t),
         \A r \in RunsOf(t) : runs'[r].run_no = runs[r].run_no /\ EntryOf(r)' = EntryOf(r)
  PROVE  journal'[t] = journal[t]
<1>1. EntriesOf(t)' = EntriesOf(t)
  BY EntriesKept
<1>. QED  BY <1>1, JournalFields, JournalNext

\* Only the journal of t changes.
LEMMA JournalChanged ==
  ASSUME NEW t \in Threads, NEW j, journal'[t] = j,
         \A u \in Threads \ {t} : journal'[u] = journal[u]
  PROVE  journal' = [journal EXCEPT ![t] = j]
<1>1. [u \in Threads |-> journal'[u]] = [[u \in Threads |-> journal[u]] EXCEPT ![t] = j]
  OBVIOUS
<1>. QED  BY <1>1, JournalIs

\* create_thread, archive_thread, and a note or summary that takes a number.
LEMMA ThreadChangeJournal ==
  ASSUME JournalInv, JournalInv', ThreadChange
  PROVE  Abstract!Next
<1>1. PICK t \in Threads :
         \/ threads[t].status = "none" /\ threads' = [threads EXCEPT ![t].status = "active"]
         \/ /\ threads[t].status = "active" /\ RunningIn(t) = {}
            /\ threads' = [threads EXCEPT ![t].status = "archived"]
         \/ threads[t].status = "active" /\ AllocateThreadSequence(t)
  BY DEF ThreadChange
<1>2. /\ \A u : RunsOf(u)' = RunsOf(u)
      /\ \A r : runs'[r].run_no = runs[r].run_no /\ EntryOf(r)' = EntryOf(r)
  BY DEF ThreadChange, RunsOf, RunIds, EntryOf, MessagesOf, MessageIds
<1>3. threads \in [Threads -> ThreadRow]
  BY DEF JournalInv, TypeOK
<1>4. \A u \in Threads \ {t} : threads'[u] = threads[u]
  BY <1>1, <1>3 DEF AllocateThreadSequence
<1>5. \A u \in Threads \ {t} : journal'[u] = journal[u]
  BY <1>2, <1>4, JournalKept
<1>6. threads'[t].next_run_no = threads[t].next_run_no
  BY <1>1, <1>3 DEF AllocateThreadSequence, ThreadRow
<1>7. EntriesOf(t)' = EntriesOf(t)
  BY <1>2, <1>6, EntriesKept
<1>8. /\ journal[t] = [state |-> threads[t].status, next |-> threads[t].next_thread_sequence,
                       entries |-> EntriesOf(t)]
      /\ journal[t].state = threads[t].status
      /\ journal'[t] = [state |-> threads'[t].status, next |-> threads'[t].next_thread_sequence,
                        entries |-> EntriesOf(t)]
  BY <1>7, JournalFields, JournalNext
<1>9. CASE threads[t].status = "none" /\ threads' = [threads EXCEPT ![t].status = "active"]
  <2>1. /\ threads'[t].status = "active"
        /\ threads'[t].next_thread_sequence = threads[t].next_thread_sequence
    BY <1>3, <1>9 DEF ThreadRow
  <2>2. journal'[t] = [journal[t] EXCEPT !.state = "active"]
    BY <1>8, <2>1
  <2>3. journal' = [journal EXCEPT ![t] = [journal[t] EXCEPT !.state = "active"]]
    BY <1>5, <2>2, JournalChanged
  <2>4. Abstract!Create(t)
    BY <1>8, <1>9, <2>3 DEF Abstract!Create, journal
  <2>. QED  BY <2>4 DEF Abstract!Next
<1>10. CASE /\ threads[t].status = "active" /\ RunningIn(t) = {}
            /\ threads' = [threads EXCEPT ![t].status = "archived"]
  <2>1. /\ threads'[t].status = "archived"
        /\ threads'[t].next_thread_sequence = threads[t].next_thread_sequence
    BY <1>3, <1>10 DEF ThreadRow
  <2>2. journal'[t] = [journal[t] EXCEPT !.state = "archived"]
    BY <1>8, <2>1
  <2>3. journal' = [journal EXCEPT ![t] = [journal[t] EXCEPT !.state = "archived"]]
    BY <1>5, <2>2, JournalChanged
  <2>4. Abstract!Settled(journal[t])
    BY <1>10, SettledJournal
  <2>5. Abstract!Close(t)
    BY <1>8, <1>10, <2>3, <2>4 DEF Abstract!Close, journal
  <2>. QED  BY <2>5 DEF Abstract!Next
<1>11. CASE threads[t].status = "active" /\ AllocateThreadSequence(t)
  <2>1. /\ threads'[t].status = threads[t].status
        /\ threads'[t].next_thread_sequence = threads[t].next_thread_sequence + 1
    BY <1>3, <1>11 DEF AllocateThreadSequence, ThreadRow
  <2>2. journal'[t] = [journal[t] EXCEPT !.next = @ + 1]
    BY <1>8, <2>1
  <2>3. journal' = [journal EXCEPT ![t] = [journal[t] EXCEPT !.next = @ + 1]]
    BY <1>5, <2>2, JournalChanged
  <2>4. Abstract!Skip(t)
    BY <1>8, <1>11, <2>3 DEF Abstract!Skip, journal
  <2>. QED  BY <2>4 DEF Abstract!Next
<1>. QED  BY <1>1, <1>9, <1>10, <1>11

\* begin_run adds an open entry.
LEMMA BeginJournal ==
  ASSUME JournalInv, JournalInv', NEW t \in Threads, BeginRun(t)
  PROVE  Abstract!Start(t)
<1>. DEFINE opened == [outcome |-> "running", lines |-> {}]
<1>0. PICK k \in Nat : k = threads[t].next_run_no - 1 /\ threads[t].next_run_no = k + 1
  <2>1. threads[t] \in ThreadRow
    BY DEF JournalInv, TypeOK
  <2>. QED  BY <2>1 DEF ThreadRow
<1>1. PICK new : new = Len(runs) + 1
  OBVIOUS
<1>2. /\ NewRun(t).thread = t /\ NewRun(t).run_no = threads[t].next_run_no
      /\ NewRun(t).status = "running"
  BY DEF NewRun
<1>3. /\ RunIds' = RunIds \cup {new} /\ new \notin RunIds
      /\ \A r \in RunIds : runs'[r] = runs[r]
      /\ runs'[new].thread = t /\ runs'[new].run_no = threads[t].next_run_no
      /\ runs'[new].status = "running"
  BY <1>1, <1>2, BeginRows DEF JournalInv
<1>4. /\ RunsOf(t)' = RunsOf(t) \cup {new}
      /\ \A u : u # t => RunsOf(u)' = RunsOf(u)
  BY <1>3 DEF RunsOf
<1>5. \A r : MessagesOf(r)' = MessagesOf(r)
  BY MessagesKept DEF BeginRun
<1>6. \A r \in RunIds : runs'[r].run_no = runs[r].run_no /\ EntryOf(r)' = EntryOf(r)
  BY <1>3, <1>5 DEF EntryOf, BeginRun
<1>7. EntryOf(new)' = opened
  <2>1. MessagesOf(new) = {}
    BY <1>3, RowTypes DEF JournalInv, MessagesOf
  <2>. QED  BY <1>3, <1>5, <2>1 DEF EntryOf
<1>8. threads \in [Threads -> ThreadRow]
  BY DEF JournalInv, TypeOK
<1>9. /\ \A u \in Threads \ {t} : threads'[u] = threads[u]
      /\ threads'[t].status = threads[t].status /\ threads[t].status = "active"
      /\ threads'[t].next_thread_sequence = threads[t].next_thread_sequence
      /\ threads'[t].next_run_no = threads[t].next_run_no + 1 /\ threads[t].next_run_no \in Nat
  BY <1>8 DEF BeginRun, CanBegin, ThreadRow
<1>10. \A u \in Threads \ {t} : journal'[u] = journal[u]
  BY <1>4, <1>6, <1>9, JournalKept DEF RunsOf
<1>11. /\ EntriesOf(t) \in Seq(Abstract!Entry) /\ Len(EntriesOf(t)) = k
       /\ \A n \in 1..k : EntriesOf(t)[n] = EntryOf(RunAt(t, n))
  BY <1>0, JournalFields DEF EntriesOf
<1>12. \A n \in 1..k : EntryOf(RunAt(t, n))' = EntryOf(RunAt(t, n))
  <2>. SUFFICES ASSUME NEW n \in 1..k
                PROVE  EntryOf(RunAt(t, n))' = EntryOf(RunAt(t, n))
    OBVIOUS
  <2>1. PICK r : r = RunAt(t, n)
    OBVIOUS
  <2>2. r \in RunsOf(t) /\ runs[r].run_no = n
    BY <1>0, <2>1, RunsNumbered DEF Numbering
  <2>3. r \in RunIds
    BY <2>2 DEF RunsOf
  <2>4. RunAt(t, n)' = r
    BY <1>4, <1>6, <2>2, <2>3, RunsNumberedNext
  <2>5. EntryOf(RunAt(t, n))' = EntryOf(r)'
    BY <2>4 DEF EntryOf
  <2>. QED  BY <1>6, <2>1, <2>3, <2>5
<1>13. EntryOf(RunAt(t, k + 1))' = opened
  <2>1. RunAt(t, k + 1)' = new
    BY <1>0, <1>3, <1>4, RunsNumberedNext
  <2>2. EntryOf(RunAt(t, k + 1))' = EntryOf(new)'
    BY <2>1 DEF EntryOf
  <2>. QED  BY <1>7, <2>2
<1>14. EntriesOf(t)' = [n \in 1..(k + 1) |-> EntryOf(RunAt(t, n))']
  BY <1>0, <1>9 DEF EntriesOf
<1>15. EntriesOf(t)' = Append(EntriesOf(t), opened)
  <2>1. opened \in Abstract!Entry
    BY DEF Abstract!Entry
  <2>2. EntriesOf(t)' \in [1..(k + 1) -> Abstract!Entry]
    BY <1>11, <1>12, <1>13, <1>14, <2>1, ElementOfSeq
  <2>3. EntriesOf(t)' \in Seq(Abstract!Entry) /\ Len(EntriesOf(t)') = k + 1
    BY <2>2, SeqDef
  <2>4. /\ Append(EntriesOf(t), opened) \in Seq(Abstract!Entry)
        /\ Len(Append(EntriesOf(t), opened)) = k + 1
        /\ \A n \in 1..k : Append(EntriesOf(t), opened)[n] = EntriesOf(t)[n]
        /\ Append(EntriesOf(t), opened)[k + 1] = opened
    BY <1>11, <2>1, AppendProperties
  <2>5. \A n \in 1..(k + 1) : EntriesOf(t)'[n] = Append(EntriesOf(t), opened)[n]
    BY <1>11, <1>12, <1>13, <1>14, <2>4
  <2>. QED  BY <2>3, <2>4, <2>5, SeqEqual
<1>16. /\ journal[t] = [state |-> threads[t].status, next |-> threads[t].next_thread_sequence,
                        entries |-> EntriesOf(t)]
       /\ journal[t].state = threads[t].status /\ journal[t].entries = EntriesOf(t)
       /\ journal'[t] = [state |-> threads'[t].status,
                         next |-> threads'[t].next_thread_sequence,
                         entries |-> Append(EntriesOf(t), opened)]
  BY <1>15, JournalFields, JournalNext
<1>17. journal'[t] = [journal[t] EXCEPT !.entries = Append(journal[t].entries, opened)]
  <2>1. PICK entries : entries = Append(EntriesOf(t), opened)
    OBVIOUS
  <2>2. journal'[t] = [state |-> threads[t].status, next |-> threads[t].next_thread_sequence,
                       entries |-> entries]
    BY <1>9, <1>16, <2>1
  <2>3. journal[t] = [state |-> threads[t].status, next |-> threads[t].next_thread_sequence,
                      entries |-> EntriesOf(t)]
    BY <1>16
  <2>4. journal'[t] = [journal[t] EXCEPT !.entries = entries]
    BY <2>2, <2>3
  <2>. QED  BY <1>16, <2>1, <2>4
<1>18. journal' = [journal EXCEPT ![t] =
                     [journal[t] EXCEPT !.entries = Append(journal[t].entries, opened)]]
  BY <1>10, <1>17, JournalChanged
<1>19. Abstract!Settled(journal[t])
  BY SettledJournal DEF BeginRun, CanBegin
<1>. QED  BY <1>9, <1>16, <1>18, <1>19 DEF Abstract!Start, journal

\* Where one run changes its entry, its thread's journal changes that entry.
LEMMA EntryChanged ==
  ASSUME JournalInv, JournalInv', NEW r \in RunIds, runs[r].status = "running",
         RunIds' = RunIds,
         \A s \in RunIds : runs'[s].thread = runs[s].thread /\ runs'[s].run_no = runs[s].run_no,
         \A s \in RunIds \ {r} : EntryOf(s)' = EntryOf(s),
         \A u \in Threads : threads'[u].next_run_no = threads[u].next_run_no,
         NEW t, t = runs[r].thread, NEW last, last = Len(EntriesOf(t))
  PROVE  /\ EntriesOf(t)' = [EntriesOf(t) EXCEPT ![last] = EntryOf(r)']
         /\ \A u \in Threads \ {t} : EntriesOf(u)' = EntriesOf(u)
<1>1. /\ t \in Threads /\ last \in 1..(threads[t].next_run_no - 1) /\ RunAt(t, last) = r
      /\ threads[t].next_run_no \in Nat
  BY OpenJournal, RunsNumbered DEF Numbering, JournalInv, TypeOK, ThreadRow
<1>2. \A u : RunsOf(u)' = RunsOf(u)
  BY DEF RunsOf
<1>3. \A u : RunsOf(u) \subseteq RunIds /\ (u # t => r \notin RunsOf(u))
  BY DEF RunsOf
<1>4. ASSUME NEW n \in 1..(threads[t].next_run_no - 1)
      PROVE  EntryOf(RunAt(t, n))' = IF n = last THEN EntryOf(r)' ELSE EntryOf(RunAt(t, n))
  <2>1. PICK s : s = RunAt(t, n)
    OBVIOUS
  <2>2. s \in RunsOf(t) /\ runs[s].run_no = n /\ n \in Nat
    BY <1>1, <2>1, RunsNumbered DEF Numbering
  <2>3. RunAt(t, n)' = s
    BY <1>1, <1>2, <1>3, <2>2, RunsNumberedNext
  <2>4. EntryOf(RunAt(t, n))' = EntryOf(s)'
    BY <2>3 DEF EntryOf
  <2>5. n # last => s # r
    BY <1>1, <2>2, RunsNumbered DEF Numbering
  <2>. QED  BY <1>1, <1>3, <2>1, <2>2, <2>4, <2>5
<1>5. EntriesOf(t)' = [EntriesOf(t) EXCEPT ![last] = EntryOf(r)']
  BY <1>1, <1>4 DEF EntriesOf
<1>6. \A u \in Threads \ {t} : EntriesOf(u)' = EntriesOf(u)
  BY <1>2, <1>3, EntriesKept
<1>. QED  BY <1>5, <1>6

\* complete_run, fail_run, an interrupt and a recovery settle the open entry.
LEMMA SettleJournal ==
  ASSUME JournalInv, JournalInv', Settling
  PROVE  Abstract!Next
<1>1. PICK r \in RunIds, target \in Terminal, final \in {NoMessage} \cup MessageIds,
           reason \in Reasons : TransitionRun(r, target, final, reason)
  BY DEF Settling
<1>2. /\ runs[r].status = "running" /\ threads' = threads /\ messages' = messages
  BY <1>1 DEF TransitionRun, CanTransition
<1>3. PICK t, last : t = runs[r].thread /\ last = Len(EntriesOf(t))
  OBVIOUS
<1>4. /\ t \in Threads /\ last \in 1..(threads[t].next_run_no - 1)
      /\ EntriesOf(t)[last] = EntryOf(r) /\ Abstract!Open(journal[t])
  BY <1>2, <1>3, OpenJournal
<1>5. /\ RunIds' = RunIds
      /\ \A s \in RunIds \ {r} : runs'[s] = runs[s]
      /\ runs'[r].thread = runs[r].thread /\ runs'[r].run_no = runs[r].run_no
      /\ runs'[r].status = target
  BY <1>1, SettleRows DEF JournalInv
<1>6. \A s : MessagesOf(s)' = MessagesOf(s)
  BY <1>2, MessagesKept
<1>7. \A s \in RunIds \ {r} : EntryOf(s)' = EntryOf(s)
  BY <1>2, <1>5, <1>6 DEF EntryOf
<1>8. EntryOf(r)' = [EntryOf(r) EXCEPT !.outcome = target]
  <2>1. PICK lines : lines = {messages[m].thread_sequence : m \in MessagesOf(r)}
    OBVIOUS
  <2>2. EntryOf(r) = [outcome |-> runs[r].status, lines |-> lines]
    BY <2>1 DEF EntryOf
  <2>3. EntryOf(r)' = [outcome |-> target, lines |-> lines]
    BY <1>2, <1>5, <1>6, <2>1 DEF EntryOf
  <2>. QED  BY <2>2, <2>3
<1>9. /\ EntriesOf(t)' = [EntriesOf(t) EXCEPT ![last] = EntryOf(r)']
      /\ \A u \in Threads \ {t} : EntriesOf(u)' = EntriesOf(u)
  BY <1>2, <1>3, <1>5, <1>7, EntryChanged
<1>10. \A u \in Threads :
         /\ journal[u] = [state |-> threads[u].status, next |-> threads[u].next_thread_sequence,
                          entries |-> EntriesOf(u)]
         /\ journal'[u] = [state |-> threads[u].status, next |-> threads[u].next_thread_sequence,
                           entries |-> EntriesOf(u)']
  BY <1>2, JournalFields, JournalNext
<1>11. \A u \in Threads \ {t} : journal'[u] = journal[u]
  BY <1>9, <1>10
<1>12. journal[t].entries = EntriesOf(t) /\ last = Len(journal[t].entries)
  BY <1>3, <1>4, JournalFields
<1>13. EntriesOf(t)' = [journal[t].entries EXCEPT ![last].outcome = target]
  BY <1>4, <1>8, <1>9, <1>12
<1>14. journal'[t] = [journal[t] EXCEPT !.entries[last].outcome = target]
  <2>1. PICK entries : entries = EntriesOf(t)'
    OBVIOUS
  <2>2. journal'[t] = [state |-> threads[t].status, next |-> threads[t].next_thread_sequence,
                       entries |-> entries]
    BY <1>4, <1>10, <2>1
  <2>3. journal[t] = [state |-> threads[t].status, next |-> threads[t].next_thread_sequence,
                      entries |-> EntriesOf(t)]
    BY <1>4, <1>10
  <2>4. journal'[t] = [journal[t] EXCEPT !.entries = entries]
    BY <2>2, <2>3
  <2>5. entries = [journal[t].entries EXCEPT ![last].outcome = target]
    BY <1>13, <2>1
  <2>. QED  BY <2>4, <2>5
<1>15. journal' = [journal EXCEPT ![t] = [journal[t] EXCEPT !.entries[last].outcome = target]]
  BY <1>4, <1>11, <1>14, JournalChanged
<1>16. Abstract!Settle(t, target)
  BY <1>4, <1>12, <1>15 DEF Abstract!Settle, journal
<1>17. target \in Abstract!Outcomes
  BY DEF Terminal, Abstract!Outcomes
<1>. QED  BY <1>4, <1>16, <1>17 DEF Abstract!Next

\* append writes a line to the open entry, with the next number of the journal.
LEMMA AppendJournal ==
  ASSUME JournalInv, JournalInv', Appending
  PROVE  Abstract!Next
<1>1. PICK r \in RunIds, role \in Roles, calls \in SUBSET CallIds,
           result \in CallIds \cup {NoCall} : AppendMessage(r, role, calls, result)
  BY DEF Appending
<1>2. PICK t, last : t = runs[r].thread /\ last = Len(EntriesOf(t))
  OBVIOUS
<1>3. /\ runs[r].status = "running" /\ threads[t].status = "active" /\ AllocateThreadSequence(t)
  BY <1>1, <1>2 DEF AppendMessage, CanAppend
<1>4. /\ t \in Threads /\ last \in 1..(threads[t].next_run_no - 1)
      /\ EntriesOf(t)[last] = EntryOf(r) /\ Abstract!Open(journal[t])
  BY <1>2, <1>3, OpenJournal
<1>5. PICK new, number : new = Len(messages) + 1 /\ number = threads[t].next_thread_sequence
  OBVIOUS
<1>6. /\ RunIds' = RunIds
      /\ \A s \in RunIds \ {r} : runs'[s] = runs[s]
      /\ runs'[r].thread = runs[r].thread /\ runs'[r].run_no = runs[r].run_no
      /\ runs'[r].status = runs[r].status
      /\ \A m \in MessageIds : messages'[m] = messages[m]
      /\ messages'[new] = NewMessage(r, role, calls, result)
  BY <1>1, <1>5, AppendRows DEF JournalInv
<1>7. messages'[new].thread_sequence = number
  BY <1>2, <1>5, <1>6 DEF NewMessage
<1>8. MessagesOf(r)' = MessagesOf(r) \cup {new} /\ \A s : s # r => MessagesOf(s)' = MessagesOf(s)
  BY <1>1, <1>5, MessagesExtended DEF JournalInv
<1>9. \A s : MessagesOf(s) \subseteq MessageIds
  BY DEF MessagesOf
<1>10. \A s \in RunIds \ {r} : EntryOf(s)' = EntryOf(s)
  <2>. SUFFICES ASSUME NEW s \in RunIds \ {r}
                PROVE  EntryOf(s)' = EntryOf(s)
    OBVIOUS
  <2>1. {messages'[m].thread_sequence : m \in MessagesOf(s)'}
          = {messages[m].thread_sequence : m \in MessagesOf(s)}
    BY <1>6, <1>8, <1>9
  <2>2. runs'[s] = runs[s]
    BY <1>6
  <2>. QED  BY <2>1, <2>2 DEF EntryOf
<1>11. EntryOf(r)' = [EntryOf(r) EXCEPT !.lines = @ \cup {number}]
  <2>1. PICK lines : lines = {messages[m].thread_sequence : m \in MessagesOf(r)}
    OBVIOUS
  <2>2. EntryOf(r) = [outcome |-> runs[r].status, lines |-> lines]
    BY <2>1 DEF EntryOf
  <2>3. {messages'[m].thread_sequence : m \in MessagesOf(r)'} = lines \cup {number}
    BY <1>6, <1>7, <1>8, <1>9, <2>1
  <2>4. runs'[r].status = runs[r].status
    BY <1>6
  <2>5. EntryOf(r)' = [outcome |-> runs[r].status, lines |-> lines \cup {number}]
    BY <2>3, <2>4 DEF EntryOf
  <2>. QED  BY <2>2, <2>5
<1>12. threads \in [Threads -> ThreadRow]
  BY DEF JournalInv, TypeOK
<1>13. /\ \A u \in Threads \ {t} : threads'[u] = threads[u]
       /\ \A u \in Threads : threads'[u].next_run_no = threads[u].next_run_no
       /\ threads'[t].status = threads[t].status
       /\ threads'[t].next_thread_sequence = number + 1
  BY <1>3, <1>4, <1>5, <1>12 DEF AllocateThreadSequence, ThreadRow
<1>14. /\ EntriesOf(t)' = [EntriesOf(t) EXCEPT ![last] = EntryOf(r)']
       /\ \A u \in Threads \ {t} : EntriesOf(u)' = EntriesOf(u)
  BY ZenonT(40), <1>2, <1>3, <1>6, <1>10, <1>13, EntryChanged
<1>15. /\ \A u \in Threads :
            journal[u] = [state |-> threads[u].status, next |-> threads[u].next_thread_sequence,
                          entries |-> EntriesOf(u)]
       /\ \A u \in Threads :
            journal'[u] = [state |-> threads'[u].status,
                           next |-> threads'[u].next_thread_sequence,
                           entries |-> EntriesOf(u)']
  BY JournalFields, JournalNext
<1>16. \A u \in Threads \ {t} : journal'[u] = journal[u]
  <2>. SUFFICES ASSUME NEW u \in Threads \ {t}
                PROVE  journal'[u] = journal[u]
    OBVIOUS
  <2>1. threads'[u] = threads[u]
    BY <1>13
  <2>2. EntriesOf(u)' = EntriesOf(u)
    BY <1>14
  <2>3. journal[u] = [state |-> threads[u].status, next |-> threads[u].next_thread_sequence,
                      entries |-> EntriesOf(u)]
    BY <1>15
  <2>4. journal'[u] = [state |-> threads'[u].status, next |-> threads'[u].next_thread_sequence,
                       entries |-> EntriesOf(u)']
    BY <1>15
  <2>. QED  BY <2>1, <2>2, <2>3, <2>4
<1>17. /\ journal[t].entries = EntriesOf(t) /\ last = Len(journal[t].entries)
       /\ journal[t].next = number /\ journal[t].state = "active"
  BY <1>2, <1>3, <1>4, <1>5, JournalFields
<1>18. EntriesOf(t)' = [journal[t].entries EXCEPT ![last].lines = @ \cup {number}]
  BY <1>4, <1>11, <1>14, <1>17
<1>19. journal'[t] = [journal[t] EXCEPT !.next = @ + 1,
                                        !.entries[last].lines = @ \cup {number}]
  <2>1. PICK entries : entries = EntriesOf(t)'
    OBVIOUS
  <2>2. journal'[t] = [state |-> threads[t].status, next |-> number + 1, entries |-> entries]
    BY <1>4, <1>13, <1>15, <2>1
  <2>3. journal[t] = [state |-> threads[t].status, next |-> number, entries |-> EntriesOf(t)]
    BY <1>4, <1>5, <1>15
  <2>4. PICK mid : mid = [journal[t] EXCEPT !.next = @ + 1]
    OBVIOUS
  <2>5. mid = [state |-> threads[t].status, next |-> number + 1, entries |-> EntriesOf(t)]
    BY <2>3, <2>4
  <2>6. entries = [mid.entries EXCEPT ![last].lines = @ \cup {number}]
    BY <1>17, <1>18, <2>1, <2>5
  <2>7. journal'[t] = [mid EXCEPT !.entries = entries]
    BY <2>2, <2>5
  <2>8. journal'[t] = [mid EXCEPT !.entries[last].lines = @ \cup {number}]
    BY <2>6, <2>7
  <2>. QED  BY <2>4, <2>8
<1>20. journal' = [journal EXCEPT ![t] = [journal[t] EXCEPT
                     !.next = @ + 1, !.entries[last].lines = @ \cup {number}]]
  BY <1>4, <1>16, <1>19, JournalChanged
<1>21. Abstract!Write(t)
  BY <1>4, <1>17, <1>20 DEF Abstract!Write, journal
<1>. QED  BY <1>4, <1>21 DEF Abstract!Next

\* The tables of runs and messages implement the journal: readers see entries that
\* are opened, written and settled in turn, and never reopened, reordered or
\* extended, whatever begin_run, append, transition_run, archive_thread and a
\* recovery that read long before do in any interleaving.
THEOREM JournalImplemented == Spec => ImplementsJournal
<1>1. Init => Abstract!Init
  <2>. SUFFICES ASSUME Init, NEW t \in Threads
                PROVE  JournalOf(t) = [state |-> "none", next |-> 1, entries |-> <<>>]
    BY DEF Abstract!Init
  <2>1. /\ threads[t].status = "none" /\ threads[t].next_thread_sequence = 1
        /\ threads[t].next_run_no = 1
    BY DEF Init
  <2>2. EntriesOf(t) = <<>>
    BY <2>1 DEF EntriesOf
  <2>. QED  BY <2>1, <2>2 DEF JournalOf, EntriesOf
<1>2. JournalInv /\ JournalInv' /\ [Next]_vars => [Abstract!Next]_journal
  <2>. SUFFICES ASSUME JournalInv, JournalInv', StepCase
                PROVE  Abstract!Next \/ journal' = journal
    BY StepCases DEF JournalInv
  <2>1. ASSUME NEW t \in Threads, BeginRun(t)
        PROVE  Abstract!Next
    BY <2>1, BeginJournal DEF Abstract!Next
  <2>2. CASE UNCHANGED <<threads, runs, messages>>
    BY <2>2 DEF journal, JournalOf, RunAt, RunsOf, RunIds, EntryOf, MessagesOf, MessageIds
  <2>. QED  BY <2>1, <2>2, ThreadChangeJournal, SettleJournal, AppendJournal DEF StepCase
<1>. QED  BY <1>1, <1>2, JournalInvariant, PTL DEF Spec, ImplementsJournal, Abstract!Spec, journal

=============================================================================
