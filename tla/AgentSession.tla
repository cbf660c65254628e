---------------------------- MODULE AgentSession ----------------------------
(***************************************************************************)
(* Processes that run the agent loop on the threads of one session: a      *)
(* ThreadSessionState (which run it holds, its last message) driven by     *)
(* AgentLoop.run, over the tables of ThreadRun.                            *)
(*                                                                         *)
(* A prompt is a sequence of transactions: begin_run, the user message,    *)
(* then per turn the assistant message and one tool message per call, then *)
(* complete_run.  Other processes, the user's `memory run interrupt` and   *)
(* `memory thread archive`, errors and crashes come in between.  The CLI   *)
(* has no handler around a prompt, so an exception that leaves AgentLoop   *)
(* ends the process.                                                       *)
(***************************************************************************)
EXTENDS ThreadRun

CONSTANTS
  Procs,        \* operating-system processes that run the CLI
  MaxTurns      \* config.max_turns

ASSUME TurnsAssumption == MaxTurns \in Nat \ {0}

VARIABLES
  session,      \* process -> its ThreadSessionState and place in AgentLoop.run
  crashed       \* history: runs whose process died or raised outside the try

agentVars == <<vars, session, crashed>>

NoRun == 0                     \* ThreadSessionState.run_id is None

(***************************************************************************)
(* Places in AgentLoop.run: "begun" between begin_run and the user message *)
(* (outside the try), "turn" before the model answers, "tools" while tool  *)
(* results are being recorded, "completing" before complete_run, "failing" *)
(* in the except clause.                                                   *)
(***************************************************************************)
InTry == {"turn", "tools", "completing"}

Busy(p) == session[p].pc \notin {"down", "idle"}
Holds(p, r) == Busy(p) /\ session[p].run = r
Running(r) == r \in RunIds /\ runs[r].status = "running"

Down(p) == [session EXCEPT ![p] = [@ EXCEPT !.pc = "down", !.run = NoRun,
              !.last = NoMessage, !.turn = 0, !.todo = {}, !.raised = "none"]]

\* Raising inside the try: control goes to the except clause.
Raises(p, why) == [session EXCEPT ![p].pc = "failing", ![p].raised = why]

AgentInit ==
  /\ Init
  /\ session \in [Procs -> {[pc |-> "down", thread |-> t, run |-> NoRun, last |-> NoMessage,
                             turn |-> 0, todo |-> {}, raised |-> "none"] : t \in Threads}]
  /\ crashed = {}

-----------------------------------------------------------------------------
\* resume() decodes the transcript of the thread without an integrity error.
Readable(t) == \A m \in MessageIds : messages[m].thread = t => ReadableAt(m)

\* ThreadAwareTranscriptStore.load, in a new process: the thread must be active
\* and readable.
Load(p) == \E t \in Threads :
  /\ session[p].pc = "down"
  /\ threads[t].status = "active"
  /\ Readable(t)
  /\ session' = [session EXCEPT ![p].pc = "idle", ![p].thread = t]
  /\ UNCHANGED <<vars, crashed>>

\* AgentLoop.run up to begin_run, which refuses while another process runs or
\* after the thread was archived: the exception ends the process.
Prompt(p) ==
  LET t == session[p].thread IN
  /\ session[p].pc = "idle"
  /\ \/ /\ BeginRun(t)
        /\ session' = [session EXCEPT ![p].pc = "begun", ![p].run = Len(runs) + 1]
     \/ /\ ~CanBegin(t)
        /\ session' = Down(p)
        /\ UNCHANGED vars
  /\ UNCHANGED crashed

\* The user message is recorded before the try.
RecordUser(p) ==
  LET r == session[p].run IN
  /\ session[p].pc = "begun"
  /\ \/ /\ AppendUser(r)
        /\ session' = [session EXCEPT ![p].pc = "turn", ![p].turn = 1,
                                      ![p].last = Len(messages) + 1]
     \/ /\ ~CanAppend(r, "user", {}, NoCall)
        /\ session' = Down(p)
        /\ UNCHANGED vars
  /\ UNCHANGED crashed

\* The model answers with some calls (it may repeat an id); the assistant message
\* is recorded; an answer without calls ends the loop.
ModelReply(p) == \E calls \in SUBSET CallIds :
  LET r == session[p].run IN
  /\ session[p].pc = "turn"
  /\ \/ /\ AppendMessage(r, "assistant", calls, NoCall)
        /\ session' = [session EXCEPT ![p].pc = IF calls = {} THEN "completing" ELSE "tools",
                                      ![p].last = Len(messages) + 1, ![p].todo = calls]
     \/ /\ ~CanAppend(r, "assistant", calls, NoCall)
        /\ session' = Raises(p, "refused")
        /\ UNCHANGED vars
  /\ UNCHANGED crashed

\* After the last result the loop takes the next turn, or max_turns is reached.
AfterResult(s, c, id) ==
  LET left == s.todo \ {c} IN
  [s EXCEPT !.last = id, !.todo = left,
            !.pc = IF left # {} THEN "tools"
                   ELSE IF s.turn < MaxTurns THEN "turn" ELSE "completing",
            !.turn = IF left = {} /\ s.turn < MaxTurns THEN s.turn + 1 ELSE s.turn]

ToolResult(p) == \E c \in session[p].todo :
  LET r == session[p].run IN
  /\ session[p].pc = "tools"
  /\ \/ /\ AppendMessage(r, "tool", {}, c)
        /\ session' = [session EXCEPT ![p] = AfterResult(@, c, Len(messages) + 1)]
     \/ /\ ~CanAppend(r, "tool", {}, c)
        /\ session' = Raises(p, "refused")
        /\ UNCHANGED vars
  /\ UNCHANGED crashed

\* complete_run with the last recorded message as the final one.
Complete(p) ==
  LET r == session[p].run  last == session[p].last IN
  /\ session[p].pc = "completing"
  /\ \/ /\ CompleteRun(r, last)
        /\ session' = [session EXCEPT ![p].pc = "idle", ![p].run = NoRun, ![p].turn = 0]
     \/ /\ ~CanTransition(r)
        /\ session' = Raises(p, "refused")
        /\ UNCHANGED vars
     \/ /\ CanTransition(r) /\ ~ValidFinal(r, last)
        /\ session' = Raises(p, "final")
        /\ UNCHANGED vars
  /\ UNCHANGED crashed

\* The model, the event handler or a busy database raises inside the try.
Raise(p) ==
  /\ session[p].pc \in InTry
  /\ session' = Raises(p, "error")
  /\ UNCHANGED <<vars, crashed>>

\* Mutant: the except clause only raises.
FailOnlyRaises(p) ==
  /\ session[p].pc = "failing"
  /\ session' = Down(p)
  /\ UNCHANGED <<vars, crashed>>

\* except Exception: fail_run, then raise; fail_run itself raises when the run
\* became terminal meanwhile.
Fail(p) ==
  LET r == session[p].run IN
  /\ session[p].pc = "failing"
  /\ \/ FailRun(r)
     \/ ~CanTransition(r) /\ UNCHANGED vars
  /\ session' = Down(p)
  /\ UNCHANGED crashed

\* The process is killed or cancelled (except Exception does not see it), or an
\* error is raised where no handler is: recording the user message, or fail_run
\* itself on a busy database.
Crash(p) ==
  /\ session[p].pc # "down"
  /\ session' = Down(p)
  /\ crashed' = crashed \cup ({session[p].run} \ {NoRun})
  /\ UNCHANGED vars

\* The user's commands from other processes.
UserCommand ==
  /\ \/ \E t \in Threads : CreateThread(t) \/ ArchiveThread(t)
     \/ \E r \in RunIds : InterruptRun(r)
  /\ UNCHANGED <<session, crashed>>

-----------------------------------------------------------------------------
LoopStep(p) == RecordUser(p) \/ ModelReply(p) \/ ToolResult(p) \/ Complete(p) \/ Fail(p)

AgentNext ==
  \/ \E p \in Procs : Load(p) \/ Prompt(p) \/ LoopStep(p) \/ Raise(p) \/ Crash(p)
  \/ UserCommand

AgentSpec == AgentInit /\ [][AgentNext]_agentVars

\* A process that is neither killed nor stopped by the user goes on with the
\* prompt it is working on: the loop awaits only the model and the tools.
AgentFairness == \A p \in Procs : WF_agentVars(LoopStep(p))

FairAgentSpec == AgentSpec /\ AgentFairness

-----------------------------------------------------------------------------
(***************************************************************************)
(* Properties.                                                             *)
(***************************************************************************)

\* A completed run is answered: its final message is the last of the run, from
\* the assistant, and no tool call is left without its result.  The loop gives
\* complete_run whatever message it recorded last (transcript.py:252-256), a
\* field that survives from one run to the next.
CompletedRunsAreAnswered ==
  \A r \in RunIds : runs[r].status = "completed" =>
    LET final == runs[r].final_message_id IN
    /\ final \in MessagesOf(r)
    /\ \A m \in MessagesOf(r) : m <= final
    /\ messages[final].role = "assistant"
    /\ Pending(MessagesOf(r)) = {}

\* A run nobody works on is not left running, unless its process died or raised
\* outside the try: every path through AgentLoop.run that returns or handles an
\* exception leaves the run terminal.
AbandonedRunsCrashed ==
  \A r \in RunIds : Running(r) => r \in crashed \/ \E p \in Procs : Holds(p, r)

\* Every run ends: the loop is bounded, by max_turns and by the call ids a run may
\* use once, and every refusal leads to the except clause, so a run whose process
\* lives becomes terminal.
RunsEnd == \A r \in 1..MaxRuns : Running(r) ~> (r \in crashed \/ ~Running(r))

\* Reaching max_turns ends the run with a result (loop.py:115-122 returns an
\* AgentResult, "Stopped because max_turns was reached."), it is not an error.
MaxTurnsIsNotAnError == \A p \in Procs : session[p].raised # "final"

=============================================================================
