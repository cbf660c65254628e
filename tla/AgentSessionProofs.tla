------------------------- MODULE AgentSessionProofs -------------------------
(***************************************************************************)
(* Proofs about AgentSession for every set of threads, tool-call ids and   *)
(* processes, every max_turns and every bound on the rows; and about the   *)
(* request under it (ModelStream) for every text and length of a stream.   *)
(***************************************************************************)
EXTENDS AgentSession, ModelStream, ThreadRunProofs, WellFoundedInduction

Session == [pc : {"down", "idle", "begun", "turn", "tools", "completing", "failing"},
            thread : Threads, run : Nat, last : Nat, turn : Nat, todo : SUBSET CallIds,
            raised : {"none", "refused", "final", "error"}]

SessionTypeOK == session \in [Procs -> Session]

\* What a process remembers of its run is what the transcript says of it.
InPlace(p) ==
  LET s == session[p] IN
  /\ Busy(p) => s.run \in RunIds
  /\ s.pc = "begun" => MessagesOf(s.run) = {}
  /\ s.pc \in InTry => s.last \in MessagesOf(s.run) /\ \A m \in MessagesOf(s.run) : m <= s.last
  /\ s.pc = "turn" => Pending(MessagesOf(s.run)) = {}
  /\ s.pc = "tools" => Pending(MessagesOf(s.run)) = s.todo
  /\ s.pc = "completing" => Pending(MessagesOf(s.run)) = {} /\ messages[s.last].role # "user"

OneHolder ==
  \A p, q \in Procs : Busy(p) /\ Busy(q) /\ session[p].run = session[q].run => p = q

SessionsInv == /\ ThreadInv /\ SessionTypeOK /\ OneHolder
               /\ \A p \in Procs : InPlace(p)

-----------------------------------------------------------------------------
(***************************************************************************)
(* The tables under the sessions.                                          *)
(***************************************************************************)

\* Every step is one of ThreadRun.
LEMMA AgentSteps ==
  ASSUME SessionsInv, [AgentNext]_agentVars
  PROVE  [Next]_vars /\ StepCase /\ ThreadInv'
<1>1. SUFFICES [Next]_vars
  BY StepCases, RecoveryTypes, ThreadInvStep DEF SessionsInv, ThreadInv
<1>2. ASSUME NEW p \in Procs, Busy(p)
      PROVE  session[p].run \in RunIds
  BY <1>2 DEF SessionsInv, InPlace
<1>3. CASE UserCommand
  BY <1>3 DEF UserCommand, Next, ThreadStep, TransitionStep
<1>4. ASSUME NEW p \in Procs, Prompt(p)
      PROVE  [Next]_vars
  <2>1. session[p].thread \in Threads
    BY DEF SessionsInv, SessionTypeOK, Session
  <2>. QED  BY <1>4, <2>1 DEF Prompt, Next, ThreadStep
<1>5. ASSUME NEW p \in Procs, LoopStep(p)
      PROVE  [Next]_vars
  <2>1. session[p].run \in RunIds
    BY <1>2, <1>5 DEF LoopStep, RecordUser, ModelReply, ToolResult, Complete, Fail, Busy
  <2>2. session[p].todo \subseteq CallIds
    BY DEF SessionsInv, SessionTypeOK, Session
  <2>3. CASE RecordUser(p)
    BY <2>1, <2>3 DEF RecordUser, Next, AppendStep
  <2>4. CASE ModelReply(p)
    BY <2>1, <2>4 DEF ModelReply, Next, AppendStep, AppendAssistant
  <2>5. CASE ToolResult(p)
    BY <2>1, <2>2, <2>5 DEF ToolResult, Next, AppendStep, AppendTool
  <2>6. CASE Complete(p)
    BY <2>1, <2>6 DEF Complete, CompleteRun, TransitionRun, ValidFinal, MessagesOf,
                      Next, TransitionStep
  <2>7. CASE Fail(p)
    BY <2>1, <2>7 DEF Fail, Next, TransitionStep
  <2>. QED  BY <1>5, <2>3, <2>4, <2>5, <2>6, <2>7 DEF LoopStep
<1>6. ASSUME NEW p \in Procs, Load(p) \/ Raise(p) \/ Crash(p)
      PROVE  UNCHANGED vars
  BY <1>6 DEF Load, Raise, Crash
<1>. QED  BY <1>3, <1>4, <1>5, <1>6 DEF AgentNext, agentVars

\* The tables grow, and no run but x has a message more.
KeptBut(x) == /\ RunIds \subseteq RunIds' /\ MessageIds \subseteq MessageIds'
              /\ \A m \in MessageIds : messages'[m] = messages[m]
              /\ \A r : r # x => MessagesOf(r)' = MessagesOf(r)

LEMMA QuietTables ==
  ASSUME TypeOK, \/ UNCHANGED vars
                 \/ \E t \in Threads : CreateThread(t) \/ ArchiveThread(t) \/ BeginRun(t)
                 \/ \E r \in RunIds, target \in Terminal, reason \in Reasons,
                       final \in {NoMessage} \cup MessageIds : TransitionRun(r, target, final, reason)
  PROVE  KeptBut(NoRun) /\ \A r : MessagesOf(r)' = MessagesOf(r)
<1>1. messages' = messages
  BY DEF vars, CreateThread, ArchiveThread, BeginRun, TransitionRun
<1>2. MessageIds' = MessageIds /\ \A r : MessagesOf(r)' = MessagesOf(r)
  BY <1>1, MessagesKept
<1>3. RunIds \subseteq RunIds'
  <2>1. CASE \E t \in Threads : BeginRun(t)
    BY <2>1, BeginRows
  <2>2. CASE runs' = runs
    BY <2>2 DEF RunIds
  <2>3. CASE \E r \in RunIds, target \in Terminal, reason \in Reasons,
                final \in {NoMessage} \cup MessageIds : TransitionRun(r, target, final, reason)
    BY <2>3, SettleRows
  <2>. QED  BY <2>1, <2>2, <2>3 DEF vars, CreateThread, ArchiveThread
<1>. QED  BY <1>1, <1>2, <1>3 DEF KeptBut

\* What an append leaves of the open calls of its run.
LEMMA AppendedCalls ==
  ASSUME TypeOK, NEW r \in RunIds, NEW role \in Roles, NEW calls \in SUBSET CallIds,
         NEW result \in CallIds \cup {NoCall}, AppendMessage(r, role, calls, result)
  PROVE  /\ KeptBut(r)
         /\ Len(messages) + 1 \in MessagesOf(r)'
         /\ \A m \in MessagesOf(r)' : m <= Len(messages) + 1
         /\ messages'[Len(messages) + 1].role = role
         /\ Pending(MessagesOf(r))' = (Pending(MessagesOf(r)) \cup calls) \ {result}
<1>0. PICK new : new = Len(messages) + 1
  OBVIOUS
<1>1. /\ MessageIds = 1..Len(messages) /\ Len(messages) \in Nat
      /\ MessageIds' = MessageIds \cup {new} /\ RunIds' = RunIds
      /\ \A m \in MessageIds : messages'[m] = messages[m]
      /\ messages'[new] = NewMessage(r, role, calls, result)
  BY <1>0, AppendRows
<1>2. /\ MessagesOf(r)' = MessagesOf(r) \cup {new}
      /\ \A s : s # r => MessagesOf(s)' = MessagesOf(s)
  BY <1>0, MessagesExtended
<1>3. /\ messages'[new].role = role /\ messages'[new].calls = calls
      /\ messages'[new].result = result
  BY <1>1 DEF NewMessage
<1>4. PICK M : M = MessagesOf(r)
  OBVIOUS
<1>5. \A m \in M : m \in MessageIds /\ messages'[m] = messages[m]
  BY <1>1, <1>4 DEF MessagesOf
<1>6. {messages'[m].calls : m \in M \cup {new}} = {messages[m].calls : m \in M} \cup {calls}
  BY <1>3, <1>5
<1>7. {messages'[m].result : m \in M \cup {new}} = {messages[m].result : m \in M} \cup {result}
  BY <1>3, <1>5
<1>8. Declared(MessagesOf(r))' = Declared(M) \cup calls
  BY <1>2, <1>4, <1>6 DEF Declared
<1>9. Consumed(MessagesOf(r))' = Consumed(M) \cup ({result} \ {NoCall})
  BY <1>2, <1>4, <1>7 DEF Consumed
<1>10. calls \cap (Declared(M) \cup Consumed(M)) = {}
  BY <1>4 DEF AppendMessage, CanAppend, ValidToolMessage
<1>11. \A m \in M : messages[m] \in MessageRow
  BY <1>5, RowTypes
<1>12. NoCall \notin Declared(M) \cup calls
  <2>1. \A m \in M : messages[m].calls \subseteq CallIds
    BY <1>11 DEF MessageRow
  <2>. QED  BY <2>1, CallIdsAssumption DEF Declared
<1>13. Pending(MessagesOf(r))' = (Declared(M) \cup calls) \ (Consumed(M) \cup ({result} \ {NoCall}))
  BY <1>8, <1>9 DEF Pending
<1>14. Pending(MessagesOf(r))' = (Pending(MessagesOf(r)) \cup calls) \ {result}
  <2>1. PICK D, C : D = Declared(M) /\ C = Consumed(M)
    OBVIOUS
  <2>2. calls \cap C = {} /\ NoCall \notin D \cup calls
    BY <1>10, <1>12, <2>1
  <2>3. (D \cup calls) \ (C \cup ({result} \ {NoCall})) = ((D \ C) \cup calls) \ {result}
    BY <2>2
  <2>4. Pending(MessagesOf(r)) = D \ C
    BY <1>4, <2>1 DEF Pending
  <2>. QED  BY <1>13, <2>1, <2>3, <2>4
<1>15. \A m \in MessagesOf(r)' : m <= new
  BY <1>0, <1>1, <1>2 DEF MessagesOf
<1>16. KeptBut(r)
  BY <1>1, <1>2 DEF KeptBut
<1>17. new \in MessagesOf(r)'
  BY <1>1, <1>2
<1>. QED  BY <1>0, <1>3, <1>14, <1>15, <1>16, <1>17

-----------------------------------------------------------------------------
(***************************************************************************)
(* The sessions.                                                           *)
(***************************************************************************)
LEMMA OthersInPlace ==
  ASSUME ThreadInv, NEW q \in Procs, InPlace(q), session'[q] = session[q],
         NEW x, KeptBut(x), Busy(q) => session[q].run # x
  PROVE  InPlace(q)'
<1>1. PICK s : s = session[q]
  OBVIOUS
<1>2. CASE ~Busy(q)
  BY <1>1, <1>2 DEF InPlace, Busy, InTry
<1>3. CASE Busy(q)
  <2>1. s.run \in RunIds'
    BY <1>1, <1>3 DEF InPlace, KeptBut
  <2>2. PICK M : M = MessagesOf(s.run)
    OBVIOUS
  <2>3. MessagesOf(s.run)' = M
    BY <1>1, <1>3, <2>2 DEF KeptBut
  <2>4. \A m \in M : messages'[m] = messages[m]
    BY <2>2 DEF MessagesOf, KeptBut
  <2>5. Pending(MessagesOf(s.run))' = Pending(M)
    BY <2>3, <2>4, CallsKept DEF Pending, Declared, Consumed
  <2>6. s.pc \in InTry => messages'[s.last] = messages[s.last]
    BY <1>1, <2>2, <2>4 DEF InPlace
  <2>. QED  BY <1>1, <1>3, <2>1, <2>2, <2>3, <2>5, <2>6 DEF InPlace, Busy, InTry
<1>. QED  BY <1>2, <1>3

\* A step of process p to state s.
Moves(p, s) == s \in Session /\ session' = [session EXCEPT ![p] = s]

LEMMA SessionsMove ==
  ASSUME SessionsInv, ThreadInv', NEW p \in Procs, NEW s, Moves(p, s), NEW x, KeptBut(x),
         \A q \in Procs \ {p} : Busy(q) =>
            session[q].run # x /\ (s.pc \notin {"down", "idle"} => s.run # session[q].run),
         InPlace(p)'
  PROVE  SessionsInv'
<1>1. SessionTypeOK'
  BY DEF SessionsInv, SessionTypeOK, Moves
<1>2. session'[p] = s /\ \A q \in Procs \ {p} : session'[q] = session[q]
  BY DEF Moves, SessionsInv, SessionTypeOK
<1>3. \A q \in Procs \ {p} : InPlace(q)'
  BY <1>2, OthersInPlace DEF SessionsInv
<1>4. OneHolder'
  BY <1>2 DEF OneHolder, SessionsInv, Busy
<1>. QED  BY <1>1, <1>3, <1>4 DEF SessionsInv

\* The fields of a session, and where the loop puts them.
LEMMA DownMoves ==
  ASSUME SessionTypeOK, NEW p \in Procs, session' = Down(p)
  PROVE  \E s : Moves(p, s) /\ s.pc = "down" /\ s.run = NoRun
<1>1. session[p] \in Session
  BY DEF SessionTypeOK
<1>2. PICK s : s = [session[p] EXCEPT !.pc = "down", !.run = NoRun, !.last = NoMessage,
                                      !.turn = 0, !.todo = {}, !.raised = "none"]
  OBVIOUS
<1>3. s = [pc |-> "down", thread |-> session[p].thread, run |-> 0, last |-> 0, turn |-> 0,
           todo |-> {}, raised |-> "none"]
  BY <1>1, <1>2 DEF Session, NoRun, NoMessage
<1>4. s \in Session
  BY <1>1, <1>3 DEF Session
<1>. QED  BY <1>2, <1>3, <1>4 DEF Down, Moves, SessionTypeOK, NoRun

LEMMA RaiseMoves ==
  ASSUME SessionTypeOK, NEW p \in Procs, NEW why \in {"refused", "final", "error"},
         session' = Raises(p, why)
  PROVE  \E s : Moves(p, s) /\ s.pc = "failing" /\ s.run = session[p].run
<1>1. session[p] \in Session
  BY DEF SessionTypeOK
<1>2. PICK s : s = [session[p] EXCEPT !.pc = "failing", !.raised = why]
  OBVIOUS
<1>3. s \in Session /\ s.pc = "failing" /\ s.run = session[p].run
  BY <1>1, <1>2 DEF Session
<1>4. session' = [session EXCEPT ![p] = s]
  BY <1>1, <1>2 DEF Raises, SessionTypeOK, Session
<1>. QED  BY <1>3, <1>4 DEF Moves

\* No other process is at work on the run of a busy process.
LEMMA OwnRun ==
  ASSUME SessionsInv, NEW p \in Procs, NEW q \in Procs \ {p}, Busy(q)
  PROVE  /\ session[q].run \in RunIds /\ session[q].run # NoRun
         /\ Busy(p) => session[p].run # session[q].run
<1>1. session[q].run \in RunIds
  BY DEF SessionsInv, InPlace
<1>2. RunIds = 1..Len(runs) /\ Len(runs) \in Nat
  BY RowTypes DEF SessionsInv, ThreadInv
<1>. QED  BY <1>1, <1>2 DEF SessionsInv, OneHolder, NoRun

LEMMA LeaveSession ==
  ASSUME SessionsInv, ThreadInv', NEW p \in Procs, NEW s, Moves(p, s), KeptBut(NoRun),
         s.pc \in {"down", "idle"}
  PROVE  SessionsInv'
<1>1. session'[p] = s
  BY DEF Moves, SessionsInv, SessionTypeOK
<1>2. InPlace(p)'
  BY <1>1 DEF InPlace, Busy, InTry
<1>. QED  BY <1>2, OwnRun, SessionsMove

LEMMA FailSession ==
  ASSUME SessionsInv, ThreadInv', NEW p \in Procs, Busy(p), NEW s, Moves(p, s), KeptBut(NoRun),
         s.pc = "failing", s.run = session[p].run
  PROVE  SessionsInv'
<1>1. session'[p] = s
  BY DEF Moves, SessionsInv, SessionTypeOK
<1>2. s.run \in RunIds'
  BY DEF SessionsInv, InPlace, KeptBut
<1>3. InPlace(p)'
  BY <1>1, <1>2 DEF InPlace, Busy, InTry
<1>. QED  BY <1>3, OwnRun, SessionsMove

LEMMA PromptMoves ==
  ASSUME SessionsInv, ThreadInv', NEW p \in Procs, Prompt(p)
  PROVE  SessionsInv'
<1>0. ThreadInv /\ TypeOK /\ SessionTypeOK /\ InPlace(p)
  BY DEF SessionsInv, ThreadInv
<1>1. session[p] \in Session /\ session[p].thread \in Threads
  BY <1>0 DEF SessionTypeOK, Session
<1>2. CASE session' = Down(p) /\ UNCHANGED vars
  <2>1. KeptBut(NoRun)
    BY <1>0, <1>2, QuietTables
  <2>. QED  BY <1>0, <1>2, <2>1, DownMoves, LeaveSession
<1>3. CASE /\ BeginRun(session[p].thread)
           /\ session' = [session EXCEPT ![p].pc = "begun", ![p].run = Len(runs) + 1]
  <2>1. PICK n : n = Len(runs) + 1
    OBVIOUS
  <2>2. RunIds = 1..Len(runs) /\ Len(runs) \in Nat /\ n \in Nat
    BY <1>0, <2>1, RowTypes
  <2>3. PICK s : s = [session[p] EXCEPT !.pc = "begun", !.run = n]
    OBVIOUS
  <2>4. s \in Session /\ s.pc = "begun" /\ s.run = n
    BY <1>1, <2>1, <2>2, <2>3 DEF Session
  <2>5. session' = [session EXCEPT ![p] = s]
    BY <1>0, <1>1, <1>3, <2>1, <2>3 DEF SessionTypeOK, Session
  <2>6. KeptBut(NoRun) /\ MessagesOf(n)' = MessagesOf(n)
    BY <1>0, <1>1, <1>3, QuietTables
  <2>7. MessagesOf(n) = {} /\ n \notin RunIds
    <3>1. n \notin RunIds
      BY <2>1, <2>2
    <3>. QED  BY <1>0, <3>1, RowTypes DEF MessagesOf
  <2>8. n \in RunIds'
    BY <1>0, <1>1, <1>3, <2>1, BeginRows
  <2>9. session'[p] = s
    BY <1>0, <2>5 DEF SessionTypeOK
  <2>10. InPlace(p)'
    BY <1>0, <2>4, <2>6, <2>7, <2>8, <2>9 DEF InPlace, Busy, InTry
  <2>11. Moves(p, s)
    BY <2>4, <2>5 DEF Moves
  <2>12. \A q \in Procs \ {p} : Busy(q) => session[q].run # NoRun /\ s.run # session[q].run
    BY <2>4, <2>7, OwnRun
  <2>. QED  BY <2>6, <2>10, <2>11, <2>12, SessionsMove
<1>. QED  BY <1>2, <1>3 DEF Prompt

\* A step of process p, at work on run r, that records a message and remembers it.
Says(p, r, role, calls, result, s) ==
  /\ Busy(p) /\ r = session[p].run
  /\ role \in Roles /\ calls \in SUBSET CallIds /\ result \in CallIds \cup {NoCall}
  /\ AppendMessage(r, role, calls, result)
  /\ Moves(p, s) /\ s.run = r /\ s.last = Len(messages) + 1 /\ s.pc \in InTry
  /\ LET open == (Pending(MessagesOf(r)) \cup calls) \ {result}
     IN /\ s.pc = "turn" => open = {}
        /\ s.pc = "tools" => open = s.todo
        /\ s.pc = "completing" => open = {} /\ role # "user"

LEMMA SessionSays ==
  ASSUME SessionsInv, ThreadInv', NEW p \in Procs, NEW r, NEW role, NEW calls, NEW result, NEW s,
         Says(p, r, role, calls, result, s)
  PROVE  SessionsInv'
<1>. USE DEF Says
<1>0. ThreadInv /\ TypeOK /\ SessionTypeOK /\ InPlace(p)
  BY DEF SessionsInv, ThreadInv
<1>1. r \in RunIds
  BY <1>0 DEF InPlace
<1>2. PICK new : new = Len(messages) + 1
  OBVIOUS
<1>3. /\ KeptBut(r)
      /\ new \in MessagesOf(r)' /\ \A m \in MessagesOf(r)' : m <= new
      /\ messages'[new].role = role
      /\ Pending(MessagesOf(r))' = (Pending(MessagesOf(r)) \cup calls) \ {result}
  BY <1>0, <1>1, <1>2, AppendedCalls
<1>4. session'[p] = s
  BY <1>0 DEF Moves, SessionTypeOK
<1>5. r \in RunIds'
  BY <1>1, <1>3 DEF KeptBut
<1>6. InPlace(p)'
  BY <1>0, <1>2, <1>3, <1>4, <1>5 DEF InPlace, Busy, InTry
<1>7. \A q \in Procs \ {p} : Busy(q) => session[q].run # r
  BY OwnRun
<1>. QED  BY <1>3, <1>6, <1>7, SessionsMove

LEMMA RecordUserMoves ==
  ASSUME SessionsInv, ThreadInv', NEW p \in Procs, RecordUser(p)
  PROVE  SessionsInv'
<1>0. ThreadInv /\ TypeOK /\ SessionTypeOK /\ InPlace(p)
  BY DEF SessionsInv, ThreadInv
<1>1. session[p] \in Session /\ session[p].pc = "begun" /\ Busy(p)
  BY <1>0 DEF SessionTypeOK, RecordUser, Busy
<1>2. CASE session' = Down(p) /\ UNCHANGED vars
  <2>1. KeptBut(NoRun)
    BY <1>0, <1>2, QuietTables
  <2>. QED  BY <1>0, <1>2, <2>1, DownMoves, LeaveSession
<1>3. CASE /\ AppendUser(session[p].run)
           /\ session' = [session EXCEPT ![p].pc = "turn", ![p].turn = 1,
                                         ![p].last = Len(messages) + 1]
  <2>1. PICK r, new : r = session[p].run /\ new = Len(messages) + 1
    OBVIOUS
  <2>2. new \in Nat
    BY <1>0, <2>1, RowTypes
  <2>3. PICK s : s = [session[p] EXCEPT !.pc = "turn", !.turn = 1, !.last = new]
    OBVIOUS
  <2>4. s \in Session /\ s.pc = "turn" /\ s.run = r /\ s.last = new
    BY <1>1, <2>1, <2>2, <2>3 DEF Session
  <2>5. session' = [session EXCEPT ![p] = s]
    BY <1>0, <1>1, <1>3, <2>1, <2>3 DEF SessionTypeOK, Session
  <2>6. Pending(MessagesOf(r)) = {}
    BY <1>0, <1>1, <2>1 DEF InPlace, Pending, Declared
  <2>7. AppendMessage(r, "user", {}, NoCall)
    BY <1>3, <2>1 DEF AppendUser
  <2>8. Moves(p, s) /\ "user" \in Roles /\ s.pc \in InTry
    BY <2>4, <2>5 DEF Moves, Roles, InTry
  <2>9. (Pending(MessagesOf(r)) \cup {}) \ {NoCall} = {}
    BY <2>6
  <2>10. Says(p, r, "user", {}, NoCall, s)
    BY <1>1, <2>1, <2>4, <2>7, <2>8, <2>9 DEF Says
  <2>. QED  BY <2>10, SessionSays
<1>. QED  BY <1>2, <1>3 DEF RecordUser

LEMMA ModelReplyMoves ==
  ASSUME SessionsInv, ThreadInv', NEW p \in Procs, ModelReply(p)
  PROVE  SessionsInv'
<1>0. ThreadInv /\ TypeOK /\ SessionTypeOK /\ InPlace(p)
  BY DEF SessionsInv, ThreadInv
<1>1. session[p] \in Session /\ session[p].pc = "turn" /\ Busy(p)
  BY <1>0 DEF SessionTypeOK, ModelReply, Busy
<1>2. CASE session' = Raises(p, "refused") /\ UNCHANGED vars
  <2>1. KeptBut(NoRun)
    BY <1>0, <1>2, QuietTables
  <2>. QED  BY <1>0, <1>1, <1>2, <2>1, RaiseMoves, FailSession
<1>3. ASSUME NEW calls \in SUBSET CallIds,
             AppendMessage(session[p].run, "assistant", calls, NoCall),
             session' = [session EXCEPT ![p].pc = IF calls = {} THEN "completing" ELSE "tools",
                                        ![p].last = Len(messages) + 1, ![p].todo = calls]
      PROVE  SessionsInv'
  <2>1. PICK r, new, pc : /\ r = session[p].run /\ new = Len(messages) + 1
                          /\ pc = IF calls = {} THEN "completing" ELSE "tools"
    OBVIOUS
  <2>2. new \in Nat
    BY <1>0, <2>1, RowTypes
  <2>3. PICK s : s = [session[p] EXCEPT !.pc = pc, !.last = new, !.todo = calls]
    OBVIOUS
  <2>4. s \in Session /\ s.pc = pc /\ s.run = r /\ s.last = new /\ s.todo = calls
    BY <1>1, <2>1, <2>2, <2>3 DEF Session
  <2>5. session' = [session EXCEPT ![p] = s]
    BY <1>0, <1>1, <1>3, <2>1, <2>3 DEF SessionTypeOK, Session
  <2>6. Pending(MessagesOf(r)) = {}
    BY <1>0, <1>1, <2>1 DEF InPlace
  <2>7. (Pending(MessagesOf(r)) \cup calls) \ {NoCall} = calls
    BY <2>6, CallIdsAssumption
  <2>8. Moves(p, s) /\ "assistant" \in Roles /\ s.pc \in InTry
    BY <2>1, <2>4, <2>5 DEF Moves, Roles, InTry
  <2>9. Says(p, r, "assistant", calls, NoCall, s)
    BY <1>1, <1>3, <2>1, <2>4, <2>7, <2>8 DEF Says
  <2>. QED  BY <2>9, SessionSays
<1>. QED  BY <1>2, <1>3 DEF ModelReply

LEMMA ToolResultMoves ==
  ASSUME SessionsInv, ThreadInv', NEW p \in Procs, ToolResult(p)
  PROVE  SessionsInv'
<1>0. ThreadInv /\ TypeOK /\ SessionTypeOK /\ InPlace(p)
  BY DEF SessionsInv, ThreadInv
<1>1. session[p] \in Session /\ session[p].pc = "tools" /\ Busy(p)
  BY <1>0 DEF SessionTypeOK, ToolResult, Busy
<1>2. CASE session' = Raises(p, "refused") /\ UNCHANGED vars
  <2>1. KeptBut(NoRun)
    BY <1>0, <1>2, QuietTables
  <2>. QED  BY <1>0, <1>1, <1>2, <2>1, RaiseMoves, FailSession
<1>3. ASSUME NEW c \in session[p].todo, AppendMessage(session[p].run, "tool", {}, c),
             session' = [session EXCEPT ![p] = AfterResult(@, c, Len(messages) + 1)]
      PROVE  SessionsInv'
  <2>1. PICK r, new, left, turn, pc :
          /\ r = session[p].run /\ new = Len(messages) + 1 /\ left = session[p].todo \ {c}
          /\ turn = IF left = {} /\ session[p].turn < MaxTurns THEN session[p].turn + 1
                    ELSE session[p].turn
          /\ pc = IF left # {} THEN "tools"
                  ELSE IF session[p].turn < MaxTurns THEN "turn" ELSE "completing"
    OBVIOUS
  <2>2. new \in Nat /\ turn \in Nat /\ left \in SUBSET CallIds /\ c \in CallIds
    BY <1>0, <1>1, <2>1, RowTypes DEF Session
  <2>3. PICK s : s = [session[p] EXCEPT !.last = new, !.todo = left, !.pc = pc, !.turn = turn]
    OBVIOUS
  <2>4. s \in Session /\ s.pc = pc /\ s.run = r /\ s.last = new /\ s.todo = left
    BY <1>1, <2>1, <2>2, <2>3 DEF Session
  <2>5. AfterResult(session[p], c, new) = s
    BY <2>1, <2>3 DEF AfterResult
  <2>6. session' = [session EXCEPT ![p] = s]
    BY <1>0, <1>3, <2>1, <2>5 DEF SessionTypeOK
  <2>7. Pending(MessagesOf(r)) = session[p].todo
    BY <1>0, <1>1, <2>1 DEF InPlace
  <2>8. (Pending(MessagesOf(r)) \cup {}) \ {c} = left
    BY <2>1, <2>7
  <2>9. Moves(p, s) /\ "tool" \in Roles /\ s.pc \in InTry
    BY <2>1, <2>4, <2>6 DEF Moves, Roles, InTry
  <2>10. Says(p, r, "tool", {}, c, s)
    BY <1>1, <1>3, <2>1, <2>2, <2>4, <2>8, <2>9 DEF Says
  <2>. QED  BY <2>10, SessionSays
<1>. QED  BY <1>2, <1>3 DEF ToolResult

\* complete_run and fail_run settle the run.
LEMMA SettledTables ==
  ASSUME SessionsInv, NEW p \in Procs, Busy(p),
         \/ CompleteRun(session[p].run, session[p].last)
         \/ FailRun(session[p].run)
  PROVE  KeptBut(NoRun)
<1>1. TypeOK /\ session[p].run \in RunIds
  BY DEF SessionsInv, InPlace, ThreadInv
<1>2. \E target \in Terminal, reason \in Reasons, final \in {NoMessage} \cup MessageIds :
        TransitionRun(session[p].run, target, final, reason)
  BY DEF CompleteRun, FailRun, TransitionRun, ValidFinal, MessagesOf, Terminal, Reasons
<1>. QED  BY <1>1, <1>2, QuietTables

LEMMA CompleteMoves ==
  ASSUME SessionsInv, ThreadInv', NEW p \in Procs, Complete(p)
  PROVE  SessionsInv'
<1>0. ThreadInv /\ TypeOK /\ SessionTypeOK /\ InPlace(p)
  BY DEF SessionsInv, ThreadInv
<1>1. session[p] \in Session /\ session[p].pc = "completing" /\ Busy(p)
  BY <1>0 DEF SessionTypeOK, Complete, Busy
<1>2. ASSUME NEW why \in {"refused", "final"}, session' = Raises(p, why), UNCHANGED vars
      PROVE  SessionsInv'
  <2>1. KeptBut(NoRun)
    BY <1>0, <1>2, QuietTables
  <2>. QED  BY <1>0, <1>1, <1>2, <2>1, RaiseMoves, FailSession
<1>3. CASE /\ CompleteRun(session[p].run, session[p].last)
           /\ session' = [session EXCEPT ![p].pc = "idle", ![p].run = NoRun, ![p].turn = 0]
  <2>1. PICK s : s = [session[p] EXCEPT !.pc = "idle", !.run = NoRun, !.turn = 0]
    OBVIOUS
  <2>2. s \in Session /\ s.pc = "idle"
    BY <1>1, <2>1 DEF Session, NoRun
  <2>3. session' = [session EXCEPT ![p] = s]
    BY <1>0, <1>1, <1>3, <2>1 DEF SessionTypeOK, Session
  <2>4. KeptBut(NoRun)
    BY <1>1, <1>3, SettledTables
  <2>. QED  BY <2>2, <2>3, <2>4, LeaveSession DEF Moves
<1>. QED  BY <1>2, <1>3 DEF Complete

LEMMA OtherMoves ==
  ASSUME SessionsInv, ThreadInv', NEW p \in Procs,
         Load(p) \/ Raise(p) \/ Crash(p) \/ Fail(p)
  PROVE  SessionsInv'
<1>0. ThreadInv /\ TypeOK /\ SessionTypeOK /\ InPlace(p) /\ session[p] \in Session
  BY DEF SessionsInv, ThreadInv, SessionTypeOK
<1>1. UNCHANGED vars => KeptBut(NoRun)
  BY <1>0, QuietTables
<1>2. CASE Load(p)
  <2>1. PICK t \in Threads : session' = [session EXCEPT ![p].pc = "idle", ![p].thread = t]
    BY <1>2 DEF Load
  <2>2. PICK s : s = [session[p] EXCEPT !.pc = "idle", !.thread = t]
    OBVIOUS
  <2>3. s \in Session /\ s.pc = "idle"
    BY <1>0, <2>2 DEF Session
  <2>4. session' = [session EXCEPT ![p] = s]
    BY <1>0, <2>1, <2>2 DEF SessionTypeOK, Session
  <2>5. UNCHANGED vars
    BY <1>2 DEF Load
  <2>. QED  BY <1>1, <2>3, <2>4, <2>5, LeaveSession DEF Moves
<1>3. CASE Raise(p)
  <2>1. Busy(p) /\ session' = Raises(p, "error") /\ UNCHANGED vars
    BY <1>3 DEF Raise, Busy, InTry
  <2>. QED  BY <1>0, <1>1, <2>1, RaiseMoves, FailSession
<1>4. CASE Crash(p)
  <2>1. session' = Down(p) /\ UNCHANGED vars
    BY <1>4 DEF Crash
  <2>. QED  BY <1>0, <1>1, <2>1, DownMoves, LeaveSession
<1>5. CASE Fail(p)
  <2>1. session' = Down(p) /\ Busy(p) /\ (FailRun(session[p].run) \/ UNCHANGED vars)
    BY <1>5 DEF Fail, Busy
  <2>2. KeptBut(NoRun)
    BY <1>1, <2>1, SettledTables
  <2>. QED  BY <1>0, <2>1, <2>2, DownMoves, LeaveSession
<1>. QED  BY <1>2, <1>3, <1>4, <1>5

LEMMA CommandMoves ==
  ASSUME SessionsInv, ThreadInv', UserCommand
  PROVE  SessionsInv'
<1>0. ThreadInv /\ TypeOK /\ session' = session
  BY DEF SessionsInv, ThreadInv, UserCommand
<1>1. KeptBut(NoRun)
  <2>1. CASE \E t \in Threads : CreateThread(t) \/ ArchiveThread(t)
    BY <1>0, <2>1, QuietTables
  <2>2. CASE \E r \in RunIds : InterruptRun(r)
    BY <1>0, <2>2, QuietTables DEF InterruptRun, Terminal, Reasons
  <2>. QED  BY <2>1, <2>2 DEF UserCommand
<1>2. \A q \in Procs : Busy(q) => session[q].run # NoRun
  <2>1. RunIds = 1..Len(runs) /\ Len(runs) \in Nat
    BY <1>0, RowTypes
  <2>. QED  BY <2>1 DEF SessionsInv, InPlace, NoRun
<1>3. \A q \in Procs : InPlace(q)'
  BY <1>0, <1>1, <1>2, OthersInPlace DEF SessionsInv
<1>4. SessionTypeOK' /\ OneHolder'
  BY <1>0 DEF SessionsInv, SessionTypeOK, OneHolder, Busy
<1>. QED  BY <1>3, <1>4 DEF SessionsInv

LEMMA SessionsInvInit ==
  ASSUME AgentInit
  PROVE  SessionsInv
<1>1. ThreadInv
  BY ThreadInvInit DEF AgentInit
<1>2. \A p \in Procs : session[p] \in Session /\ session[p].pc = "down"
  BY DEF AgentInit, Session, NoRun, NoMessage
<1>3. SessionTypeOK
  BY <1>2 DEF AgentInit, SessionTypeOK
<1>. QED  BY <1>1, <1>2, <1>3 DEF SessionsInv, InPlace, OneHolder, Busy, InTry

LEMMA SessionsInvStep ==
  ASSUME SessionsInv, [AgentNext]_agentVars
  PROVE  SessionsInv'
<1>1. ThreadInv'
  BY AgentSteps
<1>2. CASE AgentNext
  BY <1>1, <1>2, PromptMoves, RecordUserMoves, ModelReplyMoves, ToolResultMoves, CompleteMoves,
     OtherMoves, CommandMoves DEF AgentNext, LoopStep
<1>3. CASE UNCHANGED agentVars
  <2>1. SessionTypeOK' /\ OneHolder'
    BY <1>3 DEF agentVars, SessionsInv, SessionTypeOK, OneHolder, Busy
  <2>2. \A p \in Procs : InPlace(p)'
    BY <1>3 DEF agentVars, vars, SessionsInv, InPlace, Busy, InTry, MessagesOf, Pending, Declared,
                Consumed, RunIds, MessageIds
  <2>. QED  BY <1>1, <2>1, <2>2 DEF SessionsInv
<1>. QED  BY <1>2, <1>3

LEMMA SessionsInvHolds == AgentSpec => []SessionsInv
<1>1. AgentInit => SessionsInv
  BY SessionsInvInit
<1>2. SessionsInv /\ [AgentNext]_agentVars => SessionsInv'
  BY SessionsInvStep
<1>. QED  BY <1>1, <1>2, PTL DEF AgentSpec

-----------------------------------------------------------------------------
(***************************************************************************)
(* Runs that are left running.                                             *)
(***************************************************************************)

\* Only begin_run makes a run running, and settling one ends it.
LEMMA RunningKept ==
  ASSUME TypeOK, \/ UNCHANGED runs
                 \/ \E r \in RunIds, role \in Roles, calls \in SUBSET CallIds,
                       result \in CallIds \cup {NoCall} : AppendMessage(r, role, calls, result)
  PROVE  \A r : Running(r)' => Running(r)
<1>1. CASE UNCHANGED runs
  BY <1>1 DEF Running, RunIds
<1>2. ASSUME NEW r \in RunIds, NEW role \in Roles, NEW calls \in SUBSET CallIds,
             NEW result \in CallIds \cup {NoCall}, AppendMessage(r, role, calls, result)
      PROVE  \A s : Running(s)' => Running(s)
  <2>1. RunIds' = RunIds /\ runs'[r].status = runs[r].status
        /\ \A s \in RunIds \ {r} : runs'[s] = runs[s]
    BY <1>2, AppendRows
  <2>. QED  BY <2>1 DEF Running
<1>. QED  BY <1>1, <1>2

LEMMA RunningSettled ==
  ASSUME TypeOK, NEW r \in RunIds, NEW target \in Terminal,
         NEW final \in {NoMessage} \cup MessageIds, NEW reason \in Reasons,
         TransitionRun(r, target, final, reason)
  PROVE  \A s : Running(s)' => Running(s) /\ s # r
<1>1. RunIds' = RunIds /\ runs'[r].status = target
      /\ \A s \in RunIds \ {r} : runs'[s] = runs[s]
  BY SettleRows
<1>2. target # "running"
  BY DEF Terminal
<1>. QED  BY <1>1, <1>2 DEF Running

\* A step of process p to state s after which a run is at work only if it was
\* before or s took it, and the run p was at work on, if it still runs, is still
\* that of s or was lost in a crash.
LetsNoRunGo(p, s) ==
  LET held == {r \in {s.run} : s.pc \notin {"down", "idle"}} IN
  /\ Moves(p, s)
  /\ crashed \subseteq crashed'
  /\ \A r : Running(r)' => Running(r) \/ r \in held
  /\ \A r : Holds(p, r) /\ Running(r)' => r \in crashed' \cup held

LEMMA RunsStayHeld ==
  ASSUME SessionsInv, AbandonedRunsCrashed, NEW p \in Procs, NEW s, LetsNoRunGo(p, s)
  PROVE  AbandonedRunsCrashed'
<1>1. session'[p] = s /\ \A q \in Procs \ {p} : session'[q] = session[q]
  BY DEF SessionsInv, SessionTypeOK, LetsNoRunGo, Moves
<1>2. SUFFICES ASSUME NEW r, Running(r)'
               PROVE  r \in crashed' \/ \E q \in Procs : Holds(q, r)'
  BY DEF AbandonedRunsCrashed
<1>3. r \in {x \in {s.run} : s.pc \notin {"down", "idle"}} => Holds(p, r)'
  BY <1>1 DEF Holds, Busy
<1>4. CASE ~Running(r)
  BY <1>2, <1>3, <1>4 DEF LetsNoRunGo
<1>5. CASE Running(r)
  <2>1. r \in crashed \/ \E q \in Procs : Holds(q, r)
    BY <1>5 DEF AbandonedRunsCrashed, Running
  <2>2. CASE r \in crashed
    BY <2>2 DEF LetsNoRunGo
  <2>3. ASSUME NEW q \in Procs \ {p}, Holds(q, r)
        PROVE  Holds(q, r)'
    BY <1>1, <2>3 DEF Holds, Busy
  <2>4. CASE Holds(p, r)
    BY <1>2, <1>3, <2>4 DEF LetsNoRunGo
  <2>. QED  BY <2>1, <2>2, <2>3, <2>4
<1>. QED  BY <1>4, <1>5

\* A process leaves the loop only with a run that is settled or crashed.
LEMMA LeavesSettled ==
  ASSUME SessionsInv, AbandonedRunsCrashed, NEW p \in Procs, session' = Down(p),
         crashed \subseteq crashed', \A r : Running(r)' => Running(r),
         \A r : Holds(p, r) /\ Running(r)' => r \in crashed'
  PROVE  AbandonedRunsCrashed'
<1>1. PICK s : Moves(p, s) /\ s.pc = "down"
  BY DownMoves DEF SessionsInv
<1>2. LetsNoRunGo(p, s)
  BY <1>1 DEF LetsNoRunGo
<1>. QED  BY <1>2, RunsStayHeld

\* A process goes on in the loop with the run it has.
LEMMA GoesOn ==
  ASSUME SessionsInv, AbandonedRunsCrashed, NEW p \in Procs, Busy(p), NEW s, Moves(p, s),
         s.run = session[p].run, s.pc \notin {"down", "idle"}, crashed' = crashed,
         \A r : Running(r)' => Running(r)
  PROVE  AbandonedRunsCrashed'
<1>1. LetsNoRunGo(p, s)
  BY DEF LetsNoRunGo, Holds
<1>. QED  BY <1>1, RunsStayHeld

LEMMA PromptHolds ==
  ASSUME SessionsInv, AbandonedRunsCrashed, NEW p \in Procs, Prompt(p)
  PROVE  AbandonedRunsCrashed'
<1>0. TypeOK /\ SessionTypeOK /\ session[p] \in Session /\ ~Busy(p) /\ crashed' = crashed
  BY DEF SessionsInv, SessionTypeOK, ThreadInv, Prompt, Busy
<1>1. session[p].thread \in Threads
  BY <1>0 DEF Session
<1>2. CASE session' = Down(p) /\ UNCHANGED vars
  <2>1. \A r : Running(r)' => Running(r)
    BY <1>0, <1>2, RunningKept DEF vars
  <2>. QED  BY <1>0, <1>2, <2>1, LeavesSettled DEF Holds
<1>3. CASE /\ BeginRun(session[p].thread)
           /\ session' = [session EXCEPT ![p].pc = "begun", ![p].run = Len(runs) + 1]
  <2>1. PICK n : n = Len(runs) + 1
    OBVIOUS
  <2>2. n \in Nat
    BY <1>0, <2>1, RowTypes
  <2>3. PICK s : s = [session[p] EXCEPT !.pc = "begun", !.run = n]
    OBVIOUS
  <2>4. s \in Session /\ s.pc = "begun" /\ s.run = n
    BY <1>0, <2>2, <2>3 DEF Session
  <2>5. session' = [session EXCEPT ![p] = s]
    BY <1>0, <1>3, <2>1, <2>3 DEF SessionTypeOK, Session
  <2>6. RunIds' = RunIds \cup {n} /\ \A r \in RunIds : runs'[r] = runs[r]
    BY <1>0, <1>1, <1>3, <2>1, BeginRows
  <2>7. \A r : Running(r)' => Running(r) \/ r = n
    BY <2>6 DEF Running
  <2>8. LetsNoRunGo(p, s)
    BY <1>0, <2>4, <2>5, <2>7 DEF LetsNoRunGo, Moves, Holds
  <2>. QED  BY <2>8, RunsStayHeld
<1>. QED  BY <1>2, <1>3 DEF Prompt

\* The thread of a running run is active, so only a run that another process settled
\* refuses its first message.
LEMMA RecordUserHolds ==
  ASSUME SessionsInv, AbandonedRunsCrashed, NEW p \in Procs, RecordUser(p)
  PROVE  AbandonedRunsCrashed'
<1>0. TypeOK /\ SessionTypeOK /\ InPlace(p) /\ RunningRunIsNewest /\ crashed' = crashed
  BY DEF SessionsInv, ThreadInv, RecordUser
<1>1. session[p] \in Session /\ session[p].pc = "begun" /\ Busy(p)
  BY <1>0 DEF SessionTypeOK, RecordUser, Busy
<1>2. PICK r : r = session[p].run /\ r \in RunIds
  BY <1>0, <1>1 DEF InPlace
<1>3. CASE /\ ~CanAppend(r, "user", {}, NoCall)
           /\ session' = Down(p) /\ UNCHANGED vars
  <2>1. MessagesOf(r) = {}
    BY <1>0, <1>1, <1>2 DEF InPlace
  <2>2. ValidToolMessage(MessagesOf(r), "user", {}, NoCall)
    BY <2>1 DEF ValidToolMessage, Pending, Declared
  <2>3. ~Running(r)
    BY <1>0, <1>2, <1>3, <2>2 DEF CanAppend, Running, RunningRunIsNewest
  <2>4. \A x : Running(x)' => Running(x)
    BY <1>0, <1>3, RunningKept DEF vars
  <2>. QED  BY <1>0, <1>2, <1>3, <2>3, <2>4, LeavesSettled DEF Holds
<1>4. CASE /\ AppendMessage(r, "user", {}, NoCall)
           /\ session' = [session EXCEPT ![p].pc = "turn", ![p].turn = 1,
                                         ![p].last = Len(messages) + 1]
  <2>1. PICK new : new = Len(messages) + 1 /\ new \in Nat
    BY <1>0, RowTypes
  <2>2. PICK s : s = [session[p] EXCEPT !.pc = "turn", !.turn = 1, !.last = new]
    OBVIOUS
  <2>3. s \in Session /\ s.pc = "turn" /\ s.run = session[p].run
    BY <1>1, <2>1, <2>2 DEF Session
  <2>4. session' = [session EXCEPT ![p] = s]
    BY <1>0, <1>1, <1>4, <2>1, <2>2 DEF SessionTypeOK, Session
  <2>5. \A x : Running(x)' => Running(x)
    BY <1>0, <1>2, <1>4, RunningKept DEF Roles
  <2>. QED  BY <1>0, <1>1, <2>3, <2>4, <2>5, GoesOn DEF Moves
<1>. QED  BY <1>2, <1>3, <1>4 DEF RecordUser, AppendUser

\* Inside the try every step keeps the run.
LEMMA TryHolds ==
  ASSUME SessionsInv, AbandonedRunsCrashed, NEW p \in Procs,
         ModelReply(p) \/ ToolResult(p) \/ Raise(p)
  PROVE  AbandonedRunsCrashed'
<1>0. TypeOK /\ SessionTypeOK /\ InPlace(p) /\ crashed' = crashed
  BY DEF SessionsInv, ThreadInv, ModelReply, ToolResult, Raise
<1>1. session[p] \in Session /\ Busy(p)
  BY <1>0 DEF SessionTypeOK, ModelReply, ToolResult, Raise, Busy, InTry
<1>2. PICK r : r = session[p].run /\ r \in RunIds
  BY <1>0, <1>1 DEF InPlace
<1>3. ASSUME NEW why \in {"refused", "error"}, session' = Raises(p, why), UNCHANGED vars
      PROVE  AbandonedRunsCrashed'
  <2>1. \A x : Running(x)' => Running(x)
    BY <1>0, <1>3, RunningKept DEF vars
  <2>. QED  BY <1>0, <1>1, <1>3, <2>1, RaiseMoves, GoesOn
<1>4. ASSUME NEW calls \in SUBSET CallIds, AppendMessage(r, "assistant", calls, NoCall),
             session' = [session EXCEPT ![p].pc = IF calls = {} THEN "completing" ELSE "tools",
                                        ![p].last = Len(messages) + 1, ![p].todo = calls]
      PROVE  AbandonedRunsCrashed'
  <2>0. Len(messages) + 1 \in Nat
    BY <1>0, RowTypes
  <2>1. PICK new, pc : /\ new = Len(messages) + 1 /\ new \in Nat
                       /\ pc = IF calls = {} THEN "completing" ELSE "tools"
    BY <2>0
  <2>2. PICK s : s = [session[p] EXCEPT !.pc = pc, !.last = new, !.todo = calls]
    OBVIOUS
  <2>3. s \in Session /\ s.pc = pc /\ s.run = session[p].run
    BY <1>1, <2>1, <2>2 DEF Session
  <2>4. session' = [session EXCEPT ![p] = s]
    BY <1>0, <1>1, <1>4, <2>1, <2>2 DEF SessionTypeOK, Session
  <2>5. \A x : Running(x)' => Running(x)
    BY <1>0, <1>2, <1>4, RunningKept DEF Roles
  <2>. QED  BY <1>0, <1>1, <2>1, <2>3, <2>4, <2>5, GoesOn DEF Moves
<1>5. ASSUME NEW c \in session[p].todo, AppendMessage(r, "tool", {}, c),
             session' = [session EXCEPT ![p] = AfterResult(@, c, Len(messages) + 1)]
      PROVE  AbandonedRunsCrashed'
  <2>1. PICK new : new = Len(messages) + 1 /\ new \in Nat
    BY <1>0, RowTypes
  <2>2. PICK s : s = AfterResult(session[p], c, new)
    OBVIOUS
  <2>3. s \in Session /\ s.pc \notin {"down", "idle"} /\ s.run = session[p].run
    <3>1. PICK left, turn, pc :
            /\ left = session[p].todo \ {c}
            /\ turn = IF left = {} /\ session[p].turn < MaxTurns THEN session[p].turn + 1
                      ELSE session[p].turn
            /\ pc = IF left # {} THEN "tools"
                    ELSE IF session[p].turn < MaxTurns THEN "turn" ELSE "completing"
      OBVIOUS
    <3>2. s = [session[p] EXCEPT !.last = new, !.todo = left, !.pc = pc, !.turn = turn]
      BY <2>2, <3>1 DEF AfterResult
    <3>3. left \in SUBSET CallIds /\ turn \in Nat
      BY <1>1, <3>1 DEF Session
    <3>4. pc \in {"tools", "turn", "completing"}
      BY <3>1
    <3>. QED  BY <1>1, <2>1, <3>2, <3>3, <3>4 DEF Session
  <2>4. session' = [session EXCEPT ![p] = s]
    BY <1>0, <1>5, <2>1, <2>2 DEF SessionTypeOK
  <2>5. \A x : Running(x)' => Running(x)
    <3>1. c \in CallIds
      BY <1>1, <1>5 DEF Session
    <3>. QED  BY <1>0, <1>2, <1>5, <3>1, RunningKept DEF Roles
  <2>. QED  BY <1>0, <1>1, <2>3, <2>4, <2>5, GoesOn DEF Moves
<1>. QED  BY <1>2, <1>3, <1>4, <1>5 DEF ModelReply, ToolResult, Raise

\* complete_run and fail_run settle the run they are given.
LEMMA SettledRun ==
  ASSUME TypeOK, NEW r \in RunIds,
         FailRun(r) \/ InterruptRun(r) \/ \E final : CompleteRun(r, final)
  PROVE  \A s : Running(s)' => Running(s) /\ s # r
<1>1. \E target \in Terminal, reason \in Reasons, final \in {NoMessage} \cup MessageIds :
        TransitionRun(r, target, final, reason)
  BY DEF CompleteRun, FailRun, InterruptRun, TransitionRun, ValidFinal, MessagesOf, Terminal,
         Reasons
<1>. QED  BY <1>1, RunningSettled

LEMMA EndsHold ==
  ASSUME SessionsInv, AbandonedRunsCrashed, NEW p \in Procs,
         Load(p) \/ Complete(p) \/ Fail(p) \/ Crash(p)
  PROVE  AbandonedRunsCrashed'
<1>0. TypeOK /\ SessionTypeOK /\ InPlace(p) /\ session[p] \in Session
  BY DEF SessionsInv, SessionTypeOK, ThreadInv
<1>1. UNCHANGED vars => \A r : Running(r)' => Running(r)
  BY <1>0, RunningKept DEF vars
<1>2. PICK run : run = session[p].run
  OBVIOUS
<1>3. Busy(p) => run \in RunIds
  BY <1>0, <1>2 DEF InPlace
<1>4. CASE Load(p)
  <2>1. PICK t \in Threads : session' = [session EXCEPT ![p].pc = "idle", ![p].thread = t]
    BY <1>4 DEF Load
  <2>2. PICK s : s = [session[p] EXCEPT !.pc = "idle", !.thread = t]
    OBVIOUS
  <2>3. s \in Session /\ s.pc = "idle"
    BY <1>0, <2>2 DEF Session
  <2>4. session' = [session EXCEPT ![p] = s]
    BY <1>0, <2>1, <2>2 DEF SessionTypeOK, Session
  <2>5. LetsNoRunGo(p, s)
    BY <1>1, <1>4, <2>3, <2>4 DEF LetsNoRunGo, Moves, Load, Holds, Busy
  <2>. QED  BY <2>5, RunsStayHeld
<1>5. CASE Complete(p)
  <2>0. Busy(p) /\ crashed' = crashed
    BY <1>5 DEF Complete, Busy
  <2>1. ASSUME NEW why \in {"refused", "final"}, session' = Raises(p, why), UNCHANGED vars
        PROVE  AbandonedRunsCrashed'
    BY <1>0, <1>1, <2>0, <2>1, RaiseMoves, GoesOn
  <2>2. CASE /\ CompleteRun(run, session[p].last)
             /\ session' = [session EXCEPT ![p].pc = "idle", ![p].run = NoRun, ![p].turn = 0]
    <3>1. PICK s : s = [session[p] EXCEPT !.pc = "idle", !.run = NoRun, !.turn = 0]
      OBVIOUS
    <3>2. s \in Session /\ s.pc = "idle"
      BY <1>0, <3>1 DEF Session, NoRun
    <3>3. session' = [session EXCEPT ![p] = s]
      BY <1>0, <2>2, <3>1 DEF SessionTypeOK, Session
    <3>4. \A r : Running(r)' => Running(r) /\ r # run
      BY <1>0, <1>3, <2>0, <2>2, SettledRun
    <3>5. LetsNoRunGo(p, s)
      BY <1>2, <2>0, <3>2, <3>3, <3>4 DEF LetsNoRunGo, Moves, Holds
    <3>. QED  BY <3>5, RunsStayHeld
  <2>. QED  BY <1>2, <1>5, <2>1, <2>2 DEF Complete
<1>6. CASE Fail(p)
  <2>1. Busy(p) /\ crashed' = crashed /\ session' = Down(p)
    BY <1>6 DEF Fail, Busy
  <2>2. \A r : Running(r)' => Running(r) /\ r # run
    <3>1. CASE FailRun(run)
      BY <1>0, <1>3, <2>1, <3>1, SettledRun
    <3>2. CASE ~CanTransition(run) /\ UNCHANGED vars
      BY <1>1, <3>2 DEF CanTransition, Running
    <3>. QED  BY <1>2, <1>6, <3>1, <3>2 DEF Fail
  <2>. QED  BY <1>2, <2>1, <2>2, LeavesSettled DEF Holds
<1>7. CASE Crash(p)
  <2>1. session' = Down(p) /\ UNCHANGED vars /\ crashed' = crashed \cup ({run} \ {NoRun})
    BY <1>2, <1>7 DEF Crash
  <2>2. Busy(p) => run # NoRun
    BY <1>0, <1>3, RowTypes DEF NoRun
  <2>3. \A r : Holds(p, r) => r \in crashed'
    BY <1>2, <2>1, <2>2 DEF Holds
  <2>. QED  BY <1>1, <2>1, <2>3, LeavesSettled
<1>. QED  BY <1>4, <1>5, <1>6, <1>7

\* A run nobody works on is not left running, unless its process died or raised
\* outside the try, whatever other processes and the user's commands do in between.
THEOREM RunsNotAbandoned == AgentSpec => []AbandonedRunsCrashed
<1>1. AgentInit => AbandonedRunsCrashed
  BY DEF AgentInit, Init, AbandonedRunsCrashed, RunIds
<1>2. ASSUME SessionsInv, AbandonedRunsCrashed, [AgentNext]_agentVars
      PROVE  AbandonedRunsCrashed'
  <2>1. CASE UNCHANGED agentVars
    BY <1>2, <2>1 DEF agentVars, vars, AbandonedRunsCrashed, Running, RunIds, Holds, Busy
  <2>2. CASE UserCommand
    <3>1. TypeOK /\ session' = session /\ crashed' = crashed
      BY <1>2, <2>2 DEF SessionsInv, ThreadInv, UserCommand
    <3>2. \A r : Running(r)' => Running(r)
      <4>1. CASE \E t \in Threads : CreateThread(t) \/ ArchiveThread(t)
        BY <3>1, <4>1, RunningKept DEF CreateThread, ArchiveThread
      <4>2. CASE \E r \in RunIds : InterruptRun(r)
        BY <3>1, <4>2, SettledRun
      <4>. QED  BY <2>2, <4>1, <4>2 DEF UserCommand
    <3>. QED  BY <1>2, <3>1, <3>2 DEF AbandonedRunsCrashed, Running, Holds, Busy
  <2>. QED  BY <1>2, <2>1, <2>2, PromptHolds, RecordUserHolds, TryHolds, EndsHold
            DEF AgentNext, LoopStep
<1>. QED  BY <1>1, <1>2, SessionsInvHolds, PTL DEF AgentSpec

-----------------------------------------------------------------------------
(***************************************************************************)
(* What a completed run says.                                              *)
(***************************************************************************)
Answered(r) ==
  LET final == runs[r].final_message_id IN
  /\ final \in MessagesOf(r)
  /\ \A m \in MessagesOf(r) : m <= final
  /\ messages[final].role = "assistant"
  /\ Pending(MessagesOf(r)) = {}

LEMMA AnswerKept ==
  ASSUME NEW r, Answered(r), runs'[r] = runs[r], MessagesOf(r)' = MessagesOf(r),
         \A m \in MessageIds : messages'[m] = messages[m]
  PROVE  Answered(r)'
<1>1. PICK M, final : M = MessagesOf(r) /\ final = runs[r].final_message_id
  OBVIOUS
<1>2. \A m \in M : messages'[m] = messages[m]
  BY <1>1 DEF MessagesOf
<1>3. Pending(M)' = Pending(M)
  BY <1>2, CallsKept
<1>4. messages'[final] = messages[final]
  BY <1>1, <1>2 DEF Answered
<1>. QED  BY <1>1, <1>3, <1>4 DEF Answered

\* A run is completed by the process that holds it, with the message it recorded last:
\* complete_run takes no tool result, and the loop comes to it with every call closed.
LEMMA CompletionAnswers ==
  ASSUME SessionsInv, NEW p \in Procs, Complete(p), NEW r, Running(r), runs'[r].status = "completed"
  PROVE  Answered(r)'
<1>0. TypeOK /\ InPlace(p) /\ session[p].pc = "completing" /\ Busy(p)
  BY DEF SessionsInv, ThreadInv, Complete, Busy
<1>1. PICK run, last : run = session[p].run /\ last = session[p].last /\ run \in RunIds
  BY <1>0 DEF InPlace
<1>2. runs[r].status = "running" /\ r \in RunIds
  BY DEF Running
<1>3. CompleteRun(run, last)
  BY <1>1, <1>2 DEF Complete, vars
<1>4. /\ last \in MessagesOf(run) /\ \A m \in MessagesOf(run) : m <= last
      /\ Pending(MessagesOf(run)) = {} /\ messages[last].role # "user"
  BY <1>0, <1>1 DEF InPlace, InTry
<1>5. last \in MessageIds /\ last # NoMessage /\ messages[last].role \in Roles
  BY <1>0, <1>4, RowTypes DEF MessagesOf, NoMessage, MessageRow
<1>6. messages[last].role = "assistant"
  BY <1>3, <1>4, <1>5 DEF CompleteRun, TransitionRun, ValidFinal, Roles
<1>7. /\ runs'[run].final_message_id = last
      /\ \A s \in RunIds \ {run} : runs'[s] = runs[s]
  BY <1>0, <1>1, <1>3, <1>5, SettleRows DEF CompleteRun, Terminal, Reasons
<1>8. r = run
  BY <1>2, <1>7
<1>9. messages' = messages
  BY <1>3 DEF CompleteRun, TransitionRun
<1>10. MessagesOf(run)' = MessagesOf(run) /\ Pending(MessagesOf(run))' = Pending(MessagesOf(run))
  BY <1>9 DEF MessagesOf, MessageIds, Pending, Declared, Consumed
<1>. QED  BY <1>4, <1>6, <1>7, <1>8, <1>9, <1>10 DEF Answered

\* No other step completes a run.
LEMMA OnlyCompleted ==
  ASSUME SessionsInv, [AgentNext]_agentVars, NEW r, Running(r), runs'[r].status = "completed"
  PROVE  \E p \in Procs : Complete(p)
<1>0. TypeOK /\ SessionTypeOK /\ r \in RunIds /\ runs[r].status = "running"
  BY DEF SessionsInv, ThreadInv, Running
<1>1. ASSUME runs' = runs
      PROVE  FALSE
  BY <1>0, <1>1
<1>2. ASSUME NEW t \in Threads, BeginRun(t)
      PROVE  FALSE
  BY <1>0, <1>2, BeginRows
<1>3. ASSUME NEW s \in RunIds, NEW role \in Roles, NEW calls \in SUBSET CallIds,
             NEW result \in CallIds \cup {NoCall}, AppendMessage(s, role, calls, result)
      PROVE  FALSE
  <2>1. runs'[s].status = runs[s].status /\ \A x \in RunIds \ {s} : runs'[x] = runs[x]
    BY <1>0, <1>3, AppendRows
  <2>. QED  BY <1>0, <2>1
<1>4. ASSUME NEW s \in RunIds, FailRun(s) \/ InterruptRun(s)
      PROVE  FALSE
  <2>1. PICK target \in {"failed", "interrupted"}, reason \in Reasons :
          TransitionRun(s, target, NoMessage, reason)
    BY <1>4 DEF FailRun, InterruptRun, Reasons
  <2>2. runs'[s].status = target /\ \A x \in RunIds \ {s} : runs'[x] = runs[x]
    BY <1>0, <2>1, SettleRows DEF Terminal
  <2>. QED  BY <1>0, <2>2
<1>5. ASSUME NEW p \in Procs, Busy(p)
      PROVE  session[p].run \in RunIds /\ session[p].todo \subseteq CallIds
  BY <1>0, <1>5 DEF SessionsInv, InPlace, SessionTypeOK, Session
<1>6. \A p \in Procs : session[p].thread \in Threads
  BY <1>0 DEF SessionTypeOK, Session
<1>7. ASSUME NEW p \in Procs
      PROVE  /\ ~Prompt(p) /\ ~Load(p) /\ ~Raise(p) /\ ~Crash(p)
             /\ ~RecordUser(p) /\ ~ModelReply(p) /\ ~ToolResult(p) /\ ~Fail(p)
  <2>1. ~Prompt(p)
    BY <1>1, <1>2, <1>6 DEF Prompt, vars
  <2>2. ~Load(p) /\ ~Raise(p) /\ ~Crash(p)
    BY <1>1 DEF Load, Raise, Crash, vars
  <2>3. ~RecordUser(p)
    BY <1>1, <1>3, <1>5 DEF RecordUser, AppendUser, Busy, Roles, vars
  <2>4. ~ModelReply(p)
    BY <1>1, <1>3, <1>5 DEF ModelReply, Busy, Roles, vars
  <2>5. ~ToolResult(p)
    BY <1>1, <1>3, <1>5 DEF ToolResult, Busy, Roles, vars
  <2>6. ~Fail(p)
    BY <1>1, <1>4, <1>5 DEF Fail, Busy, vars
  <2>. QED  BY <2>1, <2>2, <2>3, <2>4, <2>5, <2>6
<1>8. ~UserCommand
  BY <1>1, <1>4 DEF UserCommand, CreateThread, ArchiveThread
<1>9. AgentNext
  BY <1>1 DEF agentVars, vars
<1>. QED  BY <1>7, <1>8, <1>9 DEF AgentNext, LoopStep

\* A completed run is answered: the message the loop remembers as its last is that of
\* the run it completes, through every run a session has held before.
THEOREM CompletedRunsAnswered == AgentSpec => []CompletedRunsAreAnswered
<1>1. AgentInit => CompletedRunsAreAnswered
  BY DEF AgentInit, Init, CompletedRunsAreAnswered, RunIds
<1>2. ASSUME SessionsInv, CompletedRunsAreAnswered, [AgentNext]_agentVars
      PROVE  CompletedRunsAreAnswered'
  <2>1. TypeOK /\ StepCase /\ ThreadInv
    BY <1>2, AgentSteps DEF SessionsInv, ThreadInv
  <2>2. SUFFICES ASSUME NEW r \in RunIds', runs'[r].status = "completed"
                 PROVE  Answered(r)'
    BY DEF CompletedRunsAreAnswered, Answered
  <2>3. \A m \in MessageIds : messages'[m] = messages[m]
    BY <2>1, MessageSteps
  <2>4. CASE r \in RunIds /\ runs[r].status = "running"
    BY <1>2, <2>2, <2>4, OnlyCompleted, CompletionAnswers DEF Running
  <2>5. CASE r \in RunIds /\ runs[r].status # "running"
    <3>1. runs[r].status \in Terminal
      BY <2>1, <2>5, RowTypes DEF RunRow
    <3>2. runs'[r] = runs[r] /\ MessagesOf(r)' = MessagesOf(r)
      BY <2>1, <2>5, <3>1, TerminalKept
    <3>3. Answered(r)
      BY <1>2, <2>2, <2>5, <3>2 DEF CompletedRunsAreAnswered, Answered
    <3>. QED  BY <2>3, <3>2, <3>3, AnswerKept
  <2>6. CASE r \notin RunIds
    <3>1. ASSUME NEW t \in Threads, BeginRun(t)
          PROVE  FALSE
      <4>1. PICK new : new = Len(runs) + 1 /\ RunIds' = RunIds \cup {new} /\ runs'[new] = NewRun(t)
        BY <2>1, <3>1, BeginRows
      <4>2. runs'[r].status = "running"
        BY <2>2, <2>6, <4>1 DEF NewRun
      <4>. QED  BY <2>2, <4>2
    <3>2. CASE Settling
      BY <2>1, <2>2, <2>6, <3>2, SettleRows DEF Settling
    <3>3. CASE Appending
      BY <2>1, <2>2, <2>6, <3>3, AppendRows DEF Appending
    <3>4. CASE runs' = runs
      BY <2>2, <2>6, <3>4 DEF RunIds
    <3>. QED  BY <2>1, <3>1, <3>2, <3>3, <3>4 DEF StepCase, ThreadChange
  <2>. QED  BY <2>4, <2>5, <2>6
<1>. QED  BY <1>1, <1>2, SessionsInvHolds, PTL DEF AgentSpec

\* A thread can be loaded again whatever the processes that worked on it did: Load never
\* finds an active thread it cannot read.
THEOREM SessionsLoad == AgentSpec => []ThreadsReadable
<1>1. SessionsInv => ThreadsReadable
  BY DEF SessionsInv, ThreadInv
<1>. QED  BY <1>1, SessionsInvHolds, PTL

-----------------------------------------------------------------------------
(***************************************************************************)
(* One request to the model: the words of a text.                          *)
(***************************************************************************)
Blanks(text) == \A k \in DOMAIN text : text[k] = Blank

\* The first word of the text opens a JSON object.
OpensJson(text) ==
  \E k \in DOMAIN text : text[k] = Open /\ \A j \in 1..(k - 1) : text[j] = Blank

\* What its elements are does not matter: a sequence.
IsSequence(q) == q \in Seq({q[k] : k \in DOMAIN q})

LEMMA Least ==
  ASSUME NEW S \in SUBSET Nat, S # {}
  PROVE  \E m \in S : \A n \in S : m <= n
<1>. DEFINE R == OpToRel(<, Nat)
<1>1. IsWellFoundedOn(R, Nat)
  BY NatLessThanWellFounded
<1>2. PICK m \in S : \A n \in S : <<n, m>> \notin R
  <2>. HIDE DEF R
  <2>. QED  BY <1>1, WFMin
<1>3. \A n \in S : ~(n < m)
  BY <1>2 DEF OpToRel
<1>. QED  BY <1>3

LEMMA StripBlanks ==
  ASSUME NEW text, Blanks(text)
  PROVE  LStrip(text) = <<>>
  BY DEF Blanks, LStrip, NotBlank

\* Where there is a word, the stripped text begins with the first.
LEMMA StripToWord ==
  ASSUME NEW S, NEW text \in Seq(S), ~Blanks(text)
  PROVE  \E k \in DOMAIN text : /\ text[k] # Blank
                                /\ \A j \in 1..(k - 1) : text[j] = Blank
                                /\ LStrip(text) = SubSeq(text, k, Len(text))
                                /\ LStrip(text) # <<>>
                                /\ Head(LStrip(text)) = text[k]
<1>. DEFINE words == {i \in DOMAIN text : NotBlank(text[i])}
<1>1. words \in SUBSET Nat /\ words # {} /\ DOMAIN text = 1..Len(text) /\ Len(text) \in Nat
  BY DEF Blanks, NotBlank
<1>2. \E m \in words : \A n \in words : m <= n
  BY <1>1, Least
<1>. DEFINE k == CHOOSE i \in words : \A j \in words : i <= j
<1>3. k \in words /\ \A j \in words : k <= j
  <2>. HIDE DEF words
  <2>. QED  BY <1>2
<1>4. LStrip(text) = SubSeq(text, k, Len(text))
  BY <1>1 DEF LStrip
<1>. HIDE DEF k
<1>5. text[k] # Blank /\ k \in DOMAIN text /\ \A j \in 1..(k - 1) : text[j] = Blank
  <2>1. \A j \in 1..(k - 1) : j \in DOMAIN text /\ ~(k <= j)
    BY <1>1, <1>3
  <2>. QED  BY <1>1, <1>3, <2>1 DEF NotBlank
<1>6. /\ SubSeq(text, k, Len(text)) # <<>>
      /\ Head(SubSeq(text, k, Len(text))) = text[k]
  BY <1>1, <1>5, SubSeqProperties
<1>. QED  BY <1>4, <1>5, <1>6

LEMMA StrippedIsBlank ==
  ASSUME NEW S, NEW text \in Seq(S), LStrip(text) = <<>>
  PROVE  Blanks(text)
  BY StripToWord

\* Blanks before a text do not show.
LEMMA StripPrefix ==
  ASSUME NEW S, NEW front \in Seq(S), NEW text \in Seq(S), Blanks(front)
  PROVE  LStrip(front \o text) = LStrip(text)
<1>. DEFINE all == front \o text
<1>1. /\ all \in Seq(S) /\ Len(all) = Len(front) + Len(text)
      /\ Len(front) \in Nat /\ Len(text) \in Nat
      /\ DOMAIN all = 1..Len(all) /\ DOMAIN text = 1..Len(text) /\ DOMAIN front = 1..Len(front)
      /\ \A i \in 1..Len(all) : all[i] = IF i <= Len(front) THEN front[i] ELSE text[i - Len(front)]
  BY ConcatProperties
<1>. HIDE DEF all
<1>2. CASE Blanks(text)
  <2>1. ASSUME NEW i \in DOMAIN all PROVE all[i] = Blank
    <3>1. CASE i <= Len(front)
      BY <1>1, <3>1 DEF Blanks
    <3>2. CASE ~(i <= Len(front))
      <4>1. i - Len(front) \in DOMAIN text /\ all[i] = text[i - Len(front)]
        BY <1>1, <3>2
      <4>. QED  BY <1>2, <4>1 DEF Blanks
    <3>. QED  BY <3>1, <3>2
  <2>2. Blanks(all)
    BY <2>1 DEF Blanks
  <2>. QED  BY <1>2, <2>2, StripBlanks DEF all
<1>3. CASE ~Blanks(text)
  <2>1. PICK k \in DOMAIN text : /\ text[k] # Blank
                                 /\ \A j \in 1..(k - 1) : text[j] = Blank
                                 /\ LStrip(text) = SubSeq(text, k, Len(text))
    BY <1>3, StripToWord
  <2>2. all[Len(front) + k] # Blank /\ Len(front) + k \in 1..Len(all)
    BY <1>1, <2>1
  <2>3. PICK h \in DOMAIN all : /\ all[h] # Blank
                                /\ \A j \in 1..(h - 1) : all[j] = Blank
                                /\ LStrip(all) = SubSeq(all, h, Len(all))
    BY <1>1, <2>2, StripToWord DEF Blanks
  <2>4. ~(Len(front) + k < h)
    BY <1>1, <2>1, <2>2, <2>3
  <2>5. ~(h < Len(front) + k)
    <3>1. SUFFICES ASSUME h < Len(front) + k PROVE FALSE
      OBVIOUS
    <3>2. CASE h <= Len(front)
      BY <1>1, <2>3, <3>2 DEF Blanks
    <3>3. CASE h > Len(front)
      <4>1. h - Len(front) \in 1..(k - 1) /\ all[h] = text[h - Len(front)]
        BY <1>1, <3>1, <3>3
      <4>. QED  BY <2>1, <2>3, <4>1
    <3>. QED  BY <1>1, <3>2, <3>3
  <2>6. h = Len(front) + k
    BY <1>1, <2>4, <2>5
  <2>7. SubSeq(all, h, Len(all)) = SubSeq(text, k, Len(text))
    <3>. DEFINE left == SubSeq(all, h, Len(all))
                right == SubSeq(text, k, Len(text))
    <3>1. /\ left \in Seq(S) /\ Len(left) = Len(all) - h + 1
          /\ \A i \in 1..(Len(all) - h + 1) : left[i] = all[h + i - 1]
      BY SMTT(20), <1>1, <2>3, SubSeqProperties
    <3>2. /\ right \in Seq(S) /\ Len(right) = Len(text) - k + 1
          /\ \A i \in 1..(Len(text) - k + 1) : right[i] = text[k + i - 1]
      BY SMTT(20), <1>1, <2>1, SubSeqProperties
    <3>. HIDE DEF left, right
    <3>3. Len(left) = Len(right) /\ Len(left) \in Nat
      BY <1>1, <2>6, <3>1, <3>2
    <3>4. ASSUME NEW i \in 1..Len(left) PROVE left[i] = right[i]
      <4>1. i \in Nat /\ i \in 1..(Len(all) - h + 1) /\ i \in 1..(Len(text) - k + 1)
        BY <1>1, <2>6, <3>1, <3>2
      <4>. DEFINE g == h + i - 1
      <4>2. /\ g \in 1..Len(all) /\ ~(g <= Len(front)) /\ g - Len(front) = k + i - 1
        <5>1. k \in 1..Len(text)
          BY <1>1
        <5>. QED  BY SMTT(20), <1>1, <2>6, <4>1, <5>1
      <4>. HIDE DEF g
      <4>3. all[g] = text[g - Len(front)]
        BY <1>1, <4>2
      <4>. QED  BY <3>1, <3>2, <4>1, <4>2, <4>3 DEF g
    <3>5. left = right
      BY <3>1, <3>2, <3>3, <3>4, SeqEqual
    <3>. QED  BY <3>5 DEF left, right
  <2>. QED  BY <2>1, <2>3, <2>7 DEF all
<1>. QED  BY <1>2, <1>3

\* A piece more: the first word of a text stays what it is.
LEMMA PieceAppended ==
  ASSUME NEW S, NEW text \in Seq(S), NEW p \in S
  PROVE  /\ OpensJson(text) => OpensJson(Append(text, p))
         /\ ~Blanks(text) /\ ~OpensJson(text)
              => ~Blanks(Append(text, p)) /\ ~OpensJson(Append(text, p))
         /\ Blanks(text) /\ p = Blank => Blanks(Append(text, p))
<1>1. /\ Len(text) \in Nat /\ DOMAIN text = 1..Len(text)
      /\ DOMAIN Append(text, p) = 1..(Len(text) + 1)
      /\ \A i \in 1..Len(text) : Append(text, p)[i] = text[i]
      /\ Append(text, p)[Len(text) + 1] = p
  BY AppendProperties
<1>. HIDE DEF Open, Blank
<1>2. ASSUME OpensJson(text) PROVE OpensJson(Append(text, p))
  BY <1>1, <1>2 DEF OpensJson
<1>3. ASSUME ~Blanks(text), ~OpensJson(text)
      PROVE  ~Blanks(Append(text, p)) /\ ~OpensJson(Append(text, p))
  <2>1. PICK w \in DOMAIN text : text[w] # Blank
    BY <1>3 DEF Blanks
  <2>2. ~Blanks(Append(text, p))
    BY <1>1, <2>1 DEF Blanks
  <2>3. SUFFICES ASSUME NEW k \in 1..(Len(text) + 1), Append(text, p)[k] = Open,
                        \A j \in 1..(k - 1) : Append(text, p)[j] = Blank
                 PROVE  FALSE
    BY <1>1, <2>2 DEF OpensJson
  <2>4. CASE k = Len(text) + 1
    <3>1. w \in 1..(k - 1)
      BY <1>1, <2>4
    <3>. QED  BY <1>1, <2>1, <2>3, <3>1
  <2>5. CASE k \in 1..Len(text)
    <3>1. \A j \in 1..(k - 1) : text[j] = Blank
      BY <1>1, <2>3, <2>5
    <3>. QED  BY <1>1, <1>3, <2>3, <2>5, <3>1 DEF OpensJson
  <2>. QED  BY <1>1, <2>4, <2>5
<1>4. ASSUME Blanks(text), p = Blank PROVE Blanks(Append(text, p))
  BY <1>1, <1>4 DEF Blanks
<1>. QED  BY <1>2, <1>3, <1>4

-----------------------------------------------------------------------------
(***************************************************************************)
(* The worker thread, the queue and what was shown.                        *)
(***************************************************************************)
Text == Seq(Pieces)

\* The first n of the queue are pieces of the text, to be shown as they were read.
Singles(q, n) ==
  /\ n \in 0..Len(q)
  /\ \A k \in 1..n : q[k].kind = "delta" /\ q[k].data = <<q[k].data[1]>> /\ q[k].data[1] \in Pieces

SinglesText(q, n) == [k \in 1..n |-> q[k].data[1]]

\* What will have been shown after the first n of the queue.
ShownAfter(n) == shown \o SinglesText(queue, n)

\* While the worker thread reads, what it read has been put for the event loop, or is
\* held back behind blanks.
ReadSoFar ==
  /\ Singles(queue, Len(queue))
  /\ worker.defer_content # "yes" => ShownAfter(Len(queue)) = worker.parts
  /\ worker.defer_content = "yes" => Blanks(ShownAfter(Len(queue)))

IsAnswer(m) == /\ m.kind = "done" /\ m.data.content \in Text
               /\ m.data = NoResponse => m.data.content = <<>>

\* When it has ended, the last of the queue tells the event loop.
Told ==
  LET last == queue[Len(queue)] IN
  \/ Singles(queue, Len(queue) - 1) /\ last.kind = "error"
  \/ /\ Singles(queue, Len(queue) - 1) /\ IsAnswer(last)
     /\ LStrip(ShownAfter(Len(queue) - 1)) = LStrip(last.data.content)
  \/ /\ Singles(queue, Len(queue) - 2) /\ IsAnswer(last)
     /\ Blanks(ShownAfter(Len(queue) - 2))
     /\ queue[Len(queue) - 1] = [kind |-> "delta", data |-> last.data.content]

Deferring ==
  /\ worker.defer_content \in {"unknown", "yes", "no"}
  /\ worker.defer_content = "unknown" => Blanks(worker.parts)
  /\ worker.defer_content = "no" => ~Blanks(worker.parts) /\ ~OpensJson(worker.parts)
  /\ worker.defer_content = "yes" => OpensJson(worker.parts)

StreamInv ==
  /\ IsSequence(queue) /\ shown \in Text /\ worker.parts \in Text
  /\ worker = [pc |-> worker.pc, parts |-> worker.parts, chunks |-> worker.chunks,
                defer_content |-> worker.defer_content]
  /\ request = [pc |-> request.pc, response |-> request.response]
  /\ worker.pc \in {"unstarted", "reading", "ended"}
  /\ Deferring
  /\ worker.pc # "ended" => request.pc \in {"none", "streaming"} /\ ReadSoFar
  /\ worker.pc = "ended" /\ request.pc = "streaming" => Told
  /\ request.pc = "none" => worker.pc = "unstarted"
  /\ request.pc = "asking again" => Blanks(shown)
  /\ ShownIsTheAnswer

LEMMA Sequences ==
  ASSUME NEW S, NEW q \in Seq(S)
  PROVE  IsSequence(q)
<1>1. \A k \in DOMAIN q : q[k] \in {q[j] : j \in DOMAIN q}
  OBVIOUS
<1>. QED  BY <1>1 DEF IsSequence

\* A text grows by the piece that is put on the queue, or by none.
LEMMA SinglesGrow ==
  ASSUME NEW q, IsSequence(q), Singles(q, Len(q)), NEW p \in Pieces, NEW before \in Text
  PROVE  LET r == Append(q, [kind |-> "delta", data |-> <<p>>])
         IN /\ IsSequence(r) /\ Singles(r, Len(r))
            /\ before \o SinglesText(r, Len(r)) = Append(before \o SinglesText(q, Len(q)), p)
<1>. DEFINE m == [kind |-> "delta", data |-> <<p>>]
            r == Append(q, m)
<1>1. PICK S : q \in Seq(S)
  BY DEF IsSequence
<1>2. /\ r \in Seq(S \cup {m}) /\ Len(r) = Len(q) + 1 /\ Len(q) \in Nat /\ r[Len(q) + 1] = m
      /\ \A i \in 1..Len(q) : r[i] = q[i]
  <2>1. q \in Seq(S \cup {m})
    BY <1>1
  <2>. QED  BY <2>1, AppendProperties
<1>3. m.kind = "delta" /\ m.data = <<p>> /\ m.data[1] = p
  OBVIOUS
<1>. HIDE DEF m, r
<1>4. IsSequence(r) /\ Singles(r, Len(r))
  <2>1. IsSequence(r)
    BY <1>2, Sequences
  <2>2. ASSUME NEW k \in 1..Len(r)
        PROVE  r[k].kind = "delta" /\ r[k].data = <<r[k].data[1]>> /\ r[k].data[1] \in Pieces
    <3>1. CASE k \in 1..Len(q)
      BY <1>2, <3>1 DEF Singles
    <3>2. CASE k = Len(q) + 1
      BY <1>2, <1>3, <3>2
    <3>. QED  BY <1>2, <3>1, <3>2
  <2>. QED  BY <1>2, <2>1, <2>2 DEF Singles
<1>5. before \o SinglesText(r, Len(r)) = Append(before \o SinglesText(q, Len(q)), p)
  <2>. DEFINE x == SinglesText(q, Len(q))
              y == SinglesText(r, Len(r))
  <2>1. x \in Seq(Pieces) /\ Len(x) = Len(q) /\ \A k \in 1..Len(q) : x[k] = q[k].data[1]
    BY <1>2 DEF SinglesText, Singles
  <2>2. y \in Seq(Pieces) /\ Len(y) = Len(q) + 1 /\ \A k \in 1..(Len(q) + 1) : y[k] = r[k].data[1]
    BY <1>2, <1>4 DEF SinglesText, Singles
  <2>. HIDE DEF x, y
  <2>3. y = Append(x, p)
    <3>1. Append(x, p) \in Seq(Pieces) /\ Len(Append(x, p)) = Len(q) + 1
          /\ Append(x, p)[Len(q) + 1] = p /\ \A i \in 1..Len(q) : Append(x, p)[i] = x[i]
      BY <2>1, AppendProperties
    <3>2. \A i \in 1..Len(q) : y[i] = x[i]
      BY <1>2, <2>1, <2>2
    <3>3. y[Len(q) + 1] = p
      BY <1>2, <1>3, <2>2
    <3>4. \A i \in 1..Len(y) : y[i] = Append(x, p)[i]
      BY <1>2, <2>2, <3>1, <3>2, <3>3
    <3>. QED  BY <1>2, <2>2, <3>1, <3>4, SeqEqual
  <2>4. before \o Append(x, p) = Append(before \o x, p)
    BY <2>1 DEF Text
  <2>. QED  BY <2>3, <2>4 DEF x, y
<1>. QED  BY <1>4, <1>5 DEF m, r

\* What the event loop takes from the queue is shown before the rest of it.
LEMMA SinglesShown ==
  ASSUME NEW q, IsSequence(q), NEW n \in Nat \ {0}, Singles(q, n), NEW before \in Text
  PROVE  LET r == Tail(q)
             now == before \o Head(q).data
         IN /\ IsSequence(r) /\ Len(r) = Len(q) - 1 /\ now \in Text /\ Singles(r, n - 1)
            /\ \A k \in 1..Len(r) : r[k] = q[k + 1]
            /\ now \o SinglesText(r, n - 1) = before \o SinglesText(q, n)
<1>. DEFINE r == Tail(q)
            p == q[1].data[1]
<1>1. PICK S : q \in Seq(S)
  BY DEF IsSequence
<1>2. /\ Len(q) \in Nat /\ n \in 1..Len(q) /\ q # <<>> /\ Head(q) = q[1]
      /\ r \in Seq(S) /\ Len(r) = Len(q) - 1 /\ \A k \in 1..Len(r) : r[k] = q[k + 1]
  BY <1>1, HeadTailProperties DEF Singles
<1>3. Head(q).data = <<p>> /\ p \in Pieces
  BY <1>2 DEF Singles
<1>. HIDE DEF r, p
<1>4. IsSequence(r)
  BY <1>2, Sequences
<1>5. \A k \in 1..(n - 1) : r[k] = q[k + 1] /\ k + 1 \in 1..n
  BY <1>2
<1>6. Singles(r, n - 1)
  BY <1>2, <1>5 DEF Singles
<1>. DEFINE x == SinglesText(q, n)
            y == SinglesText(r, n - 1)
<1>7. x \in Seq(Pieces) /\ Len(x) = n /\ \A k \in 1..n : x[k] = q[k].data[1]
  BY <1>2 DEF SinglesText, Singles
<1>8. y \in Seq(Pieces) /\ Len(y) = n - 1 /\ \A k \in 1..(n - 1) : y[k] = q[k + 1].data[1]
  BY <1>2, <1>5, <1>6 DEF SinglesText, Singles
<1>9. x[1] = p
  BY <1>2, <1>7 DEF p
<1>. HIDE DEF x, y
<1>10. <<p>> \o y = x
  <2>1. /\ <<p>> \o y \in Seq(Pieces) /\ Len(<<p>> \o y) = n
        /\ \A i \in 1..n : (<<p>> \o y)[i] = IF i <= 1 THEN <<p>>[i] ELSE y[i - 1]
    BY <1>3, <1>8, ConcatProperties
  <2>2. ASSUME NEW i \in 1..n PROVE (<<p>> \o y)[i] = x[i]
    <3>1. CASE i = 1
      BY <1>9, <2>1, <3>1
    <3>2. CASE i > 1
      <4>. DEFINE k == i - 1
      <4>1. k \in 1..(n - 1) /\ k + 1 = i /\ ~(i <= 1)
        BY <1>2, <3>2
      <4>2. (<<p>> \o y)[i] = y[k]
        BY <2>1, <4>1
      <4>3. y[k] = q[k + 1].data[1] /\ x[i] = q[i].data[1]
        BY <1>7, <1>8, <4>1
      <4>. QED  BY <4>1, <4>2, <4>3
    <3>3. i = 1 \/ i > 1
      OBVIOUS
    <3>. QED  BY <3>1, <3>2, <3>3, Zenon
  <2>. QED  BY <1>7, <2>1, <2>2, SeqEqual
<1>11. /\ before \o <<p>> \in Text
       /\ (before \o <<p>>) \o y = before \o (<<p>> \o y)
  BY <1>3, <1>8 DEF Text
<1>. QED  BY <1>2, <1>3, <1>4, <1>6, <1>10, <1>11 DEF r, p, x, y

LEMMA StreamInvInit == StreamInit => StreamInv
<1>. SUFFICES ASSUME StreamInit PROVE StreamInv
  OBVIOUS
<1>1. /\ queue = <<>> /\ shown = <<>> /\ worker.parts = <<>> /\ worker.defer_content = "unknown"
      /\ worker.pc = "unstarted" /\ request.pc = "none"
      /\ worker = [pc |-> worker.pc, parts |-> worker.parts, chunks |-> worker.chunks,
                   defer_content |-> worker.defer_content]
      /\ request = [pc |-> request.pc, response |-> request.response]
  BY DEF StreamInit
<1>2. IsSequence(queue) /\ Singles(queue, 0) /\ Len(queue) = 0
  <2>1. queue \in Seq({}) /\ Len(queue) = 0
    BY <1>1
  <2>2. IsSequence(queue)
    BY <2>1, Sequences
  <2>. QED  BY <2>1, <2>2 DEF Singles
<1>3. ShownAfter(Len(queue)) = <<>>
  <2>1. SinglesText(queue, 0) = <<>>
    BY DEF SinglesText
  <2>. QED  BY <1>1, <1>2, <2>1 DEF ShownAfter
<1>4. Blanks(<<>>) /\ <<>> \in Text
  BY DEF Blanks, Text
<1>5. Deferring /\ ReadSoFar
  BY <1>1, <1>2, <1>3, <1>4 DEF Deferring, ReadSoFar
<1>. QED  BY <1>1, <1>2, <1>4, <1>5 DEF StreamInv, ShownIsTheAnswer

\* A piece more was read.
LEMMA ReadTextStep == StreamInv /\ ReadText => StreamInv'
<1>. SUFFICES ASSUME StreamInv, NEW p \in Pieces,
                     LET parts == Append(worker.parts, p)
                         defers == Defers(worker.defer_content, parts)
                     IN /\ Arrives(TextChunk(p))
                        /\ worker' = [worker EXCEPT !.parts = parts, !.defer_content = defers]
                        /\ queue' = IF defers = "yes" THEN queue
                                    ELSE Append(queue, [kind |-> "delta", data |-> <<p>>])
              PROVE  StreamInv'
  BY DEF ReadText
<1>. DEFINE parts == Append(worker.parts, p)
            now == worker.defer_content
            defers == Defers(now, parts)
<1>1. /\ worker.pc = "reading" /\ UNCHANGED <<request, shown>> /\ request.pc \in {"none", "streaming"}
      /\ Deferring /\ ReadSoFar /\ IsSequence(queue) /\ shown \in Text /\ worker.parts \in Text
      /\ request = [pc |-> request.pc, response |-> request.response]
  BY DEF StreamInv, Arrives
<1>2. /\ worker' = [pc |-> "reading", parts |-> parts, chunks |-> worker.chunks, defer_content |-> defers]
      /\ worker'.pc = "reading" /\ worker'.parts = parts /\ worker'.defer_content = defers
  BY <1>1 DEF StreamInv
<1>3. queue' = IF defers = "yes" THEN queue ELSE Append(queue, [kind |-> "delta", data |-> <<p>>])
  OBVIOUS
<1>. HIDE DEF parts, defers
<1>4. /\ parts \in Text /\ now \in {"unknown", "yes", "no"}
      /\ OpensJson(worker.parts) => OpensJson(parts)
      /\ ~Blanks(worker.parts) /\ ~OpensJson(worker.parts) => ~Blanks(parts) /\ ~OpensJson(parts)
      /\ Blanks(worker.parts) /\ p = Blank => Blanks(parts)
  BY <1>1, PieceAppended DEF parts, Text, Deferring
<1>5. /\ defers \in {"unknown", "yes", "no"}
      /\ now # "unknown" => defers = now
      /\ defers = "unknown" => Blanks(parts)
      /\ defers = "no" => ~Blanks(parts) /\ ~OpensJson(parts)
      /\ defers = "yes" => OpensJson(parts)
      /\ defers # "unknown" /\ now = "unknown" => p # Blank
  <2>1. CASE now # "unknown"
    BY <1>1, <1>4, <2>1 DEF Defers, Deferring, defers
  <2>2. CASE now = "unknown" /\ Blanks(parts)
    <3>1. LStrip(parts) = <<>>
      BY <2>2, StripBlanks
    <3>2. defers = "unknown"
      BY <2>2, <3>1 DEF Defers, defers
    <3>. QED  BY <2>2, <3>2
  <2>3. CASE now = "unknown" /\ ~Blanks(parts)
    <3>1. PICK k \in DOMAIN parts : /\ parts[k] # Blank
                                    /\ \A j \in 1..(k - 1) : parts[j] = Blank
                                    /\ LStrip(parts) # <<>>
                                    /\ Head(LStrip(parts)) = parts[k]
      BY <1>4, <2>3, StripToWord DEF Text
    <3>2. defers = IF parts[k] = Open THEN "yes" ELSE "no"
      BY <2>3, <3>1 DEF Defers, defers
    <3>3. parts[k] = Open <=> OpensJson(parts)
      <4>1. DOMAIN parts = 1..Len(parts) /\ Len(parts) \in Nat
        BY <1>4 DEF Text
      <4>2. ASSUME NEW h \in DOMAIN parts, parts[h] = Open, \A j \in 1..(h - 1) : parts[j] = Blank
            PROVE  h = k
        <5>1. ~(k < h)
          BY <3>1, <4>1, <4>2
        <5>2. ~(h < k)
          <6>1. Open # Blank
            BY DEF Open, Blank
          <6>. QED  BY <3>1, <4>1, <4>2, <6>1
        <5>. QED  BY <4>1, <5>1, <5>2
      <4>. QED  BY <3>1, <4>2 DEF OpensJson
    <3>4. p # Blank
      BY <1>1, <1>4, <2>3 DEF Deferring
    <3>. QED  BY <2>3, <3>2, <3>3, <3>4
  <2>. QED  BY <2>1, <2>2, <2>3
<1>6. Deferring'
  BY <1>2, <1>5 DEF Deferring
<1>7. CASE defers = "yes"
  <2>1. queue' = queue /\ ShownAfter(Len(queue))' = ShownAfter(Len(queue))
    BY <1>1, <1>3, <1>7 DEF ShownAfter, SinglesText
  <2>2. Blanks(ShownAfter(Len(queue)))
    <3>1. CASE now = "yes"
      BY <1>1, <3>1 DEF ReadSoFar
    <3>2. CASE now # "yes"
      <4>1. now = "unknown" /\ ShownAfter(Len(queue)) = worker.parts
        BY <1>1, <1>4, <1>5, <1>7, <3>2 DEF ReadSoFar
      <4>. QED  BY <1>1, <4>1 DEF Deferring
    <3>. QED  BY <3>1, <3>2
  <2>3. ReadSoFar'
    BY <1>1, <1>2, <1>7, <2>1, <2>2 DEF ReadSoFar
  <2>. QED  BY <1>1, <1>2, <1>4, <1>6, <2>1, <2>3 DEF StreamInv, ShownIsTheAnswer
<1>8. CASE defers # "yes"
  <2>1. queue' = Append(queue, [kind |-> "delta", data |-> <<p>>]) /\ shown' = shown
    BY <1>1, <1>3, <1>8
  <2>2. /\ IsSequence(queue') /\ Singles(queue', Len(queue'))
        /\ shown \o SinglesText(queue', Len(queue')) = Append(shown \o SinglesText(queue, Len(queue)), p)
    BY <1>1, <2>1, SinglesGrow DEF ReadSoFar
  <2>3. ShownAfter(Len(queue))' = parts
    BY <1>1, <1>4, <1>5, <1>8, <2>1, <2>2 DEF ReadSoFar, ShownAfter, parts
  <2>4. ReadSoFar'
    BY <1>2, <1>8, <2>2, <2>3 DEF ReadSoFar
  <2>. QED  BY <1>1, <1>2, <1>4, <1>6, <2>2, <2>4 DEF StreamInv, ShownIsTheAnswer
<1>. QED  BY <1>7, <1>8

LEMMA AppendedLast ==
  ASSUME NEW q, IsSequence(q), NEW m
  PROVE  LET r == Append(q, m)
         IN /\ IsSequence(r) /\ Len(r) = Len(q) + 1 /\ Len(q) \in Nat /\ r[Len(r)] = m
            /\ \A i \in 1..Len(q) : r[i] = q[i]
            /\ \A n \in 0..Len(q) : Singles(q, n) => /\ Singles(r, n)
                                                     /\ SinglesText(r, n) = SinglesText(q, n)
<1>. DEFINE r == Append(q, m)
<1>1. PICK S : q \in Seq(S)
  BY DEF IsSequence
<1>2. /\ r \in Seq(S \cup {m}) /\ Len(r) = Len(q) + 1 /\ Len(q) \in Nat /\ r[Len(q) + 1] = m
      /\ \A i \in 1..Len(q) : r[i] = q[i]
  <2>1. q \in Seq(S \cup {m})
    BY <1>1
  <2>. QED  BY <2>1, AppendProperties
<1>. HIDE DEF r
<1>3. IsSequence(r)
  BY <1>2, Sequences
<1>4. ASSUME NEW n \in 0..Len(q), Singles(q, n)
      PROVE  Singles(r, n) /\ SinglesText(r, n) = SinglesText(q, n)
  <2>1. \A k \in 1..n : r[k] = q[k]
    BY <1>2, <1>4
  <2>. QED  BY <1>2, <1>4, <2>1 DEF Singles, SinglesText
<1>. QED  BY <1>2, <1>3, <1>4 DEF r

LEMMA EmptyAnswer == NoResponse.content = <<>>
  BY DEF NoResponse

LEMMA OtherReads == StreamInv /\ (ReadCall \/ ReadFails) => StreamInv'
<1>. SUFFICES ASSUME StreamInv, ReadCall \/ ReadFails PROVE StreamInv'
  OBVIOUS
<1>1. CASE ReadCall
  <2>1. /\ UNCHANGED <<queue, shown, request>>
        /\ worker'.pc = worker.pc /\ worker'.parts = worker.parts
        /\ worker'.defer_content = worker.defer_content
        /\ worker' = [pc |-> worker'.pc, parts |-> worker'.parts, chunks |-> worker'.chunks,
                      defer_content |-> worker'.defer_content]
        /\ worker.pc = "reading"
    BY <1>1 DEF ReadCall, Arrives, StreamInv
  <2>2. ReadSoFar' /\ Deferring'
    BY <2>1 DEF StreamInv, ReadSoFar, Deferring, ShownAfter, SinglesText, Singles, Blanks
  <2>. QED  BY <2>1, <2>2 DEF StreamInv, ShownIsTheAnswer
<1>2. CASE ReadFails
  <2>1. /\ UNCHANGED <<shown, request>> /\ worker.pc = "reading"
        /\ worker'.pc = "ended" /\ worker'.parts = worker.parts
        /\ worker'.defer_content = worker.defer_content
        /\ worker' = [pc |-> worker'.pc, parts |-> worker'.parts, chunks |-> worker'.chunks,
                      defer_content |-> worker'.defer_content]
        /\ queue' = Append(queue, [kind |-> "error", data |-> NoResponse])
        /\ ReadSoFar /\ IsSequence(queue) /\ request.pc \in {"none", "streaming"}
    BY <1>2 DEF ReadFails, StreamInv
  <2>. DEFINE m == [kind |-> "error", data |-> NoResponse]
  <2>2. m.kind = "error" /\ Singles(queue, Len(queue))
    BY <2>1 DEF ReadSoFar
  <2>. HIDE DEF m
  <2>3. /\ IsSequence(queue') /\ Len(queue') = Len(queue) + 1 /\ queue'[Len(queue')] = m
        /\ Singles(queue', Len(queue)) /\ Len(queue) \in Nat
    <3>1. queue' = Append(queue, m)
      BY <2>1 DEF m
    <3>2. Len(queue) \in 0..Len(queue)
      BY <2>2 DEF Singles
    <3>. QED  BY <2>1, <2>2, <3>1, <3>2, AppendedLast
  <2>4. Told'
    BY <2>2, <2>3 DEF Told
  <2>5. Deferring' /\ request.pc # "none"
    BY <2>1 DEF StreamInv, Deferring
  <2>. QED  BY <2>1, <2>3, <2>4, <2>5 DEF StreamInv, ShownIsTheAnswer
<1>. QED  BY <1>1, <1>2

LEMMA StartStep == StreamInv /\ StartRequest => StreamInv'
<1>. SUFFICES ASSUME StreamInv, StartRequest PROVE StreamInv'
  OBVIOUS
<1>1. /\ UNCHANGED <<queue, shown>>
      /\ worker'.pc = "reading" /\ worker'.parts = worker.parts
      /\ worker'.defer_content = worker.defer_content
      /\ worker' = [pc |-> worker'.pc, parts |-> worker'.parts, chunks |-> worker'.chunks,
                    defer_content |-> worker'.defer_content]
      /\ request' = [pc |-> request'.pc, response |-> request'.response]
      /\ request'.pc = "streaming" /\ worker.pc = "unstarted"
  BY DEF StartRequest, StreamInv
<1>2. ReadSoFar' /\ Deferring'
  BY <1>1 DEF StreamInv, ReadSoFar, Deferring, ShownAfter, SinglesText, Singles, Blanks
<1>. QED  BY <1>1, <1>2 DEF StreamInv, ShownIsTheAnswer

\* The end of the stream: what was held back is shown, or was a call.
LEMMA ReadEndStep == StreamInv /\ ReadEnd => StreamInv'
<1>. SUFFICES ASSUME StreamInv, ReadEnd PROVE StreamInv'
  OBVIOUS
<1>. DEFINE calls == CallList(worker.chunks)
            written == ParseContentToolCalls(worker.parts)
            deferred == [kind |-> "delta", data |-> worker.parts]
            done == [kind |-> "done", data |-> [content |-> worker.parts, calls |-> calls]]
            called == [kind |-> "done", data |-> [content |-> <<>>, calls |-> written]]
<1>1. /\ UNCHANGED <<shown, request>> /\ worker.pc = "reading"
      /\ worker'.pc = "ended" /\ worker'.parts = worker.parts
      /\ worker'.defer_content = worker.defer_content
      /\ worker' = [pc |-> worker'.pc, parts |-> worker'.parts, chunks |-> worker'.chunks,
                    defer_content |-> worker'.defer_content]
      /\ ReadSoFar /\ IsSequence(queue) /\ request.pc \in {"none", "streaming"} /\ Deferring
      /\ shown \in Text /\ worker.parts \in Text
  BY DEF ReadEnd, StreamInv
<1>2. queue' = IF calls = <<>> /\ written # <<>> THEN Append(queue, called)
               ELSE IF worker.defer_content = "yes" THEN (queue \o <<deferred>>) \o <<done>>
               ELSE (queue \o <<>>) \o <<done>>
  BY DEF ReadEnd
<1>3. PICK S : queue \in Seq(S)
  BY <1>1 DEF IsSequence
<1>4. /\ queue \o <<deferred>> = Append(queue, deferred)
      /\ (queue \o <<>>) \o <<done>> = Append(queue, done)
      /\ \A r : IsSequence(r) => r \o <<done>> = Append(r, done)
  <2>1. \A r, m : IsSequence(r) => r \o <<m>> = Append(r, m)
    BY DEF IsSequence
  <2>2. queue \o <<>> = queue
    BY <1>3
  <2>. QED  BY <1>1, <2>1, <2>2
<1>5. /\ deferred.kind = "delta" /\ deferred.data = worker.parts
      /\ done.kind = "done" /\ done.data.content = worker.parts
      /\ called.kind = "done" /\ called.data.content = <<>>
  OBVIOUS
<1>6. IsAnswer(done) /\ IsAnswer(called)
  <2>1. <<>> \in Text
    BY DEF Text
  <2>. QED  BY <1>1, <1>5, <2>1, EmptyAnswer DEF IsAnswer
<1>7. /\ Singles(queue, Len(queue)) /\ Len(queue) \in 0..Len(queue) /\ Len(queue) \in Nat
      /\ ShownAfter(Len(queue)) \in Text
  <2>1. Singles(queue, Len(queue)) /\ Len(queue) \in 0..Len(queue) /\ Len(queue) \in Nat
    BY <1>1, <1>3 DEF ReadSoFar, Singles
  <2>2. SinglesText(queue, Len(queue)) \in Seq(Pieces)
    BY <2>1 DEF SinglesText, Singles
  <2>. QED  BY <1>1, <2>1, <2>2 DEF ShownAfter, Text
<1>8. Deferring' /\ request.pc = "streaming"
  BY <1>1 DEF StreamInv, Deferring
<1>. SUFFICES IsSequence(queue') /\ Told'
  BY <1>1, <1>8 DEF StreamInv, ShownIsTheAnswer
<1>. HIDE DEF calls, done, called, deferred
<1>9. CASE calls = <<>> /\ written # <<>>
  <2>1. queue' = Append(queue, called)
    BY <1>2, <1>9
  <2>2. /\ IsSequence(queue') /\ Len(queue') = Len(queue) + 1 /\ queue'[Len(queue')] = called
        /\ Singles(queue', Len(queue)) /\ SinglesText(queue', Len(queue)) = SinglesText(queue, Len(queue))
    BY <1>1, <1>7, <2>1, AppendedLast
  <2>3. OpensJson(worker.parts)
    <3>1. PICK first, last, end \in DOMAIN worker.parts :
            /\ first < last /\ last < end /\ worker.parts[first] = Open
            /\ \A i \in 1..(end - 1) : i \in {first, last} \/ worker.parts[i] = Blank
      BY <1>9 DEF ParseContentToolCalls, IsCallAsText
    <3>2. DOMAIN worker.parts \subseteq Int
      BY <1>1 DEF Text
    <3>3. \A i \in 1..(first - 1) : worker.parts[i] = Blank
      BY <3>1, <3>2
    <3>. QED  BY <3>1, <3>3 DEF OpensJson
  <2>4. worker.defer_content = "yes"
    <3>1. ~Blanks(worker.parts)
      <4>1. Open # Blank
        BY DEF Open, Blank
      <4>. QED  BY <2>3, <4>1 DEF OpensJson, Blanks
    <3>. QED  BY <1>1, <2>3, <3>1 DEF Deferring
  <2>5. LStrip(ShownAfter(Len(queue))) = <<>> /\ LStrip(<<>>) = <<>>
    <3>1. Blanks(<<>>)
      BY DEF Blanks
    <3>. QED  BY <1>1, <2>4, <3>1, StripBlanks DEF ReadSoFar
  <2>6. ShownAfter(Len(queue) - 1)' = ShownAfter(Len(queue)) /\ Len(queue') - 1 = Len(queue)
    BY <1>1, <1>7, <2>2 DEF ShownAfter
  <2>. QED  BY <1>5, <1>6, <2>2, <2>5, <2>6 DEF Told
<1>10. CASE ~(calls = <<>> /\ written # <<>>) /\ worker.defer_content # "yes"
  <2>1. queue' = Append(queue, done)
    BY <1>2, <1>4, <1>10
  <2>2. /\ IsSequence(queue') /\ Len(queue') = Len(queue) + 1 /\ queue'[Len(queue')] = done
        /\ Singles(queue', Len(queue)) /\ SinglesText(queue', Len(queue)) = SinglesText(queue, Len(queue))
    BY <1>1, <1>7, <2>1, AppendedLast
  <2>3. ShownAfter(Len(queue)) = worker.parts
    BY <1>1, <1>10 DEF ReadSoFar
  <2>4. ShownAfter(Len(queue) - 1)' = ShownAfter(Len(queue)) /\ Len(queue') - 1 = Len(queue)
    BY <1>1, <1>7, <2>2 DEF ShownAfter
  <2>. QED  BY <1>5, <1>6, <2>2, <2>3, <2>4 DEF Told
<1>11. CASE ~(calls = <<>> /\ written # <<>>) /\ worker.defer_content = "yes"
  <2>. DEFINE r == Append(queue, deferred)
  <2>1. /\ IsSequence(r) /\ Len(r) = Len(queue) + 1 /\ r[Len(r)] = deferred
        /\ Singles(r, Len(queue)) /\ SinglesText(r, Len(queue)) = SinglesText(queue, Len(queue))
    BY <1>1, <1>7, AppendedLast
  <2>2. queue' = Append(r, done)
    BY <1>2, <1>4, <1>11, <2>1
  <2>. HIDE DEF r
  <2>3. /\ IsSequence(queue') /\ Len(queue') = Len(r) + 1 /\ queue'[Len(queue')] = done
        /\ queue'[Len(r)] = r[Len(r)]
        /\ Singles(queue', Len(queue)) /\ SinglesText(queue', Len(queue)) = SinglesText(r, Len(queue))
    <3>1. Len(queue) \in 0..Len(r) /\ Len(r) \in 1..Len(r)
      BY <1>7, <2>1
    <3>. QED  BY <2>1, <2>2, <3>1, AppendedLast
  <2>4. /\ ShownAfter(Len(queue) - 2)' = ShownAfter(Len(queue))
        /\ Len(queue') - 2 = Len(queue) /\ Len(queue') - 1 = Len(r)
    BY <1>1, <1>7, <2>1, <2>3 DEF ShownAfter
  <2>5. Blanks(ShownAfter(Len(queue)))
    BY <1>1, <1>11 DEF ReadSoFar
  <2>6. deferred = [kind |-> "delta", data |-> done.data.content]
    BY <1>5 DEF deferred
  <2>. QED  BY <1>6, <2>1, <2>3, <2>4, <2>5, <2>6 DEF Told
<1>. QED  BY <1>9, <1>10, <1>11

\* A delta is shown: a piece, or the text that was held back.
LEMMA ShowStep == StreamInv /\ ShowDelta => StreamInv'
<1>. SUFFICES ASSUME StreamInv, ShowDelta PROVE StreamInv'
  OBVIOUS
<1>1. /\ UNCHANGED <<worker, request>> /\ request.pc = "streaming"
      /\ queue # <<>> /\ Head(queue).kind = "delta" /\ queue' = Tail(queue)
      /\ shown' = shown \o Head(queue).data
      /\ IsSequence(queue) /\ shown \in Text
      /\ worker.pc # "ended" => ReadSoFar
      /\ worker.pc = "ended" => Told
  BY DEF ShowDelta, Takes, StreamInv
<1>2. PICK S : queue \in Seq(S)
  BY <1>1 DEF IsSequence
<1>3. /\ Len(queue) \in Nat \ {0} /\ Head(queue) = queue[1] /\ queue' \in Seq(S)
      /\ Len(queue') = Len(queue) - 1
      /\ \A k \in 1..Len(queue') : queue'[k] = queue[k + 1]
  BY <1>1, <1>2, HeadTailProperties
<1>4. IsSequence(queue')
  BY <1>3, Sequences
<1>5. ASSUME NEW n \in Nat \ {0}, Singles(queue, n)
      PROVE  /\ shown' \in Text /\ Singles(queue', n - 1)
             /\ shown' \o SinglesText(queue', n - 1) = shown \o SinglesText(queue, n)
  BY <1>1, <1>5, SinglesShown
<1>6. CASE worker.pc # "ended"
  <2>1. /\ shown' \in Text /\ Singles(queue', Len(queue'))
        /\ ShownAfter(Len(queue))' = ShownAfter(Len(queue))
    BY <1>1, <1>3, <1>5, <1>6 DEF ReadSoFar, ShownAfter
  <2>2. ReadSoFar'
    BY <1>1, <1>6, <2>1 DEF ReadSoFar
  <2>. QED  BY <1>1, <1>4, <1>6, <2>1, <2>2 DEF StreamInv, ShownIsTheAnswer, Deferring
<1>7. CASE worker.pc = "ended"
  <2>. SUFFICES shown' \in Text /\ Told'
    BY <1>1, <1>4, <1>7 DEF StreamInv, ShownIsTheAnswer, Deferring
  <2>. DEFINE last == queue[Len(queue)]
  <2>1. Len(queue) # 1 => queue'[Len(queue')] = last
    BY <1>3
  <2>2. CASE Singles(queue, Len(queue) - 1)
    <3>1. Len(queue) # 1
      <4>1. ASSUME Len(queue) = 1 PROVE FALSE
        BY <1>1, <1>3, <1>7, <4>1 DEF Told, IsAnswer, Singles
      <4>. QED  BY <4>1
    <3>2. /\ shown' \in Text /\ Singles(queue', Len(queue') - 1)
          /\ ShownAfter(Len(queue) - 1)' = ShownAfter(Len(queue) - 1)
      <4>1. Len(queue) - 1 \in Nat \ {0} /\ (Len(queue) - 1) - 1 = Len(queue') - 1
        BY <1>3, <3>1
      <4>. QED  BY <1>5, <2>2, <4>1 DEF ShownAfter
    <3>3. CASE last.kind = "error"
      BY <2>1, <3>1, <3>2, <3>3 DEF Told
    <3>4. CASE IsAnswer(last) /\ LStrip(ShownAfter(Len(queue) - 1)) = LStrip(last.data.content)
      BY <2>1, <3>1, <3>2, <3>4 DEF Told
    <3>5. CASE /\ Singles(queue, Len(queue) - 2) /\ IsAnswer(last)
               /\ Blanks(ShownAfter(Len(queue) - 2))
               /\ queue[Len(queue) - 1] = [kind |-> "delta", data |-> last.data.content]
      \* The text held back is a single piece as well.
      <4>. DEFINE n == Len(queue) - 2
                  x == SinglesText(queue, n)
                  content == last.data.content
      <4>1. n \in Nat /\ n + 1 = Len(queue) - 1 /\ n + 1 \in 1..(Len(queue) - 1)
        BY <1>3, <3>1
      <4>2. content \in Seq(Pieces) /\ content = <<content[1]>> /\ content[1] \in Pieces
        <5>1. queue[n + 1].data = content
          BY <3>5, <4>1
        <5>. QED  BY <2>2, <3>5, <4>1, <5>1 DEF Singles, IsAnswer, Text
      <4>3. x \in Seq(Pieces) /\ Len(x) = n /\ \A k \in 1..n : x[k] = queue[k].data[1]
        BY <3>5, <4>1 DEF SinglesText, Singles
      <4>4. SinglesText(queue, n + 1) = x \o content
        <5>. DEFINE y == SinglesText(queue, n + 1)
        <5>1. y \in Seq(Pieces) /\ Len(y) = n + 1 /\ \A k \in 1..(n + 1) : y[k] = queue[k].data[1]
          BY <2>2, <4>1 DEF SinglesText, Singles
        <5>2. queue[n + 1].data[1] = content[1]
          BY <3>5, <4>1
        <5>. HIDE DEF x, y, content, n
        <5>3. x \o content \in Seq(Pieces) /\ Len(x \o content) = n + 1
              /\ \A k \in 1..n : (x \o content)[k] = x[k]
              /\ (x \o content)[n + 1] = content[1]
          <6>1. Len(content) = 1
            BY <4>2
          <6>2. /\ x \o content \in Seq(Pieces) /\ Len(x \o content) = Len(x) + Len(content)
                /\ \A k \in 1..(Len(x) + Len(content)) :
                     (x \o content)[k] = IF k <= Len(x) THEN x[k] ELSE content[k - Len(x)]
            BY <4>2, <4>3, ConcatProperties
          <6>3. \A k \in 1..n : k \in 1..(n + 1) /\ k <= n
            BY <4>1
          <6>4. n + 1 \in 1..(n + 1) /\ ~(n + 1 <= n) /\ (n + 1) - n = 1
            BY <4>1
          <6>. QED  BY <4>3, <6>1, <6>2, <6>3, <6>4
        <5>4. \A k \in 1..(n + 1) : y[k] = (x \o content)[k]
          BY <4>1, <4>3, <5>1, <5>2, <5>3
        <5>5. y = x \o content
          BY <5>1, <5>3, <5>4, SeqEqual
        <5>. QED  BY <5>5 DEF y
      <4>5. ShownAfter(Len(queue) - 1) = (shown \o x) \o content
        <5>1. shown \o (x \o content) = (shown \o x) \o content
          <6>1. shown \in Seq(Pieces) /\ x \in Seq(Pieces) /\ content \in Seq(Pieces)
            BY <1>1, <4>2, <4>3 DEF Text
          <6>. HIDE DEF x, content
          <6>. QED  BY <6>1
        <5>. QED  BY <4>1, <4>4, <5>1 DEF ShownAfter
      <4>6. Blanks(shown \o x) /\ shown \o x \in Seq(Pieces)
        BY <1>1, <3>5, <4>3 DEF ShownAfter, Text
      <4>7. LStrip(ShownAfter(Len(queue) - 1)) = LStrip(content)
        <5>. HIDE DEF x, content
        <5>. QED  BY <4>2, <4>5, <4>6, StripPrefix
      <4>. QED  BY <3>4, <3>5, <4>7
    <3>. QED  BY <1>1, <1>7, <3>3, <3>4, <3>5 DEF Told
  <2>3. CASE ~Singles(queue, Len(queue) - 1)
    <3>1. /\ Singles(queue, Len(queue) - 2) /\ IsAnswer(last)
          /\ Blanks(ShownAfter(Len(queue) - 2))
          /\ queue[Len(queue) - 1] = [kind |-> "delta", data |-> last.data.content]
      BY <1>1, <1>7, <2>3 DEF Told
    <3>2. Len(queue) - 2 \in Nat
      BY <1>3, <3>1 DEF Singles
    <3>3. CASE Len(queue) = 2
      <4>. DEFINE x == SinglesText(queue, 0)
                  content == last.data.content
      <4>1. x = <<>> /\ shown \o <<>> = shown
        BY <1>1 DEF SinglesText, Text
      <4>2. Blanks(shown)
        <5>1. Len(queue) - 2 = 0
          BY <3>3
        <5>. QED  BY <3>1, <4>1, <5>1 DEF ShownAfter
      <4>3. Head(queue).data = content /\ content \in Text
        BY <1>3, <3>1, <3>3 DEF IsAnswer
      <4>. HIDE DEF content
      <4>4. shown' = shown \o content /\ shown' \in Text
        <5>1. shown' = shown \o content /\ shown \in Seq(Pieces) /\ content \in Seq(Pieces)
          BY <1>1, <4>3 DEF Text
        <5>. QED  BY <5>1 DEF Text
      <4>5. LStrip(shown') = LStrip(content)
        BY <1>1, <4>2, <4>3, <4>4, StripPrefix DEF Text
      <4>6. Len(queue') = 1 /\ Singles(queue', Len(queue') - 1)
        BY <1>3, <3>3 DEF Singles
      <4>7. ShownAfter(Len(queue) - 1)' = shown'
        <5>1. SinglesText(queue', 0) = <<>> /\ shown' \o <<>> = shown'
          BY <4>4 DEF SinglesText, Text
        <5>2. Len(queue') - 1 = 0
          BY <4>6
        <5>. QED  BY <5>1, <5>2 DEF ShownAfter
      <4>8. queue'[Len(queue')] = last
        BY <2>1, <3>3
      <4>. QED  BY <3>1, <4>4, <4>5, <4>6, <4>7, <4>8 DEF Told, content
    <3>4. CASE Len(queue) # 2
      <4>1. /\ Len(queue) - 2 \in Nat \ {0} /\ (Len(queue) - 2) - 1 = Len(queue') - 2
            /\ Len(queue') - 1 \in 1..Len(queue') /\ (Len(queue') - 1) + 1 = Len(queue) - 1
        BY <1>3, <3>2, <3>4
      <4>2. /\ shown' \in Text /\ Singles(queue', Len(queue') - 2)
            /\ ShownAfter(Len(queue) - 2)' = ShownAfter(Len(queue) - 2)
        BY <1>5, <3>1, <4>1 DEF ShownAfter
      <4>3. queue'[Len(queue') - 1] = queue[Len(queue) - 1]
        BY <1>3, <4>1
      <4>. QED  BY <2>1, <3>1, <4>1, <4>2, <4>3 DEF Told
    <3>. QED  BY <3>3, <3>4
  <2>. QED  BY <2>2, <2>3
<1>. QED  BY <1>6, <1>7

\* The event loop ends the request, or makes it once more.
LEMMA EndStep == StreamInv /\ (RaiseError \/ ReturnOrAskAgain) => StreamInv'
<1>. SUFFICES ASSUME StreamInv, RaiseError \/ ReturnOrAskAgain PROVE StreamInv'
  OBVIOUS
<1>1. /\ UNCHANGED <<worker, shown>> /\ request.pc = "streaming"
      /\ queue # <<>> /\ Head(queue).kind \in {"error", "done"} /\ queue' = Tail(queue)
      /\ IsSequence(queue) /\ shown \in Text
      /\ worker.pc # "ended" => ReadSoFar
      /\ worker.pc = "ended" => Told
  BY DEF RaiseError, ReturnOrAskAgain, Takes, StreamInv
<1>2. PICK S : queue \in Seq(S)
  BY <1>1 DEF IsSequence
<1>3. Len(queue) \in Nat \ {0} /\ Head(queue) = queue[1] /\ queue' \in Seq(S)
  BY <1>1, <1>2, HeadTailProperties
<1>4. IsSequence(queue')
  BY <1>3, Sequences
<1>5. worker.pc = "ended" /\ Len(queue) = 1
  <2>1. \A n \in Nat \ {0} : ~Singles(queue, n)
    BY <1>1, <1>3 DEF Singles
  <2>2. worker.pc = "ended"
    BY <1>1, <1>3, <2>1 DEF ReadSoFar
  <2>3. CASE Singles(queue, Len(queue) - 1)
    <3>1. Len(queue) - 1 \notin Nat \ {0}
      BY <2>1, <2>3
    <3>. QED  BY <1>3, <2>2, <3>1
  <2>4. CASE Singles(queue, Len(queue) - 2) /\ queue[Len(queue) - 1].kind = "delta"
    <3>1. Len(queue) - 2 \notin Nat \ {0} /\ Len(queue) - 2 \in Nat
      <4>1. Len(queue) - 2 \in Nat
        BY <1>3, <2>4 DEF Singles
      <4>. QED  BY <2>1, <2>4, <4>1
    <3>2. Len(queue) - 1 = 1
      BY <1>3, <3>1
    <3>. QED  BY <1>1, <1>3, <2>4, <3>2
  <2>. QED  BY <1>1, <2>2, <2>3, <2>4 DEF Told
<1>6. CASE RaiseError
  <2>1. request' = [request EXCEPT !.pc = "raised"]
    BY <1>6 DEF RaiseError
  <2>2. request' = [pc |-> request'.pc, response |-> request'.response] /\ request'.pc = "raised"
    BY <2>1 DEF StreamInv
  <2>. QED  BY <1>1, <1>4, <1>5, <2>2 DEF StreamInv, ShownIsTheAnswer, Deferring
<1>7. CASE ReturnOrAskAgain
  <2>. DEFINE response == queue[1].data
  <2>1. /\ request' = [pc |-> IF response = NoResponse THEN "asking again" ELSE "returned",
                       response |-> response]
        /\ queue[1].kind = "done"
    BY <1>3, <1>7 DEF ReturnOrAskAgain, Takes
  <2>2. IsAnswer(queue[1]) /\ LStrip(ShownAfter(0)) = LStrip(response.content)
    <3>1. Len(queue) - 1 = 0 /\ ~Singles(queue, Len(queue) - 2)
      BY <1>5 DEF Singles
    <3>. QED  BY <1>1, <1>5, <2>1, <3>1 DEF Told
  <2>3. ShownAfter(0) = shown
    <3>1. SinglesText(queue, 0) = <<>> /\ shown \o <<>> = shown
      BY <1>1 DEF SinglesText, Text
    <3>. QED  BY <3>1 DEF ShownAfter
  <2>4. response = NoResponse => Blanks(shown)
    <3>1. SUFFICES ASSUME response = NoResponse PROVE LStrip(shown) = <<>>
      BY <1>1, StrippedIsBlank DEF Text
    <3>2. response.content = <<>> /\ Blanks(<<>>)
      BY <3>1, EmptyAnswer DEF Blanks
    <3>. QED  BY <2>2, <2>3, <3>2, StripBlanks
  <2>5. /\ request' = [pc |-> request'.pc, response |-> request'.response]
        /\ request'.pc \in {"asking again", "returned"} /\ request'.response = response
        /\ request'.pc = "asking again" => response = NoResponse
    BY <2>1
  <2>. HIDE DEF response
  <2>6. ShownIsTheAnswer'
    <3>1. LStrip(shown') = LStrip(response.content)
      BY <1>1, <2>2, <2>3
    <3>. QED  BY <2>5, <3>1 DEF ShownIsTheAnswer
  <2>. QED  BY <1>1, <1>4, <1>5, <2>4, <2>5, <2>6 DEF StreamInv, Deferring
<1>. QED  BY <1>6, <1>7

LEMMA AskAgainStep == StreamInv /\ AskAgain => StreamInv'
<1>. SUFFICES ASSUME StreamInv, AskAgain PROVE StreamInv'
  OBVIOUS
<1>1. /\ UNCHANGED <<worker, queue>> /\ request.pc = "asking again" /\ Blanks(shown)
      /\ worker.pc = "ended" /\ shown \in Text
  BY DEF AskAgain, StreamInv
<1>2. CASE request' = [request EXCEPT !.pc = "raised"] /\ UNCHANGED shown
  <2>1. request' = [pc |-> request'.pc, response |-> request'.response] /\ request'.pc = "raised"
    BY <1>2 DEF StreamInv
  <2>. QED  BY <1>1, <1>2, <2>1 DEF StreamInv, ShownIsTheAnswer, Deferring
<1>3. CASE ~(request' = [request EXCEPT !.pc = "raised"] /\ UNCHANGED shown)
  <2>1. PICK pieces \in SeqOf(Pieces, 3), calls \in {<<>>, <<Call("given", <<>>)>>} :
          LET written == IF calls = <<>> THEN ParseContentToolCalls(pieces) ELSE calls
              content == IF calls = <<>> /\ written # <<>> THEN <<>> ELSE pieces
          IN /\ request' = [pc |-> "returned", response |-> [content |-> content, calls |-> written]]
             /\ shown' = shown \o content
    BY <1>3 DEF AskAgain
  <2>2. pieces \in Text
    <3>1. PICK m \in 0..3 : pieces \in [1..m -> Pieces]
      BY DEF SeqOf
    <3>. QED  BY <3>1 DEF Text
  <2>3. PICK content \in Text : \E written :
          /\ request' = [pc |-> "returned", response |-> [content |-> content, calls |-> written]]
          /\ shown' = shown \o content
    <3>1. <<>> \in Text
      BY DEF Text
    <3>. QED  BY <2>1, <2>2, <3>1
  <2>4. shown' \in Text /\ LStrip(shown') = LStrip(content)
    <3>1. shown' = shown \o content /\ shown \in Seq(Pieces) /\ content \in Seq(Pieces)
      BY <1>1, <2>3 DEF Text
    <3>2. LStrip(shown \o content) = LStrip(content)
      BY <1>1, <3>1, StripPrefix
    <3>. QED  BY <3>1, <3>2 DEF Text
  <2>5. /\ request'.pc = "returned" /\ request'.response.content = content
        /\ request' = [pc |-> request'.pc, response |-> request'.response]
    BY <2>3
  <2>. QED  BY <1>1, <2>4, <2>5 DEF StreamInv, ShownIsTheAnswer, Deferring
<1>. QED  BY <1>2, <1>3

\* Whatever the server sends and wherever it fails, the user was shown the answer that
\* stream_complete returns, and nothing of a call that came as text: for every alphabet
\* of pieces and every length of the stream.
THEOREM AnswersShown == StreamSpec => []ShownIsTheAnswer
<1>1. StreamInv /\ [StreamNext]_streamVars => StreamInv'
  <2>. SUFFICES ASSUME StreamInv, [StreamNext]_streamVars PROVE StreamInv'
    OBVIOUS
  <2>1. CASE UNCHANGED streamVars
    BY <2>1 DEF streamVars, StreamInv, Deferring, ReadSoFar, Told, ShownAfter, ShownIsTheAnswer
  <2>. QED  BY <2>1, StartStep, ReadTextStep, OtherReads, ReadEndStep, ShowStep, EndStep, AskAgainStep
            DEF StreamNext, Worker, EventLoop
<1>2. StreamInv => ShownIsTheAnswer
  BY DEF StreamInv
<1>. QED  BY <1>1, <1>2, StreamInvInit, PTL DEF StreamSpec

=============================================================================
