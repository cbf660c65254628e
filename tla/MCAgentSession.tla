--------------------------- MODULE MCAgentSession ---------------------------
(***************************************************************************)
(* The agent loop on a small instance: the processes that run it on the    *)
(* rows of a session, and one request to the model.  The two share nothing *)
(* here (AgentSession takes any answer of the model), so a behaviour is    *)
(* about one of them.  recover_running_runs has no caller in the program,  *)
(* so there are no recoverers.                                             *)
(***************************************************************************)
EXTENDS AgentSession, ModelStream, TLC

CONSTANTS t1, a1, a2, c1, c2

OneThread == {t1}
MCProcs == {a1, a2}
OneProc == {a1}
MCCallIds == {c1, c2}
NoRecoverers == {}
MCPieces == {Blank, Open, Close, End, "word"}
MCIndices == {0, 1}
MCFragments == {"x", "y"}

\* The longest stream is all text; one with chunks of calls is shorter.
ShortWithCalls(chunks) ==
  Len(chunks) < MaxChunks \/ \A k \in DOMAIN chunks : chunks[k].kind = "text"

VARIABLE about      \* what the behaviour is about

MCInit == AgentInit /\ StreamInit /\ about \in {"sessions", "request"}

MCNext == /\ \/ about = "sessions" /\ AgentNext /\ UNCHANGED streamVars
             \/ about = "request" /\ StreamNext /\ ShortWithCalls(wire') /\ UNCHANGED agentVars
          /\ UNCHANGED about

MCSpec == /\ MCInit /\ [][MCNext]_<<agentVars, streamVars, about>>
          /\ AgentFairness /\ StreamFairness

=============================================================================
