----------------------------- MODULE MCContext -----------------------------
(***************************************************************************)
(* What a long session asks of the agent besides its loop, each on a small *)
(* instance: the summaries of a thread (RollingSummary), the prompt that   *)
(* is made of a thread and its summary (ContextAssembly), the patches of   *)
(* its tool (ApplyPatch).  A behaviour is about one of them.  The prompts  *)
(* are those of every readable transcript of up to MaxItems messages in    *)
(* two runs, with two sizes and two classifications, a summary, a note.    *)
(***************************************************************************)
EXTENDS RollingSummary, ContextAssembly, ApplyPatch, TLC

CONSTANTS t1, b1, b2, c1, c2, f1, f2, l1, l2, MaxItems

MCThreads == {t1}
MCBuilders == {b1, b2}
OneCallId == {c1}
NoRecoverers == {}
MCFiles == {f1, f2}
MCLines == {l1, l2}

Symmetry == Permutations(MCBuilders) \cup Permutations(MCLines)

-----------------------------------------------------------------------------
(***************************************************************************)
(* Requests to the assembler.                                              *)
(***************************************************************************)
\* calls and result of a message
Shapes == {[calls |-> C, result |-> NoResult] : C \in {{}, {c1}, {c1, c2}}}
            \cup {[calls |-> {}, result |-> c] : c \in {c1, c2}}

\* What append accepts, in a transcript whose runs begin at position 1 and first + 1:
\* only results while calls of the run are open, no call or result twice in a run.
Readable(shapes, first) ==
  \A i \in DOMAIN shapes :
    LET seen == {j \in 1..(i - 1) : (j <= first) = (i <= first)}
        declared == UNION {shapes[j].calls : j \in seen}
        consumed == {shapes[j].result : j \in seen} \ {NoResult}
    IN /\ declared \ consumed # {} => shapes[i].result # NoResult
       /\ shapes[i].calls \cap declared = {}
       /\ shapes[i].result # NoResult => shapes[i].result \in declared \ consumed

Layouts == UNION {{[shapes |-> s, first |-> first] : s \in [1..n -> Shapes], first \in 0..n}
                  : n \in 1..MaxItems}
ReadableLayouts == {l \in Layouts : Readable(l.shapes, l.first)}

\* Sizes and classes: all the same, or one message different.  append stores no
\* secret message: it redacts.
Facets(n) ==
  {[i \in 1..n |-> [size |-> IF i \in big THEN 3 ELSE 1,
                    class |-> IF i \in closed THEN "confidential" ELSE "internal"]] :
     big \in {{}} \cup {{i} : i \in 1..n}, closed \in {{}} \cup {{i} : i \in 1..n}}

MCBudgets ==
  {[total |-> t, current_run |-> (t * 3) \div 5, history |-> (t * 3) \div 10, single_message |-> 2,
    tool_group |-> 6, summary |-> 2, notes |-> 2, retrieval |-> 2] : t \in {5, 10}}
  \cup {[total |-> 20, current_run |-> 12, history |-> 20, single_message |-> 3,
         tool_group |-> 6, summary |-> 2, notes |-> 2, retrieval |-> 2]}

MCActiveSummaries ==
  {Unsummarized} \cup {[size |-> 2, class |-> class, covered |-> n] :
                     class \in {"internal", "confidential"}, n \in 1..2}

MCRecalls == {<<>>, <<[size |-> 1, class |-> "internal"], [size |-> 1, class |-> "confidential"]>>}

MCProviders == {"local", "remote"}

MCTranscripts ==
  UNION {{[i \in DOMAIN l.shapes |->
             [run |-> IF i <= l.first THEN 1 ELSE 2, calls |-> l.shapes[i].calls,
              result |-> l.shapes[i].result, size |-> f[i].size, class |-> f[i].class]] :
            f \in Facets(Len(l.shapes))} : l \in ReadableLayouts}

-----------------------------------------------------------------------------
VARIABLE about      \* what the behaviour is about

NoRequest == transcript = <<>> /\ request = Waiting /\ prompt = Waiting

NoPatch ==
  /\ patch = <<>> /\ disk = [file \in Files |-> Absent]
  /\ call = [dry_run |-> TRUE, state |-> "none"] /\ applied = 0 /\ foretold = Unknown

MCInit ==
  /\ SummaryInit
  /\ \/ about = "summaries" /\ NoRequest /\ NoPatch
     \/ about = "prompt" /\ ContextInit /\ NoPatch
     \/ about = "patch" /\ NoRequest /\ PatchInit

\* A build reads neither how a run ended nor its final message, so one way to end is
\* enough, and a user message is to it an assistant message without calls.  A failed
\* run may leave calls without results.
TranscriptStep ==
  \/ \E t \in Threads : CreateThread(t) \/ ArchiveThread(t) \/ BeginRun(t)
  \/ \E r \in RunIds : FailRun(r)
  \/ \E r \in RunIds : AppendAssistant(r) \/ AppendTool(r)

MCNext ==
  /\ \/ /\ about = "summaries"
        /\ BuildStep \/ (TranscriptStep /\ UNCHANGED <<summaries, builder>>)
        /\ UNCHANGED <<contextVars, patchVars>>
     \/ about = "prompt" /\ PrepareContext /\ UNCHANGED <<summaryVars, patchVars>>
     \/ about = "patch" /\ PatchNext /\ UNCHANGED <<summaryVars, contextVars>>
  /\ UNCHANGED about

MCSpec == MCInit /\ [][MCNext]_<<summaryVars, contextVars, patchVars, about>>

=============================================================================
