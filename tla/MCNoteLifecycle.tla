--------------------------- MODULE MCNoteLifecycle ---------------------------
(***************************************************************************)
(* The notes on a small instance, and the policy that judges what becomes  *)
(* one.  NoteLifecycle takes up where the policy has let a text through,   *)
(* so a behaviour is about one of them.  Of the notes, a behaviour takes   *)
(* the steps of one story: the workflow of revisions and proposals of one  *)
(* thread, promoted rows with their index, or rows of two threads that     *)
(* expire.                                                                 *)
(***************************************************************************)
EXTENDS NoteLifecycle, MemoryPolicy, TLC

CONSTANTS t1, t2, p1, p2, c1

MCProcesses == {p1, p2}
MCThreads == {t1, t2}
OneContent == {c1}
MCSpans == {<<0, 0>>, <<0, 1>>, <<1, 2>>}

Symmetry == Permutations(MCProcesses) \cup Permutations(MCThreads)

VARIABLES
  reconciled, \* history: ids whose vector a reconcile_stale removed
  story       \* what the behaviour is about, the threads and how many notes

allVars == <<noteVars, policyVars, reconciled, story>>

Story(about, threadSets, maxNotes) ==
  [about : {about}, threads : threadSets, notes : {maxNotes}]

Stories == UNION {Story("policy", {{}}, 0),
                  Story("workflow", {{t} : t \in Threads}, MaxNotes),
                  Story("index", {{t} : t \in Threads}, MaxNotes),
                  Story("expiry", {Threads}, 2)}

NothingToJudge ==
  /\ facts = {} /\ failed = {} /\ evaluation = NotEvaluated
  /\ candidate = [requested_scope |-> "thread", user_confirmed |-> FALSE]
  /\ context = [thread |-> TRUE, session |-> TRUE]

\* Three signals at most are to be found: the bound of the instance.
ThreeSignals == \E f, g, h \in Facts : facts = {f, g, h}

\* At most two detectors fail, or all of them.
FewFailures == Cardinality(failed') <= 2 \/ failed' = Detectors

\* The policy has something to judge only where the story is about it.
MCInit ==
  /\ story \in Stories
  /\ NoteInit
  /\ IF story.about = "policy" THEN ThreeSignals /\ PolicyInit ELSE NothingToJudge
  /\ reconciled = {}

\* Rows are added, confirmed and retracted, but not revised.
PlainStep ==
  \/ \E t \in Threads : \/ \E p \in Processes : AddNoteCandidate(p, t)
                        \/ \E i \in NoteIds : RetractNote(t, i)
  \/ CallStep \/ CrashStep

StoryStep ==
  \/ story.about = "workflow" /\ (UserStep \/ CallStep \/ SubmitStep \/ PromoteStep \/ CrashStep)
  \/ story.about = "index" /\ (PlainStep \/ PromoteStep \/ IndexStep \/ SearchStep)
  \/ story.about = "expiry" /\ (PlainStep \/ RetentionStep \/ TimePasses)

InStory ==
  /\ Len(notes') <= story.notes
  /\ \A p \in Processes : "thread" \in DOMAIN op'[p] => op'[p].thread \in story.threads
  /\ \A i \in NoteIds' : notes'[i].thread \in story.threads \cup {NoThread}

MCNext ==
  /\ \/ StoryStep /\ InStory /\ UNCHANGED policyVars
     \/ story.about = "policy" /\ PolicyNext /\ FewFailures /\ UNCHANGED noteVars
  /\ reconciled' = reconciled \cup (index \ index')
  /\ UNCHANGED story

MCSpec == MCInit /\ [][MCNext]_allVars

\* A row marked indexed has its vector, unless reconcile_stale removed it: whatever
\* promotions, retries and reconciliations of other processes put, fail to put and
\* mark in between (_index_workspace).
IndexedRowsHaveVectors ==
  \A i \in NoteIds : notes[i].mark = "indexed" => i \in index \cup reconciled

=============================================================================
