----------------------------- MODULE MCThreadRun -----------------------------
(***************************************************************************)
(* ThreadRun and its refinement on a small instance, story by story: many  *)
(* runs of several threads with recovery, or the transcript of one thread. *)
(* A story fixes at the start which threads, call ids and recoverers there *)
(* are and how many rows, so that the rows that matter to it fit.          *)
(***************************************************************************)
EXTENDS ThreadRunJournal, TLC

CONSTANTS t1, t2, p1, c1, c2

MCThreads == {t1, t2}
MCCallIds == {c1, c2}
MCRecoverers == {p1}

VARIABLE story

One(S) == {{e} : e \in S}

Story(threadSets, callSets, recoverers, maxRuns, maxMessages, maxNotes) ==
  [threads : threadSets, calls : callSets, recoverers : {recoverers},
   runs : {maxRuns}, messages : {maxMessages}, notes : {maxNotes}]

\* One thread and one call id may be any of them, so that the instance is symmetric.
Stories == Story({Threads}, One(CallIds), Recoverers, MaxRuns, 1, 0)
             \cup Story(One(Threads), {CallIds}, {}, 2, MaxMessages, MaxNotes)

MCInit == Init /\ story \in Stories

InStory ==
  /\ \A t \in Threads : /\ t \notin story.threads => threads'[t] = threads[t]
                        /\ NotesOf(t)' <= story.notes
  /\ Len(runs') <= story.runs
  /\ \A m \in MessageIds' : messages'[m].calls \subseteq story.calls
  /\ \A p \in Recoverers \ story.recoverers : recovery'[p] = {}

MCNext ==
  /\ \/ ThreadStep \/ TransitionStep \/ RecoverStep
     \/ Len(messages) < story.messages /\ AppendStep
  /\ InStory
  /\ UNCHANGED story

MCSpec == MCInit /\ [][MCNext]_<<vars, story>>

Symmetry == Permutations(MCThreads) \cup Permutations(MCCallIds)

=============================================================================
