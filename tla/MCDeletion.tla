----------------------------- MODULE MCDeletion -----------------------------
(***************************************************************************)
(* The deletion beside the services that write meanwhile, story by story:  *)
(* a story fixes at the start which services write, which runs there are   *)
(* and which processes delete, so that the rows that matter to it fit in   *)
(* the bound.  With history: the index entries that were put there when    *)
(* their row had been revoked, and the jobs that were closed by a process  *)
(* with the index.                                                         *)
(***************************************************************************)
EXTENDS MCCascadeDeletion

VARIABLES
  story,      \* what it is about, its runs, its deleters and how many jobs they write
  late,       \* history: index entries put there when their row was revoked
  synced      \* history: jobs a process with the index has closed as complete

history == <<late, synced>>

\* The jobs that a process with the index closes as complete in this step.
SyncedNow == {j \in JobIds :
                \E d \in Deleters : /\ FinishSync(d) /\ deleter[d].chroma /\ deleter[d].job = j
                                   /\ jobs'[j].status = "complete"}

RecordHistory ==
  /\ late' = index' \cap (late \cup {i \in index' \ index : rows[i].status \in Revoked})
  /\ synced' = synced \cup SyncedNow

\* Every service writing beside every deletion, with the history: what the proofs are about.
RecordedSpec == Init /\ late = {} /\ synced = {} /\ [][Next /\ RecordHistory]_<<vars, history>>

One(S) == {{e} : e \in S}

Story(about, runSets, deleterSets, bound) ==
  [about : {about}, runs : runSets, deleters : deleterSets, jobs : {bound}]

\* One run and one deleter may be any of them, so that the instance is symmetric.
Stories == UNION {Story("summaries", {Runs}, One(Deleters), MaxJobs),
                  Story("summaries", One(Runs), {Deleters}, MaxJobs),
                  Story("notes", One(Runs), One(Deleters), 1),
                  Story("index", One(Runs), One(Deleters), MaxJobs),
                  Story("retention", One(Runs), {Deleters}, MaxJobs)}

MCInit == Init /\ story \in Stories /\ late = {} /\ synced = {}

PromoteUnindexed == \E x \in Indexers, i \in Ids : PromoteNote(x, i) /\ indexer' = indexer

\* The services of each story: transcript, summaries and archiving; notes with sources and
\* their conflicts; a note that cites one source, promoted and indexed; the same note,
\* promoted by a process without the index before the first job is written (what is
\* promoted later is in the story of the index).
StoryStep ==
  \/ TranscriptStep
  \/ \E d \in story.deleters : (Len(jobs) < story.jobs /\ AuthorizeStep(d)) \/ JobStep(d)
  \/ story.about = "summaries" /\ (ArchiveThread \/ BuildSummary)
  \/ story.about = "notes" /\ (NoteStep \/ ConflictStep)
  \/ story.about = "index" /\ (CitedNoteStep \/ IndexStep)
  \/ story.about = "retention" /\ jobs = <<>> /\ (CitedNoteStep \/ PromoteUnindexed)

\* In the story of the index a process that deletes may be without it; in the others nothing
\* is put there but the copies of the deletion.
NeedsIndex(about) == about # "index" => DeletersIndexed

MCNext ==
  /\ StoryStep
  /\ \A r \in Runs \ story.runs : runs'[r] = runs[r]
  /\ NeedsIndex(story.about)
  /\ RecordHistory
  /\ UNCHANGED story

MCSpec == MCInit /\ [][MCNext]_<<vars, story, history>>

\* A job that a process with the index has closed as complete has left none of its items
\* in the index, except what was put there after the row was revoked (by a promotion or a
\* retry still under way): a refused delete, a stop and a resumption in the middle of the
\* items, another job over the same rows, another process without the index are no reason
\* for an item to stay.  A job that only processes without the index have closed is left
\* out: _sync_index then skips every item and reports the job complete all the same.
OnlyLatePutsSurvive ==
  \A j \in synced : index \cap Items(j) \subseteq late

=============================================================================
