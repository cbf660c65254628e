------------------------- MODULE MCCascadeDeletion -------------------------
(***************************************************************************)
(* Instances of CascadeDeletion for TLC.  Each specification lets a part   *)
(* of the services write beside the deletion, so that the rows that matter *)
(* to a question fit in the bound.                                         *)
(***************************************************************************)
EXTENDS CascadeDeletion, TLC

CONSTANTS r1, r2, d1, d2, x1

MCRuns == {r1, r2}
OneRun == {r1}
MCDeleters == {d1, d2}
OneDeleter == {d1}
MCIndexers == {x1}
NoIndexers == {}

Symmetry == Permutations(Runs) \cup Permutations(Deleters)

\* Transcript, summaries and archiving.
SummarySpec == Init /\ [][TranscriptStep \/ ArchiveThread \/ BuildSummary \/ DeletionStep]_vars

\* Notes that cite one source, promoted and indexed.
CitedNoteStep == \E i \in Ids : SubmitNote({i}) \/ ConfirmNote(i)

\* Every process that deletes has the index.
DeletersIndexed == \A d \in Deleters : deleter'[d].phase = "syncing" => deleter'[d].chroma

PromotionSpec ==
  Init /\ [][(TranscriptStep \/ CitedNoteStep \/ IndexStep \/ DeletionStep)
              /\ DeletersIndexed]_vars

\* Only runs that have ended are deleted.
SettledRoots == \A d \in Deleters : deleter[d].token.root \in Runs
                                     => runs[deleter[d].token.root] # "running"

SettledRunsSpec ==
  Init /\ [][(TranscriptStep \/ ArchiveThread \/ BuildSummary \/ DeletionStep)
              /\ SettledRoots']_vars

=============================================================================
