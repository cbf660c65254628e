---------------------------- MODULE RollingSummary ----------------------------
(***************************************************************************)
(* RollingSummaryService over the tables of ThreadRun: a summary of a      *)
(* thread covers its messages up to a sequence number, and each new one    *)
(* takes the place of the active one.                                      *)
(*                                                                         *)
(* build reads without a transaction: the thread row, then the active      *)
(* summary, then the messages, and other processes commit in between.      *)
(* _activate compares what it read in one transaction and writes.  Builds  *)
(* start from the command line at any time; maybe_build after a completed  *)
(* run is such a build that is not started below a threshold and whose     *)
(* errors are swallowed.  Deletion of sources is in CascadeDeletion.       *)
(***************************************************************************)
EXTENDS ThreadRun, FiniteSetsExt

CONSTANTS
  Builders,      \* processes that build summaries
  MaxSummaries   \* bound on the summary rows

ASSUME MaxSummariesAssumption == MaxSummaries \in Nat

VARIABLES
  summaries,  \* summary rows of table memories, in insertion order
  builder     \* builder -> what its build has read so far

summaryVars == <<threads, runs, messages, recovery, summaries, builder>>

NoSummary == 0
SummaryIds == DOMAIN summaries

SummaryRow == [thread : Threads, version : Nat \ {0}, sources : SUBSET MessageIds,
               covered : Nat, status : {"active", "superseded"}]

NoBuild == [step |-> "idle"]

Builds ==
  {NoBuild}
  \cup [step : {"thread_read"}, thread : Threads, row : ThreadRow]
  \cup [step : {"summary_read"}, thread : Threads, row : ThreadRow,
        old : {NoSummary} \cup SummaryIds]
  \cup [step : {"messages_read"}, thread : Threads, row : ThreadRow,
        old : {NoSummary} \cup SummaryIds, selected : SUBSET MessageIds]

SummaryInit ==
  /\ Init
  /\ summaries = <<>>
  /\ builder = [b \in Builders |-> NoBuild]

(***************************************************************************)
(* What a build selects: the messages after the watermark up to the first  *)
(* call that has no result, which ends the selection.                      *)
(***************************************************************************)
ThreadMessages(t) == {m \in MessageIds : messages[m].thread = t}

Watermark(old) == IF old = NoSummary THEN 0 ELSE summaries[old].covered

After(t, w) == {m \in ThreadMessages(t) : messages[m].thread_sequence > w}

\* Calls of message m still without a result.
OpenCalls(m) == messages[m].calls \ Consumed(MessagesOf(messages[m].run))

\* Mutant: an open call is passed over, what follows it is selected.
CompleteMessagesSkipping(t, w) == {m \in After(t, w) : OpenCalls(m) = {}}

\* Mutant: a group is selected before its results are all there.
CompleteMessagesOpen(t, w) == After(t, w)

CompleteMessagesAfter(t, w) ==
  {m \in After(t, w) :
     ~\E n \in After(t, w) : /\ messages[n].thread_sequence <= messages[m].thread_sequence
                             /\ OpenCalls(n) # {}}

ActiveSummaries(t) ==
  {s \in SummaryIds : summaries[s].thread = t /\ summaries[s].status = "active"}

\* _active_row: one of them, where there is any.
IsActiveSummary(t, s) ==
  IF ActiveSummaries(t) = {} THEN s = NoSummary ELSE s \in ActiveSummaries(t)

(***************************************************************************)
(* build and _activate.                                                    *)
(***************************************************************************)
ReadThread(b, t) ==
  /\ builder[b] = NoBuild
  /\ threads[t].status # "none"
  /\ builder' = [builder EXCEPT ![b] = [step |-> "thread_read", thread |-> t, row |-> threads[t]]]
  /\ UNCHANGED <<threads, runs, messages, recovery, summaries>>

ReadSummary(b) ==
  /\ builder[b].step = "thread_read"
  /\ \E s \in {NoSummary} \cup SummaryIds :
       /\ IsActiveSummary(builder[b].thread, s)
       /\ builder' = [builder EXCEPT ![b] = [step |-> "summary_read", thread |-> @.thread,
                                             row |-> @.row, old |-> s]]
  /\ UNCHANGED <<threads, runs, messages, recovery, summaries>>

SelectMessages(b) ==
  /\ builder[b].step = "summary_read"
  /\ LET selected == CompleteMessagesAfter(builder[b].thread, Watermark(builder[b].old)) IN
       builder' = [builder EXCEPT ![b] =
                     IF selected = {} THEN NoBuild   \* SUMMARY_NO_NEW_COMPLETE_MESSAGES
                     ELSE [step |-> "messages_read", thread |-> @.thread, row |-> @.row,
                           old |-> @.old, selected |-> selected]]
  /\ UNCHANGED <<threads, runs, messages, recovery, summaries>>

\* Mutant: the thread is not compared.
UnchangedSummaryOnly(b) == IsActiveSummary(builder[b].thread, builder[b].old)

\* Every step that changes a thread row raises its state_version, and changes the
\* row; a superseded summary does not become active again.
UnchangedSinceRead(b) ==
  /\ threads[builder[b].thread] = builder[b].row
  /\ IsActiveSummary(builder[b].thread, builder[b].old)

NewSummary(b) ==
  LET old == builder[b].old IN
  [thread |-> builder[b].thread,
   version |-> IF old = NoSummary THEN 1 ELSE summaries[old].version + 1,
   sources |-> builder[b].selected
                 \cup (IF old = NoSummary THEN {} ELSE summaries[old].sources),
   covered |-> Max({messages[m].thread_sequence : m \in builder[b].selected}),
   status |-> "active"]

Activate(b) ==
  /\ builder[b].step = "messages_read"
  /\ Len(summaries) < MaxSummaries
  /\ UnchangedSinceRead(b)
  /\ threads[builder[b].thread].status = "active"
  /\ AllocateThreadSequence(builder[b].thread)
  /\ summaries' = Append([s \in SummaryIds |->
                            IF s = builder[b].old THEN [summaries[s] EXCEPT !.status = "superseded"]
                            ELSE summaries[s]],
                         NewSummary(b))
  /\ builder' = [builder EXCEPT ![b] = NoBuild]
  /\ UNCHANGED <<runs, messages, recovery>>

\* A build that finds a change is refused; it may die or be refused (by the
\* generator, by the policy) after each of its reads.
GiveUp(b) ==
  /\ builder[b] # NoBuild
  /\ builder' = [builder EXCEPT ![b] = NoBuild]
  /\ UNCHANGED <<threads, runs, messages, recovery, summaries>>

-----------------------------------------------------------------------------
BuildStep == \E b \in Builders :
  \/ \E t \in Threads : ReadThread(b, t)
  \/ ReadSummary(b)
  \/ SelectMessages(b)
  \/ Activate(b)
  \/ GiveUp(b)

SummaryNext == BuildStep \/ (Next /\ UNCHANGED <<summaries, builder>>)

SummarySpec == SummaryInit /\ [][SummaryNext]_summaryVars

-----------------------------------------------------------------------------
(***************************************************************************)
(* Properties.                                                             *)
(***************************************************************************)

\* The sources of a summary are all the messages of the thread up to its watermark.
\* The context assembler leaves out every older message of an earlier run when the
\* summary is in the prompt, so a message below the watermark that is no source
\* would be lost to the model.
SummariesCoverPrefix ==
  \A s \in SummaryIds :
    summaries[s].sources =
      {m \in ThreadMessages(summaries[s].thread) : messages[m].thread_sequence <= summaries[s].covered}

\* No tool result is or will be on the other side of a watermark than its call: the
\* next build, which walks from the watermark, would take it for an orphan.
WatermarksKeepGroups ==
  \A s \in SummaryIds : \A m \in summaries[s].sources : messages[m].calls # {} =>
    /\ OpenCalls(m) = {}
    /\ \A n \in MessagesOf(messages[m].run) :
         messages[n].result \in messages[m].calls => n \in summaries[s].sources

\* Although build reads three times without a lock, a summary that is activated is
\* the one an undisturbed build would make of the thread at that moment.
BuildsAreAtomic ==
  [][\A s \in DOMAIN summaries' : s \notin SummaryIds =>
       LET t == summaries'[s].thread
           w == Max({0} \cup {summaries[r].covered : r \in ActiveSummaries(t)})
           fresh == CompleteMessagesAfter(t, w)
       IN /\ fresh # {}
          /\ summaries'[s].covered = Max({messages[m].thread_sequence : m \in fresh})]_summaryVars

=============================================================================
