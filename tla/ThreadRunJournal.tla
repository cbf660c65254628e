-------------------------- MODULE ThreadRunJournal --------------------------
(***************************************************************************)
(* ThreadRun implements ThreadJournal: the runs of a thread, by run_no,    *)
(* are the entries, and the thread sequence numbers of their messages the  *)
(* lines.                                                                  *)
(***************************************************************************)
EXTENDS ThreadRun

RunAt(t, n) == CHOOSE r \in RunsOf(t) : runs[r].run_no = n

EntryOf(r) == [outcome |-> runs[r].status,
               lines |-> {messages[m].thread_sequence : m \in MessagesOf(r)}]

JournalOf(t) == [state |-> threads[t].status,
                 next |-> threads[t].next_thread_sequence,
                 entries |-> [n \in 1..(threads[t].next_run_no - 1) |-> EntryOf(RunAt(t, n))]]

Abstract == INSTANCE ThreadJournal WITH journal <- [t \in Threads |-> JournalOf(t)]

\* Readers of the tables see an append-only journal per thread: begin_run,
\* append, transition_run, archive_thread and recovery, in any interleaving,
\* never reopen, reorder or extend a settled run.
ImplementsJournal == Abstract!Spec

=============================================================================
