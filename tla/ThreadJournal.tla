---------------------------- MODULE ThreadJournal ----------------------------
(***************************************************************************)
(* What the thread and run tables promise to a reader of a session: every  *)
(* thread is a journal of entries (its runs, in the order they began) whose*)
(* numbered lines are its messages.  Only the last entry may be open, only *)
(* an open entry gets lines, a line takes the next number of the journal,  *)
(* and a settled entry never changes.  A closed journal gets nothing more. *)
(***************************************************************************)
EXTENDS Integers, Sequences

CONSTANT Threads

VARIABLE journal

Outcomes == {"completed", "failed", "interrupted"}

Entry == [outcome : {"running"} \cup Outcomes, lines : SUBSET (Nat \ {0})]

Journal == [state : {"none", "active", "archived"}, next : Nat \ {0}, entries : Seq(Entry)]

\* No entry of the journal is open.
Settled(j) == \A n \in 1..Len(j.entries) : j.entries[n].outcome # "running"

\* The last entry is open.
Open(j) == j.entries # <<>> /\ j.entries[Len(j.entries)].outcome = "running"

Init == journal = [t \in Threads |-> [state |-> "none", next |-> 1, entries |-> <<>>]]

Create(t) ==
  /\ journal[t].state = "none"
  /\ journal' = [journal EXCEPT ![t].state = "active"]

Close(t) ==
  /\ journal[t].state = "active"
  /\ Settled(journal[t])
  /\ journal' = [journal EXCEPT ![t].state = "archived"]

Start(t) ==
  /\ journal[t].state = "active"
  /\ Settled(journal[t])
  /\ journal' = [journal EXCEPT ![t].entries =
                   Append(@, [outcome |-> "running", lines |-> {}])]

Write(t) ==
  /\ journal[t].state = "active"
  /\ Open(journal[t])
  /\ journal' = [journal EXCEPT
                   ![t].next = @ + 1,
                   ![t].entries[Len(journal[t].entries)].lines = @ \cup {journal[t].next}]

\* A number may go to something that is no line.
Skip(t) ==
  /\ journal[t].state = "active"
  /\ journal' = [journal EXCEPT ![t].next = @ + 1]

Settle(t, outcome) ==
  /\ Open(journal[t])
  /\ journal' = [journal EXCEPT ![t].entries[Len(journal[t].entries)].outcome = outcome]

Next == \E t \in Threads :
  \/ Create(t) \/ Close(t) \/ Start(t) \/ Write(t) \/ Skip(t)
  \/ \E outcome \in Outcomes : Settle(t, outcome)

Spec == Init /\ [][Next]_journal

=============================================================================
