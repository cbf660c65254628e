------------------------ MODULE CascadeDeletionProofs ------------------------
(***************************************************************************)
(* Proofs about CascadeDeletion, and about the index beside it with the    *)
(* history of MCDeletion, for every set of runs, deleting and promoting    *)
(* processes, and every bound.                                             *)
(***************************************************************************)
EXTENDS MCDeletion, SequenceTheorems, FiniteSetTheorems, TLAPS

Actions == {"delete", "retract", "retain_independent"}

(***************************************************************************)
(* What the type invariant says of the elements of the tables.             *)
(***************************************************************************)
LEMMA RowFacts ==
  ASSUME DeletionTypeOK
  PROVE  /\ Len(rows) \in Nat /\ Ids = 1..Len(rows)
         /\ \A i \in Ids : i \in Nat /\ rows[i] \in Row /\ rows[i].refs \subseteq Ids
         /\ Len(jobs) \in Nat /\ JobIds = 1..Len(jobs)
         /\ \A j \in JobIds : jobs[j] \in Job
<1>1. /\ rows \in Seq(Row) /\ \A i \in Ids : rows[i].refs \subseteq Ids
      /\ jobs \in Seq(Job)
  BY DEF DeletionTypeOK
<1>2. Len(rows) \in Nat /\ Ids = 1..Len(rows) /\ \A i \in Ids : rows[i] \in Row
  BY <1>1 DEF Ids
<1>3. Len(jobs) \in Nat /\ JobIds = 1..Len(jobs) /\ \A j \in JobIds : jobs[j] \in Job
  BY <1>1 DEF JobIds
<1>. QED  BY <1>1, <1>2, <1>3

\* The items of a job are the domain of its actions, and of its copies.
LEMMA JobFacts ==
  ASSUME DeletionTypeOK, NEW j \in JobIds
  PROVE  /\ jobs[j].root \in Roots
         /\ jobs[j].status \in {"authorized", "index_pending", "complete"}
         /\ jobs[j].confirmed \subseteq Ids
         /\ Items(j) \subseteq Ids
         /\ jobs[j].action \in [Items(j) -> Actions]
         /\ jobs[j].copy \in [Items(j) -> Ids \cup {NoCopy}]
<1>1. jobs[j] \in Job /\ DOMAIN jobs[j].copy = Items(j)
  BY RowFacts DEF DeletionTypeOK
<1>2. PICK I \in SUBSET Ids : jobs[j].action \in [I -> Actions]
  BY <1>1 DEF Job, Actions
<1>3. PICK K \in SUBSET Ids : jobs[j].copy \in [K -> Ids \cup {NoCopy}]
  BY <1>1 DEF Job
<1>4. I = Items(j) /\ K = Items(j)
  BY <1>1, <1>2, <1>3 DEF Items
<1>. QED  BY <1>1, <1>2, <1>3, <1>4 DEF Job

\* A job is well typed when its fields are.
LEMMA JobTypes ==
  ASSUME NEW S, NEW root \in Roots,
         NEW status \in {"authorized", "index_pending", "complete"},
         NEW confirmed \in SUBSET S, NEW I \in SUBSET S,
         NEW action \in [I -> Actions], NEW copy \in [I -> S \cup {NoCopy}]
  PROVE  [root |-> root, status |-> status, confirmed |-> confirmed,
          action |-> action, copy |-> copy]
           \in [root : Roots,
                status : {"authorized", "index_pending", "complete"},
                confirmed : SUBSET S,
                action : UNION {[K -> Actions] : K \in SUBSET S},
                copy : UNION {[K -> S \cup {NoCopy}] : K \in SUBSET S}]
<1>1. action \in UNION {[K -> Actions] : K \in SUBSET S}
  OBVIOUS
<1>2. copy \in UNION {[K -> S \cup {NoCopy}] : K \in SUBSET S}
  OBVIOUS
<1>. QED  BY <1>1, <1>2

(***************************************************************************)
(* Types are kept when rows and jobs are only added.                       *)
(***************************************************************************)
LEMMA Grown ==
  ASSUME DeletionTypeOK, Ids \subseteq Ids', JobIds \subseteq JobIds'
  PROVE  /\ RelationRow \subseteq RelationRow'
         /\ index \subseteq Ids'
         /\ proposals \subseteq Ids' \X Ids'
         /\ Job \subseteq Job'
         /\ DeleterState \subseteq DeleterState'
         /\ IndexerState \subseteq IndexerState'
<1>1. RelationRow \subseteq RelationRow'
  BY DEF RelationRow
<1>2. index \subseteq Ids' /\ proposals \subseteq Ids' \X Ids'
  BY DEF DeletionTypeOK
<1>3. Job \subseteq Job'
  <2>. DEFINE A(S) == UNION {[I -> {"delete", "retract", "retain_independent"}] : I \in SUBSET S}
              K(S) == UNION {[I -> S \cup {NoCopy}] : I \in SUBSET S}
  <2>1. A(Ids) \subseteq A(Ids')
    OBVIOUS
  <2>2. K(Ids) \subseteq K(Ids')
    <3>. SUFFICES ASSUME NEW I \in SUBSET Ids, NEW f \in [I -> Ids \cup {NoCopy}]
                  PROVE  f \in [I -> Ids' \cup {NoCopy}]
      OBVIOUS
    <3>. QED  OBVIOUS
  <2>3. SUBSET Ids \subseteq SUBSET Ids'
    OBVIOUS
  <2>. HIDE DEF A, K
  <2>4. Job = [root : Roots, status : {"authorized", "index_pending", "complete"},
               confirmed : SUBSET Ids, action : A(Ids), copy : K(Ids)]
    BY DEF Job, A, K
  <2>5. Job' = [root : Roots, status : {"authorized", "index_pending", "complete"},
                confirmed : SUBSET Ids', action : A(Ids'), copy : K(Ids')]
    BY DEF Job, A, K
  <2>. QED  BY <2>1, <2>2, <2>3, <2>4, <2>5
<1>4. Token \subseteq Token'
  <2>1. SUBSET RelationRow \subseteq SUBSET (RelationRow')
    BY <1>1
  <2>2. SUBSET (Ids \X (Nat \ {0})) \subseteq SUBSET (Ids' \X (Nat \ {0}))
    OBVIOUS
  <2>. QED  BY <2>1, <2>2 DEF Token
<1>5. DeleterState \subseteq DeleterState'
  <2>1. SUBSET Ids \subseteq SUBSET Ids' /\ {0} \cup JobIds \subseteq {0} \cup JobIds'
    OBVIOUS
  <2>. QED  BY <1>4, <2>1 DEF DeleterState
<1>6. IndexerState \subseteq IndexerState'
  BY DEF IndexerState
<1>. QED  BY <1>1, <1>2, <1>3, <1>5, <1>6


(***************************************************************************)
(* Rows.  RowsStep is what every step but a deletion does to them, and     *)
(* RowsGrow what every step does.                                          *)
(***************************************************************************)
IndexStatuses == {"not_indexed", "pending_index", "indexed", "index_failed", "pending_delete"}

RowsGrow ==
  /\ rows' \in Seq(Row)
  /\ Ids \subseteq Ids'
  /\ \A i \in Ids' : rows'[i].refs \subseteq Ids'
  /\ \A i \in Ids : rows'[i].kind = rows[i].kind
  /\ \A i \in Ids : rows[i].status \in Revoked => rows'[i].status \in {rows[i].status, "deleted"}

RowsStep ==
  /\ RowsGrow
  /\ \A i \in Ids' : rows'[i].kind = "copy" => i \in Ids
  /\ \A i \in Ids' : rows'[i].status = "deleted" => i \in Ids /\ rows[i].status = "deleted"

LEMMA SupersededType ==
  ASSUME NEW row \in Row
  PROVE  LET new == Superseded(row)
         IN /\ new \in Row /\ new.refs = row.refs /\ new.kind = row.kind
            /\ new.status = "superseded"
<1>. DEFINE next == row.version + 1
<1>1. next \in Nat \ {0}
  BY DEF Row
<1>2. Superseded(row) = [row EXCEPT !.status = "superseded", !.version = next]
  BY DEF Row, Superseded
<1>. HIDE DEF next
<1>. QED  BY <1>1, <1>2 DEF Row, IndexStatuses, Statuses

LEMMA WithStatusType ==
  ASSUME NEW row \in Row, NEW status \in Statuses, NEW confirmed \in BOOLEAN
  PROVE  LET new == WithStatus(row, status, confirmed)
         IN /\ new \in Row /\ new.refs = row.refs /\ new.kind = row.kind
            /\ new.status = status
<1>. DEFINE next == row.version + 1
<1>1. next \in Nat \ {0}
  BY DEF Row
<1>2. WithStatus(row, status, confirmed) = [row EXCEPT !.status = status, !.confirmed = confirmed, !.version = next]
  BY DEF Row, WithStatus
<1>. HIDE DEF next
<1>. QED  BY <1>1, <1>2 DEF Row, IndexStatuses, Statuses

LEMMA WithIndexType ==
  ASSUME NEW row \in Row, NEW outcome \in IndexStatuses
  PROVE  LET new == WithIndex(row, outcome)
         IN /\ new \in Row /\ new.refs = row.refs /\ new.kind = row.kind
            /\ new.status = row.status
<1>. DEFINE next == row.version + 1
<1>1. next \in Nat \ {0}
  BY DEF Row
<1>2. WithIndex(row, outcome) = [row EXCEPT !.index = outcome, !.version = next]
  BY DEF Row, WithIndex
<1>. HIDE DEF next
<1>. QED  BY <1>1, <1>2 DEF Row, IndexStatuses, Statuses

LEMMA RevokedRowType ==
  ASSUME NEW row \in Row, NEW action \in Actions
  PROVE  LET new == RevokedRow(row, action)
         IN /\ new \in Row /\ new.refs = row.refs /\ new.kind = row.kind
            /\ new.status = IF action = "delete" THEN "deleted" ELSE "retracted"
<1>. DEFINE next == row.version + 1
            status == IF action = "delete" THEN "deleted" ELSE "retracted"
            indexed == IF row.kind \in WorkspaceKinds THEN "pending_delete" ELSE row.index
<1>1. next \in Nat \ {0} /\ status \in Statuses /\ indexed \in IndexStatuses
  BY DEF Row, Statuses, IndexStatuses
<1>2. RevokedRow(row, action) = [row EXCEPT !.status = status, !.index = indexed,
                                            !.version = next]
  BY DEF Row, RevokedRow
<1>. HIDE DEF next, status, indexed
<1>3. LET new == RevokedRow(row, action)
      IN /\ new \in Row /\ new.refs = row.refs /\ new.kind = row.kind
         /\ new.status = status
  BY <1>1, <1>2 DEF Row, IndexStatuses
<1>. QED  BY <1>3 DEF status

LEMMA NewRowType ==
  ASSUME NEW kind \in Kinds, NEW run \in Runs \cup {NoRun},
         NEW refs \in SUBSET (Nat \ {0}), NEW status \in Statuses
  PROVE  LET new == NewRow(kind, run, refs, status)
         IN /\ new \in Row /\ new.refs = refs /\ new.kind = kind
            /\ new.status = status
  BY DEF NewRow, Row

LEMMA RelationType ==
  ASSUME NEW S, NEW source \in S, NEW target \in S, NEW type \in RelationTypes
  PROVE  Relation(source, target, type) \in [source : S, target : S, type : RelationTypes]
  BY DEF Relation

LEMMA AppendedRow ==
  ASSUME DeletionTypeOK, NEW row \in Row, row.refs \subseteq Ids, row.status # "deleted",
         row.kind # "copy", rows' = Append(rows, row)
  PROVE  /\ RowsStep
         /\ Ids' = Ids \cup {Len(rows) + 1}
<1>1. rows \in Seq(Row) /\ Len(rows) \in Nat /\ Ids = 1..Len(rows)
  BY RowFacts DEF DeletionTypeOK
<1>2. /\ rows' \in Seq(Row) /\ Len(rows') = Len(rows) + 1
      /\ \A i \in 1..Len(rows) : rows'[i] = rows[i]
      /\ rows'[Len(rows) + 1] = row
  BY <1>1, AppendProperties
<1>3. Ids' = 1..(Len(rows) + 1)
  BY <1>2 DEF Ids
<1>4. Ids' = Ids \cup {Len(rows) + 1}
  BY <1>1, <1>3
<1>5. \A i \in Ids : rows[i].refs \subseteq Ids
  BY RowFacts
<1>. QED  BY <1>1, <1>2, <1>4, <1>5 DEF RowsStep, RowsGrow

LEMMA UpdatedRow ==
  ASSUME DeletionTypeOK, NEW k \in Ids, NEW row \in Row, row.refs = rows[k].refs,
         row.kind = rows[k].kind,
         \/ row.status = rows[k].status
         \/ rows[k].status \notin Revoked /\ row.status # "deleted",
         rows' = [rows EXCEPT ![k] = row]
  PROVE  RowsStep /\ Ids' = Ids
<1>1. rows \in Seq(Row) /\ Len(rows) \in Nat /\ Ids = 1..Len(rows)
  BY RowFacts DEF DeletionTypeOK
<1>2. /\ rows' \in Seq(Row) /\ Ids' = Ids
      /\ \A i \in Ids : rows'[i] = IF i = k THEN row ELSE rows[i]
  BY <1>1 DEF Ids
<1>3. \A i \in Ids : rows[i].refs \subseteq Ids
  BY RowFacts
<1>. QED  BY <1>2, <1>3 DEF RowsStep, RowsGrow

LEMMA RewrittenRows ==
  ASSUME DeletionTypeOK, NEW n \in Nat, n >= Len(rows), NEW new \in [1..n -> Row],
         \A i \in 1..n : new[i].refs \subseteq 1..n,
         rows' = new
  PROVE  rows' \in Seq(Row) /\ Ids' = 1..n /\ Ids \subseteq Ids'
<1>1. rows' \in Seq(Row) /\ Ids' = 1..n
  BY DEF Ids
<1>. QED  BY <1>1, RowFacts

LEMMA CandidateRows ==
  ASSUME DeletionTypeOK, NEW refs \in SUBSET Ids, AddCandidate(refs)
  PROVE  /\ RowsStep
         /\ Ids' = Ids \cup {Len(rows) + 1}
         /\ relations' \subseteq RelationRow'
<1>. DEFINE new == NewRow("note", NoRun, refs, "candidate")
<1>1. refs \in SUBSET (Nat \ {0})
  BY RowFacts
<1>2. new \in Row /\ new.refs = refs /\ new.kind = "note" /\ new.status = "candidate"
  <2>1. "note" \in Kinds /\ NoRun \in Runs \cup {NoRun} /\ "candidate" \in Statuses
    BY DEF Kinds, Statuses
  <2>. QED  BY <1>1, <2>1, NewRowType
<1>3. rows' = Append(rows, new)
  BY DEF AddCandidate
<1>. HIDE DEF new
<1>4. RowsStep /\ Ids' = Ids \cup {Len(rows) + 1}
  BY <1>2, <1>3, AppendedRow
<1>5. relations \subseteq RelationRow'
  BY <1>4 DEF DeletionTypeOK, RelationRow
<1>6. SourcesOf(Len(rows) + 1, refs) \subseteq RelationRow'
  <2>1. \A s \in refs : s \in Ids' /\ Len(rows) + 1 \in Ids'
    BY <1>4
  <2>2. ProvenanceType("note") \in RelationTypes
    BY DEF ProvenanceType, RelationTypes
  <2>3. \A s \in refs : Relation(Len(rows) + 1, s, ProvenanceType("note")) \in RelationRow'
    BY <2>1, <2>2, RelationType DEF RelationRow
  <2>. QED  BY <2>3 DEF SourcesOf
<1>. QED  BY <1>4, <1>5, <1>6 DEF AddCandidate

LEMMA StatusRows ==
  ASSUME DeletionTypeOK, NEW i \in Ids, ConfirmNote(i) \/ RetractNote(i)
  PROVE  RowsStep /\ Ids' = Ids
<1>1. PICK status \in Statuses, confirmed \in BOOLEAN :
         SetNoteStatus(i, status, confirmed) /\ status # "deleted"
  BY RowFacts DEF ConfirmNote, RetractNote, Statuses, Row
<1>2. rows[i].status \notin Revoked
  BY DEF ConfirmNote, CanConfirm, RetractNote, Revoked
<1>. DEFINE new == WithStatus(rows[i], status, confirmed)
<1>3. /\ new \in Row /\ new.refs = rows[i].refs /\ new.kind = rows[i].kind
      /\ new.status = status
  BY RowFacts, WithStatusType
<1>4. rows' = [rows EXCEPT ![i] = new]
  BY <1>1 DEF SetNoteStatus
<1>. HIDE DEF new
<1>. QED  BY <1>1, <1>2, <1>3, <1>4, UpdatedRow

LEMMA SummaryRows ==
  ASSUME DeletionTypeOK, BuildSummary
  PROVE  /\ RowsStep
         /\ Ids' = Ids \cup {Len(rows) + 1}
         /\ relations' \subseteq RelationRow'
<1>. DEFINE sources == Covered \cup Uncovered
            base == [i \in Ids |-> IF i \in ActiveSummaries THEN Superseded(rows[i])
                                   ELSE rows[i]]
            new == NewRow("summary", NoRun, sources, "active")
<1>1. /\ rows' = Append(base, new)
      /\ relations' = relations \cup {Relation(Len(rows) + 1, s, "summarizes") : s \in sources}
  BY DEF BuildSummary
<1>2. sources \subseteq Ids /\ sources \in SUBSET (Nat \ {0})
  BY RowFacts DEF Covered, Uncovered, ActiveSummaries, LiveMessages
<1>3. /\ new \in Row /\ new.refs = sources /\ new.kind = "summary"
      /\ new.status = "active"
  <2>1. "summary" \in Kinds /\ NoRun \in Runs \cup {NoRun} /\ "active" \in Statuses
    BY DEF Kinds, Statuses
  <2>. HIDE DEF sources
  <2>. QED  BY <1>2, <2>1, NewRowType
<1>. HIDE DEF new
<1>4. \A i \in Ids : /\ Superseded(rows[i]) \in Row
                     /\ Superseded(rows[i]).refs = rows[i].refs
                     /\ Superseded(rows[i]).kind = rows[i].kind
                     /\ Superseded(rows[i]).status = "superseded"
  BY RowFacts, SupersededType
<1>5. \A i \in Ids : /\ base[i] \in Row /\ base[i].refs = rows[i].refs
                     /\ base[i].kind = rows[i].kind
                     /\ base[i].status = IF i \in ActiveSummaries THEN "superseded"
                                         ELSE rows[i].status
  BY <1>4, RowFacts
<1>6. Len(rows) \in Nat /\ Ids = 1..Len(rows) /\ DOMAIN base = Ids
  BY RowFacts
<1>. HIDE DEF base
<1>7. base \in Seq(Row) /\ Len(base) = Len(rows)
  <2>1. base = [i \in 1..Len(rows) |-> base[i]]
    BY <1>6, <1>1 DEF base
  <2>. QED  BY <1>5, <1>6, <2>1
<1>8. /\ rows' \in Seq(Row) /\ Ids' = Ids \cup {Len(rows) + 1}
      /\ \A i \in Ids : rows'[i] = base[i]
      /\ rows'[Len(rows) + 1] = new
  <2>1. /\ rows' \in Seq(Row) /\ Len(rows') = Len(rows) + 1
        /\ \A i \in 1..Len(rows) : rows'[i] = base[i]
        /\ rows'[Len(rows) + 1] = new
    BY <1>1, <1>3, <1>7, AppendProperties
  <2>2. Ids' = 1..(Len(rows) + 1)
    BY <2>1 DEF Ids
  <2>. QED  BY <2>1, <2>2, <1>6
<1>9. \A i \in ActiveSummaries : rows[i].status = "active"
  BY DEF ActiveSummaries
<1>10. RowsGrow
  <2>1. \A i \in Ids' : rows'[i].refs \subseteq Ids'
    BY <1>2, <1>3, <1>5, <1>8, RowFacts
  <2>2. \A i \in Ids : /\ rows'[i].kind = rows[i].kind
                       /\ rows[i].status \in Revoked => rows'[i].status = rows[i].status
    BY <1>5, <1>8, <1>9 DEF Revoked
  <2>. QED  BY <1>8, <2>1, <2>2 DEF RowsGrow
<1>11. RowsStep
  BY <1>3, <1>5, <1>8, <1>9, <1>10 DEF RowsStep
<1>12. relations' \subseteq RelationRow'
  <2>1. relations \subseteq RelationRow'
    BY <1>8 DEF DeletionTypeOK, RelationRow
  <2>2. \A s \in sources : Relation(Len(rows) + 1, s, "summarizes") \in RelationRow'
    <3>1. /\ \A s \in sources : s \in Ids' /\ Len(rows) + 1 \in Ids'
          /\ "summarizes" \in RelationTypes
      BY <1>2, <1>8 DEF RelationTypes
    <3>. HIDE DEF sources
    <3>. QED  BY <3>1, RelationType DEF RelationRow
  <2>. HIDE DEF sources
  <2>. QED  BY <1>1, <2>1, <2>2
<1>. QED  BY <1>8, <1>11, <1>12

LEMMA SyncRows ==
  ASSUME DeletionTypeOK, NEW d \in Deleters, NEW i \in Ids, SyncItem(d, i)
  PROVE  RowsStep /\ Ids' = Ids /\ index' \subseteq Ids
<1>. DEFINE j == deleter[d].job
            copy == jobs[j].copy[i]
            toIndex == {c \in {copy} \ {NoCopy} : rows[c].index \in {"pending_index", "index_failed"}}
<1>1. j \in JobIds /\ i \in Items(j)
  BY DEF SyncItem, DeletionTypeOK
<1>2. toIndex \subseteq Ids
  BY <1>1, JobFacts
<1>3. PICK ok \in BOOLEAN, copied \in BOOLEAN :
         /\ index' = (IF ok THEN index \ {i} ELSE index) \cup (IF copied THEN toIndex ELSE {})
         /\ rows' = [c \in Ids |-> IF c \in toIndex
                                   THEN WithIndex(rows[c], IF copied THEN "indexed"
                                                           ELSE "index_failed")
                                   ELSE rows[c]]
  BY DEF SyncItem
<1>. HIDE DEF toIndex, copy, j
<1>. DEFINE outcome == IF copied THEN "indexed" ELSE "index_failed"
<1>4. outcome \in IndexStatuses
  BY DEF IndexStatuses
<1>. HIDE DEF outcome
<1>5. rows' = [c \in Ids |-> IF c \in toIndex THEN WithIndex(rows[c], outcome) ELSE rows[c]]
  BY <1>3 DEF outcome
<1>6. \A c \in Ids : /\ rows'[c] \in Row /\ rows'[c].refs = rows[c].refs
                     /\ rows'[c].kind = rows[c].kind
                     /\ rows'[c].status = rows[c].status
  BY <1>4, <1>5, RowFacts, WithIndexType
<1>7. Len(rows) \in Nat /\ Ids = 1..Len(rows) /\ DOMAIN rows' = Ids
  BY <1>5, RowFacts
<1>8. rows' \in Seq(Row) /\ Ids' = Ids
  <2>1. rows' = [c \in 1..Len(rows) |-> rows'[c]]
    BY <1>5, <1>7
  <2>. QED  BY <1>6, <1>7, <2>1 DEF Ids
<1>9. RowsStep
  BY <1>6, <1>8, RowFacts DEF RowsStep, RowsGrow
<1>. QED  BY <1>2, <1>3, <1>8, <1>9 DEF DeletionTypeOK

LEMMA MarkRows ==
  ASSUME DeletionTypeOK, NEW x \in Indexers, MarkIndex(x)
  PROVE  RowsStep /\ Ids' = Ids
<1>. DEFINE i == indexer[x].row
            new == WithIndex(rows[i], indexer[x].phase)
<1>1. i \in Ids /\ indexer[x].phase \in IndexStatuses
  BY DEF MarkIndex, DeletionTypeOK, IndexStatuses
<1>2. rows' = [rows EXCEPT ![i] = new]
  BY DEF MarkIndex
<1>3. /\ new \in Row /\ new.refs = rows[i].refs /\ new.kind = rows[i].kind
      /\ new.status = rows[i].status
  BY <1>1, RowFacts, WithIndexType
<1>. HIDE DEF new, i
<1>. QED  BY <1>1, <1>2, <1>3, UpdatedRow

LEMMA PromotedRows ==
  ASSUME DeletionTypeOK, NEW x \in Indexers, NEW i \in Ids, PromoteNote(x, i)
  PROVE  /\ RowsStep
         /\ Ids' = Ids \cup {Len(rows) + 1}
         /\ relations' \subseteq RelationRow'
<1>. DEFINE row == NewRow("promoted", NoRun, {i}, "active")
            marked(status) == [row EXCEPT !.confirmed = TRUE, !.index = status]
<1>1. row \in Row /\ row.refs = {i} /\ row.kind = "promoted" /\ row.status = "active"
  <2>1. /\ "promoted" \in Kinds /\ NoRun \in Runs \cup {NoRun} /\ "active" \in Statuses
        /\ {i} \in SUBSET (Nat \ {0})
    BY RowFacts DEF Kinds, Statuses
  <2>. QED  BY <2>1, NewRowType
<1>2. PICK status \in {"pending_index", "not_indexed"} : rows' = Append(rows, marked(status))
  BY DEF PromoteNote, NewIndexStatus
<1>. DEFINE new == marked(status)
<1>. HIDE DEF row
<1>3. /\ new \in Row /\ new.refs = {i} /\ new.kind = "promoted" /\ new.status = "active"
      /\ rows' = Append(rows, new)
  BY <1>1, <1>2 DEF Row
<1>. HIDE DEF new
<1>4. RowsStep /\ Ids' = Ids \cup {Len(rows) + 1}
  BY <1>3, AppendedRow
<1>5. relations \subseteq RelationRow'
  BY <1>4 DEF DeletionTypeOK, RelationRow
<1>6. Relation(Len(rows) + 1, i, "promoted_from") \in RelationRow'
  <2>1. "promoted_from" \in RelationTypes /\ Len(rows) + 1 \in Ids' /\ i \in Ids'
    BY <1>4 DEF RelationTypes
  <2>. QED  BY <2>1, RelationType DEF RelationRow
<1>. QED  BY <1>4, <1>5, <1>6 DEF PromoteNote

LEMMA MessageRows ==
  ASSUME DeletionTypeOK, NEW r \in Runs, AppendMessage(r)
  PROVE  RowsStep /\ Ids' = Ids \cup {Len(rows) + 1}
<1>. DEFINE new == NewRow("message", r, {}, "active")
<1>1. new \in Row /\ new.refs = {} /\ new.kind = "message" /\ new.status = "active"
  <2>1. "message" \in Kinds /\ "active" \in Statuses /\ {} \in SUBSET (Nat \ {0})
    BY DEF Kinds, Statuses
  <2>. QED  BY <2>1, NewRowType
<1>2. rows' = Append(rows, new)
  BY DEF AppendMessage
<1>. HIDE DEF new
<1>. QED  BY <1>1, <1>2, AppendedRow

(***************************************************************************)
(* The SQLite transaction of a deletion.                                   *)
(***************************************************************************)
LEMMA CopyFacts ==
  ASSUME DeletionTypeOK, NEW j \in JobIds
  PROVE  LET n == Len(rows) + Cardinality(Retained(j))
         IN /\ n \in Nat /\ n >= Len(rows)
            /\ \A i \in Items(j) : CopyOf(j, i) \in 1..n \cup {NoCopy}
<1>1. Len(rows) \in Nat /\ Ids = 1..Len(rows) /\ Items(j) \subseteq Ids
  BY RowFacts, JobFacts
<1>2. Retained(j) \subseteq Items(j)
  BY DEF Retained, Revocable
<1>3. IsFiniteSet(Retained(j)) /\ Cardinality(Retained(j)) \in Nat
  <2>1. IsFiniteSet(1..Len(rows))
    BY <1>1, FS_Interval
  <2>. QED  BY <1>1, <1>2, <2>1, FS_Subset, FS_CardinalityType
<1>4. ASSUME NEW i \in Items(j), i \in Retained(j)
      PROVE  CopyOf(j, i) \in 1..(Len(rows) + Cardinality(Retained(j)))
  <2>. DEFINE before == {k \in Retained(j) : k <= i}
  <2>1. before \subseteq Retained(j)
    OBVIOUS
  <2>. HIDE DEF before
  <2>2. /\ IsFiniteSet(before) /\ Cardinality(before) \in Nat
        /\ Cardinality(before) <= Cardinality(Retained(j))
    BY <1>3, <2>1, FS_Subset, FS_CardinalityType
  <2>3. CopyOf(j, i) = Len(rows) + Cardinality(before)
    BY <1>4 DEF CopyOf, before
  <2>4. Len(rows) >= 1
    BY <1>1
  <2>. QED  BY <1>1, <1>3, <2>2, <2>3, <2>4
<1>5. \A i \in Items(j) : i \notin Retained(j) => CopyOf(j, i) = NoCopy
  BY DEF CopyOf
<1>. QED  BY <1>1, <1>3, <1>4, <1>5

LEMMA RevokedRows ==
  ASSUME DeletionTypeOK, NEW j \in JobIds, NEW chroma \in BOOLEAN,
         RevokeItems(j, chroma)
  PROVE  /\ RowsGrow
         /\ Ids' = 1..(Len(rows) + Cardinality(Retained(j)))
         /\ \A i \in Ids' : i \notin Ids => rows'[i].kind = "copy"
         /\ \A i \in Items(j) : rows'[i].status \in Revoked
         /\ \A i \in Ids' : rows'[i].status = "deleted" =>
              \/ i \in Ids /\ rows[i].status = "deleted"
              \/ i \in Items(j) /\ jobs[j].action[i] = "delete"
         /\ \A i \in Items(j) : CopyOf(j, i) \in Ids' \cup {NoCopy}
<1>. DEFINE n == Len(rows) + Cardinality(Retained(j))
            new(i) == IF i \notin Ids THEN IndependentCopy(chroma)
                      ELSE IF i \in Revocable(j) THEN RevokedRow(rows[i], jobs[j].action[i])
                      ELSE rows[i]
<1>1. /\ n \in Nat /\ n >= Len(rows)
      /\ \A i \in Items(j) : CopyOf(j, i) \in 1..n \cup {NoCopy}
  BY CopyFacts
<1>2. rows' = [i \in 1..n |-> new(i)]
  BY DEF RevokeItems
<1>3. /\ Len(rows) \in Nat /\ Ids = 1..Len(rows)
      /\ \A i \in Ids : rows[i] \in Row /\ rows[i].refs \subseteq Ids
  BY RowFacts
<1>4. /\ IndependentCopy(chroma) \in Row /\ IndependentCopy(chroma).refs = {}
      /\ IndependentCopy(chroma).kind = "copy" /\ IndependentCopy(chroma).status = "active"
  <2>. DEFINE row == NewRow("copy", NoRun, {}, "active")
              status == NewIndexStatus(chroma)
  <2>1. row \in Row /\ row.refs = {} /\ row.kind = "copy" /\ row.status = "active"
    <3>1. /\ "copy" \in Kinds /\ NoRun \in Runs \cup {NoRun} /\ "active" \in Statuses
          /\ {} \in SUBSET (Nat \ {0})
      BY DEF Kinds, Statuses
    <3>. QED  BY <3>1, NewRowType
  <2>2. IndependentCopy(chroma) = [row EXCEPT !.confirmed = TRUE, !.index = status]
    BY DEF IndependentCopy
  <2>3. status \in {"pending_index", "not_indexed"}
    BY DEF NewIndexStatus
  <2>. HIDE DEF row, status
  <2>. QED  BY <2>1, <2>2, <2>3 DEF Row
<1>5. ASSUME NEW i \in Revocable(j)
      PROVE  LET row == RevokedRow(rows[i], jobs[j].action[i])
             IN /\ row \in Row /\ row.refs = rows[i].refs /\ row.kind = rows[i].kind
                /\ row.status \in Revoked
                /\ row.status = "deleted" => jobs[j].action[i] = "delete"
  <2>1. i \in Items(j) /\ i \in Ids /\ jobs[j].action[i] \in Actions
    BY JobFacts DEF Revocable
  <2>2. rows[i] \in Row
    BY <1>3, <2>1
  <2>. QED  BY <2>1, <2>2, RevokedRowType DEF Revoked
<1>6. Revocable(j) \subseteq Items(j) /\ Items(j) \subseteq Ids
  BY JobFacts DEF Revocable
<1>7. \A i \in Items(j) : i \notin Revocable(j) => rows[i].status \in Revoked
  BY DEF Revocable
<1>8. \A i \in Revocable(j) : rows[i].status \notin Revoked
  BY DEF Revocable
<1>9. \A i \in Ids : i \notin Revocable(j) => new(i) = rows[i]
  OBVIOUS
<1>10. \A i \in Revocable(j) : new(i) = RevokedRow(rows[i], jobs[j].action[i])
  BY <1>6
<1>11. \A i \in 1..n : i \notin Ids => new(i) = IndependentCopy(chroma)
  OBVIOUS
<1>. HIDE DEF n, new
<1>12. \A i \in 1..n : rows'[i] = new(i)
  BY <1>2
<1>13. \A i \in 1..n : rows'[i] \in Row
  BY <1>3, <1>4, <1>5, <1>9, <1>10, <1>11, <1>12
<1>14. rows' \in Seq(Row) /\ Ids' = 1..n
  <2>1. rows' = [i \in 1..n |-> rows'[i]]
    BY <1>2, <1>12
  <2>. QED  BY <1>1, <1>13, <2>1 DEF Ids
<1>15. Ids \subseteq Ids'
  BY <1>1, <1>3, <1>14
<1>16. \A i \in Ids' : rows'[i].refs \subseteq Ids'
  BY <1>3, <1>4, <1>5, <1>9, <1>10, <1>11, <1>12, <1>14, <1>15
<1>17. \A i \in Ids : rows[i].status \in Revoked => rows'[i] = rows[i]
  BY <1>8, <1>9, <1>12, <1>14, <1>15
<1>18. \A i \in Items(j) : rows'[i].status \in Revoked
  BY <1>5, <1>6, <1>7, <1>10, <1>12, <1>14, <1>15, <1>17
<1>19. ASSUME NEW i \in Ids', rows'[i].status = "deleted"
       PROVE  \/ i \in Ids /\ rows[i].status = "deleted"
              \/ i \in Items(j) /\ jobs[j].action[i] = "delete"
  BY <1>4, <1>5, <1>6, <1>9, <1>10, <1>11, <1>12, <1>14, <1>19
<1>20. \A i \in Ids : rows'[i].kind = rows[i].kind
  BY <1>5, <1>9, <1>10, <1>12, <1>14, <1>15
<1>21. \A i \in Ids' : i \notin Ids => rows'[i].kind = "copy"
  BY <1>4, <1>11, <1>12, <1>14
<1>22. RowsGrow
  BY <1>14, <1>15, <1>16, <1>17, <1>20 DEF RowsGrow
<1>. QED  BY <1>1, <1>14, <1>18, <1>19, <1>21, <1>22 DEF n

(***************************************************************************)
(* Jobs and processes.                                                     *)
(***************************************************************************)
JobsOK == jobs \in Seq(Job) /\ \A j \in JobIds : DOMAIN jobs[j].copy = Items(j)

DeletersOK ==
  /\ deleter \in [Deleters -> DeleterState]
  /\ \A d \in Deleters :
       /\ deleter[d].phase = "previewed" => deleter[d].token.root \in Roots
       /\ deleter[d].phase \in {"applying", "syncing"} => deleter[d].job \in JobIds
       /\ deleter[d].phase = "syncing" => deleter[d].todo \subseteq Items(deleter[d].job)

IndexersOK ==
  /\ indexer \in [Indexers -> IndexerState]
  /\ \A x \in Indexers : indexer[x].phase # "idle" => indexer[x].row \in Ids

\* No step removes a job or changes what it deletes.
JobsGrow ==
  /\ JobIds \subseteq JobIds'
  /\ \A j \in JobIds : /\ jobs'[j].root = jobs[j].root
                       /\ jobs'[j].confirmed = jobs[j].confirmed
                       /\ jobs'[j].action = jobs[j].action

LEMMA JobsKept ==
  ASSUME DeletionTypeOK, Ids \subseteq Ids', jobs' = jobs
  PROVE  JobsOK' /\ JobsGrow /\ JobIds' = JobIds
<1>1. JobIds' = JobIds /\ \A j \in JobIds : Items(j)' = Items(j)
  BY DEF JobIds, Items
<1>2. Job \subseteq Job'
  BY <1>1, Grown
<1>3. jobs \in Seq(Job)
  BY DEF DeletionTypeOK
<1>4. jobs \in Seq(Job')
  BY <1>2, <1>3
<1>. QED  BY <1>1, <1>4 DEF JobsOK, JobsGrow, DeletionTypeOK

LEMMA JobUpdated ==
  ASSUME DeletionTypeOK, Ids \subseteq Ids', NEW k \in JobIds, NEW new \in Job',
         new.root = jobs[k].root, new.confirmed = jobs[k].confirmed,
         new.action = jobs[k].action, DOMAIN new.copy = Items(k),
         jobs' = [jobs EXCEPT ![k] = new]
  PROVE  JobsOK' /\ JobsGrow /\ JobIds' = JobIds
<1>1. Len(jobs) \in Nat /\ JobIds = 1..Len(jobs) /\ jobs \in Seq(Job)
  BY RowFacts DEF DeletionTypeOK
<1>2. /\ JobIds' = JobIds
      /\ \A j \in JobIds : jobs'[j] = IF j = k THEN new ELSE jobs[j]
  BY <1>1 DEF JobIds
<1>3. JobsGrow
  BY <1>2 DEF JobsGrow
<1>4. \A j \in JobIds : Items(j)' = Items(j)
  BY <1>3 DEF JobsGrow, Items
<1>5. Job \subseteq Job'
  BY <1>2, Grown
<1>6. jobs \in Seq(Job')
  BY <1>1, <1>5
<1>7. jobs' \in Seq(Job')
  BY <1>1, <1>6
<1>8. \A j \in JobIds' : DOMAIN jobs'[j].copy = Items(j)'
  <2>. SUFFICES ASSUME NEW j \in JobIds
                PROVE  DOMAIN jobs'[j].copy = Items(j)
    BY <1>2, <1>4
  <2>1. DOMAIN jobs[j].copy = Items(j)
    BY DEF DeletionTypeOK
  <2>. QED  BY <1>2, <2>1
<1>. QED  BY <1>2, <1>3, <1>7, <1>8 DEF JobsOK

LEMMA JobAdded ==
  ASSUME DeletionTypeOK, Ids \subseteq Ids', NEW new \in Job',
         DOMAIN new.copy = DOMAIN new.action, jobs' = Append(jobs, new)
  PROVE  /\ JobsOK' /\ JobsGrow
         /\ JobIds' = JobIds \cup {Len(jobs) + 1}
         /\ jobs'[Len(jobs) + 1] = new
         /\ \A j \in JobIds : jobs'[j] = jobs[j]
<1>1. Len(jobs) \in Nat /\ JobIds = 1..Len(jobs) /\ jobs \in Seq(Job)
  BY RowFacts DEF DeletionTypeOK
<1>2. /\ Len(jobs') = Len(jobs) + 1
      /\ \A j \in 1..Len(jobs) : jobs'[j] = jobs[j]
      /\ jobs'[Len(jobs) + 1] = new
      /\ jobs' \in Seq(Job \cup {new})
  <2>1. jobs \in Seq(Job \cup {new})
    BY <1>1
  <2>. QED  BY <2>1, AppendProperties
<1>3. JobIds' = 1..(Len(jobs) + 1)
  BY <1>2 DEF JobIds
<1>4. JobIds' = JobIds \cup {Len(jobs) + 1} /\ JobIds \subseteq JobIds'
  BY <1>1, <1>3
<1>5. Job \subseteq Job'
  BY <1>4, Grown
<1>6. jobs' \in Seq(Job')
  BY <1>2, <1>5
<1>7. \A j \in JobIds' : DOMAIN jobs'[j].copy = Items(j)'
  BY <1>1, <1>2, <1>4 DEF Items, DeletionTypeOK
<1>. QED  BY <1>1, <1>2, <1>4, <1>6, <1>7 DEF JobsOK, JobsGrow

LEMMA DeletersKept ==
  ASSUME DeletionTypeOK, Ids \subseteq Ids', JobsGrow, deleter' = deleter
  PROVE  DeletersOK'
<1>1. \A j \in JobIds : Items(j)' = Items(j)
  BY DEF JobsGrow, Items
<1>2. JobIds \subseteq JobIds'
  BY DEF JobsGrow
<1>3. DeleterState \subseteq DeleterState'
  BY <1>2, Grown
<1>4. deleter' \in [Deleters -> DeleterState']
  BY <1>3 DEF DeletionTypeOK
<1>5. ASSUME NEW d \in Deleters
      PROVE  /\ deleter[d].phase = "previewed" => deleter[d].token.root \in Roots
             /\ deleter[d].phase \in {"applying", "syncing"} => deleter[d].job \in JobIds'
             /\ deleter[d].phase = "syncing" => deleter[d].todo \subseteq Items(deleter[d].job)'
  BY <1>1, <1>2 DEF DeletionTypeOK
<1>. QED  BY <1>4, <1>5 DEF DeletersOK

LEMMA DeleterUpdated ==
  ASSUME DeletionTypeOK, Ids \subseteq Ids', JobsGrow,
         NEW e \in Deleters, NEW new \in DeleterState',
         new.phase = "previewed" => new.token.root \in Roots,
         new.phase \in {"applying", "syncing"} => new.job \in JobIds',
         new.phase = "syncing" => new.todo \subseteq DOMAIN jobs'[new.job].action,
         deleter' = [deleter EXCEPT ![e] = new]
  PROVE  DeletersOK'
<1>1. \A j \in JobIds : DOMAIN jobs'[j].action = Items(j)
  BY DEF JobsGrow, Items
<1>2. JobIds \subseteq JobIds'
  BY DEF JobsGrow
<1>3. DeleterState \subseteq DeleterState'
  BY <1>2, Grown
<1>4. /\ deleter' \in [Deleters -> DeleterState']
      /\ \A d \in Deleters : deleter'[d] = IF d = e THEN new ELSE deleter[d]
  BY <1>3 DEF DeletionTypeOK
<1>5. ASSUME NEW d \in Deleters, d # e
      PROVE  /\ deleter[d].phase = "previewed" => deleter[d].token.root \in Roots
             /\ deleter[d].phase \in {"applying", "syncing"} => deleter[d].job \in JobIds'
             /\ deleter[d].phase = "syncing" => deleter[d].todo \subseteq DOMAIN jobs'[deleter[d].job].action
  BY <1>1, <1>2 DEF DeletionTypeOK
<1>6. ASSUME NEW d \in Deleters
      PROVE  /\ deleter'[d].phase = "previewed" => deleter'[d].token.root \in Roots
             /\ deleter'[d].phase \in {"applying", "syncing"} => deleter'[d].job \in JobIds'
             /\ deleter'[d].phase = "syncing" => deleter'[d].todo \subseteq DOMAIN jobs'[deleter'[d].job].action
  <2>1. CASE d = e
    BY <1>4, <2>1
  <2>2. CASE d # e
    BY <1>4, <1>5, <2>2
  <2>. QED  BY <2>1, <2>2
<1>. QED  BY <1>4, <1>6 DEF DeletersOK, Items

LEMMA IndexersKept ==
  ASSUME DeletionTypeOK, Ids \subseteq Ids', indexer' = indexer
  PROVE  IndexersOK'
<1>1. IndexerState \subseteq IndexerState'
  BY DEF IndexerState
<1>. QED  BY <1>1 DEF IndexersOK, DeletionTypeOK

LEMMA IndexerUpdated ==
  ASSUME DeletionTypeOK, Ids \subseteq Ids', NEW y \in Indexers, NEW new \in IndexerState',
         new.phase # "idle" => new.row \in Ids', indexer' = [indexer EXCEPT ![y] = new]
  PROVE  IndexersOK'
<1>1. IndexerState \subseteq IndexerState'
  BY DEF IndexerState
<1>. QED  BY <1>1 DEF IndexersOK, DeletionTypeOK

(***************************************************************************)
(* Each step keeps the types, lets the tables only grow (StepOK) and, if it*)
(* is not the transaction of a deletion, destroys no row.                  *)
(***************************************************************************)
StepOK == DeletionTypeOK' /\ RowsGrow /\ JobsGrow

LEMMA RowsUnchanged ==
  ASSUME DeletionTypeOK, rows' = rows
  PROVE  RowsStep /\ Ids' = Ids
<1>1. Ids' = Ids
  BY DEF Ids
<1>. QED  BY <1>1 DEF RowsStep, RowsGrow, DeletionTypeOK

LEMMA ServiceStep ==
  ASSUME DeletionTypeOK, RowsGrow,
         thread' \in {"active", "archived", "deleted"},
         runs' \in [Runs -> {"none", "running", "completed", "deleted"}],
         relations' = relations \/ relations' \subseteq RelationRow',
         proposals' = proposals \/ proposals' \subseteq Ids' \X Ids',
         index' = index \/ index' \subseteq Ids',
         UNCHANGED <<jobs, deleter>>,
         UNCHANGED indexer \/ IndexersOK'
  PROVE  StepOK
<1>1. Ids \subseteq Ids'
  BY DEF RowsGrow
<1>2. JobsOK' /\ JobsGrow /\ JobIds' = JobIds
  BY <1>1, JobsKept
<1>3. relations' \subseteq RelationRow'
  BY <1>1, <1>2, Grown DEF DeletionTypeOK
<1>4. proposals' \subseteq Ids' \X Ids' /\ index' \subseteq Ids'
  BY <1>1, <1>2, Grown
<1>5. DeletersOK'
  BY <1>1, <1>2, DeletersKept
<1>6. IndexersOK'
  BY <1>1, IndexersKept
<1>. QED  BY <1>2, <1>3, <1>4, <1>5, <1>6
          DEF StepOK, RowsGrow, DeletionTypeOK, JobsOK, DeletersOK, IndexersOK

LEMMA ThreadSteps ==
  ASSUME DeletionTypeOK, TranscriptStep \/ ArchiveThread
  PROVE  StepOK /\ RowsStep
<1>. USE DEF DeletionTypeOK
<1>1. CASE ArchiveThread
  BY <1>1, RowsUnchanged, ServiceStep DEF ArchiveThread, RowsStep
<1>2. ASSUME NEW r \in Runs, BeginRun(r)
      PROVE  StepOK /\ RowsStep
  <2>1. runs' \in [Runs -> {"none", "running", "completed", "deleted"}]
    BY <1>2 DEF BeginRun
  <2>. QED  BY <1>2, <2>1, RowsUnchanged, ServiceStep DEF BeginRun, RowsStep
<1>3. ASSUME NEW r \in Runs, CompleteRun(r)
      PROVE  StepOK /\ RowsStep
  <2>1. runs' \in [Runs -> {"none", "running", "completed", "deleted"}]
    BY <1>3 DEF CompleteRun
  <2>. QED  BY <1>3, <2>1, RowsUnchanged, ServiceStep DEF CompleteRun, RowsStep
<1>4. ASSUME NEW r \in Runs, AppendMessage(r)
      PROVE  StepOK /\ RowsStep
  BY <1>4, MessageRows, ServiceStep DEF AppendMessage, RowsStep
<1>. QED  BY <1>1, <1>2, <1>3, <1>4 DEF TranscriptStep

LEMMA NoteSteps ==
  ASSUME DeletionTypeOK, NoteStep \/ ConflictStep \/ BuildSummary
  PROVE  StepOK /\ RowsStep
<1>1. ASSUME NEW refs \in SUBSET Ids, SubmitNote(refs)
      PROVE  StepOK /\ RowsStep
  <2>1. RowsStep /\ relations' \subseteq RelationRow'
    BY <1>1, CandidateRows DEF SubmitNote
  <2>. QED  BY <1>1, <2>1, ServiceStep
            DEF SubmitNote, AddCandidate, RowsStep, DeletionTypeOK
<1>2. ASSUME NEW i \in Ids, ConfirmNote(i) \/ RetractNote(i)
      PROVE  StepOK /\ RowsStep
  <2>1. RowsStep
    BY <1>2, StatusRows
  <2>. QED  BY <1>2, <2>1, ServiceStep
            DEF ConfirmNote, RetractNote, SetNoteStatus, RowsStep, DeletionTypeOK
<1>3. ASSUME NEW refs \in SUBSET Ids, NEW i \in Ids, SubmitConflict(refs, i)
      PROVE  StepOK /\ RowsStep
  <2>1. /\ RowsStep /\ relations' \subseteq RelationRow'
        /\ Ids' = Ids \cup {Len(rows) + 1}
    BY <1>3, CandidateRows DEF SubmitConflict
  <2>2. proposals' \subseteq Ids' \X Ids'
    BY <1>3, <2>1 DEF SubmitConflict, DeletionTypeOK
  <2>. QED  BY <1>3, <2>1, <2>2, ServiceStep
            DEF SubmitConflict, AddCandidate, RowsStep, DeletionTypeOK
<1>4. ASSUME NEW proposal \in proposals, LinkConflict(proposal)
      PROVE  StepOK /\ RowsStep
  <2>1. RowsStep /\ Ids' = Ids
    BY <1>4, RowsUnchanged DEF LinkConflict
  <2>2. proposal[1] \in Ids /\ proposal[2] \in Ids /\ "conflicts_with" \in RelationTypes
    BY DEF DeletionTypeOK, RelationTypes
  <2>3. /\ Relation(proposal[1], proposal[2], "conflicts_with") \in RelationRow
        /\ Relation(proposal[2], proposal[1], "conflicts_with") \in RelationRow
    BY <2>2, RelationType DEF RelationRow
  <2>4. relations' \subseteq RelationRow /\ proposals' \subseteq Ids \X Ids
    BY <1>4, <2>3 DEF LinkConflict, DeletionTypeOK
  <2>5. relations' \subseteq RelationRow' /\ proposals' \subseteq Ids' \X Ids'
    BY <2>1, <2>4 DEF RelationRow
  <2>. QED  BY <1>4, <2>1, <2>5, ServiceStep DEF LinkConflict, RowsStep, DeletionTypeOK
<1>5. ASSUME NEW proposal \in proposals, LoseConflict(proposal)
      PROVE  StepOK /\ RowsStep
  <2>1. RowsStep /\ Ids' = Ids
    BY <1>5, RowsUnchanged DEF LoseConflict, records
  <2>2. proposals' \subseteq Ids' \X Ids'
    BY <1>5, <2>1 DEF LoseConflict, DeletionTypeOK
  <2>. QED  BY <1>5, <2>1, <2>2, ServiceStep
            DEF LoseConflict, records, RowsStep, DeletionTypeOK
<1>6. CASE BuildSummary
  <2>1. RowsStep /\ relations' \subseteq RelationRow'
    BY <1>6, SummaryRows
  <2>. QED  BY <1>6, <2>1, ServiceStep DEF BuildSummary, RowsStep, DeletionTypeOK
<1>. QED  BY <1>1, <1>2, <1>3, <1>4, <1>5, <1>6 DEF NoteStep, ConflictStep

LEMMA IndexSteps ==
  ASSUME DeletionTypeOK, IndexStep
  PROVE  StepOK /\ RowsStep
<1>. DEFINE at(phase, row) == [phase |-> phase, row |-> row]
<1>1. ASSUME NEW x \in Indexers, NEW i \in Ids, PromoteNote(x, i)
      PROVE  StepOK /\ RowsStep
  <2>1. /\ RowsStep /\ relations' \subseteq RelationRow'
        /\ Ids' = Ids \cup {Len(rows) + 1}
    BY <1>1, PromotedRows
  <2>2. at("put", Len(rows) + 1) \in IndexerState' /\ Len(rows) + 1 \in Ids'
    BY <2>1 DEF IndexerState
  <2>3. IndexersOK'
    <3>1. \/ indexer' = indexer
          \/ indexer' = [indexer EXCEPT ![x] = at("put", Len(rows) + 1)]
      BY <1>1 DEF PromoteNote
    <3>2. CASE indexer' = indexer
      BY <2>1, <3>2, IndexersKept
    <3>3. CASE indexer' = [indexer EXCEPT ![x] = at("put", Len(rows) + 1)]
      BY <2>1, <2>2, <3>3, IndexerUpdated
    <3>. QED  BY <3>1, <3>2, <3>3
  <2>. QED  BY <1>1, <2>1, <2>3, ServiceStep DEF PromoteNote, RowsStep, DeletionTypeOK
<1>2. ASSUME NEW x \in Indexers, NEW i \in Ids, RetryIndex(x, i)
      PROVE  StepOK /\ RowsStep
  <2>1. RowsStep /\ Ids' = Ids
    BY <1>2, RowsUnchanged DEF RetryIndex, records
  <2>2. at("put", i) \in IndexerState' /\ i \in Ids'
    BY <2>1 DEF IndexerState
  <2>3. IndexersOK'
    BY <1>2, <2>1, <2>2, IndexerUpdated DEF RetryIndex
  <2>. QED  BY <1>2, <2>1, <2>3, ServiceStep
            DEF RetryIndex, records, RowsStep, DeletionTypeOK
<1>3. ASSUME NEW x \in Indexers, PutIndex(x)
      PROVE  StepOK /\ RowsStep
  <2>1. RowsStep /\ Ids' = Ids
    BY <1>3, RowsUnchanged DEF PutIndex, records
  <2>2. indexer[x].row \in Ids /\ indexer[x] \in IndexerState
    BY <1>3 DEF PutIndex, DeletionTypeOK
  <2>3. PICK phase \in {"indexed", "index_failed"} : indexer' = [indexer EXCEPT ![x].phase = phase]
    BY <1>3 DEF PutIndex
  <2>4. [indexer[x] EXCEPT !.phase = phase] = at(phase, indexer[x].row)
    BY <2>2 DEF IndexerState
  <2>5. indexer' = [indexer EXCEPT ![x] = at(phase, indexer[x].row)]
    BY <2>3, <2>4
  <2>6. at(phase, indexer[x].row) \in IndexerState' /\ indexer[x].row \in Ids'
    BY <2>1, <2>2 DEF IndexerState
  <2>7. IndexersOK'
    BY <2>1, <2>5, <2>6, IndexerUpdated
  <2>8. index' \subseteq Ids'
    BY <1>3, <2>1, <2>2 DEF PutIndex, DeletionTypeOK
  <2>. QED  BY <1>3, <2>1, <2>7, <2>8, ServiceStep
            DEF PutIndex, records, RowsStep, DeletionTypeOK
<1>4. ASSUME NEW x \in Indexers, MarkIndex(x) \/ StopIndexer(x)
      PROVE  StepOK /\ RowsStep
  <2>1. RowsStep /\ Ids' = Ids
    BY <1>4, MarkRows, RowsUnchanged DEF StopIndexer, records
  <2>2. at("idle", 0) \in IndexerState'
    BY DEF IndexerState
  <2>3. IndexersOK'
    BY <1>4, <2>1, <2>2, IndexerUpdated DEF MarkIndex, StopIndexer
  <2>. QED  BY <1>4, <2>1, <2>3, ServiceStep
            DEF MarkIndex, StopIndexer, records, RowsStep, DeletionTypeOK
<1>. QED  BY <1>1, <1>2, <1>3, <1>4 DEF IndexStep

(***************************************************************************)
(* The steps of a deletion.                                                *)
(***************************************************************************)
LEMMA SnapshotType ==
  ASSUME DeletionTypeOK, NEW root \in Roots
  PROVE  /\ Snapshot(root) \in Token
         /\ Snapshot(root).root = root
         /\ {memory[1] : memory \in Snapshot(root).memories} = Closure(Direct(root))
         /\ Closure(Direct(root)) \subseteq Ids
<1>. DEFINE C == Closure(Direct(root))
            memories == {<<i, rows[i].version>> : i \in C}
            into == {rel \in relations : rel.target \in C}
<1>1. C \subseteq Ids
  BY DEF Closure
<1>. HIDE DEF C
<1>2. memories \in SUBSET (Ids \X (Nat \ {0}))
  BY <1>1, RowFacts DEF Row
<1>3. into \in SUBSET RelationRow
  BY DEF DeletionTypeOK
<1>4. AffectedRuns(root) \in SUBSET Runs
  BY DEF AffectedRuns, Roots
<1>5. {memory[1] : memory \in memories} = C
  <2>1. \A i \in C : <<i, rows[i].version>> \in memories /\ <<i, rows[i].version>>[1] = i
    OBVIOUS
  <2>2. \A memory \in memories : memory[1] \in C
    OBVIOUS
  <2>. HIDE DEF memories
  <2>. QED  BY <2>1, <2>2
<1>6. Snapshot(root) = [root |-> root, memories |-> memories, relations |-> into,
                        runs |-> AffectedRuns(root)]
  BY DEF Snapshot, C
<1>. HIDE DEF memories, into
<1>7. /\ Snapshot(root) \in Token /\ Snapshot(root).root = root
      /\ Snapshot(root).memories = memories
  BY <1>2, <1>3, <1>4, <1>6 DEF Token
<1>. QED  BY <1>1, <1>5, <1>7 DEF C

LEMMA DeleterStates ==
  ASSUME DeletionTypeOK
  PROVE  /\ Idle \in DeleterState /\ Idle.phase = "idle"
         /\ \A root \in Roots :
              LET new == [Idle EXCEPT !.phase = "previewed", !.token = Snapshot(root)]
              IN new \in DeleterState /\ new.phase = "previewed" /\ new.token.root = root
         /\ \A j \in JobIds :
              LET new == [Idle EXCEPT !.phase = "applying", !.job = j]
              IN new \in DeleterState /\ new.phase = "applying" /\ new.job = j
         /\ \A j \in JobIds, chroma \in BOOLEAN :
              LET new == Syncing(j, chroma)
              IN /\ new \in DeleterState /\ new.phase = "syncing" /\ new.job = j
                 /\ new.todo \subseteq Items(j)
<1>1. NoToken \in Token
  BY DEF NoToken, Token
<1>2. Idle \in DeleterState /\ Idle.phase = "idle"
  BY <1>1 DEF Idle, DeleterState
<1>3. ASSUME NEW root \in Roots
      PROVE  LET new == [Idle EXCEPT !.phase = "previewed", !.token = Snapshot(root)]
             IN new \in DeleterState /\ new.phase = "previewed" /\ new.token.root = root
  <2>1. Snapshot(root) \in Token /\ Snapshot(root).root = root
    BY SnapshotType
  <2>. QED  BY <1>2, <2>1 DEF DeleterState
<1>4. ASSUME NEW j \in JobIds
      PROVE  LET new == [Idle EXCEPT !.phase = "applying", !.job = j]
             IN new \in DeleterState /\ new.phase = "applying" /\ new.job = j
  BY <1>2 DEF DeleterState
<1>5. ASSUME NEW j \in JobIds, NEW chroma \in BOOLEAN
      PROVE  LET new == Syncing(j, chroma)
             IN /\ new \in DeleterState /\ new.phase = "syncing" /\ new.job = j
                /\ new.todo \subseteq Items(j)
  <2>. DEFINE todo == IF chroma THEN Items(j) ELSE {}
  <2>1. Items(j) \subseteq Ids /\ todo \subseteq Items(j)
    BY JobFacts
  <2>2. Syncing(j, chroma) = [phase |-> "syncing", token |-> NoToken, job |-> j, todo |-> todo,
                              failed |-> FALSE, chroma |-> chroma]
    BY DEF Syncing
  <2>. HIDE DEF todo
  <2>. QED  BY <1>1, <2>1, <2>2 DEF DeleterState
<1>. QED  BY <1>2, <1>3, <1>4, <1>5

\* A step that changes a deleting process and nothing else.
LEMMA DeleterStep ==
  ASSUME DeletionTypeOK, NEW d \in Deleters, NEW new \in DeleterState,
         new.phase = "previewed" => new.token.root \in Roots,
         new.phase \in {"applying", "syncing"} => new.job \in JobIds,
         new.phase = "syncing" => new.todo \subseteq Items(new.job),
         deleter' = [deleter EXCEPT ![d] = new],
         UNCHANGED <<thread, runs, rows, relations, index, proposals, jobs, indexer>>
  PROVE  StepOK /\ RowsStep
<1>1. RowsStep /\ Ids' = Ids
  BY RowsUnchanged
<1>2. JobsOK' /\ JobsGrow /\ JobIds' = JobIds
  BY <1>1, JobsKept
<1>3. DeletersOK'
  <2>1. new \in DeleterState'
    BY <1>1, <1>2, Grown
  <2>2. new.phase = "syncing" => new.todo \subseteq DOMAIN jobs'[new.job].action
    BY DEF Items
  <2>. QED  BY <1>1, <1>2, <2>1, <2>2, DeleterUpdated
<1>4. IndexersOK'
  BY <1>1, IndexersKept
<1>5. RelationRow' = RelationRow
  BY <1>1 DEF RelationRow
<1>. QED  BY <1>1, <1>2, <1>3, <1>4, <1>5
          DEF StepOK, RowsStep, RowsGrow, DeletionTypeOK, JobsOK, DeletersOK, IndexersOK

LEMMA SyncBegun ==
  ASSUME DeletionTypeOK, NEW d \in Deleters, NEW j \in JobIds, NEW chroma \in BOOLEAN,
         deleter' = [deleter EXCEPT ![d] = Syncing(j, chroma)],
         UNCHANGED <<thread, runs, rows, relations, index, proposals, jobs, indexer>>
  PROVE  StepOK /\ RowsStep
<1>. DEFINE new == Syncing(j, chroma)
<1>1. /\ new \in DeleterState /\ new.phase = "syncing" /\ new.job = j
      /\ new.todo \subseteq Items(j)
  BY DeleterStates
<1>2. deleter' = [deleter EXCEPT ![d] = new]
  OBVIOUS
<1>. HIDE DEF new
<1>. QED  BY <1>1, <1>2, DeleterStep

LEMMA PlanningSteps ==
  ASSUME DeletionTypeOK, NEW d \in Deleters,
         \/ \E root \in Roots : Preview(d, root)
         \/ ApplyDone(d)
         \/ \E j \in JobIds : Resume(d, j)
         \/ StopDeleter(d)
  PROVE  StepOK /\ RowsStep
<1>. USE DeleterStates, DeleterStep
<1>1. ASSUME NEW root \in Roots, Preview(d, root)
      PROVE  StepOK /\ RowsStep
  <2>. DEFINE new == [Idle EXCEPT !.phase = "previewed", !.token = Snapshot(root)]
  <2>1. new \in DeleterState /\ new.phase = "previewed" /\ new.token.root = root
    OBVIOUS
  <2>2. /\ deleter' = [deleter EXCEPT ![d] = new]
        /\ UNCHANGED <<thread, runs, rows, relations, index, proposals, jobs, indexer>>
    BY <1>1 DEF Preview, records
  <2>. HIDE DEF new
  <2>. QED  BY <2>1, <2>2
<1>2. CASE ApplyDone(d)
  <2>1. deleter[d].job \in JobIds
    BY <1>2 DEF ApplyDone, DeletionTypeOK
  <2>2. PICK chroma \in BOOLEAN :
           deleter' = [deleter EXCEPT ![d] = Syncing(deleter[d].job, chroma)]
    BY <1>2 DEF ApplyDone
  <2>3. UNCHANGED <<thread, runs, rows, relations, index, proposals, jobs, indexer>>
    BY <1>2 DEF ApplyDone, records
  <2>. QED  BY ONLY DeletionTypeOK, <2>1, <2>2, <2>3, SyncBegun
<1>3. ASSUME NEW j \in JobIds, Resume(d, j)
      PROVE  StepOK /\ RowsStep
  <2>. DEFINE new == [Idle EXCEPT !.phase = "applying", !.job = j]
  <2>1. new \in DeleterState /\ new.phase = "applying" /\ new.job = j
    OBVIOUS
  <2>2. /\ \/ deleter' = [deleter EXCEPT ![d] = new]
           \/ \E chroma \in BOOLEAN : deleter' = [deleter EXCEPT ![d] = Syncing(j, chroma)]
        /\ UNCHANGED <<thread, runs, rows, relations, index, proposals, jobs, indexer>>
    BY <1>3 DEF Resume, records
  <2>. HIDE DEF new
  <2>3. CASE deleter' = [deleter EXCEPT ![d] = new]
    BY <2>1, <2>2, <2>3
  <2>4. CASE \E chroma \in BOOLEAN : deleter' = [deleter EXCEPT ![d] = Syncing(j, chroma)]
    <3>1. PICK chroma \in BOOLEAN : deleter' = [deleter EXCEPT ![d] = Syncing(j, chroma)]
      BY <2>4
    <3>. QED  BY ONLY DeletionTypeOK, j \in JobIds, <2>2, <3>1, SyncBegun
  <2>. QED  BY <2>2, <2>3, <2>4
<1>4. CASE StopDeleter(d)
  BY <1>4 DEF StopDeleter, records
<1>. QED  BY <1>1, <1>2, <1>3, <1>4

\* A new job has confirmed every item it deletes: the plan is the one of the token.
LEMMA ExecuteStep ==
  ASSUME DeletionTypeOK, NEW d \in Deleters, NEW retained \in SUBSET Ids,
         Execute(d, retained)
  PROVE  /\ StepOK /\ RowsStep
         /\ JobIds' = JobIds \cup {Len(jobs) + 1}
         /\ jobs'[Len(jobs) + 1].status = "authorized"
         /\ DOMAIN jobs'[Len(jobs) + 1].action \subseteq jobs'[Len(jobs) + 1].confirmed
         /\ \A i \in DOMAIN jobs'[Len(jobs) + 1].action : jobs'[Len(jobs) + 1].copy[i] = NoCopy
         /\ \A j \in JobIds : jobs'[j] = jobs[j]
         /\ deleter' = [deleter EXCEPT ![d] = [Idle EXCEPT !.phase = "applying",
                                                           !.job = Len(jobs) + 1]]
<1>. DEFINE token == deleter[d].token
            root == token.root
            C == Closure(Direct(root))
            confirmed == {memory[1] : memory \in token.memories}
            action == [i \in C |-> IF i \in Direct(root) THEN "delete"
                                   ELSE IF i \in retained THEN "retain_independent"
                                   ELSE "retract"]
            copy == [i \in C |-> NoCopy]
            job == [root |-> root, status |-> "authorized", confirmed |-> confirmed,
                    action |-> action, copy |-> copy]
            new == [Idle EXCEPT !.phase = "applying", !.job = Len(jobs) + 1]
<1>1. root \in Roots
  BY DEF Execute, DeletionTypeOK
<1>2. token = Snapshot(root)
  BY DEF Execute, Confirmed
<1>3. confirmed = C /\ C \subseteq Ids
  BY <1>1, <1>2, SnapshotType
<1>4. jobs' = Append(jobs, job) /\ deleter' = [deleter EXCEPT ![d] = new]
  BY DEF Execute, NewJob
<1>. HIDE DEF token, root, C, confirmed
<1>5. /\ action \in [C -> Actions] /\ copy \in [C -> Ids \cup {NoCopy}]
      /\ \A i \in C : copy[i] = NoCopy
  BY DEF Actions
<1>. HIDE DEF action, copy
<1>6. job \in Job
  <2>1. confirmed \in SUBSET Ids /\ C \in SUBSET Ids
        /\ "authorized" \in {"authorized", "index_pending", "complete"}
    BY <1>3
  <2>. QED  BY <1>1, <1>5, <2>1, JobTypes DEF Job, Actions
<1>7. /\ DOMAIN job.copy = DOMAIN job.action /\ DOMAIN job.action = C
      /\ job.confirmed = C /\ job.status = "authorized"
      /\ \A i \in C : job.copy[i] = NoCopy
  BY <1>3, <1>5
<1>. HIDE DEF job
<1>8. RowsStep /\ Ids' = Ids
  BY RowsUnchanged DEF Execute, records
<1>9. job \in Job'
  BY <1>6, <1>8 DEF Job
<1>10. /\ JobsOK' /\ JobsGrow
       /\ JobIds' = JobIds \cup {Len(jobs) + 1}
       /\ jobs'[Len(jobs) + 1] = job
       /\ \A j \in JobIds : jobs'[j] = jobs[j]
  BY <1>4, <1>7, <1>8, <1>9, JobAdded
<1>11. new \in DeleterState' /\ new.phase = "applying" /\ new.job \in JobIds'
  <2>1. Idle \in DeleterState'
    BY <1>8, <1>10, DeleterStates, Grown
  <2>. QED  BY <1>10, <2>1 DEF DeleterState
<1>. HIDE DEF new
<1>12. DeletersOK'
  BY <1>4, <1>8, <1>10, <1>11, DeleterUpdated
<1>13. IndexersOK'
  BY <1>8, IndexersKept DEF Execute
<1>14. RelationRow' = RelationRow
  BY <1>8 DEF RelationRow
<1>15. StepOK
  BY <1>8, <1>10, <1>12, <1>13, <1>14
     DEF StepOK, RowsStep, RowsGrow, DeletionTypeOK, JobsOK, DeletersOK, IndexersOK,
         Execute, records
<1>. QED  BY <1>4, <1>7, <1>8, <1>10, <1>15 DEF new

LEMMA ApplyStep ==
  ASSUME DeletionTypeOK, NEW d \in Deleters, ApplySqlite(d)
  PROVE  LET j == deleter[d].job
         IN /\ j \in JobIds /\ DeleteRoot(jobs[j].root)
            /\ StepOK
            /\ JobIds' = JobIds
            /\ jobs[j].status = "authorized" /\ jobs'[j].status = "index_pending"
            /\ \A i \in Items(j) : jobs'[j].copy[i] = CopyOf(j, i)
            /\ \A k \in JobIds : k # j => jobs'[k] = jobs[k]
            /\ \E chroma \in BOOLEAN :
                 RevokeItems(j, chroma) /\ deleter' = [deleter EXCEPT ![d] = Syncing(j, chroma)]
<1>. DEFINE j == deleter[d].job
            copy == [i \in Items(j) |-> CopyOf(j, i)]
            job == [jobs[j] EXCEPT !.status = "index_pending", !.copy = copy]
<1>1. j \in JobIds
  BY DEF ApplySqlite, DeletionTypeOK
<1>2. PICK chroma \in BOOLEAN :
      /\ RevokeItems(j, chroma) /\ DeleteRoot(jobs[j].root)
      /\ relations' = {rel \in relations : {rel.source, rel.target} \cap Items(j) = {}}
      /\ jobs' = [jobs EXCEPT ![j] = [jobs[j] EXCEPT !.status = "index_pending", !.copy = copy]]
      /\ deleter' = [deleter EXCEPT ![d] = Syncing(j, chroma)]
      /\ UNCHANGED <<index, proposals, indexer>>
  BY DEF ApplySqlite
<1>0. jobs[j].status = "authorized"
  BY DEF ApplySqlite
<1>. HIDE DEF j
<1>3. RowsGrow /\ \A i \in Items(j) : CopyOf(j, i) \in Ids' \cup {NoCopy}
  BY <1>1, <1>2, RevokedRows
<1>4. Ids \subseteq Ids'
  BY <1>3 DEF RowsGrow
<1>5. /\ jobs[j] \in Job /\ jobs[j].root \in Roots
      /\ jobs[j].confirmed \in SUBSET Ids' /\ Items(j) \in SUBSET Ids'
      /\ jobs[j].action \in [Items(j) -> Actions]
  BY <1>1, <1>4, RowFacts, JobFacts
<1>6. /\ copy \in [Items(j) -> Ids' \cup {NoCopy}] /\ DOMAIN copy = Items(j)
      /\ \A i \in Items(j) : copy[i] = CopyOf(j, i)
  BY <1>3
<1>. HIDE DEF copy
<1>7. jobs' = [jobs EXCEPT ![j] = job] /\ JobIds' = JobIds
  BY <1>2 DEF JobIds
<1>8. job \in Job'
  <2>. DEFINE A == UNION {[I -> {"delete", "retract", "retain_independent"}] : I \in SUBSET Ids'}
              K == UNION {[I -> Ids' \cup {NoCopy}] : I \in SUBSET Ids'}
  <2>1. copy \in K
    BY <1>5, <1>6
  <2>2. Job' = [root : Roots, status : {"authorized", "index_pending", "complete"},
                confirmed : SUBSET Ids', action : A, copy : K]
    BY DEF Job
  <2>3. jobs[j] \in Job'
    BY <1>4, <1>5, <1>7, Grown
  <2>. HIDE DEF A, K
  <2>. QED  BY <2>1, <2>2, <2>3
<1>9. /\ job.root = jobs[j].root /\ job.confirmed = jobs[j].confirmed
      /\ job.action = jobs[j].action /\ DOMAIN job.copy = Items(j)
      /\ job.status = "index_pending" /\ job.copy = copy
  BY <1>5, <1>6 DEF Job
<1>. HIDE DEF job
<1>11. JobsOK' /\ JobsGrow /\ JobIds' = JobIds
  BY <1>1, <1>4, <1>7, <1>8, <1>9, JobUpdated
<1>12. jobs'[j] = job /\ \A k \in JobIds : k # j => jobs'[k] = jobs[k]
  BY <1>1, <1>7 DEF JobIds
<1>13. DeletersOK'
  <2>. DEFINE new == Syncing(j, chroma)
  <2>1. /\ new \in DeleterState /\ new.phase = "syncing" /\ new.job = j
        /\ new.todo \subseteq Items(j)
    BY <1>1, DeleterStates
  <2>2. new \in DeleterState'
    BY <1>4, <1>11, <2>1, Grown
  <2>3. deleter' = [deleter EXCEPT ![d] = new]
    BY <1>2
  <2>4. DOMAIN jobs'[j].action = Items(j)
    BY <1>9, <1>12 DEF Items
  <2>. HIDE DEF new
  <2>. QED  BY <1>1, <1>4, <1>11, <2>1, <2>2, <2>3, <2>4, DeleterUpdated
<1>14. IndexersOK'
  BY <1>2, <1>4, IndexersKept
<1>15. /\ relations' \subseteq RelationRow' /\ index' \subseteq Ids'
       /\ proposals' \subseteq Ids' \X Ids'
  <2>1. relations' \subseteq RelationRow
    BY <1>2 DEF DeletionTypeOK
  <2>. QED  BY <1>2, <1>4, <1>11, <2>1, Grown
<1>16. /\ thread' \in {"active", "archived", "deleted"}
       /\ runs' \in [Runs -> {"none", "running", "completed", "deleted"}]
  BY <1>2, <1>5 DEF DeleteRoot, DeletionTypeOK, Roots
<1>17. StepOK
  BY <1>3, <1>11, <1>13, <1>14, <1>15, <1>16
     DEF StepOK, RowsGrow, DeletionTypeOK, JobsOK, DeletersOK, IndexersOK
<1>18. \A i \in Items(j) : jobs'[j].copy[i] = CopyOf(j, i)
  BY <1>6, <1>9, <1>12
<1>. QED  BY <1>0, <1>1, <1>2, <1>9, <1>11, <1>12, <1>17, <1>18 DEF j

LEMMA SyncStep ==
  ASSUME DeletionTypeOK, NEW d \in Deleters, NEW i \in Ids, SyncItem(d, i)
  PROVE  /\ StepOK /\ RowsStep
         /\ deleter[d].phase = "syncing"
         /\ \A e \in Deleters : deleter'[e].job = deleter[e].job
                                /\ deleter'[e].phase = deleter[e].phase
<1>. DEFINE state == deleter[d]
<1>1. RowsStep /\ Ids' = Ids /\ index' \subseteq Ids
  BY SyncRows
<1>2. JobsOK' /\ JobsGrow /\ JobIds' = JobIds
  BY <1>1, JobsKept DEF SyncItem
<1>3. /\ state \in DeleterState /\ state.phase = "syncing"
      /\ state.job \in JobIds /\ state.todo \subseteq Items(state.job)
  BY DEF SyncItem, DeletionTypeOK
<1>4. PICK failed \in BOOLEAN : deleter' = [deleter EXCEPT ![d].todo = @ \ {i},
                                                           ![d].failed = failed]
  <2>1. PICK ok \in BOOLEAN, copied \in BOOLEAN :
           deleter' = [deleter EXCEPT ![d].todo = @ \ {i},
                                      ![d].failed = @ \/ ~ok \/ ~copied]
    BY DEF SyncItem
  <2>2. deleter[d].failed \in BOOLEAN
    BY <1>3 DEF DeleterState
  <2>3. (deleter[d].failed \/ ~ok \/ ~copied) \in BOOLEAN
    OBVIOUS
  <2>. QED  BY <2>1, <2>3
<1>. DEFINE todo == state.todo \ {i}
            new == [state EXCEPT !.todo = todo, !.failed = failed]
<1>5. deleter' = [deleter EXCEPT ![d] = new]
  BY <1>3, <1>4 DEF DeletionTypeOK
<1>6. todo \subseteq Items(state.job) /\ todo \in SUBSET Ids
  <2>1. Items(state.job) \subseteq Ids
    BY <1>3, JobFacts
  <2>. QED  BY <1>3, <2>1
<1>. HIDE DEF todo, state
<1>7. /\ new \in DeleterState /\ new.phase = "syncing" /\ new.job = state.job
      /\ new.todo = todo
  BY <1>3, <1>6 DEF DeleterState
<1>8. new \in DeleterState'
  BY <1>1, <1>2, <1>7, Grown
<1>. HIDE DEF new
<1>9. new.todo \subseteq DOMAIN jobs'[new.job].action
  BY <1>6, <1>7 DEF Items, SyncItem
<1>10. DeletersOK'
  BY <1>1, <1>2, <1>3, <1>5, <1>7, <1>8, <1>9, DeleterUpdated
<1>11. IndexersOK'
  BY <1>1, IndexersKept DEF SyncItem
<1>12. RelationRow' = RelationRow
  BY <1>1 DEF RelationRow
<1>13. StepOK
  BY <1>1, <1>2, <1>10, <1>11, <1>12
     DEF StepOK, RowsStep, RowsGrow, DeletionTypeOK, JobsOK, DeletersOK, IndexersOK, SyncItem
<1>14. \A e \in Deleters : deleter'[e].job = deleter[e].job
                           /\ deleter'[e].phase = deleter[e].phase
  BY <1>3, <1>5, <1>7 DEF DeletionTypeOK, state
<1>. QED  BY <1>1, <1>3, <1>13, <1>14 DEF state

LEMMA FinishStep ==
  ASSUME DeletionTypeOK, NEW d \in Deleters, FinishSync(d)
  PROVE  LET j == deleter[d].job
         IN /\ StepOK /\ RowsStep
            /\ deleter[d].phase = "syncing"
            /\ j \in JobIds /\ JobIds' = JobIds
            /\ jobs'[j].status # "authorized" /\ jobs'[j].copy = jobs[j].copy
            /\ jobs'[j].status = Outcome(deleter[d].failed)
            /\ \A k \in JobIds : k # j => jobs'[k] = jobs[k]
            /\ deleter' = [deleter EXCEPT ![d] = Idle]
<1>. DEFINE j == deleter[d].job
            status == Outcome(deleter[d].failed)
            job == [jobs[j] EXCEPT !.status = status]
<1>1. j \in JobIds /\ status \in {"index_pending", "complete"}
  BY DEF FinishSync, DeletionTypeOK, Outcome
<1>2. RowsStep /\ Ids' = Ids
  BY RowsUnchanged DEF FinishSync, records
<1>3. jobs' = [jobs EXCEPT ![j] = job] /\ deleter' = [deleter EXCEPT ![d] = Idle]
  BY DEF FinishSync
<1>4. jobs[j] \in Job /\ DOMAIN jobs[j].copy = Items(j)
  BY <1>1, RowFacts DEF DeletionTypeOK
<1>. HIDE DEF j, status
<1>5. /\ job \in Job /\ job.root = jobs[j].root /\ job.confirmed = jobs[j].confirmed
      /\ job.action = jobs[j].action /\ job.copy = jobs[j].copy /\ job.status = status
  BY <1>1, <1>4 DEF Job
<1>. HIDE DEF job
<1>6. job \in Job'
  BY <1>2, <1>5 DEF Job
<1>7. JobsOK' /\ JobsGrow /\ JobIds' = JobIds
  BY <1>1, <1>2, <1>3, <1>4, <1>5, <1>6, JobUpdated
<1>8. jobs'[j] = job /\ \A k \in JobIds : k # j => jobs'[k] = jobs[k]
  BY <1>1, <1>3 DEF JobIds
<1>9. DeletersOK'
  <2>1. Idle \in DeleterState' /\ Idle.phase = "idle"
    BY <1>2, <1>7, DeleterStates, Grown
  <2>. QED  BY <1>2, <1>3, <1>7, <2>1, DeleterUpdated
<1>10. IndexersOK'
  BY <1>2, IndexersKept DEF FinishSync
<1>11. RelationRow' = RelationRow
  BY <1>2 DEF RelationRow
<1>12. StepOK
  BY <1>2, <1>7, <1>9, <1>10, <1>11
     DEF StepOK, RowsStep, RowsGrow, DeletionTypeOK, JobsOK, DeletersOK, IndexersOK,
         FinishSync, records
<1>. QED  BY <1>1, <1>2, <1>3, <1>5, <1>7, <1>8, <1>12 DEF j, status, FinishSync

LEMMA EveryStep ==
  ASSUME DeletionTypeOK, [Next]_vars
  PROVE  /\ StepOK
         /\ (\E d \in Deleters : ApplySqlite(d)) \/ RowsStep
<1>1. CASE DeletionStep
  <2>1. PICK d \in Deleters :
           \/ \E root \in Roots : Preview(d, root)
           \/ \E retained \in SUBSET Ids : Execute(d, retained)
           \/ ApplySqlite(d) \/ ApplyDone(d)
           \/ \E i \in Ids : SyncItem(d, i)
           \/ FinishSync(d)
           \/ \E j \in JobIds : Resume(d, j)
           \/ StopDeleter(d)
    BY <1>1 DEF DeletionStep, AuthorizeStep, JobStep
  <2>. QED  BY <2>1, PlanningSteps, ExecuteStep, ApplyStep, SyncStep, FinishStep
<1>2. CASE UNCHANGED vars
  <2>1. RowsStep /\ Ids' = Ids
    BY <1>2, RowsUnchanged DEF vars
  <2>. QED  BY <1>2, <2>1, ServiceStep DEF vars, RowsStep, DeletionTypeOK
<1>. QED  BY <1>1, <1>2, ThreadSteps, NoteSteps, IndexSteps DEF Next

(***************************************************************************)
(* Type correctness.                                                       *)
(***************************************************************************)
\* Relations, index entries, jobs, tokens and process states always name rows that
\* exist, for any numbers of runs, rows, jobs and processes.
THEOREM DeletionTypeCorrect == Spec => []DeletionTypeOK
<1>1. Init => DeletionTypeOK
  <2>. SUFFICES ASSUME Init
                PROVE  DeletionTypeOK
    OBVIOUS
  <2>1. rows = <<>> /\ jobs = <<>> /\ Ids = {} /\ JobIds = {}
    BY DEF Init, Ids, JobIds
  <2>2. rows \in Seq(Row) /\ jobs \in Seq(Job)
    BY <2>1, EmptySeq
  <2>3. NoToken \in Token
    BY DEF NoToken, Token
  <2>4. Idle \in DeleterState /\ Idle.phase = "idle"
    BY <2>3 DEF Idle, DeleterState
  <2>5. /\ deleter \in [Deleters -> DeleterState]
        /\ \A d \in Deleters : deleter[d].phase = "idle"
    BY <2>4 DEF Init
  <2>6. /\ indexer \in [Indexers -> IndexerState]
        /\ \A x \in Indexers : indexer[x].phase = "idle"
    BY DEF Init, IndexerState
  <2>7. runs \in [Runs -> {"none", "running", "completed", "deleted"}]
    BY DEF Init
  <2>. QED  BY <2>1, <2>2, <2>5, <2>6, <2>7 DEF Init, DeletionTypeOK
<1>2. DeletionTypeOK /\ [Next]_vars => DeletionTypeOK'
  BY EveryStep DEF StepOK
<1>. QED  BY <1>1, <1>2, PTL DEF Spec

(***************************************************************************)
(* Revoked rows.                                                           *)
(***************************************************************************)
\* What was retracted or deleted stays so under every operation of every service:
\* confirm, promote, mark, retry, summarise, delete and resume.
THEOREM RevocationFinal == Spec => RevokedStaysRevoked
<1>1. ASSUME DeletionTypeOK, [Next]_vars
      PROVE  \A i \in Ids : rows[i].status \in Revoked =>
               rows'[i].status \in {rows[i].status, "deleted"}
  BY <1>1, EveryStep DEF StepOK, RowsGrow
<1>. QED  BY <1>1, DeletionTypeCorrect, PTL DEF Spec, RevokedStaysRevoked

(***************************************************************************)
(* Committed jobs.  Neither property is inductive alone: a process that    *)
(* closes a job must know that it was committed, and a job that is applied *)
(* that its preview showed its items.                                      *)
(***************************************************************************)
RootDeleted(root) == IF root = ThreadRoot THEN thread = "deleted" ELSE runs[root] = "deleted"

SyncingCommitted ==
  \A d \in Deleters : deleter[d].phase = "syncing" => deleter[d].job \in Committed

ItemsConfirmed == \A j \in JobIds : Items(j) \subseteq jobs[j].confirmed

LEMMA RootStaysDeleted ==
  ASSUME DeletionTypeOK, [Next]_vars, NEW root \in Roots, RootDeleted(root)
  PROVE  RootDeleted(root)'
<1>. USE DEF RootDeleted
<1>1. runs \in [Runs -> {"none", "running", "completed", "deleted"}]
  BY DEF DeletionTypeOK
<1>2. CASE TranscriptStep
  BY <1>1, <1>2 DEF TranscriptStep, BeginRun, CompleteRun, AppendMessage, Roots
<1>3. CASE ArchiveThread
  BY <1>3 DEF ArchiveThread
<1>4. CASE UNCHANGED <<thread, runs>>
  BY <1>4
<1>5. ASSUME NEW d \in Deleters, ApplySqlite(d)
      PROVE  RootDeleted(root)'
  <2>1. PICK j \in JobIds : DeleteRoot(jobs[j].root)
    BY <1>5, ApplyStep
  <2>2. jobs[j].root \in Roots
    BY JobFacts
  <2>. QED  BY <1>1, <2>1, <2>2 DEF DeleteRoot, Roots
<1>6. NoteStep \/ ConflictStep \/ BuildSummary \/ IndexStep => UNCHANGED <<thread, runs>>
  BY DEF NoteStep, SubmitNote, ConfirmNote, RetractNote, SetNoteStatus, ConflictStep,
         SubmitConflict, LinkConflict, LoseConflict, AddCandidate, BuildSummary, IndexStep,
         PromoteNote, RetryIndex, PutIndex, MarkIndex, StopIndexer, records
<1>7. DeletionStep => UNCHANGED <<thread, runs>> \/ \E d \in Deleters : ApplySqlite(d)
  BY DEF DeletionStep, AuthorizeStep, JobStep, Preview, Execute, ApplyDone, SyncItem, FinishSync, Resume, StopDeleter,
         records
<1>. QED  BY <1>2, <1>3, <1>4, <1>5, <1>6, <1>7 DEF Next, vars

JobRevoked(j) ==
  /\ RootDeleted(jobs[j].root)
  /\ \A i \in Items(j) : rows[i].status \in Revoked

LEMMA JobStaysRevoked ==
  ASSUME DeletionTypeOK, [Next]_vars, CommittedJobsRevoke, NEW j \in Committed
  PROVE  JobRevoked(j)'
<1>1. j \in JobIds /\ jobs[j].root \in Roots /\ Items(j) \subseteq Ids
  BY JobFacts DEF Committed
<1>2. jobs'[j].root = jobs[j].root /\ Items(j)' = Items(j)
  BY <1>1, EveryStep DEF StepOK, JobsGrow, Items
<1>3. RootDeleted(jobs[j].root) /\ \A i \in Items(j) : rows[i].status \in Revoked
  BY DEF CommittedJobsRevoke, RootDeleted
<1>4. \A i \in Ids : rows[i].status \in Revoked => rows'[i].status \in Revoked
  BY EveryStep DEF StepOK, RowsGrow, Revoked
<1>5. \A i \in Items(j)' : rows'[i].status \in Revoked
  BY <1>1, <1>2, <1>3, <1>4
<1>6. RootDeleted(jobs[j].root)'
  <2>1. PICK root \in Roots : root = jobs[j].root
    BY <1>1
  <2>2. RootDeleted(root)
    BY <1>3, <2>1
  <2>3. RootDeleted(root)'
    BY <2>2, RootStaysDeleted
  <2>4. root = jobs'[j].root
    BY <1>2, <2>1
  <2>. QED  BY <2>3, <2>4 DEF RootDeleted
<1>. QED  BY <1>5, <1>6 DEF JobRevoked

\* The transaction of a deletion revokes every item of its job and its root.
LEMMA ApplyRevokes ==
  ASSUME DeletionTypeOK, NEW d \in Deleters, ApplySqlite(d), NEW j, j = deleter[d].job
  PROVE  /\ JobRevoked(j)'
         /\ Committed' = Committed \cup {j}
         /\ \A i \in Ids' : rows'[i].status = "deleted" =>
              \/ i \in Ids /\ rows[i].status = "deleted"
              \/ i \in Items(j) /\ jobs[j].action[i] = "delete"
<1>1. /\ j \in JobIds /\ DeleteRoot(jobs[j].root)
      /\ \E chroma \in BOOLEAN : RevokeItems(j, chroma)
      /\ JobsGrow /\ JobIds' = JobIds
      /\ jobs'[j].status = "index_pending"
      /\ \A k \in JobIds : k # j => jobs'[k] = jobs[k]
  BY ApplyStep DEF StepOK
<1>2. jobs'[j].root = jobs[j].root /\ Items(j)' = Items(j)
  BY <1>1 DEF JobsGrow, Items
<1>3. \A i \in Items(j)' : rows'[i].status \in Revoked
  BY <1>1, <1>2, RevokedRows
<1>4. RootDeleted(jobs[j].root)'
  <2>1. jobs[j].root \in Roots /\ runs \in [Runs -> {"none", "running", "completed", "deleted"}]
    BY <1>1, JobFacts DEF DeletionTypeOK
  <2>. QED  BY <1>1, <1>2, <2>1 DEF DeleteRoot, RootDeleted, Roots
<1>5. Committed' = Committed \cup {j}
  BY <1>1 DEF Committed
<1>. QED  BY <1>1, <1>3, <1>4, <1>5, RevokedRows DEF JobRevoked

\* A deletion is at work on a committed job, and no other step commits or
\* uncommits a job.
LEMMA CommittedStep ==
  ASSUME DeletionTypeOK, SyncingCommitted, [Next]_vars
  PROVE  /\ SyncingCommitted'
         /\ Committed \subseteq Committed'
         /\ (\E d \in Deleters : ApplySqlite(d)) \/ Committed' = Committed
<1>. DEFINE Goal == /\ SyncingCommitted'
                    /\ Committed \subseteq Committed'
                    /\ (\E d \in Deleters : ApplySqlite(d)) \/ Committed' = Committed
<1>1. deleter \in [Deleters -> DeleterState]
  BY DEF DeletionTypeOK
<1>2. CASE UNCHANGED <<jobs, deleter>>
  BY <1>2 DEF SyncingCommitted, Committed, JobIds
<1>3. TranscriptStep \/ ArchiveThread \/ NoteStep \/ ConflictStep \/ BuildSummary \/ IndexStep
        \/ UNCHANGED vars => UNCHANGED <<jobs, deleter>>
  BY DEF TranscriptStep, BeginRun, CompleteRun, AppendMessage, ArchiveThread, NoteStep,
         SubmitNote, ConfirmNote, RetractNote, SetNoteStatus, ConflictStep,
         SubmitConflict, LinkConflict, LoseConflict, AddCandidate, BuildSummary, IndexStep,
         PromoteNote, RetryIndex, PutIndex, MarkIndex, StopIndexer, records, vars
<1>4. ASSUME NEW d \in Deleters, jobs' = jobs, NEW new,
             deleter' = [deleter EXCEPT ![d] = new],
             new.phase = "syncing" => new.job \in Committed
      PROVE  Goal
  <2>1. Committed' = Committed
    BY <1>4 DEF Committed, JobIds
  <2>. QED  BY <1>1, <1>4, <2>1 DEF SyncingCommitted
<1>5. ASSUME NEW d \in Deleters, NEW root \in Roots, Preview(d, root)
      PROVE  Goal
  <2>. DEFINE new == [Idle EXCEPT !.phase = "previewed", !.token = Snapshot(root)]
  <2>1. new.phase = "previewed"
    BY DeleterStates
  <2>2. deleter' = [deleter EXCEPT ![d] = new] /\ jobs' = jobs
    BY <1>5 DEF Preview
  <2>. HIDE DEF new, Goal
  <2>. QED  BY <1>4, <2>1, <2>2
<1>6. ASSUME NEW d \in Deleters, NEW retained \in SUBSET Ids, Execute(d, retained)
      PROVE  Goal
  <2>. DEFINE new == [Idle EXCEPT !.phase = "applying", !.job = Len(jobs) + 1]
  <2>1. /\ JobIds' = JobIds \cup {Len(jobs) + 1}
        /\ jobs'[Len(jobs) + 1].status = "authorized"
        /\ \A j \in JobIds : jobs'[j] = jobs[j]
        /\ deleter' = [deleter EXCEPT ![d] = new]
    BY <1>6, ExecuteStep
  <2>2. new.phase = "applying"
    BY DeleterStates DEF DeleterState
  <2>3. Len(jobs) + 1 \notin JobIds
    BY RowFacts
  <2>4. Committed' = Committed
    BY <2>1, <2>3 DEF Committed
  <2>. HIDE DEF new
  <2>. QED  BY <1>1, <2>1, <2>2, <2>4 DEF SyncingCommitted
<1>7. ASSUME NEW d \in Deleters, ApplySqlite(d)
      PROVE  Goal
  <2>1. PICK j \in JobIds : j = deleter[d].job
    BY <1>7, ApplyStep
  <2>2. Committed' = Committed \cup {j}
    BY <1>7, <2>1, ApplyRevokes
  <2>3. PICK chroma \in BOOLEAN : deleter' = [deleter EXCEPT ![d] = Syncing(j, chroma)]
    BY <1>7, <2>1, ApplyStep
  <2>4. Syncing(j, chroma).job = j
    BY DeleterStates
  <2>. QED  BY <1>1, <1>7, <2>2, <2>3, <2>4 DEF SyncingCommitted
<1>8. ASSUME NEW d \in Deleters, NEW j \in Committed, jobs' = jobs,
             NEW chroma \in BOOLEAN, deleter' = [deleter EXCEPT ![d] = Syncing(j, chroma)]
      PROVE  Goal
  <2>1. Syncing(j, chroma).job = j
    BY DeleterStates DEF Committed
  <2>. HIDE DEF Goal
  <2>. QED  BY <1>4, <1>8, <2>1
<1>9. ASSUME NEW d \in Deleters, ApplyDone(d)
      PROVE  Goal
  <2>1. deleter[d].job \in Committed
    BY <1>9 DEF ApplyDone, DeletionTypeOK, Committed
  <2>. HIDE DEF Goal
  <2>. QED  BY <1>8, <1>9, <2>1 DEF ApplyDone
<1>10. ASSUME NEW d \in Deleters, NEW j \in JobIds, Resume(d, j)
       PROVE  Goal
  <2>. DEFINE new == [Idle EXCEPT !.phase = "applying", !.job = j]
  <2>1. new.phase = "applying"
    BY DeleterStates
  <2>2. jobs' = jobs
    BY <1>10 DEF Resume
  <2>3. \/ deleter' = [deleter EXCEPT ![d] = new]
        \/ /\ j \in Committed
           /\ \E chroma \in BOOLEAN : deleter' = [deleter EXCEPT ![d] = Syncing(j, chroma)]
    BY <1>10 DEF Resume, Committed
  <2>. HIDE DEF new, Goal
  <2>. QED  BY <1>4, <1>8, <2>1, <2>2, <2>3
<1>11. ASSUME NEW d \in Deleters, NEW i \in Ids, SyncItem(d, i)
       PROVE  Goal
  <2>1. /\ jobs' = jobs
        /\ \A e \in Deleters : deleter'[e].job = deleter[e].job
                               /\ deleter'[e].phase = deleter[e].phase
    BY <1>11, SyncStep DEF SyncItem
  <2>2. Committed' = Committed
    BY <2>1 DEF Committed, JobIds
  <2>. QED  BY <2>1, <2>2 DEF SyncingCommitted
<1>12. ASSUME NEW d \in Deleters, FinishSync(d)
       PROVE  Goal
  <2>1. /\ deleter[d].phase = "syncing" /\ deleter[d].job \in JobIds /\ JobIds' = JobIds
        /\ jobs'[deleter[d].job].status # "authorized"
        /\ \A k \in JobIds : k # deleter[d].job => jobs'[k] = jobs[k]
        /\ deleter' = [deleter EXCEPT ![d] = Idle]
    BY <1>12, FinishStep
  <2>2. deleter[d].job \in Committed
    BY <2>1 DEF SyncingCommitted
  <2>3. Committed' = Committed
    BY <2>1, <2>2 DEF Committed
  <2>4. Idle.phase = "idle"
    BY DeleterStates
  <2>. QED  BY <1>1, <2>1, <2>3, <2>4 DEF SyncingCommitted
<1>13. ASSUME NEW d \in Deleters, StopDeleter(d)
       PROVE  Goal
  <2>1. Idle.phase = "idle"
    BY DeleterStates
  <2>. HIDE DEF Goal
  <2>. QED  BY <1>4, <1>13, <2>1 DEF StopDeleter
<1>14. CASE DeletionStep
  <2>1. PICK d \in Deleters :
          \/ \E root \in Roots : Preview(d, root)
          \/ \E retained \in SUBSET Ids : Execute(d, retained)
          \/ ApplySqlite(d) \/ ApplyDone(d)
          \/ \E i \in Ids : SyncItem(d, i)
          \/ FinishSync(d)
          \/ \E j \in JobIds : Resume(d, j)
          \/ StopDeleter(d)
    BY <1>14 DEF DeletionStep, AuthorizeStep, JobStep
  <2>2. CASE \E root \in Roots : Preview(d, root)
    BY <1>5, <2>2
  <2>3. CASE \E retained \in SUBSET Ids : Execute(d, retained)
    BY <1>6, <2>3
  <2>4. CASE ApplySqlite(d)
    BY <1>7, <2>4
  <2>5. CASE ApplyDone(d)
    BY <1>9, <2>5
  <2>6. CASE \E i \in Ids : SyncItem(d, i)
    BY <1>11, <2>6
  <2>7. CASE FinishSync(d)
    BY <1>12, <2>7
  <2>8. CASE \E j \in JobIds : Resume(d, j)
    BY <1>10, <2>8
  <2>9. CASE StopDeleter(d)
    BY <1>13, <2>9
  <2>. QED  BY <2>1, <2>2, <2>3, <2>4, <2>5, <2>6, <2>7, <2>8, <2>9
<1>. QED  BY <1>2, <1>3, <1>14 DEF Next

\* A process at work on the index has a committed job.
LEMMA WorkCommitted == Spec => []SyncingCommitted
<1>1. Init => SyncingCommitted
  BY DEF Init, Idle, SyncingCommitted
<1>2. DeletionTypeOK /\ SyncingCommitted /\ [Next]_vars => SyncingCommitted'
  BY CommittedStep
<1>. QED  BY <1>1, <1>2, DeletionTypeCorrect, PTL DEF Spec

\* The steps that write the jobs.
LEMMA JobsWritten ==
  ASSUME [Next]_vars
  PROVE  \/ jobs' = jobs
         \/ \E d \in Deleters : \/ ApplySqlite(d) \/ FinishSync(d)
                                \/ \E retained \in SUBSET Ids : Execute(d, retained)
<1>1. CASE DeletionStep
  BY <1>1 DEF DeletionStep, AuthorizeStep, JobStep, Preview, ApplyDone, SyncItem, Resume,
              StopDeleter
<1>2. ~DeletionStep => jobs' = jobs
  BY DEF Next, TranscriptStep, BeginRun, CompleteRun, AppendMessage, ArchiveThread,
         NoteStep, SubmitNote, ConfirmNote, RetractNote, SetNoteStatus, ConflictStep,
         SubmitConflict, LinkConflict, LoseConflict, AddCandidate, BuildSummary,
         IndexStep, PromoteNote, RetryIndex, PutIndex, MarkIndex, StopIndexer, vars
<1>. QED  BY <1>1, <1>2

\* Once the SQLite transaction of a deletion has committed, its root is deleted and
\* none of its items is accessible, for good: for any number of deletions and
\* processes, stopped and resumed anywhere.
THEOREM RevocationCorrect == Spec => []CommittedJobsRevoke
<1>. DEFINE IInv == CommittedJobsRevoke /\ SyncingCommitted
<1>1. Init => IInv
  <2>. SUFFICES ASSUME Init
                PROVE  IInv
    OBVIOUS
  <2>1. Committed = {}
    BY DEF Init, Committed, JobIds
  <2>2. \A d \in Deleters : deleter[d].phase = "idle"
    BY DEF Init, Idle
  <2>. QED  BY <2>1, <2>2 DEF CommittedJobsRevoke, SyncingCommitted
<1>2. DeletionTypeOK /\ IInv /\ [Next]_vars => IInv'
  <2>. SUFFICES ASSUME DeletionTypeOK, CommittedJobsRevoke, SyncingCommitted, [Next]_vars
                PROVE  CommittedJobsRevoke' /\ SyncingCommitted'
    OBVIOUS
  <2>1. \A j \in Committed : JobRevoked(j)'
    BY JobStaysRevoked
  <2>2. \A j \in Committed' : JobRevoked(j)'
    <3>1. CASE Committed' = Committed
      BY <2>1, <3>1
    <3>2. ASSUME NEW d \in Deleters, ApplySqlite(d)
          PROVE  \A j \in Committed' : JobRevoked(j)'
      <4>1. PICK j \in JobIds : j = deleter[d].job
        BY <3>2, ApplyStep
      <4>. QED  BY <2>1, <3>2, <4>1, ApplyRevokes
    <3>. QED  BY <3>1, <3>2, CommittedStep
  <2>3. CommittedJobsRevoke'
    BY <2>2 DEF CommittedJobsRevoke, JobRevoked, RootDeleted
  <2>. QED  BY <2>3, CommittedStep
<1>3. IInv => CommittedJobsRevoke
  OBVIOUS
<1>. QED  BY <1>1, <1>2, <1>3, DeletionTypeCorrect, PTL DEF Spec

\* No row is destroyed that the preview of its deletion did not show, for any
\* number of deletions and processes.
THEOREM DestructionConfirmed == Spec => []OnlyConfirmedRowsAreDestroyed
<1>. DEFINE IInv == OnlyConfirmedRowsAreDestroyed /\ ItemsConfirmed /\ SyncingCommitted
<1>1. Init => IInv
  <2>. SUFFICES ASSUME Init
                PROVE  IInv
    OBVIOUS
  <2>1. Ids = {} /\ JobIds = {}
    BY DEF Init, Ids, JobIds
  <2>2. \A d \in Deleters : deleter[d].phase = "idle"
    BY DEF Init, Idle
  <2>. QED  BY <2>1, <2>2
            DEF OnlyConfirmedRowsAreDestroyed, ItemsConfirmed, SyncingCommitted
<1>2. DeletionTypeOK /\ IInv /\ [Next]_vars => IInv'
  <2>. SUFFICES ASSUME DeletionTypeOK, OnlyConfirmedRowsAreDestroyed, ItemsConfirmed,
                       SyncingCommitted, [Next]_vars
                PROVE  IInv'
    OBVIOUS
  <2>1. Committed \subseteq Committed' /\ SyncingCommitted'
    BY CommittedStep
  <2>2. JobsGrow
    BY EveryStep DEF StepOK
  <2>3. ASSUME NEW i \in Ids', rows'[i].status = "deleted", i \in Ids, rows[i].status = "deleted"
        PROVE  \E j \in Committed' : i \in jobs'[j].confirmed /\ jobs'[j].action[i] = "delete"
    <3>1. PICK j \in Committed : i \in jobs[j].confirmed /\ jobs[j].action[i] = "delete"
      BY <2>3 DEF OnlyConfirmedRowsAreDestroyed
    <3>. QED  BY <2>1, <2>2, <3>1 DEF JobsGrow, Committed
  <2>4. OnlyConfirmedRowsAreDestroyed'
    <3>1. CASE RowsStep
      BY <2>3, <3>1 DEF RowsStep, OnlyConfirmedRowsAreDestroyed
    <3>2. ASSUME NEW d \in Deleters, ApplySqlite(d)
          PROVE  OnlyConfirmedRowsAreDestroyed'
      <4>1. PICK j \in JobIds : j = deleter[d].job
        BY <3>2, ApplyStep
      <4>2. /\ j \in Committed'
            /\ \A i \in Ids' : rows'[i].status = "deleted" =>
                 \/ i \in Ids /\ rows[i].status = "deleted"
                 \/ i \in Items(j) /\ jobs[j].action[i] = "delete"
        BY <3>2, <4>1, ApplyRevokes
      <4>3. \A i \in Items(j) : jobs[j].action[i] = "delete" =>
              i \in jobs'[j].confirmed /\ jobs'[j].action[i] = "delete"
        BY <2>2, <4>1 DEF ItemsConfirmed, JobsGrow
      <4>. QED  BY <2>3, <4>2, <4>3 DEF OnlyConfirmedRowsAreDestroyed
    <3>. QED  BY <3>1, <3>2, EveryStep
  <2>5. ItemsConfirmed'
    <3>1. CASE JobIds' = JobIds
      BY <2>2, <3>1 DEF ItemsConfirmed, JobsGrow, Items
    <3>2. ASSUME NEW d \in Deleters, NEW retained \in SUBSET Ids, Execute(d, retained)
          PROVE  ItemsConfirmed'
      BY <2>2, <3>2, ExecuteStep DEF ItemsConfirmed, JobsGrow, Items
    <3>3. CASE jobs' = jobs
      BY <3>1, <3>3 DEF JobIds
    <3>4. \/ JobIds' = JobIds \/ jobs' = jobs
          \/ \E d \in Deleters, retained \in SUBSET Ids : Execute(d, retained)
      BY JobsWritten, ApplyStep, FinishStep
    <3>. QED  BY <3>1, <3>2, <3>3, <3>4
  <2>. QED  BY <2>1, <2>4, <2>5
<1>3. IInv => OnlyConfirmedRowsAreDestroyed
  OBVIOUS
<1>. QED  BY <1>1, <1>2, <1>3, DeletionTypeCorrect, PTL DEF Spec

(***************************************************************************)
(* Independent copies.  That no row is copied twice rests on the items of  *)
(* a committed job being revoked: the job that comes second finds nothing  *)
(* to copy.                                                                *)
(***************************************************************************)
Copied(j, i) == j \in JobIds /\ i \in Items(j) /\ jobs[j].copy[i] # NoCopy

CopiesCommitted == \A j \in JobIds : \A i \in Items(j) :
  Copied(j, i) => j \in Committed /\ rows[jobs[j].copy[i]].kind = "copy" /\ jobs[j].copy[i] # i

CopiedOnce == \A j, k \in JobIds : \A i \in Items(j) \cap Items(k) :
  Copied(j, i) /\ Copied(k, i) => j = k

CopiesDistinct == \A j, k \in JobIds : \A i \in Items(j), m \in Items(k) :
  Copied(j, i) /\ Copied(k, m) /\ jobs[j].copy[i] = jobs[k].copy[m] => i = m

CopiesHaveOrigin == \A c \in Ids : rows[c].kind = "copy" =>
  \E j \in JobIds : \E i \in Items(j) : jobs[j].copy[i] = c

CopyInv == CopiesCommitted /\ CopiedOnce /\ CopiesDistinct /\ CopiesHaveOrigin

\* The elements of a finite set of numbers are numbered 1, 2, ... in their order.
Rank(R, i) == Cardinality({k \in R : k <= i})

LEMMA Ranks ==
  ASSUME NEW R \in SUBSET Nat, IsFiniteSet(R)
  PROVE  /\ Cardinality(R) \in Nat
         /\ \A i \in R : Rank(R, i) \in 1..Cardinality(R)
         /\ \A i, m \in R : Rank(R, i) = Rank(R, m) => i = m
         /\ \A c \in 1..Cardinality(R) : \E i \in R : Rank(R, i) = c
<1>. DEFINE upto(i) == {k \in R : k <= i}
            n == Cardinality(R)
<1>1. n \in Nat
  BY FS_CardinalityType
<1>2. ASSUME NEW i \in R
      PROVE  /\ IsFiniteSet(upto(i)) /\ Cardinality(upto(i)) \in Nat
             /\ Cardinality(upto(i)) <= n
             /\ Cardinality(upto(i)) # 0
  <2>1. upto(i) \in SUBSET R /\ i \in upto(i)
    OBVIOUS
  <2>2. IsFiniteSet(upto(i)) /\ Cardinality(upto(i)) <= n
    BY <2>1, FS_Subset
  <2>3. Cardinality(upto(i)) \in Nat
    BY <2>2, FS_CardinalityType
  <2>4. Cardinality(upto(i)) # 0
    BY <2>1, <2>2, FS_EmptySet
  <2>. QED  BY <2>2, <2>3, <2>4
<1>3. ASSUME NEW i \in R, NEW m \in R, i < m
      PROVE  Cardinality(upto(i)) < Cardinality(upto(m))
  <2>1. upto(i) \in SUBSET upto(m) /\ m \in upto(m) /\ m \notin upto(i)
    <3>1. i \in Nat /\ m \in Nat
      OBVIOUS
    <3>2. \A k \in Nat : k <= i => k <= m
      BY <1>3, <3>1
    <3>3. m <= m /\ ~(m <= i)
      BY <1>3, <3>1
    <3>. QED  BY <3>2, <3>3
  <2>2. Cardinality(upto(i)) # Cardinality(upto(m))
    BY <1>2, <2>1, FS_Subset
  <2>3. Cardinality(upto(i)) <= Cardinality(upto(m))
    BY <1>2, <2>1, FS_Subset
  <2>. QED  BY <1>2, <2>2, <2>3
<1>4. \A i \in R : Rank(R, i) = Cardinality(upto(i))
  BY DEF Rank
<1>. HIDE DEF upto
<1>5. \A i \in R : Rank(R, i) \in 1..n
  BY <1>1, <1>2, <1>4
<1>6. \A i, m \in R : Rank(R, i) = Rank(R, m) => i = m
  <2>. SUFFICES ASSUME NEW i \in R, NEW m \in R, i # m
                PROVE  Rank(R, i) # Rank(R, m)
    OBVIOUS
  <2>1. i < m \/ m < i
    OBVIOUS
  <2>. QED  BY <1>2, <1>3, <1>4, <2>1
<1>7. \A c \in 1..n : \E i \in R : Rank(R, i) = c
  <2>. DEFINE f == [i \in R |-> Rank(R, i)]
              T == {f[i] : i \in R}
  <2>1. f \in Injection(R, T)
    <3>1. f \in [R -> T]
      OBVIOUS
    <3>2. \A i, m \in R : f[i] = f[m] => i = m
      BY <1>6
    <3>. QED  BY <3>1, <3>2 DEF Injection, IsInjective
  <2>2. f \in Surjection(R, T)
    BY DEF Surjection
  <2>3. ExistsBijection(R, T)
    BY <2>1, <2>2 DEF ExistsBijection, Bijection
  <2>4. IsFiniteSet(T) /\ Cardinality(T) = n
    BY <2>3, FS_Bijection
  <2>5. T \in SUBSET (1..n)
    BY <1>5
  <2>6. IsFiniteSet(1..n) /\ Cardinality(1..n) = n
    BY <1>1, FS_Interval
  <2>7. T = 1..n
    <3>. HIDE DEF T
    <3>. QED  BY <2>4, <2>5, <2>6, FS_Subset
  <2>. QED  BY <2>7
<1>. QED  BY <1>1, <1>5, <1>6, <1>7

\* What is copied is an item of the job that no committed job has.
LEMMA RetainedFacts ==
  ASSUME DeletionTypeOK, NEW j \in JobIds
  PROVE  /\ Retained(j) \in SUBSET Nat /\ IsFiniteSet(Retained(j))
         /\ Retained(j) \subseteq Items(j) /\ Items(j) \subseteq Ids
         /\ \A i \in Retained(j) : rows[i].status \notin Revoked
<1>1. Ids = 1..Len(rows) /\ Len(rows) \in Nat /\ Items(j) \subseteq Ids
  BY RowFacts, JobFacts
<1>2. Retained(j) \subseteq Items(j) /\ \A i \in Retained(j) : rows[i].status \notin Revoked
  BY DEF Retained, Revocable
<1>3. IsFiniteSet(1..Len(rows))
  BY <1>1, FS_Interval
<1>. QED  BY <1>1, <1>2, <1>3, FS_Subset

\* A step that leaves the copies of the jobs alone.
LEMMA CopiesKept ==
  ASSUME DeletionTypeOK, CopyInv, RowsStep, JobsGrow, Committed \subseteq Committed',
         \A j \in JobIds : jobs'[j].copy = jobs[j].copy,
         \A j \in JobIds' : j \notin JobIds => \A i \in Items(j)' : jobs'[j].copy[i] = NoCopy
  PROVE  CopyInv'
<1>1. JobIds \subseteq JobIds' /\ \A j \in JobIds : Items(j)' = Items(j)
  BY DEF JobsGrow, Items
<1>2. ASSUME NEW j \in JobIds', NEW i \in Items(j)', Copied(j, i)'
      PROVE  /\ j \in JobIds /\ i \in Items(j) /\ Copied(j, i)
             /\ jobs'[j].copy[i] = jobs[j].copy[i]
  BY <1>1, <1>2 DEF Copied
<1>3. Ids \subseteq Ids' /\ \A i \in Ids : rows'[i].kind = rows[i].kind
  BY DEF RowsStep, RowsGrow
<1>4. \A j \in JobIds : \A i \in Items(j) : jobs[j].copy[i] \in Ids \cup {NoCopy}
  BY JobFacts
<1>5. CopiesCommitted'
  BY <1>2, <1>3, <1>4 DEF CopyInv, CopiesCommitted, Copied
<1>6. CopiedOnce'
  BY <1>2 DEF CopyInv, CopiedOnce
<1>7. CopiesDistinct'
  BY <1>2 DEF CopyInv, CopiesDistinct
<1>8. CopiesHaveOrigin'
  <2>. SUFFICES ASSUME NEW c \in Ids', rows'[c].kind = "copy"
                PROVE  \E j \in JobIds' : \E i \in Items(j)' : jobs'[j].copy[i] = c
    BY DEF CopiesHaveOrigin
  <2>1. c \in Ids /\ rows[c].kind = "copy"
    BY <1>3 DEF RowsStep
  <2>2. PICK j \in JobIds : \E i \in Items(j) : jobs[j].copy[i] = c
    BY <2>1 DEF CopyInv, CopiesHaveOrigin
  <2>. QED  BY <1>1, <2>2
<1>. QED  BY <1>5, <1>6, <1>7, <1>8 DEF CopyInv

\* The transaction of a deletion, which appends the copies.
LEMMA ApplyCopies ==
  ASSUME DeletionTypeOK, CommittedJobsRevoke, CopyInv, NEW d \in Deleters, ApplySqlite(d)
  PROVE  CopyInv'
<1>1. PICK j \in JobIds : j = deleter[d].job
  BY ApplyStep
<1>2. /\ \E chroma \in BOOLEAN : RevokeItems(j, chroma)
      /\ StepOK /\ JobIds' = JobIds
      /\ jobs[j].status = "authorized"
      /\ \A i \in Items(j) : jobs'[j].copy[i] = CopyOf(j, i)
      /\ \A k \in JobIds : k # j => jobs'[k] = jobs[k]
  BY <1>1, ApplyStep
<1>3. Committed' = Committed \cup {j} /\ j \notin Committed
  BY <1>1, <1>2, ApplyRevokes DEF Committed
<1>4. \A k \in JobIds : Items(k)' = Items(k)
  BY <1>2 DEF StepOK, JobsGrow, Items
<1>. DEFINE R == Retained(j)
            N == Len(rows)
<1>5. N \in Nat /\ Ids = 1..N
  BY RowFacts
<1>6. /\ Ids' = 1..(N + Cardinality(R))
      /\ \A i \in Ids' : i \notin Ids => rows'[i].kind = "copy"
      /\ \A i \in Ids : rows'[i].kind = rows[i].kind
  BY <1>2, RevokedRows DEF RowsGrow
<1>7. /\ R \in SUBSET Nat /\ IsFiniteSet(R) /\ R \subseteq Items(j) /\ Items(j) \subseteq Ids
      /\ \A i \in R : rows[i].status \notin Revoked
  BY RetainedFacts
<1>8. \A i \in Items(j) : CopyOf(j, i) = IF i \in R THEN N + Rank(R, i) ELSE NoCopy
  BY DEF CopyOf, Rank
<1>. HIDE DEF R, N
<1>9. /\ Cardinality(R) \in Nat
      /\ \A i \in R : Rank(R, i) \in 1..Cardinality(R)
      /\ \A i, m \in R : Rank(R, i) = Rank(R, m) => i = m
      /\ \A c \in 1..Cardinality(R) : \E i \in R : Rank(R, i) = c
  BY <1>7, Ranks
\* Every copy is a new one of this job, or an old one of another.
<1>10. ASSUME NEW k \in JobIds, NEW i \in Items(k), Copied(k, i)'
       PROVE  \/ k = j /\ i \in R /\ jobs'[k].copy[i] = N + Rank(R, i)
              \/ k # j /\ Copied(k, i) /\ jobs'[k].copy[i] = jobs[k].copy[i]
  BY <1>2, <1>8, <1>10 DEF Copied
<1>11. \A k \in JobIds : \A i \in Items(k) : Copied(k, i) =>
         /\ k \in Committed /\ k # j /\ jobs[k].copy[i] \in Ids
         /\ rows[jobs[k].copy[i]].kind = "copy" /\ jobs[k].copy[i] # i
         /\ rows[i].status \in Revoked
  BY <1>3, JobFacts DEF CopyInv, CopiesCommitted, Copied, CommittedJobsRevoke
<1>12. \A i \in R : /\ N + Rank(R, i) \in Ids' /\ N + Rank(R, i) \notin Ids
                    /\ N + Rank(R, i) # i
  BY <1>5, <1>6, <1>7, <1>9
<1>14. CopiesCommitted'
  <2>. SUFFICES ASSUME NEW k \in JobIds, NEW i \in Items(k), Copied(k, i)'
                PROVE  /\ k \in Committed' /\ rows'[jobs'[k].copy[i]].kind = "copy"
                       /\ jobs'[k].copy[i] # i
    BY <1>2, <1>4 DEF CopiesCommitted
  <2>. QED  BY <1>3, <1>6, <1>10, <1>11, <1>12
<1>15. CopiedOnce'
  <2>. SUFFICES ASSUME NEW k \in JobIds, NEW l \in JobIds, NEW i \in Items(k) \cap Items(l),
                       Copied(k, i)', Copied(l, i)'
                PROVE  k = l
    BY <1>2, <1>4 DEF CopiedOnce
  <2>. QED  BY <1>7, <1>10, <1>11 DEF CopyInv, CopiedOnce
<1>16. CopiesDistinct'
  <2>. SUFFICES ASSUME NEW k \in JobIds, NEW l \in JobIds,
                       NEW i \in Items(k), NEW m \in Items(l),
                       Copied(k, i)', Copied(l, m)', jobs'[k].copy[i] = jobs'[l].copy[m]
                PROVE  i = m
    BY <1>2, <1>4 DEF CopiesDistinct
  <2>1. CASE k = j /\ l = j
    <3>1. i \in R /\ m \in R /\ N + Rank(R, i) = N + Rank(R, m)
      BY <1>10, <2>1
    <3>. QED  BY <1>5, <1>9, <3>1
  <2>2. CASE k # j \/ l # j
    BY <1>10, <1>11, <1>12, <2>2 DEF CopyInv, CopiesDistinct
  <2>. QED  BY <2>1, <2>2
<1>17. CopiesHaveOrigin'
  <2>. SUFFICES ASSUME NEW c \in Ids', rows'[c].kind = "copy"
                PROVE  \E k \in JobIds : \E i \in Items(k) : jobs'[k].copy[i] = c
    BY <1>2, <1>4 DEF CopiesHaveOrigin
  <2>1. CASE c \in Ids
    <3>1. PICK k \in JobIds : \E i \in Items(k) : jobs[k].copy[i] = c
      BY <1>6, <2>1 DEF CopyInv, CopiesHaveOrigin
    <3>2. PICK i \in Items(k) : jobs[k].copy[i] = c
      BY <3>1
    <3>3. Copied(k, i)
      BY <1>5, <2>1, <3>2 DEF Copied, NoCopy
    <3>4. k # j
      BY <1>11, <3>3
    <3>. QED  BY <1>2, <3>2, <3>4
  <2>2. CASE c \notin Ids
    <3>1. PICK rank \in 1..Cardinality(R) : c = N + rank
      <4>1. c \in (N + 1)..(N + Cardinality(R))
        BY <1>5, <1>6, <1>9, <2>2
      <4>2. c - N \in 1..Cardinality(R) /\ c = N + (c - N)
        BY <1>5, <1>9, <4>1
      <4>. QED  BY <4>2
    <3>2. PICK i \in R : Rank(R, i) = rank
      BY <1>9
    <3>. QED  BY <1>2, <1>7, <1>8, <3>1, <3>2
  <2>. QED  BY <2>1, <2>2
<1>. QED  BY <1>14, <1>15, <1>16, <1>17 DEF CopyInv

\* The invariant of the copies.
LEMMA CopiesHold == Spec => []CopyInv
<1>1. Init => CopyInv
  <2>. SUFFICES ASSUME Init
                PROVE  CopyInv
    OBVIOUS
  <2>1. Ids = {} /\ JobIds = {}
    BY DEF Init, Ids, JobIds
  <2>. QED  BY <2>1
            DEF CopyInv, CopiesCommitted, CopiedOnce, CopiesDistinct, CopiesHaveOrigin
<1>2. ASSUME DeletionTypeOK, SyncingCommitted, CommittedJobsRevoke, CopyInv, [Next]_vars
      PROVE  CopyInv'
  <2>1. JobsGrow /\ Committed \subseteq Committed'
    BY <1>2, EveryStep, CommittedStep DEF StepOK
  <2>2. ASSUME NEW d \in Deleters, ApplySqlite(d)
        PROVE  CopyInv'
    BY <1>2, <2>2, ApplyCopies
  <2>3. CASE RowsStep /\ jobs' = jobs
    <3>1. JobIds' = JobIds
      BY <2>3 DEF JobIds
    <3>. QED  BY <1>2, <2>1, <2>3, <3>1, CopiesKept
  <2>4. ASSUME NEW d \in Deleters, NEW retained \in SUBSET Ids, Execute(d, retained)
        PROVE  CopyInv'
    <3>1. /\ RowsStep /\ JobIds' = JobIds \cup {Len(jobs) + 1}
          /\ \A i \in DOMAIN jobs'[Len(jobs) + 1].action : jobs'[Len(jobs) + 1].copy[i] = NoCopy
          /\ \A j \in JobIds : jobs'[j] = jobs[j]
      BY <1>2, <2>4, ExecuteStep
    <3>2. \A j \in JobIds' : j \notin JobIds => \A i \in Items(j)' : jobs'[j].copy[i] = NoCopy
      BY <3>1 DEF Items
    <3>. QED  BY <1>2, <2>1, <3>1, <3>2, CopiesKept
  <2>5. ASSUME NEW d \in Deleters, FinishSync(d)
        PROVE  CopyInv'
    <3>1. /\ RowsStep /\ JobIds' = JobIds
          /\ \A j \in JobIds : jobs'[j].copy = jobs[j].copy
      BY <1>2, <2>5, FinishStep
    <3>. QED  BY <1>2, <2>1, <3>1, CopiesKept
  <2>6. \/ jobs' = jobs
        \/ \E d \in Deleters : \/ ApplySqlite(d) \/ FinishSync(d)
                               \/ \E retained \in SUBSET Ids : Execute(d, retained)
    BY <1>2, JobsWritten
  <2>. QED  BY <1>2, <2>2, <2>3, <2>4, <2>5, <2>6, EveryStep
<1>. QED  BY <1>1, <1>2, DeletionTypeCorrect, RevocationCorrect, WorkCommitted, PTL DEF Spec

\* A promoted note that deletions may keep a copy of is copied by one item of one job,
\* and every copy belongs to exactly one item, for any number of deletions, processes
\* and retained notes.
THEOREM CopiedAtMostOnce == Spec => []OneCopyPerRetention
<1>1. DeletionTypeOK /\ CopyInv => OneCopyPerRetention
  <2>. SUFFICES ASSUME DeletionTypeOK, CopyInv
                PROVE  OneCopyPerRetention
    OBVIOUS
  <2>1. \A j, k \in JobIds : \A i \in Items(j) \cap Items(k) :
          jobs[j].copy[i] # NoCopy /\ jobs[k].copy[i] # NoCopy => j = k
    BY DEF CopyInv, CopiedOnce, Copied
  <2>2. ASSUME NEW c \in Ids, rows[c].kind = "copy"
        PROVE  Cardinality({i \in Ids : \E j \in JobIds : i \in Items(j) /\ jobs[j].copy[i] = c}) = 1
    <3>. DEFINE origins == {i \in Ids : \E j \in JobIds : i \in Items(j) /\ jobs[j].copy[i] = c}
    <3>1. PICK j \in JobIds : \E i \in Items(j) : jobs[j].copy[i] = c
      BY <2>2 DEF CopyInv, CopiesHaveOrigin
    <3>2. PICK i \in Items(j) : jobs[j].copy[i] = c
      BY <3>1
    <3>3. c # NoCopy /\ \A k \in JobIds : Items(k) \subseteq Ids
      BY RowFacts, JobFacts DEF NoCopy
    <3>4. origins = {i}
      <4>1. i \in origins
        BY <3>2, <3>3
      <4>2. ASSUME NEW m \in origins
            PROVE  m = i
        <5>1. PICK k \in JobIds : m \in Items(k) /\ jobs[k].copy[m] = c
          OBVIOUS
        <5>2. Copied(j, i) /\ Copied(k, m)
          BY <3>2, <3>3, <5>1 DEF Copied
        <5>. QED  BY <3>2, <5>1, <5>2 DEF CopyInv, CopiesDistinct
      <4>. HIDE DEF origins
      <4>. QED  BY <4>1, <4>2
    <3>. HIDE DEF origins
    <3>. QED  BY <3>4, FS_Singleton DEF origins
  <2>. QED  BY <2>1, <2>2 DEF OneCopyPerRetention
<1>. QED  BY <1>1, CopiesHold, DeletionTypeCorrect, PTL

(***************************************************************************)
(* The index beside the tables.  A process with the index that has not     *)
(* failed yet leaves nothing of what it has been through but late puts.    *)
(***************************************************************************)
SyncedItems(d) == Items(deleter[d].job) \ deleter[d].todo

SyncLeavesLatePuts == \A d \in Deleters :
  deleter[d].phase = "syncing" /\ deleter[d].chroma /\ ~deleter[d].failed
    => index \cap SyncedItems(d) \subseteq late

\* A set of revoked rows that has only late puts in the index keeps to it.
LEMMA LatePuts ==
  ASSUME NEW S, index \cap S \subseteq late, \A i \in S : rows[i].status \in Revoked,
         [Next /\ RecordHistory]_<<vars, history>>
  PROVE  index' \cap S \subseteq late'
<1>1. CASE RecordHistory
  BY <1>1 DEF RecordHistory
<1>2. CASE UNCHANGED <<vars, history>>
  BY <1>2 DEF vars, history
<1>. QED  BY <1>1, <1>2

\* A job enters the history when a process with the index that went through all of its
\* items and met no refusal closes it.
LEMMA JobSynced ==
  ASSUME DeletionTypeOK, [Next /\ RecordHistory]_<<vars, history>>,
         NEW j \in synced', j \notin synced
  PROVE  \E d \in Deleters : /\ deleter[d].phase = "syncing" /\ deleter[d].job = j
                            /\ deleter[d].todo = {} /\ deleter[d].chroma /\ ~deleter[d].failed
<1>1. j \in SyncedNow
  BY DEF RecordHistory, history
<1>2. PICK d \in Deleters : /\ FinishSync(d) /\ deleter[d].chroma /\ deleter[d].job = j
                            /\ jobs'[j].status = "complete"
  BY <1>1 DEF SyncedNow
<1>3. jobs'[j].status = Outcome(deleter[d].failed)
  BY <1>2, FinishStep
<1>4. ~deleter[d].failed
  BY <1>2, <1>3 DEF Outcome
<1>. QED  BY <1>2, <1>4 DEF FinishSync

Begun(d) == \E j \in JobIds, chroma \in BOOLEAN : deleter'[d] = Syncing(j, chroma)

\* A process that is at work on the index has been, has just begun, or has just been
\* through an item.
LEMMA DeleterWritten ==
  ASSUME DeletionTypeOK, [Next]_vars, NEW d \in Deleters, deleter'[d].phase = "syncing"
  PROVE  \/ deleter'[d] = deleter[d]
         \/ Begun(d)
         \/ \E i \in Ids : SyncItem(d, i)
<1>1. deleter \in [Deleters -> DeleterState]
  BY DEF DeletionTypeOK
<1>2. ASSUME NEW e \in Deleters, NEW new, deleter' = [deleter EXCEPT ![e] = new],
             new.phase # "syncing" \/ \E j \in JobIds, chroma \in BOOLEAN : new = Syncing(j, chroma)
      PROVE  deleter'[d] = deleter[d] \/ Begun(d)
  BY <1>1, <1>2 DEF Begun
<1>3. CASE ~DeletionStep
  BY <1>3 DEF Next, TranscriptStep, BeginRun, CompleteRun, AppendMessage, ArchiveThread,
         NoteStep, SubmitNote, ConfirmNote, RetractNote, SetNoteStatus, ConflictStep,
         SubmitConflict, LinkConflict, LoseConflict, AddCandidate, BuildSummary,
         IndexStep, PromoteNote, RetryIndex, PutIndex, MarkIndex, StopIndexer, records, vars
<1>4. ASSUME NEW e \in Deleters, NEW root \in Roots, Preview(e, root)
      PROVE  deleter'[d] = deleter[d] \/ Begun(d)
  <2>. DEFINE new == [Idle EXCEPT !.phase = "previewed", !.token = Snapshot(root)]
  <2>1. new.phase = "previewed"
    BY DeleterStates
  <2>2. deleter' = [deleter EXCEPT ![e] = new]
    BY <1>4 DEF Preview
  <2>. HIDE DEF new
  <2>. QED  BY <1>2, <2>1, <2>2
<1>5. ASSUME NEW e \in Deleters, NEW retained \in SUBSET Ids, Execute(e, retained)
      PROVE  deleter'[d] = deleter[d] \/ Begun(d)
  <2>. DEFINE new == [Idle EXCEPT !.phase = "applying", !.job = Len(jobs) + 1]
  <2>1. new.phase = "applying"
    BY DeleterStates DEF DeleterState
  <2>2. deleter' = [deleter EXCEPT ![e] = new]
    BY <1>5 DEF Execute
  <2>. HIDE DEF new
  <2>. QED  BY <1>2, <2>1, <2>2
<1>6. ASSUME NEW e \in Deleters, ApplySqlite(e) \/ ApplyDone(e)
      PROVE  deleter'[d] = deleter[d] \/ Begun(d)
  <2>1. PICK j \in JobIds, chroma \in BOOLEAN :
           deleter' = [deleter EXCEPT ![e] = Syncing(j, chroma)]
    BY <1>6 DEF ApplySqlite, ApplyDone, DeletionTypeOK
  <2>. QED  BY <1>2, <2>1
<1>7. ASSUME NEW e \in Deleters, NEW j \in JobIds, Resume(e, j)
      PROVE  deleter'[d] = deleter[d] \/ Begun(d)
  <2>. DEFINE new == [Idle EXCEPT !.phase = "applying", !.job = j]
  <2>1. new.phase = "applying"
    BY DeleterStates
  <2>2. \/ deleter' = [deleter EXCEPT ![e] = new]
        \/ \E chroma \in BOOLEAN : deleter' = [deleter EXCEPT ![e] = Syncing(j, chroma)]
    BY <1>7 DEF Resume
  <2>. HIDE DEF new
  <2>. QED  BY <1>2, <2>1, <2>2
<1>8. ASSUME NEW e \in Deleters, FinishSync(e) \/ StopDeleter(e)
      PROVE  deleter'[d] = deleter[d] \/ Begun(d)
  <2>1. Idle.phase = "idle"
    BY DeleterStates
  <2>2. deleter' = [deleter EXCEPT ![e] = Idle]
    BY <1>8 DEF FinishSync, StopDeleter
  <2>. QED  BY <1>2, <2>1, <2>2
<1>9. ASSUME NEW e \in Deleters, NEW i \in Ids, SyncItem(e, i), e # d
      PROVE  deleter'[d] = deleter[d]
  BY <1>1, <1>9 DEF SyncItem
<1>10. CASE DeletionStep
  <2>1. PICK e \in Deleters :
          \/ \E root \in Roots : Preview(e, root)
          \/ \E retained \in SUBSET Ids : Execute(e, retained)
          \/ ApplySqlite(e) \/ ApplyDone(e)
          \/ \E i \in Ids : SyncItem(e, i)
          \/ FinishSync(e)
          \/ \E j \in JobIds : Resume(e, j)
          \/ StopDeleter(e)
    BY <1>10 DEF DeletionStep, AuthorizeStep, JobStep
  <2>2. CASE \E i \in Ids : SyncItem(e, i)
    BY <1>9, <2>2
  <2>. QED  BY <1>4, <1>5, <1>6, <1>7, <1>8, <2>1, <2>2
<1>. QED  BY <1>3, <1>10

\* The item a process has just been through without a refusal is out of the index.
LEMMA SyncedOut ==
  ASSUME DeletionTypeOK, CopyInv, NEW d \in Deleters, NEW i \in Ids, SyncItem(d, i),
         ~deleter'[d].failed
  PROVE  /\ ~deleter[d].failed /\ i \notin index'
         /\ deleter'[d].job = deleter[d].job /\ deleter'[d].todo = deleter[d].todo \ {i}
         /\ deleter'[d].chroma = deleter[d].chroma
<1>. DEFINE j == deleter[d].job
            copy == jobs[j].copy[i]
            toIndex == {c \in {copy} \ {NoCopy} : rows[c].index \in {"pending_index", "index_failed"}}
<1>1. PICK ok \in BOOLEAN, copied \in BOOLEAN :
         /\ index' = (IF ok THEN index \ {i} ELSE index) \cup (IF copied THEN toIndex ELSE {})
         /\ deleter' = [deleter EXCEPT ![d].todo = @ \ {i},
                                       ![d].failed = @ \/ ~ok \/ ~copied]
  BY DEF SyncItem
<1>2. /\ deleter \in [Deleters -> DeleterState] /\ deleter[d] \in DeleterState
      /\ j \in JobIds /\ i \in Items(j)
  BY DEF SyncItem, DeletionTypeOK
<1>3. /\ deleter'[d].job = j /\ deleter'[d].todo = deleter[d].todo \ {i}
      /\ deleter'[d].failed = (deleter[d].failed \/ ~ok \/ ~copied)
      /\ deleter'[d].chroma = deleter[d].chroma
  BY <1>1, <1>2 DEF DeleterState
<1>4. i \notin toIndex
  BY <1>2 DEF CopyInv, CopiesCommitted, Copied
<1>. HIDE DEF toIndex
<1>. QED  BY <1>1, <1>3, <1>4

\* However deletions, promotions and retries interleave, stop and resume, a job that a
\* process with the index has closed as complete leaves in the index only what was put
\* there after its row had been revoked.
THEOREM LatePutsOnly == RecordedSpec => []OnlyLatePutsSurvive
<1>. DEFINE IInv == OnlyLatePutsSurvive /\ SyncLeavesLatePuts /\ synced \subseteq Committed
<1>1. Init /\ late = {} /\ synced = {} => IInv
  <2>. SUFFICES ASSUME Init, synced = {}
                PROVE  IInv
    OBVIOUS
  <2>1. \A d \in Deleters : deleter[d].phase = "idle"
    BY DEF Init, Idle
  <2>. QED  BY <2>1 DEF OnlyLatePutsSurvive, SyncLeavesLatePuts
<1>2. ASSUME DeletionTypeOK, SyncingCommitted, CommittedJobsRevoke, CopyInv,
             OnlyLatePutsSurvive, SyncLeavesLatePuts, synced \subseteq Committed,
             [Next /\ RecordHistory]_<<vars, history>>
      PROVE  IInv'
  <2>1. [Next]_vars
    BY <1>2 DEF history
  <2>2. JobIds \subseteq JobIds' /\ \A j \in JobIds : Items(j)' = Items(j)
    BY <1>2, <2>1, EveryStep DEF StepOK, JobsGrow, Items
  <2>3. ASSUME NEW j \in Committed, NEW S \in SUBSET Items(j), index \cap S \subseteq late
        PROVE  index' \cap S \subseteq late'
    <3>1. \A i \in S : rows[i].status \in Revoked
      BY <1>2, <2>3 DEF CommittedJobsRevoke
    <3>. QED  BY <1>2, <2>3, <3>1, LatePuts
  <2>4. ASSUME NEW j \in synced'
        PROVE  /\ j \in Committed
               /\ index \cap Items(j) \subseteq late
    <3>1. CASE j \in synced
      BY <1>2, <3>1 DEF OnlyLatePutsSurvive
    <3>2. CASE j \notin synced
      <4>1. PICK d \in Deleters :
               /\ deleter[d].phase = "syncing" /\ deleter[d].job = j
               /\ deleter[d].todo = {} /\ deleter[d].chroma /\ ~deleter[d].failed
        BY <1>2, <2>4, <3>2, JobSynced
      <4>2. SyncedItems(d) = Items(j)
        BY <4>1 DEF SyncedItems
      <4>. QED  BY <1>2, <4>1, <4>2 DEF SyncLeavesLatePuts, SyncingCommitted
    <3>. QED  BY <3>1, <3>2
  <2>5. OnlyLatePutsSurvive' /\ synced' \subseteq Committed'
    <3>1. ASSUME NEW j \in synced'
          PROVE  j \in Committed' /\ index' \cap Items(j)' \subseteq late'
      <4>1. j \in Committed /\ index \cap Items(j) \subseteq late
        BY <2>4
      <4>2. index' \cap Items(j) \subseteq late' /\ Items(j)' = Items(j)
        BY <2>2, <2>3, <4>1 DEF Committed
      <4>3. Committed \subseteq Committed'
        BY <1>2, <2>1, CommittedStep
      <4>. QED  BY <4>1, <4>2, <4>3
    <3>. QED  BY <3>1 DEF OnlyLatePutsSurvive
  <2>6. SyncLeavesLatePuts'
    <3>. SUFFICES ASSUME NEW d \in Deleters, deleter'[d].phase = "syncing",
                         deleter'[d].chroma, ~deleter'[d].failed
                  PROVE  index' \cap SyncedItems(d)' \subseteq late'
      BY DEF SyncLeavesLatePuts
    <3>1. ASSUME deleter[d].phase = "syncing", deleter[d].chroma, ~deleter[d].failed
          PROVE  /\ \E j \in JobIds : j = deleter[d].job /\ Items(j)' = Items(j)
                 /\ index' \cap SyncedItems(d) \subseteq late'
      <4>1. deleter[d].job \in Committed /\ index \cap SyncedItems(d) \subseteq late
        BY <1>2, <3>1 DEF SyncLeavesLatePuts, SyncingCommitted
      <4>2. SyncedItems(d) \in SUBSET Items(deleter[d].job)
        BY DEF SyncedItems
      <4>. QED  BY <2>2, <2>3, <4>1, <4>2 DEF Committed
    <3>2. CASE deleter'[d] = deleter[d]
      <4>1. SyncedItems(d)' = SyncedItems(d)
        BY <3>1, <3>2 DEF SyncedItems, Items
      <4>. QED  BY <3>1, <3>2, <4>1
    <3>3. CASE Begun(d)
      <4>1. PICK j \in JobIds, chroma \in BOOLEAN : deleter'[d] = Syncing(j, chroma)
        BY <3>3 DEF Begun
      <4>2. ASSUME chroma = TRUE
            PROVE  deleter'[d].job = j /\ deleter'[d].todo = Items(j)
        BY <4>1, <4>2 DEF Syncing
      <4>3. ASSUME chroma = FALSE
            PROVE  FALSE
        BY <4>1, <4>3 DEF Syncing
      <4>4. deleter'[d].job = j /\ deleter'[d].todo = Items(j)
        BY <4>2, <4>3
      <4>5. Items(j)' = Items(j)
        BY <2>2
      <4>6. SyncedItems(d)' = {}
        BY <4>4, <4>5 DEF SyncedItems, Items
      <4>. QED  BY <4>6
    <3>4. ASSUME NEW i \in Ids, SyncItem(d, i)
          PROVE  index' \cap SyncedItems(d)' \subseteq late'
      <4>1. /\ ~deleter[d].failed /\ i \notin index' /\ deleter[d].chroma
            /\ deleter'[d].job = deleter[d].job /\ deleter'[d].todo = deleter[d].todo \ {i}
        BY <1>2, <3>4, SyncedOut
      <4>2. deleter[d].phase = "syncing"
        BY <3>4 DEF SyncItem
      <4>3. SyncedItems(d)' \subseteq SyncedItems(d) \cup {i}
        BY <3>1, <4>1, <4>2 DEF SyncedItems, Items
      <4>. QED  BY <3>1, <4>1, <4>2, <4>3
    <3>. QED  BY <1>2, <2>1, <3>2, <3>3, <3>4, DeleterWritten
  <2>. QED  BY <2>5, <2>6
<1>3. [Next /\ RecordHistory]_<<vars, history>> => [Next]_vars
  BY DEF history
<1>4. RecordedSpec => Spec
  BY <1>3, PTL DEF RecordedSpec, Spec
<1>. QED  BY <1>1, <1>2, <1>4, DeletionTypeCorrect, WorkCommitted, RevocationCorrect,
          CopiesHold, PTL DEF RecordedSpec

\* The stories TLC checks are behaviours of every service together.
COROLLARY StoriesLeaveLatePuts == MCSpec => []OnlyLatePutsSurvive
<1>1. MCInit => Init /\ late = {} /\ synced = {}
  BY DEF MCInit
<1>2. ASSUME story.deleters \subseteq Deleters
      PROVE  MCNext => Next /\ RecordHistory
  <2>. SUFFICES ASSUME StoryStep
                PROVE  Next
    BY DEF MCNext
  <2>1. CitedNoteStep => NoteStep
    BY DEF CitedNoteStep, NoteStep
  <2>2. PromoteUnindexed => IndexStep
    BY DEF PromoteUnindexed, IndexStep
  <2>3. (\E d \in story.deleters : (Len(jobs) < story.jobs /\ AuthorizeStep(d)) \/ JobStep(d))
          => DeletionStep
    BY <1>2 DEF DeletionStep
  <2>. QED  BY <2>1, <2>2, <2>3 DEF StoryStep, Next
<1>3. MCInit => story.deleters \subseteq Deleters
  <2>1. \A about, runSets, deleterSets, bound : \A s \in Story(about, runSets, deleterSets, bound) :
          s.deleters \in deleterSets
    BY DEF Story
  <2>2. \A deleters \in One(Deleters) \cup {Deleters} : deleters \subseteq Deleters
    BY DEF One
  <2>3. \A s \in Stories : s.deleters \in One(Deleters) \cup {Deleters}
    BY <2>1 DEF Stories
  <2>. QED  BY <2>2, <2>3 DEF MCInit
<1>4. story.deleters \subseteq Deleters /\ [MCNext]_<<vars, story, history>>
        => (story.deleters \subseteq Deleters)'
  <2>1. MCNext => story' = story
    BY DEF MCNext
  <2>2. UNCHANGED <<vars, story, history>> => story' = story
    OBVIOUS
  <2>. QED  BY <2>1, <2>2
<1>5. story.deleters \subseteq Deleters /\ [MCNext]_<<vars, story, history>>
        => [Next /\ RecordHistory]_<<vars, history>>
  BY <1>2
<1>6. MCSpec => RecordedSpec
  BY <1>1, <1>3, <1>4, <1>5, PTL DEF MCSpec, RecordedSpec
<1>. QED  BY <1>6, LatePutsOnly, PTL

=============================================================================
