------------------------- MODULE NoteLifecycleProofs -------------------------
(***************************************************************************)
(* Proofs about NoteLifecycle for every set of threads, processes and      *)
(* proposed texts and every bound on the rows and the clock.               *)
(***************************************************************************)
EXTENDS MCNoteLifecycle, SequenceTheorems, TLAPS

Kinds == {"supersedes", "conflicts_with", "promoted_from"}

NoteTypeOK ==
  /\ notes \in Seq(NoteRow)
  /\ relations \subseteq NoteIds \X NoteIds \X Kinds
  /\ index \subseteq NoteIds
  /\ clock \in Nat \ {0}
  /\ op \in [Processes -> Calls]
  /\ stale \in [Processes -> SUBSET NoteIds]

\* What a call remembers is still true when it goes on: a proposal without a related
\* note is a novel one, and a scan began at a time that has passed.
CallsRemember ==
  \A p \in Processes :
    /\ At(p, "checked") => (op[p].relationship = "novel" <=> op[p].related = NoNote)
    /\ At(p, "expiring") => op[p].now <= clock

NoteInv == NoteTypeOK /\ CallsRemember

(***************************************************************************)
(* The ways a step can change the rows.                                    *)
(***************************************************************************)

\* row is what a step leaves of row i when it sets its state, mark or retention.
Touched(i, row) ==
  /\ row \in NoteRow
  /\ row.thread = notes[i].thread /\ row.scope = notes[i].scope
  /\ row.by = notes[i].by /\ row.supersedes = notes[i].supersedes
  /\ row.confirmed = notes[i].confirmed
  /\ \/ row.status = notes[i].status
     \/ row.status \in {"retracted", "rejected"}
     \/ row.status = "expired" /\ Due(i)
  /\ \/ row.mark = notes[i].mark
     \/ \E p \in Processes : At(p, "marking") /\ op[p].note = i /\ op[p].mark = row.mark

Touching == \E i \in NoteIds, row \in NoteRow :
  /\ Touched(i, row)
  /\ notes' = [notes EXCEPT ![i] = row]
  /\ relations' = relations

Confirming == \E i \in NoteIds :
  /\ notes[i].status = "candidate"
  /\ Confirmed(i)
  /\ relations' = relations

Adding == \E t \in Threads, by \in {"user", "model"}, print \in Contents \cup {NoPrint},
             revision \in Nat \ {0} :
  /\ AddCandidate(t, by, print, revision)
  /\ relations' = relations

Replacing == \E old \in NoteIds, t \in Threads \cup {NoThread} : ReplaceBy(t, old)

Relating == \E i, j \in NoteIds :
  /\ notes' = notes
  /\ \/ relations' = relations \cup {<<i, j, "supersedes">>}
     \/ relations' = relations \cup {<<i, j, "conflicts_with">>, <<j, i, "conflicts_with">>}

Promoting == \E i \in NoteIds, scope \in {"session", "workspace"},
                mark \in {"not_indexed", "pending_index"} :
  /\ Promotions(i, scope) = {}
  /\ notes' = Append(notes, PromotedRow(scope, mark))
  /\ relations' = relations \cup {<<NewId, i, "promoted_from">>}

RowStep ==
  \/ Touching \/ Confirming \/ Adding \/ Replacing \/ Relating \/ Promoting
  \/ UNCHANGED <<notes, relations>>

-----------------------------------------------------------------------------
(***************************************************************************)
(* Rows and calls.                                                         *)
(***************************************************************************)
LEMMA NoteRows ==
  ASSUME NoteTypeOK
  PROVE  /\ Len(notes) \in Nat /\ NoteIds = 1..Len(notes)
         /\ NewId \in Nat \ {0} /\ NewId \notin NoteIds
         /\ NoNote \notin NoteIds
         /\ \A i \in NoteIds : notes[i] \in NoteRow
<1>1. notes \in Seq(NoteRow)
  BY DEF NoteTypeOK
<1>2. Len(notes) \in Nat /\ NoteIds = 1..Len(notes)
  BY <1>1, LenProperties DEF NoteIds
<1>3. \A i \in NoteIds : notes[i] \in NoteRow
  BY <1>1, <1>2, ElementOfSeq
<1>. QED  BY <1>2, <1>3 DEF NewId, NoNote

\* What a call carries from one of its transactions to the next is typed.
LEMMA CallFields ==
  ASSUME NEW c \in Calls
  PROVE  /\ c.step \in {"adding", "replaced", "revising", "proposed", "putting", "marking"} =>
              c.note \in NoteIds
         /\ c.step \in {"checked", "putting", "marking", "reconciling", "expiring"} =>
              c.thread \in Threads
         /\ c.step \in {"putting", "marking", "reconciling", "expiring"} => c.rest \subseteq NoteIds
         /\ c.step = "checked" =>
              /\ c.fingerprint \in Contents /\ c.related \in NoteIds \cup {NoNote}
              /\ c.relationship \in Relationships /\ c.revision \in Nat \ {0}
         /\ c.step = "proposed" => c.related \in NoteIds
         /\ c.step = "marking" => c.mark \in {"indexed", "index_failed"}
         /\ c.step = "expiring" => c \in [step : {"expiring"}, thread : Threads,
                                          rest : SUBSET NoteIds, now : Nat]
  BY DEF Calls, Idle

\* A call stays typed when rows are added.
LEMMA CallsGrow ==
  ASSUME NoteIds \subseteq NoteIds'
  PROVE  Calls \subseteq Calls'
<1>. SUFFICES ASSUME NEW c \in Calls
              PROVE  c \in Calls'
  OBVIOUS
<1>1. CASE c \in [step : {"adding", "replaced"}, note : NoteIds]
  BY <1>1 DEF Calls
<1>2. CASE c \in [step : {"revising"}, note : NoteIds, read : Live]
  BY <1>2 DEF Calls
<1>3. CASE c \in [step : {"checked"}, thread : Threads, fingerprint : Contents,
                  related : NoteIds \cup {NoNote}, relationship : Relationships,
                  revision : Nat \ {0}]
  BY <1>3 DEF Calls
<1>4. CASE c \in [step : {"proposed"}, note : NoteIds, related : NoteIds,
                  relationship : Relationships \ {"novel"}]
  BY <1>4 DEF Calls
<1>5. CASE c \in [step : {"putting"}, thread : Threads, note : NoteIds, rest : SUBSET NoteIds]
  BY <1>5 DEF Calls
<1>6. CASE c \in [step : {"marking"}, thread : Threads, note : NoteIds, rest : SUBSET NoteIds,
                  mark : {"indexed", "index_failed"}]
  BY <1>6 DEF Calls
<1>7. CASE c \in [step : {"reconciling"}, thread : Threads, rest : SUBSET NoteIds]
  BY <1>7 DEF Calls
<1>8. CASE c \in [step : {"expiring"}, thread : Threads, rest : SUBSET NoteIds, now : Nat]
  BY <1>8 DEF Calls
<1>9. CASE c = Idle
  BY <1>9 DEF Calls
<1>. QED  BY <1>1, <1>2, <1>3, <1>4, <1>5, <1>6, <1>7, <1>8, <1>9 DEF Calls

-----------------------------------------------------------------------------
(***************************************************************************)
(* What a step of each kind does to the rows.                              *)
(***************************************************************************)
LEMMA TouchedRows ==
  ASSUME NoteTypeOK, NEW i \in NoteIds, NEW row \in NoteRow,
         notes' = [notes EXCEPT ![i] = row]
  PROVE  /\ notes' \in Seq(NoteRow) /\ NoteIds' = NoteIds
         /\ notes'[i] = row
         /\ \A j \in NoteIds \ {i} : notes'[j] = notes[j]
<1>1. notes \in Seq(NoteRow)
  BY DEF NoteTypeOK
<1>2. /\ notes' \in Seq(NoteRow) /\ Len(notes') = Len(notes)
      /\ \A j \in 1..Len(notes) : notes'[j] = IF j = i THEN row ELSE notes[j]
  BY <1>1, NoteRows, ExceptSeq
<1>3. NoteIds' = 1..Len(notes')
  BY <1>2, LenProperties DEF NoteIds
<1>. QED  BY <1>2, <1>3, NoteRows

LEMMA AppendedRow ==
  ASSUME NoteTypeOK, NEW before \in Seq(NoteRow), NEW row \in NoteRow,
         Len(before) = Len(notes), notes' = Append(before, row)
  PROVE  /\ notes' \in Seq(NoteRow)
         /\ NoteIds' = NoteIds \cup {NewId}
         /\ notes'[NewId] = row
         /\ \A j \in NoteIds : notes'[j] = before[j]
<1>1. /\ notes' \in Seq(NoteRow) /\ Len(notes') = Len(notes) + 1
      /\ notes'[Len(notes) + 1] = row
      /\ \A j \in 1..Len(notes) : notes'[j] = before[j]
  BY AppendProperties
<1>2. NoteIds' = 1..Len(notes')
  BY <1>1, LenProperties DEF NoteIds
<1>. QED  BY <1>1, <1>2, NoteRows DEF NewId

LEMMA ConfirmedRows ==
  ASSUME NoteTypeOK, NEW i \in NoteIds, Confirmed(i)
  PROVE  /\ notes' \in Seq(NoteRow) /\ NoteIds' = NoteIds
         /\ \A j \in NoteIds :
              /\ notes'[j].thread = notes[j].thread /\ notes'[j].scope = notes[j].scope
              /\ notes'[j].by = notes[j].by /\ notes'[j].supersedes = notes[j].supersedes
              /\ notes'[j].mark = notes[j].mark
              /\ notes'[j].confirmed = (j = i \/ notes[j].confirmed)
              /\ notes'[j].status = IF j = i THEN "active"
                                    ELSE IF j \in Supersedes(i) /\ notes[j].status = "active"
                                         THEN "superseded"
                                         ELSE notes[j].status
<1>1. \A j \in NoteIds : notes[j] \in NoteRow
  BY NoteRows
<1>2. /\ \A j \in NoteIds : notes'[j] = IF j = i THEN [notes[j] EXCEPT !.status = "active", !.confirmed = TRUE]
              ELSE IF j \in Supersedes(i) /\ notes[j].status = "active"
                   THEN [notes[j] EXCEPT !.status = "superseded"]
                   ELSE notes[j]
      /\ notes' = [j \in NoteIds |-> notes'[j]]
  BY DEF Confirmed
<1>3. ASSUME NEW j \in NoteIds
      PROVE  /\ notes'[j] \in NoteRow
              /\ notes'[j].thread = notes[j].thread /\ notes'[j].scope = notes[j].scope
              /\ notes'[j].by = notes[j].by /\ notes'[j].supersedes = notes[j].supersedes
              /\ notes'[j].mark = notes[j].mark
              /\ notes'[j].confirmed = (j = i \/ notes[j].confirmed)
              /\ notes'[j].status = IF j = i THEN "active"
                                    ELSE IF j \in Supersedes(i) /\ notes[j].status = "active"
                                         THEN "superseded"
                                         ELSE notes[j].status
  <2>1. PICK row : row = notes[j]
    OBVIOUS
  <2>2. row \in NoteRow
    BY <1>1, <2>1
  <2>3. CASE j = i
    <3>1. notes'[j] = [row EXCEPT !.status = "active", !.confirmed = TRUE]
      BY <1>2, <2>1, <2>3
    <3>. QED  BY <2>1, <2>2, <2>3, <3>1 DEF NoteRow, Statuses
  <2>4. CASE j # i /\ j \in Supersedes(i) /\ row.status = "active"
    <3>1. notes'[j] = [row EXCEPT !.status = "superseded"]
      BY <1>2, <2>1, <2>4
    <3>. QED  BY <2>1, <2>2, <2>4, <3>1 DEF NoteRow, Statuses
  <2>5. CASE j # i /\ ~(j \in Supersedes(i) /\ row.status = "active")
    <3>1. notes'[j] = row
      BY <1>2, <2>1, <2>5
    <3>. QED  BY <2>1, <2>2, <2>5, <3>1 DEF NoteRow
  <2>. QED  BY <2>3, <2>4, <2>5
<1>4. notes' \in [1..Len(notes) -> NoteRow]
  BY <1>2, <1>3, NoteRows
<1>5. notes' \in Seq(NoteRow) /\ DOMAIN notes' = NoteIds
  BY <1>4, NoteRows, SeqDef
<1>. QED  BY <1>3, <1>5 DEF NoteIds

\* A step that sets some fields of a row touches it.
LEMMA FieldsTouched ==
  ASSUME NoteTypeOK, NEW i \in NoteIds, relations' = relations,
         \/ \E status \in {"retracted", "rejected", "expired"} :
              /\ status = "expired" => Due(i)
              /\ notes' = [notes EXCEPT ![i].status = status]
         \/ \E expires \in Nat, policy \in Policies :
              notes' = [notes EXCEPT ![i].expires = expires, ![i].policy = policy]
         \/ \E pinned \in BOOLEAN : notes' = [notes EXCEPT ![i].pinned = pinned]
         \/ \E p \in Processes, mark \in {"indexed", "index_failed"} :
              /\ At(p, "marking") /\ op[p].note = i /\ op[p].mark = mark
              /\ notes' = [notes EXCEPT ![i].mark = mark]
  PROVE  Touching
<1>1. PICK old : old = notes[i]
  OBVIOUS
<1>2. old \in NoteRow
  BY <1>1, NoteRows
<1>3. notes \in Seq(NoteRow)
  BY DEF NoteTypeOK
<1>4. SUFFICES \E row \in NoteRow : Touched(i, row) /\ notes' = [notes EXCEPT ![i] = row]
  BY DEF Touching
<1>5. ASSUME NEW status \in {"retracted", "rejected", "expired"}, status = "expired" => Due(i),
             notes' = [notes EXCEPT ![i].status = status]
      PROVE  \E row \in NoteRow : Touched(i, row) /\ notes' = [notes EXCEPT ![i] = row]
  <2>1. PICK row : row = [old EXCEPT !.status = status]
    OBVIOUS
  <2>2. notes' = [notes EXCEPT ![i] = row]
    BY <1>1, <1>5, <2>1
  <2>3. row \in NoteRow
    BY <1>2, <2>1 DEF NoteRow, Statuses
  <2>4. Touched(i, row)
    BY <1>1, <1>2, <1>5, <2>1, <2>3 DEF Touched, NoteRow
  <2>. QED  BY <2>2, <2>3, <2>4
<1>6. ASSUME NEW expires \in Nat, NEW policy \in Policies,
             notes' = [notes EXCEPT ![i].expires = expires, ![i].policy = policy]
      PROVE  \E row \in NoteRow : Touched(i, row) /\ notes' = [notes EXCEPT ![i] = row]
  <2>1. PICK row : row = [old EXCEPT !.expires = expires, !.policy = policy]
    OBVIOUS
  <2>2. notes' = [notes EXCEPT ![i] = row]
    <3>1. PICK between : between = [notes EXCEPT ![i].expires = expires]
      OBVIOUS
    <3>2. between[i] = [old EXCEPT !.expires = expires]
      BY <1>1, <3>1 DEF NoteIds
    <3>3. notes' = [between EXCEPT ![i].policy = policy]
      BY <1>6, <3>1
    <3>4. notes' = [between EXCEPT ![i] = row]
      BY <2>1, <3>2, <3>3
    <3>. QED  BY <1>1, <3>1, <3>4
  <2>3. row \in NoteRow
    BY <1>2, <2>1 DEF NoteRow
  <2>4. Touched(i, row)
    BY <1>1, <1>2, <2>1, <2>3 DEF Touched, NoteRow
  <2>. QED  BY <2>2, <2>3, <2>4
<1>7. ASSUME NEW pinned \in BOOLEAN, notes' = [notes EXCEPT ![i].pinned = pinned]
      PROVE  \E row \in NoteRow : Touched(i, row) /\ notes' = [notes EXCEPT ![i] = row]
  <2>1. PICK row : row = [old EXCEPT !.pinned = pinned]
    OBVIOUS
  <2>2. notes' = [notes EXCEPT ![i] = row]
    BY <1>1, <1>7, <2>1
  <2>3. row \in NoteRow
    BY <1>2, <2>1 DEF NoteRow
  <2>4. Touched(i, row)
    BY <1>1, <1>2, <2>1, <2>3 DEF Touched, NoteRow
  <2>. QED  BY <2>2, <2>3, <2>4
<1>8. ASSUME NEW p \in Processes, NEW mark \in {"indexed", "index_failed"},
             At(p, "marking"), op[p].note = i, op[p].mark = mark,
             notes' = [notes EXCEPT ![i].mark = mark]
      PROVE  \E row \in NoteRow : Touched(i, row) /\ notes' = [notes EXCEPT ![i] = row]
  <2>1. PICK row : row = [old EXCEPT !.mark = mark]
    OBVIOUS
  <2>2. notes' = [notes EXCEPT ![i] = row]
    BY <1>1, <1>8, <2>1
  <2>3. row \in NoteRow
    BY <1>2, <2>1 DEF NoteRow, Marks
  <2>4. /\ row.thread = old.thread /\ row.scope = old.scope /\ row.by = old.by
        /\ row.supersedes = old.supersedes /\ row.confirmed = old.confirmed
        /\ row.status = old.status /\ row.mark = mark
    BY <1>2, <2>1 DEF NoteRow
  <2>5. Touched(i, row)
    BY <1>1, <1>8, <2>3, <2>4 DEF Touched
  <2>. QED  BY <2>2, <2>3, <2>5
<1>. QED  BY <1>5, <1>6, <1>7, <1>8

LEMMA NewRows ==
  /\ \A t \in Threads, by \in {"user", "model"}, print \in Contents \cup {NoPrint},
        revision \in Nat \ {0}, old \in Nat : NewCandidate(t, by, print, revision, old) \in NoteRow
  /\ \A scope \in {"session", "workspace"}, mark \in {"not_indexed", "pending_index"} :
       PromotedRow(scope, mark) \in NoteRow
<1>1. ASSUME NEW t \in Threads, NEW by \in {"user", "model"},
             NEW print \in Contents \cup {NoPrint}, NEW revision \in Nat \ {0}, NEW old \in Nat
      PROVE  NewCandidate(t, by, print, revision, old) \in NoteRow
  BY DEF NewCandidate, NoteRow, Scopes, Statuses, Marks, Policies, Never
<1>2. ASSUME NEW scope \in {"session", "workspace"}, NEW mark \in {"not_indexed", "pending_index"}
      PROVE  PromotedRow(scope, mark) \in NoteRow
  BY DEF PromotedRow, NoteRow, Scopes, Statuses, Marks, Policies, Never, NoNote
<1>. QED  BY <1>1, <1>2

\* Every step changes the rows in one of the ways above.
LEMMA RowSteps ==
  ASSUME NoteInv, NoteNext
  PROVE  RowStep
<1>0. /\ \A p \in Processes : op[p] \in Calls
      /\ \A i \in NoteIds : notes[i] \in NoteRow
      /\ clock \in Nat
  BY NoteRows DEF NoteInv, NoteTypeOK
<1>1. CASE UserStep
  <2>1. PICK t \in Threads :
          \/ \E p \in Processes : AddNoteCandidate(p, t)
          \/ \E i \in NoteIds :
               \/ ConfirmNote(t, i)
               \/ RetractNote(t, i)
               \/ RejectCandidate(t, i)
               \/ \E p \in Processes : ReviseRead(p, t, i)
    BY <1>1 DEF UserStep
  <2>2. ASSUME NEW p \in Processes, AddNoteCandidate(p, t)
        PROVE  RowStep
    BY <2>2 DEF AddNoteCandidate, RowStep, Adding
  <2>3. ASSUME NEW i \in NoteIds, ConfirmNote(t, i)
        PROVE  RowStep
    BY <2>3 DEF ConfirmNote, CanConfirm, RowStep, Confirming
  <2>4. ASSUME NEW i \in NoteIds, RetractNote(t, i)
        PROVE  RowStep
    <3>1. notes' = [notes EXCEPT ![i].status = "retracted"] /\ relations' = relations
      BY <2>4 DEF RetractNote
    <3>. QED  BY <3>1, FieldsTouched DEF RowStep, NoteInv
  <2>5. ASSUME NEW i \in NoteIds, RejectCandidate(t, i)
        PROVE  RowStep
    <3>1. notes' = [notes EXCEPT ![i].status = "rejected"] /\ relations' = relations
      BY <2>5 DEF RejectCandidate
    <3>. QED  BY <3>1, FieldsTouched DEF RowStep, NoteInv
  <2>. QED  BY <2>1, <2>2, <2>3, <2>4, <2>5 DEF ReviseRead, RowStep
<1>2. CASE CallStep
  <2>1. PICK p \in Processes : ConfirmOwn(p) \/ ReviseReplace(p) \/ ReviseRefused(p)
    BY <1>2 DEF CallStep
  <2>2. CASE ConfirmOwn(p)
    <3>1. op[p].note \in NoteIds
      BY <1>0, <2>2, CallFields DEF ConfirmOwn
    <3>. QED  BY <2>2, <3>1 DEF ConfirmOwn, CanConfirm, RowStep, Confirming
  <2>3. CASE ReviseReplace(p)
    <3>1. op[p].note \in NoteIds
      BY <1>0, <2>3, CallFields DEF ReviseReplace, At
    <3>2. notes[op[p].note].thread \in Threads \cup {NoThread}
      BY <1>0, <3>1 DEF NoteRow
    <3>. QED  BY <2>3, <3>1, <3>2 DEF ReviseReplace, RowStep, Replacing
  <2>. QED  BY <2>1, <2>2, <2>3 DEF ReviseRefused, RowStep
<1>3. CASE SubmitStep
  <2>1. PICK p \in Processes :
          \/ \E t \in Threads, print \in Contents, relationship \in Relationships,
                related \in NoteIds \cup {NoNote} : SubmitCheck(p, t, print, relationship, related)
          \/ SubmitAdd(p)
          \/ SubmitRelate(p)
    BY <1>3 DEF SubmitStep
  <2>2. CASE SubmitAdd(p)
    <3>1. /\ op[p].thread \in Threads /\ op[p].fingerprint \in Contents
          /\ op[p].revision \in Nat \ {0}
      BY <1>0, <2>2, CallFields DEF SubmitAdd, At
    <3>. QED  BY <2>2, <3>1 DEF SubmitAdd, RowStep, Adding
  <2>3. CASE SubmitRelate(p)
    <3>1. op[p].note \in NoteIds /\ op[p].related \in NoteIds
      BY <1>0, <2>3, CallFields DEF SubmitRelate, At
    <3>. QED  BY <2>3, <3>1 DEF SubmitRelate, RowStep, Relating
  <2>. QED  BY <2>1, <2>2, <2>3 DEF SubmitCheck, RowStep
<1>4. CASE PromoteStep
  BY <1>4 DEF PromoteStep, PromoteNote, CanPromote, Broader, RowStep, Promoting
<1>5. CASE IndexStep
  <2>1. PICK p \in Processes :
          PutVector(p) \/ MarkRow(p) \/ (\E t \in Threads : ReconcileIndex(p, t)) \/ RetryNext(p)
    BY <1>5 DEF IndexStep
  <2>2. CASE MarkRow(p)
    <3>1. op[p].note \in NoteIds /\ op[p].mark \in {"indexed", "index_failed"}
      BY <1>0, <2>2, CallFields DEF MarkRow, At
    <3>2. /\ At(p, "marking") /\ relations' = relations
          /\ notes' = [notes EXCEPT ![op[p].note].mark = op[p].mark]
      BY <2>2 DEF MarkRow, Mark
    <3>. QED  BY <3>1, <3>2, FieldsTouched DEF RowStep, NoteInv
  <2>. QED  BY <2>1, <2>2 DEF PutVector, ReconcileIndex, RetryNext, RowStep
<1>6. CASE SearchStep
  BY <1>6 DEF SearchStep, Search, ReconcileStale, RowStep
<1>7. CASE RetentionStep
  <2>1. ASSUME NEW t \in Threads, NEW i \in NoteIds, NEW expires \in 1..MaxTime,
               NEW policy \in {"default", "explicit"}, SetExpiry(t, i, expires, policy)
        PROVE  RowStep
    <3>1. /\ expires \in Nat /\ policy \in Policies /\ relations' = relations
          /\ notes' = [notes EXCEPT ![i].expires = expires, ![i].policy = policy]
      BY <2>1, NoteBoundsAssumption DEF SetExpiry, Policies
    <3>. QED  BY <3>1, FieldsTouched DEF RowStep, NoteInv
  <2>2. ASSUME NEW t \in Threads, NEW i \in NoteIds, NEW pinned \in BOOLEAN, Pin(t, i, pinned)
        PROVE  RowStep
    <3>1. notes' = [notes EXCEPT ![i].pinned = pinned] /\ relations' = relations
      BY <2>2 DEF Pin
    <3>. QED  BY <3>1, FieldsTouched DEF RowStep, NoteInv
  <2>3. ASSUME NEW p \in Processes, ExpireNext(p)
        PROVE  RowStep
    <3>1. /\ op[p].now \in Nat /\ op[p].now <= clock /\ op[p].rest \subseteq NoteIds
      BY <1>0, <2>3, CallFields DEF ExpireNext, At, NoteInv, CallsRemember
    <3>2. relations' = relations
      BY <2>3 DEF ExpireNext
    <3>3. PICK i \in op[p].rest :
            \/ notes' = notes
            \/ StillDue(i, op[p].now) /\ notes' = [notes EXCEPT ![i].status = "expired"]
      BY <2>3 DEF ExpireNext
    <3>4. StillDue(i, op[p].now) => Due(i)
      <4>1. notes[i].expires \in Nat
        BY <1>0, <3>1 DEF NoteRow
      <4>. QED  BY <1>0, <3>1, <4>1 DEF StillDue, Due
    <3>. QED  BY <3>1, <3>2, <3>3, <3>4, FieldsTouched DEF RowStep, NoteInv
  <2>. QED  BY <1>7, <2>1, <2>2, <2>3 DEF RetentionStep, ScanExpired, RowStep
<1>. QED  BY <1>1, <1>2, <1>3, <1>4, <1>5, <1>6, <1>7
          DEF NoteNext, TimePasses, CrashStep, Crash, RowStep

-----------------------------------------------------------------------------
(***************************************************************************)
(* How the rows evolve.                                                    *)
(***************************************************************************)

\* What holds of a row over every step.
Kept(i) ==
  /\ notes'[i].thread = notes[i].thread /\ notes'[i].scope = notes[i].scope
  /\ notes'[i].by = notes[i].by /\ notes'[i].supersedes = notes[i].supersedes
  /\ notes[i].confirmed => notes'[i].confirmed
  /\ notes[i].status \notin Live => notes'[i].status \notin Live
  /\ notes[i].status # "expired" /\ notes'[i].status = "expired" => Due(i)

LEMMA Replaced ==
  ASSUME NoteTypeOK, NEW old \in NoteIds, NEW t \in Threads \cup {NoThread}, ReplaceBy(t, old)
  PROVE  /\ notes' \in Seq(NoteRow) /\ NoteIds' = NoteIds \cup {NewId} /\ NewId \in NoteIds'
         /\ relations' = relations \cup {<<NewId, old, "supersedes">>}
         /\ notes[old].status \in Live
         /\ notes'[NewId].supersedes = old /\ notes'[NewId].by = "user"
         /\ notes'[NewId].status = "candidate" /\ notes'[NewId].mark = "not_indexed"
         /\ \A j \in NoteIds \ {old} : notes'[j] = notes[j]
         /\ notes'[old].thread = notes[old].thread /\ notes'[old].scope = notes[old].scope
         /\ notes'[old].by = notes[old].by /\ notes'[old].supersedes = notes[old].supersedes
         /\ notes'[old].confirmed = notes[old].confirmed /\ notes'[old].mark = notes[old].mark
         /\ notes'[old].status \in {"rejected", "superseded"}
<1>1. notes \in Seq(NoteRow) /\ \A i \in NoteIds : notes[i] \in NoteRow
  BY NoteRows DEF NoteTypeOK
<1>2. PICK row : row = [notes[old] EXCEPT !.status = ReplacedStatus(old)]
  OBVIOUS
<1>3. PICK before : before = [notes EXCEPT ![old] = row]
  OBVIOUS
<1>4. PICK new : new = NewCandidate(t, "user", NoPrint, notes[old].revision + 1, old)
  OBVIOUS
<1>5. /\ notes' = Append(before, new)
      /\ relations' = relations \cup {<<NewId, old, "supersedes">>}
      /\ CanReplace(t, old)
  BY <1>2, <1>3, <1>4 DEF ReplaceBy
<1>6. /\ row \in NoteRow /\ row.thread = notes[old].thread /\ row.scope = notes[old].scope
      /\ row.by = notes[old].by /\ row.supersedes = notes[old].supersedes
      /\ row.confirmed = notes[old].confirmed /\ row.mark = notes[old].mark
      /\ row.status \in {"rejected", "superseded"}
  BY <1>1, <1>2 DEF NoteRow, Statuses, ReplacedStatus
<1>7. new \in NoteRow
  <2>1. t \in Threads \cup {NoThread} /\ old \in Nat /\ notes[old].revision + 1 \in Nat \ {0}
    BY <1>1, NoteRows DEF NoteRow
  <2>. QED  BY <1>4, <2>1 DEF NewCandidate, NoteRow, Scopes, Statuses, Marks, Policies, Never
<1>8. /\ before \in Seq(NoteRow) /\ Len(before) = Len(notes)
      /\ \A j \in NoteIds : before[j] = IF j = old THEN row ELSE notes[j]
  BY <1>1, <1>3, <1>6, NoteRows, ExceptSeq
<1>9. /\ notes' \in Seq(NoteRow) /\ NoteIds' = NoteIds \cup {NewId}
      /\ \A j \in NoteIds : notes'[j] = IF j = old THEN row ELSE notes[j]
      /\ notes'[NewId] = new
  BY <1>5, <1>7, <1>8, AppendedRow
<1>10. /\ new.supersedes = old /\ new.by = "user" /\ new.status = "candidate"
       /\ new.mark = "not_indexed"
  BY <1>4 DEF NewCandidate
<1>. QED  BY <1>5, <1>6, <1>9, <1>10 DEF CanReplace

LEMMA Evolution ==
  ASSUME NoteTypeOK, RowStep
  PROVE  /\ notes' \in Seq(NoteRow)
         /\ NoteIds \subseteq NoteIds' /\ NoteIds' \subseteq NoteIds \cup {NewId}
         /\ relations \subseteq relations'
         /\ relations' \subseteq NoteIds' \X NoteIds' \X Kinds
         /\ \A i \in NoteIds : Kept(i)
<1>1. /\ notes \in Seq(NoteRow) /\ relations \subseteq NoteIds \X NoteIds \X Kinds
      /\ \A i \in NoteIds : notes[i] \in NoteRow
  BY NoteRows DEF NoteTypeOK
<1>2. ASSUME NoteIds' = NoteIds \cup {NewId}, \A i \in NoteIds : notes'[i] = notes[i]
      PROVE  \A i \in NoteIds : Kept(i)
  BY <1>2 DEF Kept
<1>3. CASE Touching
  <2>1. PICK i \in NoteIds, row \in NoteRow :
          Touched(i, row) /\ notes' = [notes EXCEPT ![i] = row] /\ relations' = relations
    BY <1>3 DEF Touching
  <2>2. /\ notes' \in Seq(NoteRow) /\ NoteIds' = NoteIds /\ notes'[i] = row
        /\ \A j \in NoteIds \ {i} : notes'[j] = notes[j]
    BY <2>1, TouchedRows
  <2>3. Kept(i)
    BY <2>1, <2>2 DEF Touched, Kept, Live
  <2>4. \A j \in NoteIds \ {i} : Kept(j)
    BY <2>2 DEF Kept
  <2>. QED  BY <1>1, <2>1, <2>2, <2>3, <2>4
<1>4. CASE Confirming
  <2>1. PICK i \in NoteIds : notes[i].status = "candidate" /\ Confirmed(i) /\ relations' = relations
    BY <1>4 DEF Confirming
  <2>2. notes' \in Seq(NoteRow) /\ NoteIds' = NoteIds
    BY <2>1, ConfirmedRows
  <2>3. ASSUME NEW j \in NoteIds
        PROVE  Kept(j)
    BY <2>1, ConfirmedRows DEF Kept, Live
  <2>. QED  BY <1>1, <2>1, <2>2, <2>3
<1>5. CASE Adding
  <2>1. PICK row \in NoteRow : notes' = Append(notes, row) /\ relations' = relations
    <3>1. NoNote \in Nat
      BY DEF NoNote
    <3>. QED  BY <1>5, <3>1, NewRows DEF Adding, AddCandidate
  <2>2. /\ notes' \in Seq(NoteRow) /\ NoteIds' = NoteIds \cup {NewId}
        /\ \A j \in NoteIds : notes'[j] = notes[j]
    BY <1>1, <2>1, AppendedRow
  <2>. QED  BY <1>1, <1>2, <2>1, <2>2
<1>6. CASE Replacing
  <2>1. PICK old \in NoteIds, t \in Threads \cup {NoThread} : ReplaceBy(t, old)
    BY <1>6 DEF Replacing
  <2>2. ASSUME NEW i \in NoteIds
        PROVE  Kept(i)
    BY <2>1, Replaced DEF Kept, Live
  <2>. QED  BY <1>1, <2>1, <2>2, Replaced DEF Kinds
<1>7. CASE Relating
  <2>1. notes' = notes /\ NoteIds' = NoteIds
    BY <1>7 DEF Relating, NoteIds
  <2>2. relations \subseteq relations' /\ relations' \subseteq NoteIds \X NoteIds \X Kinds
    BY <1>1, <1>7 DEF Relating, Kinds
  <2>. QED  BY <1>1, <2>1, <2>2 DEF Kept
<1>8. CASE Promoting
  <2>1. PICK i \in NoteIds, scope \in {"session", "workspace"},
             mark \in {"not_indexed", "pending_index"} :
          /\ notes' = Append(notes, PromotedRow(scope, mark))
          /\ relations' = relations \cup {<<NewId, i, "promoted_from">>}
    BY <1>8 DEF Promoting
  <2>2. /\ notes' \in Seq(NoteRow) /\ NoteIds' = NoteIds \cup {NewId}
        /\ \A j \in NoteIds : notes'[j] = notes[j]
    BY <1>1, <2>1, NewRows, AppendedRow
  <2>3. \A j \in NoteIds : Kept(j)
    BY <1>2, <2>2
  <2>4. relations' \subseteq NoteIds' \X NoteIds' \X Kinds
    BY <1>1, <2>1, <2>2 DEF Kinds
  <2>. QED  BY <2>1, <2>2, <2>3, <2>4
<1>9. CASE UNCHANGED <<notes, relations>>
  BY <1>1, <1>9 DEF Kept, NoteIds
<1>. QED  BY <1>3, <1>4, <1>5, <1>6, <1>7, <1>8, <1>9 DEF RowStep

-----------------------------------------------------------------------------
(***************************************************************************)
(* Type correctness.                                                       *)
(***************************************************************************)
LEMMA CallGoes ==
  ASSUME NoteInv, NoteIds \subseteq NoteIds', clock' = clock,
         NEW p \in Processes, NEW c, c \in Calls', Goes(p, c),
         c.step = "checked" => (c.relationship = "novel" <=> c.related = NoNote),
         c.step = "expiring" => c.now <= clock
  PROVE  op' \in [Processes -> Calls'] /\ CallsRemember'
<1>1. op \in [Processes -> Calls] /\ Calls \subseteq Calls'
  BY CallsGrow DEF NoteInv, NoteTypeOK
<1>2. /\ op'[p] = c
      /\ \A q \in Processes \ {p} : op'[q] = op[q]
      /\ op' \in [Processes -> Calls']
  BY <1>1 DEF Goes
<1>3. ASSUME NEW q \in Processes \ {p}
      PROVE  /\ At(q, "checked")' => (op'[q].relationship = "novel" <=> op'[q].related = NoNote)
             /\ At(q, "expiring")' => op'[q].now <= clock'
  BY <1>2, <1>3 DEF NoteInv, CallsRemember, At
<1>4. /\ At(p, "checked")' => (op'[p].relationship = "novel" <=> op'[p].related = NoNote)
      /\ At(p, "expiring")' => op'[p].now <= clock'
  BY <1>2 DEF At
<1>. QED  BY <1>2, <1>3, <1>4 DEF CallsRemember

\* The row a step adds is one of the rows after it.
LEMMA NewIdAdded ==
  ASSUME NoteTypeOK,
         \/ \E t, by, print, revision : AddCandidate(t, by, print, revision)
         \/ \E t : \E old \in NoteIds : ReplaceBy(t, old)
         \/ \E scope, mark : notes' = Append(notes, PromotedRow(scope, mark))
  PROVE  NewId \in NoteIds'
<1>1. Len(notes) \in Nat /\ notes \in Seq(NoteRow)
  BY NoteRows DEF NoteTypeOK
<1>2. PICK before, row : notes' = Append(before, row) /\ Len(before) = Len(notes)
  <2>1. \A f, i : Len([notes EXCEPT ![i] = f]) = Len(notes)
    BY <1>1, NoteRows DEF NoteIds
  <2>. QED  BY <2>1 DEF AddCandidate, ReplaceBy
<1>. QED  BY <1>1, <1>2 DEF NoteIds, NewId

\* What a step does to the calls of the processes.
LEMMA CallSteps ==
  ASSUME NoteInv, NoteNext, RowStep
  PROVE  op' \in [Processes -> Calls'] /\ CallsRemember' /\ clock' \in Nat \ {0}
<1>0. /\ op \in [Processes -> Calls] /\ CallsRemember /\ clock \in Nat \ {0}
      /\ \A p \in Processes : op[p] \in Calls
      /\ \A i \in NoteIds : notes[i] \in NoteRow
      /\ NoteIds \subseteq NoteIds' /\ Calls \subseteq Calls'
  BY NoteRows, Evolution, CallsGrow DEF NoteInv, NoteTypeOK
<1>1. ASSUME op' = op, clock' \in Nat \ {0}, clock <= clock'
      PROVE  op' \in [Processes -> Calls'] /\ CallsRemember'
  <2>1. op' \in [Processes -> Calls']
    BY <1>0, <1>1
  <2>2. ASSUME NEW p \in Processes, At(p, "expiring")
        PROVE  op[p].now <= clock'
    <3>1. op[p].now \in Nat /\ op[p].now <= clock
      BY <1>0, <2>2, CallFields DEF CallsRemember, At
    <3>. QED  BY <1>0, <1>1, <3>1
  <2>3. CallsRemember'
    BY <1>0, <1>1, <2>2 DEF CallsRemember, At
  <2>. QED  BY <2>1, <2>3
<1>2. ASSUME clock' = clock, NEW p \in Processes, Goes(p, Idle)
      PROVE  op' \in [Processes -> Calls'] /\ CallsRemember'
  <2>1. Idle \in Calls' /\ Idle.step = "idle"
    BY DEF Calls, Idle
  <2>. QED  BY <1>0, <1>2, <2>1, CallGoes
<1>3. ASSUME clock' = clock, NEW p \in Processes, NEW t \in Threads,
             NEW rest \in SUBSET NoteIds, Goes(p, Reconciling(t, rest))
      PROVE  op' \in [Processes -> Calls'] /\ CallsRemember'
  <2>1. /\ Reconciling(t, rest) \in Calls
        /\ Reconciling(t, rest).step \in {"idle", "reconciling"}
    BY DEF Reconciling, Calls, Idle
  <2>. QED  BY <1>0, <1>3, <2>1, CallGoes
<1>4. ASSUME NEW p \in Processes, clock' = clock, NewId \in NoteIds', NEW c, Goes(p, c),
             \/ c = [step |-> "adding", note |-> NewId]
             \/ c = [step |-> "replaced", note |-> NewId]
             \/ \E t \in Threads : c = [step |-> "putting", thread |-> t, note |-> NewId, rest |-> {}]
      PROVE  op' \in [Processes -> Calls'] /\ CallsRemember'
  <2>1. c \in Calls'
    BY <1>0, <1>4 DEF Calls
  <2>2. c.step \in {"adding", "replaced", "putting"}
    BY <1>4
  <2>. QED  BY <1>0, <1>4, <2>1, <2>2, CallGoes
<1>5. CASE UserStep
  <2>1. PICK t \in Threads :
          \/ \E p \in Processes : AddNoteCandidate(p, t)
          \/ \E i \in NoteIds :
               \/ ConfirmNote(t, i) \/ RetractNote(t, i) \/ RejectCandidate(t, i)
               \/ \E p \in Processes : ReviseRead(p, t, i)
    BY <1>5 DEF UserStep
  <2>2. ASSUME NEW p \in Processes, AddNoteCandidate(p, t)
        PROVE  op' \in [Processes -> Calls'] /\ CallsRemember' /\ clock' = clock
    <3>1. clock' = clock /\ Goes(p, [step |-> "adding", note |-> NewId])
      BY <2>2 DEF AddNoteCandidate
    <3>2. NewId \in NoteIds'
      BY <2>2, NewIdAdded DEF AddNoteCandidate, NoteInv
    <3>. QED  BY <1>4, <3>1, <3>2
  <2>3. ASSUME NEW i \in NoteIds, NEW p \in Processes, ReviseRead(p, t, i)
        PROVE  op' \in [Processes -> Calls'] /\ CallsRemember' /\ clock' = clock
    <3>1. PICK c : c = [step |-> "revising", note |-> i, read |-> notes[i].status]
      OBVIOUS
    <3>2. clock' = clock /\ Goes(p, c) /\ notes[i].status \in Live
      BY <2>3, <3>1 DEF ReviseRead
    <3>3. c \in Calls /\ c.step = "revising"
      BY <3>1, <3>2 DEF Calls
    <3>. QED  BY <1>0, <3>2, <3>3, CallGoes
  <2>4. ASSUME NEW i \in NoteIds, ConfirmNote(t, i) \/ RetractNote(t, i) \/ RejectCandidate(t, i)
        PROVE  op' = op /\ clock' = clock
    BY <2>4 DEF ConfirmNote, RetractNote, RejectCandidate
  <2>. QED  BY <1>0, <1>1, <2>1, <2>2, <2>3, <2>4
<1>6. CASE CallStep
  <2>1. PICK p \in Processes : ConfirmOwn(p) \/ ReviseReplace(p) \/ ReviseRefused(p)
    BY <1>6 DEF CallStep
  <2>2. clock' = clock
    BY <2>1 DEF ConfirmOwn, ReviseReplace, ReviseRefused
  <2>3. CASE ReviseReplace(p)
    <3>1. op[p].note \in NoteIds
      BY <1>0, <2>3, CallFields DEF ReviseReplace, At
    <3>2. NewId \in NoteIds'
      BY <2>3, <3>1, NewIdAdded DEF ReviseReplace, NoteInv
    <3>3. Goes(p, Idle) \/ Goes(p, [step |-> "replaced", note |-> NewId])
      BY <2>3 DEF ReviseReplace
    <3>. QED  BY <1>0, <1>2, <1>4, <2>2, <3>2, <3>3
  <2>. QED  BY <1>0, <1>2, <2>1, <2>2, <2>3 DEF ConfirmOwn, ReviseRefused
<1>7. CASE SubmitStep
  <2>1. PICK p \in Processes :
          \/ \E t \in Threads, print \in Contents, relationship \in Relationships,
                related \in NoteIds \cup {NoNote} : SubmitCheck(p, t, print, relationship, related)
          \/ SubmitAdd(p)
          \/ SubmitRelate(p)
    BY <1>7 DEF SubmitStep
  <2>2. clock' = clock
    BY <2>1 DEF SubmitCheck, SubmitAdd, SubmitRelate
  <2>3. ASSUME NEW t \in Threads, NEW print \in Contents, NEW relationship \in Relationships,
               NEW related \in NoteIds \cup {NoNote}, SubmitCheck(p, t, print, relationship, related)
        PROVE  op' \in [Processes -> Calls'] /\ CallsRemember'
    <3>1. PICK revision : revision = ProposedRevision(relationship, related)
      OBVIOUS
    <3>2. PICK c : c = [step |-> "checked", thread |-> t, fingerprint |-> print,
                        related |-> related, relationship |-> relationship,
                        revision |-> revision]
      OBVIOUS
    <3>3. (relationship = "novel") = (related = NoNote) /\ Goes(p, c)
      BY <2>3, <3>1, <3>2 DEF SubmitCheck
    <3>4. revision \in Nat \ {0}
      BY <1>0, <3>1, <3>3 DEF ProposedRevision, NoteRow
    <3>5. c \in Calls /\ c.step = "checked" /\ (c.relationship = "novel" <=> c.related = NoNote)
      BY <3>2, <3>3, <3>4 DEF Calls
    <3>. QED  BY <1>0, <2>2, <3>3, <3>5, CallGoes
  <2>4. CASE SubmitAdd(p)
    <3>1. /\ op[p].related \in NoteIds \cup {NoNote} /\ op[p].relationship \in Relationships
          /\ (op[p].relationship = "novel" <=> op[p].related = NoNote)
      BY <1>0, <2>4, CallFields DEF SubmitAdd, At, CallsRemember
    <3>2. NewId \in NoteIds'
      BY <2>4, NewIdAdded DEF SubmitAdd, NoteInv
    <3>3. CASE op[p].related = NoNote
      BY <1>0, <1>2, <2>2, <2>4, <3>3 DEF SubmitAdd
    <3>4. CASE op[p].related # NoNote
      <4>1. PICK j \in NoteIds, relationship \in Relationships \ {"novel"} :
              j = op[p].related /\ relationship = op[p].relationship
        BY <3>1, <3>4
      <4>2. PICK c : c = [step |-> "proposed", note |-> NewId, related |-> j,
                          relationship |-> relationship]
        OBVIOUS
      <4>3. Goes(p, c)
        BY <2>4, <3>4, <4>1, <4>2 DEF SubmitAdd
      <4>4. c \in Calls' /\ c.step = "proposed"
        BY <1>0, <3>2, <4>2 DEF Calls
      <4>. QED  BY <1>0, <2>2, <4>3, <4>4, CallGoes
    <3>. QED  BY <3>3, <3>4
  <2>5. CASE SubmitRelate(p)
    BY <1>0, <1>2, <2>2, <2>5 DEF SubmitRelate
  <2>. QED  BY <1>0, <2>1, <2>2, <2>3, <2>4, <2>5
<1>8. CASE PromoteStep
  <2>1. PICK p \in Processes, t \in Threads, i \in NoteIds, scope \in Scopes :
          PromoteNote(p, t, i, scope)
    BY <1>8 DEF PromoteStep
  <2>2. /\ clock' = clock
        /\ \/ Goes(p, Idle)
           \/ Goes(p, [step |-> "putting", thread |-> t, note |-> NewId, rest |-> {}])
    BY <2>1 DEF PromoteNote
  <2>3. NewId \in NoteIds'
    BY <2>1, NewIdAdded DEF PromoteNote, NoteInv
  <2>. QED  BY <1>0, <1>2, <1>4, <2>2, <2>3
<1>9. CASE IndexStep
  <2>1. PICK p \in Processes :
          PutVector(p) \/ MarkRow(p) \/ (\E t \in Threads : ReconcileIndex(p, t)) \/ RetryNext(p)
    BY <1>9 DEF IndexStep
  <2>2. clock' = clock
    BY <2>1 DEF PutVector, MarkRow, ReconcileIndex, RetryNext
  <2>3. CASE PutVector(p)
    <3>1. op[p].thread \in Threads /\ op[p].note \in NoteIds /\ op[p].rest \subseteq NoteIds
      BY <1>0, <2>3, CallFields DEF PutVector, At
    <3>2. PICK mark \in {"indexed", "index_failed"} :
            Goes(p, [step |-> "marking", thread |-> op[p].thread, note |-> op[p].note,
                     rest |-> op[p].rest, mark |-> mark])
      BY <2>3 DEF PutVector
    <3>3. PICK c : c = [step |-> "marking", thread |-> op[p].thread, note |-> op[p].note,
                        rest |-> op[p].rest, mark |-> mark]
      OBVIOUS
    <3>4. c \in Calls /\ c.step = "marking" /\ Goes(p, c)
      BY <3>1, <3>2, <3>3 DEF Calls
    <3>. QED  BY <1>0, <2>2, <3>4, CallGoes
  <2>4. CASE MarkRow(p)
    <3>1. op[p].thread \in Threads /\ op[p].rest \subseteq NoteIds
      BY <1>0, <2>4, CallFields DEF MarkRow, At
    <3>. QED  BY <1>0, <1>3, <2>2, <2>4, <3>1 DEF MarkRow
  <2>5. ASSUME NEW t \in Threads, ReconcileIndex(p, t)
        PROVE  op' \in [Processes -> Calls'] /\ CallsRemember'
    <3>1. PICK c : c = [step |-> "reconciling", thread |-> t, rest |-> Unindexed]
      OBVIOUS
    <3>2. c \in Calls /\ c.step = "reconciling"
      BY <3>1 DEF Calls, Unindexed
    <3>3. Goes(p, c)
      BY <2>5, <3>1 DEF ReconcileIndex
    <3>. QED  BY <1>0, <2>2, <3>2, <3>3, CallGoes
  <2>6. CASE RetryNext(p)
    <3>1. op[p].thread \in Threads /\ op[p].rest \subseteq NoteIds
      BY <1>0, <2>6, CallFields DEF RetryNext, At
    <3>2. PICK i \in op[p].rest :
            \/ Goes(p, Idle)
            \/ Goes(p, Reconciling(op[p].thread, op[p].rest \ {i}))
            \/ Goes(p, [step |-> "putting", thread |-> op[p].thread, note |-> i,
                        rest |-> op[p].rest \ {i}])
      BY <2>6 DEF RetryNext
    <3>3. PICK c : c = [step |-> "putting", thread |-> op[p].thread, note |-> i,
                        rest |-> op[p].rest \ {i}]
      OBVIOUS
    <3>4. c \in Calls /\ c.step = "putting"
      BY <3>1, <3>3 DEF Calls
    <3>. QED  BY <1>0, <1>2, <1>3, <2>2, <3>1, <3>2, <3>3, <3>4, CallGoes
  <2>. QED  BY <1>0, <2>1, <2>2, <2>3, <2>4, <2>5, <2>6
<1>10. CASE RetentionStep
  <2>1. ASSUME NEW p \in Processes, ExpireNext(p)
        PROVE  op' \in [Processes -> Calls'] /\ CallsRemember' /\ clock' = clock
    <3>1. /\ op[p] \in [step : {"expiring"}, thread : Threads, rest : SUBSET NoteIds, now : Nat]
          /\ op[p].now <= clock
      BY <1>0, <2>1, CallFields DEF ExpireNext, At, CallsRemember
    <3>2. PICK rest \in SUBSET NoteIds : Goes(p, Idle) \/ Goes(p, [op[p] EXCEPT !.rest = rest])
      BY <2>1, <3>1 DEF ExpireNext
    <3>3. PICK c : c = [op[p] EXCEPT !.rest = rest]
      OBVIOUS
    <3>4. c \in Calls /\ c.step = "expiring" /\ c.now <= clock
      BY <3>1, <3>3 DEF Calls
    <3>5. clock' = clock
      BY <2>1 DEF ExpireNext
    <3>. QED  BY <1>0, <1>2, <3>2, <3>3, <3>4, <3>5, CallGoes
  <2>2. ASSUME NEW p \in Processes, NEW t \in Threads, ScanExpired(p, t)
        PROVE  op' \in [Processes -> Calls'] /\ CallsRemember' /\ clock' = clock
    <3>1. PICK c : c = [step |-> "expiring", thread |-> t, rest |-> Expirable, now |-> clock]
      OBVIOUS
    <3>2. c \in Calls /\ c.step = "expiring" /\ c.now <= clock
      BY <1>0, <3>1 DEF Calls, Expirable
    <3>3. Goes(p, c) /\ clock' = clock
      BY <2>2, <3>1 DEF ScanExpired
    <3>. QED  BY <1>0, <3>2, <3>3, CallGoes
  <2>3. ASSUME \E t \in Threads, i \in NoteIds :
                 \/ \E expires \in 1..MaxTime, policy \in {"default", "explicit"} :
                      SetExpiry(t, i, expires, policy)
                 \/ \E pinned \in BOOLEAN : Pin(t, i, pinned)
        PROVE  op' = op /\ clock' = clock
    BY <2>3 DEF SetExpiry, Pin
  <2>. QED  BY <1>0, <1>1, <1>10, <2>1, <2>2, <2>3 DEF RetentionStep
<1>11. CASE SearchStep
  BY <1>0, <1>1, <1>11 DEF SearchStep, Search, ReconcileStale
<1>12. CASE TimePasses
  BY <1>0, <1>1, <1>12 DEF TimePasses
<1>13. CASE CrashStep
  BY <1>0, <1>2, <1>13 DEF CrashStep, Crash
<1>. QED  BY <1>5, <1>6, <1>7, <1>8, <1>9, <1>10, <1>11, <1>12, <1>13 DEF NoteNext

\* The index and what a search found stale hold ids of rows.
LEMMA IndexSteps ==
  ASSUME NoteInv, NoteNext, NoteIds \subseteq NoteIds'
  PROVE  index' \subseteq NoteIds' /\ stale' \in [Processes -> SUBSET NoteIds']
<1>1. /\ index \subseteq NoteIds /\ stale \in [Processes -> SUBSET NoteIds]
      /\ \A p \in Processes : op[p] \in Calls
  BY DEF NoteInv, NoteTypeOK
<1>2. CASE IndexStep
  <2>1. PICK p \in Processes :
          PutVector(p) \/ MarkRow(p) \/ (\E t \in Threads : ReconcileIndex(p, t)) \/ RetryNext(p)
    BY <1>2 DEF IndexStep
  <2>2. CASE PutVector(p)
    <3>1. op[p].note \in NoteIds
      BY <1>1, <2>2, CallFields DEF PutVector, At
    <3>. QED  BY <1>1, <2>2, <3>1 DEF PutVector
  <2>. QED  BY <1>1, <2>1, <2>2 DEF MarkRow, ReconcileIndex, RetryNext
<1>3. CASE SearchStep
  <2>1. PICK p \in Processes :
          \/ \E t \in Threads, scopes \in SUBSET Scopes, ids \in SUBSET index :
               Search(p, t, scopes, ids)
          \/ \E deleted \in SUBSET stale[p] : ReconcileStale(p, deleted)
    BY <1>3 DEF SearchStep
  <2>2. \A u, scopes : Searchable(u, scopes) \subseteq NoteIds
    BY DEF Searchable
  <2>. QED  BY <1>1, <2>1, <2>2 DEF Search, ReconcileStale
<1>4. CASE CrashStep
  BY <1>1, <1>4 DEF CrashStep, Crash
<1>5. ASSUME index' = index /\ stale' = stale
      PROVE  index' \subseteq NoteIds' /\ stale' \in [Processes -> SUBSET NoteIds']
  BY <1>1, <1>5
<1>6. CASE UserStep \/ CallStep \/ SubmitStep \/ PromoteStep \/ RetentionStep \/ TimePasses
  BY ZenonT(40), <1>5, <1>6
     DEF UserStep, AddNoteCandidate, ConfirmNote, RetractNote, RejectCandidate, ReviseRead,
         CallStep, ConfirmOwn, ReviseReplace, ReviseRefused,
         SubmitStep, SubmitCheck, SubmitAdd, SubmitRelate, PromoteStep, PromoteNote,
         RetentionStep, SetExpiry, Pin, ScanExpired, ExpireNext, TimePasses
<1>. QED  BY <1>2, <1>3, <1>4, <1>6 DEF NoteNext

LEMMA NoteInvInit ==
  ASSUME NoteInit
  PROVE  NoteInv
<1>1. notes = <<>> /\ NoteIds = {}
  BY DEF NoteInit, NoteIds
<1>2. Idle \in Calls /\ Idle.step = "idle"
  BY DEF Calls, Idle
<1>. QED  BY <1>1, <1>2, EmptySeq DEF NoteInit, NoteInv, NoteTypeOK, CallsRemember, At

LEMMA NoteInvStep ==
  ASSUME NoteInv, [NoteNext]_noteVars
  PROVE  NoteInv'
<1>1. CASE NoteNext
  <2>1. RowStep
    BY <1>1, RowSteps
  <2>2. /\ notes' \in Seq(NoteRow) /\ NoteIds \subseteq NoteIds'
        /\ relations' \subseteq NoteIds' \X NoteIds' \X Kinds
    BY <2>1, Evolution DEF NoteInv
  <2>3. index' \subseteq NoteIds' /\ stale' \in [Processes -> SUBSET NoteIds']
    BY <1>1, <2>2, IndexSteps
  <2>4. op' \in [Processes -> Calls'] /\ CallsRemember' /\ clock' \in Nat \ {0}
    BY <1>1, <2>1, CallSteps
  <2>. QED  BY <2>2, <2>3, <2>4 DEF NoteInv, NoteTypeOK
<1>2. CASE UNCHANGED noteVars
  BY <1>2 DEF noteVars, NoteInv, NoteTypeOK, CallsRemember, At, NoteIds, Calls
<1>. QED  BY <1>1, <1>2

\* The note rows, their relations and what the calls of the processes carry between
\* two transactions keep their types, and a scan expires rows by a time that has
\* come (LongTermMemoryService, RetentionService).
THEOREM NotesTyped == NoteSpec => []NoteInv
  BY NoteInvInit, NoteInvStep, PTL DEF NoteSpec

\* What a step of the notes does to the rows, or leaves alone.
LEMMA NoteSteps ==
  ASSUME NoteInv, [NoteNext]_noteVars
  PROVE  RowStep
  BY RowSteps DEF noteVars, RowStep

-----------------------------------------------------------------------------
(***************************************************************************)
(* States left are not taken again.                                        *)
(***************************************************************************)

\* No late step of a call brings a row back that was rejected, retracted, replaced
\* or expired (confirm_note, add_candidate, promote_note).
THEOREM RetiredStays == NoteSpec => RetiredStaysRetired
<1>1. NoteInv /\ [NoteNext]_noteVars =>
        [\A i \in NoteIds : notes[i].status \notin Live => notes'[i].status \notin Live]_noteVars
  BY NoteSteps, Evolution DEF NoteInv, Kept
<1>. QED  BY <1>1, NotesTyped, PTL DEF NoteSpec, RetiredStaysRetired

\* A scan that listed a row earlier expires it only where it is due now, so a longer
\* expiry or a pin set meanwhile holds (scan_expired, _row).
THEOREM DueRowsExpire == NoteSpec => OnlyDueRowsExpire
<1>1. NoteInv /\ [NoteNext]_noteVars =>
        [\A i \in NoteIds : notes[i].status # "expired" /\ notes'[i].status = "expired"
                              => Due(i)]_noteVars
  BY NoteSteps, Evolution DEF NoteInv, Kept
<1>. QED  BY <1>1, NotesTyped, PTL DEF NoteSpec, OnlyDueRowsExpire

-----------------------------------------------------------------------------
(***************************************************************************)
(* Replacements and promotions.                                            *)
(***************************************************************************)

\* A replaced row is out of use: the reason two replacements cannot both happen.
ReplacedAreRetired ==
  \A i \in NoteIds : notes[i].supersedes # NoNote =>
    /\ notes[i].supersedes \in NoteIds
    /\ notes[notes[i].supersedes].status \notin Live

\* What a step adds to the rows.
LEMMA NewRowIs ==
  ASSUME NoteTypeOK, RowStep, NEW i \in NoteIds' \ NoteIds
  PROVE  /\ i = NewId
         /\ notes'[i].status \in Live /\ notes'[i].mark # "indexed"
         /\ \/ notes'[i].supersedes = NoNote
            \/ \E old \in NoteIds :
                 /\ notes[old].status \in Live /\ notes'[old].status \notin Live
                 /\ notes'[i].supersedes = old
<1>1. /\ notes \in Seq(NoteRow) /\ NoteIds' \subseteq NoteIds \cup {NewId}
      /\ \A j \in NoteIds : notes[j] \in NoteRow
  BY NoteRows, Evolution DEF NoteTypeOK
<1>2. i = NewId
  BY <1>1
<1>3. CASE Adding
  <2>1. PICK t \in Threads, by \in {"user", "model"}, print \in Contents \cup {NoPrint},
             revision \in Nat \ {0} : AddCandidate(t, by, print, revision)
    BY <1>3 DEF Adding
  <2>2. PICK row : row = NewCandidate(t, by, print, revision, NoNote)
    OBVIOUS
  <2>3. row \in NoteRow
    BY <2>2, NewRows DEF NoNote
  <2>4. notes'[i] = row
    BY <1>1, <1>2, <2>1, <2>2, <2>3, AppendedRow DEF AddCandidate
  <2>. QED  BY <1>2, <2>2, <2>4 DEF NewCandidate, Live
<1>4. CASE Replacing
  <2>1. PICK old \in NoteIds, t \in Threads \cup {NoThread} : ReplaceBy(t, old)
    BY <1>4 DEF Replacing
  <2>2. /\ NewId \in NoteIds' /\ notes'[NewId].supersedes = old
        /\ notes'[NewId].status = "candidate" /\ notes'[NewId].mark = "not_indexed"
        /\ notes'[old].status \in {"rejected", "superseded"} /\ notes[old].status \in Live
    BY <2>1, Replaced
  <2>. QED  BY <1>2, <2>2 DEF Live
<1>5. CASE Promoting
  <2>1. PICK scope \in {"session", "workspace"}, mark \in {"not_indexed", "pending_index"} :
          notes' = Append(notes, PromotedRow(scope, mark))
    BY <1>5 DEF Promoting
  <2>2. notes'[i] = PromotedRow(scope, mark)
    BY <1>1, <1>2, <2>1, NewRows, AppendedRow
  <2>. QED  BY <1>2, <2>2 DEF PromotedRow, Live
<1>6. CASE Touching
  BY <1>6, TouchedRows DEF Touching
<1>7. CASE Confirming
  BY <1>7, ConfirmedRows DEF Confirming
<1>8. CASE Relating \/ UNCHANGED <<notes, relations>>
  BY <1>8 DEF Relating, NoteIds
<1>. QED  BY <1>3, <1>4, <1>5, <1>6, <1>7, <1>8 DEF RowStep

\* add_candidate accepts one replacement of a note: the second process that revises
\* it finds it rejected or superseded, whatever it read before (revise_note).
THEOREM ReplacedOnce == NoteSpec => []OneReplacement
<1>. DEFINE Inv == OneReplacement /\ ReplacedAreRetired
<1>1. NoteInit => Inv
  BY DEF NoteInit, NoteIds, OneReplacement, ReplacedAreRetired
<1>2. NoteInv /\ Inv /\ [NoteNext]_noteVars => Inv'
  <2>. SUFFICES ASSUME NoteInv, Inv, RowStep
                PROVE  Inv'
    BY NoteSteps
  <2>1. /\ NoteTypeOK /\ NoteIds \subseteq NoteIds'
        /\ \A i \in NoteIds : /\ notes'[i].supersedes = notes[i].supersedes
                              /\ notes[i].status \notin Live => notes'[i].status \notin Live
    BY Evolution DEF NoteInv, Kept
  <2>2. \A i \in NoteIds' \ NoteIds :
          /\ i = NewId
          /\ \/ notes'[i].supersedes = NoNote
             \/ \E old \in NoteIds :
                  /\ notes[old].status \in Live /\ notes'[old].status \notin Live
                  /\ notes'[i].supersedes = old
    BY <2>1, NewRowIs
  <2>3. OneReplacement'
    BY <2>1, <2>2 DEF OneReplacement, ReplacedAreRetired
  <2>4. ReplacedAreRetired'
    BY <2>1, <2>2 DEF ReplacedAreRetired
  <2>. QED  BY <2>3, <2>4
<1>. QED  BY <1>1, <1>2, NotesTyped, PTL DEF NoteSpec

\* A row leaves for superseded by a replacement the user wrote, or when a row that
\* supersedes it is confirmed (submit, confirm_note, add_candidate).
THEOREM ProposalsWait == NoteSpec => []ProposalsWaitForConfirmation
<1>1. NoteInit => ProposalsWaitForConfirmation
  BY DEF NoteInit, NoteIds, ProposalsWaitForConfirmation
<1>2. NoteInv /\ ProposalsWaitForConfirmation /\ [NoteNext]_noteVars
        => ProposalsWaitForConfirmation'
  <2>. SUFFICES ASSUME NoteInv, ProposalsWaitForConfirmation, RowStep,
                       NEW i \in NoteIds', notes'[i].status = "superseded"
                PROVE  \E j \in NoteIds' : /\ <<j, i, "supersedes">> \in relations'
                                           /\ notes'[j].by = "user" \/ notes'[j].confirmed
    BY NoteSteps DEF ProposalsWaitForConfirmation
  <2>1. /\ NoteTypeOK /\ NoteIds \subseteq NoteIds' /\ relations \subseteq relations'
        /\ \A j \in NoteIds : Kept(j)
    BY Evolution DEF NoteInv
  <2>2. i \in NoteIds
    BY <2>1, NewRowIs DEF Live
  <2>3. CASE notes[i].status = "superseded"
    <3>1. PICK j \in NoteIds : /\ <<j, i, "supersedes">> \in relations
                               /\ notes[j].by = "user" \/ notes[j].confirmed
      BY <2>2, <2>3 DEF ProposalsWaitForConfirmation
    <3>2. notes'[j].by = "user" \/ notes'[j].confirmed
      BY <2>1, <3>1 DEF Kept
    <3>. QED  BY <2>1, <3>1, <3>2
  <2>4. CASE notes[i].status # "superseded"
    <3>1. CASE Touching
      BY <2>1, <2>2, <2>4, <3>1, TouchedRows DEF Touching, Touched
    <3>2. CASE Confirming
      <4>1. PICK j \in NoteIds : Confirmed(j)
        BY <3>2 DEF Confirming
      <4>2. i # j /\ i \in Supersedes(j) /\ notes'[j].confirmed
        BY <2>1, <2>2, <2>4, <4>1, ConfirmedRows
      <4>. QED  BY <2>1, <4>2 DEF Supersedes
    <3>3. CASE Adding \/ Promoting
      <4>1. \E row \in NoteRow : notes' = Append(notes, row)
        BY <3>3, NewRows DEF Adding, AddCandidate, Promoting, NoNote
      <4>. QED  BY <2>1, <2>2, <2>4, <4>1, AppendedRow DEF NoteTypeOK
    <3>4. CASE Replacing
      <4>1. PICK old \in NoteIds, t \in Threads \cup {NoThread} : ReplaceBy(t, old)
        BY <3>4 DEF Replacing
      <4>2. /\ NewId \in NoteIds' /\ notes'[NewId].by = "user"
            /\ <<NewId, old, "supersedes">> \in relations'
            /\ \A j \in NoteIds \ {old} : notes'[j] = notes[j]
        BY <2>1, <4>1, Replaced
      <4>. QED  BY <2>2, <2>4, <4>2
    <3>5. CASE Relating \/ UNCHANGED <<notes, relations>>
      BY <2>4, <3>5 DEF Relating
    <3>. QED  BY <3>1, <3>2, <3>3, <3>4, <3>5 DEF RowStep
  <2>. QED  BY <2>3, <2>4
<1>. QED  BY <1>1, <1>2, NotesTyped, PTL DEF NoteSpec

\* promote_note asks for any row made of the note in the scope, in use or not, so
\* a token used again makes no second row.
THEOREM PromotedAtMostOnce == NoteSpec => []PromotedOnce
<1>1. NoteInit => PromotedOnce
  BY DEF NoteInit, NoteIds, PromotedOnce
<1>2. NoteInv /\ PromotedOnce /\ [NoteNext]_noteVars => PromotedOnce'
  <2>. SUFFICES ASSUME NoteInv, PromotedOnce, RowStep
                PROVE  PromotedOnce'
    BY NoteSteps
  <2>1. /\ NoteTypeOK /\ relations \subseteq NoteIds \X NoteIds \X Kinds
        /\ \A j \in NoteIds : notes'[j].scope = notes[j].scope
    BY Evolution DEF NoteInv, NoteTypeOK, Kept
  <2>2. CASE Promoting
    <3>1. PICK i \in NoteIds, scope \in {"session", "workspace"},
             mark \in {"not_indexed", "pending_index"} :
            /\ Promotions(i, scope) = {}
            /\ notes' = Append(notes, PromotedRow(scope, mark))
            /\ relations' = relations \cup {<<NewId, i, "promoted_from">>}
      BY <2>2 DEF Promoting
    <3>2. notes'[NewId].scope = scope
      <4>1. notes \in Seq(NoteRow)
        BY <2>1 DEF NoteTypeOK
      <4>2. notes'[NewId] = PromotedRow(scope, mark)
        BY <2>1, <3>1, <4>1, NewRows, AppendedRow
      <4>. QED  BY <4>2 DEF PromotedRow
    <3>3. \A j, k : <<j, k, "promoted_from">> \in relations' =>
            \/ j \in NoteIds /\ k \in NoteIds /\ <<j, k, "promoted_from">> \in relations
            \/ j = NewId /\ k = i
      BY <2>1, <3>1
    <3>4. \A j \in NoteIds : <<j, i, "promoted_from">> \in relations => notes'[j].scope # scope
      BY <2>1, <3>1 DEF Promotions
    <3>. SUFFICES ASSUME NEW j, NEW k, NEW l, <<j, l, "promoted_from">> \in relations',
                         <<k, l, "promoted_from">> \in relations', notes'[j].scope = notes'[k].scope
                  PROVE  j = k
      BY DEF PromotedOnce
    <3>5. CASE j \in NoteIds /\ k \in NoteIds /\ <<j, l, "promoted_from">> \in relations
               /\ <<k, l, "promoted_from">> \in relations
      BY <2>1, <3>5 DEF PromotedOnce
    <3>6. CASE j = NewId /\ l = i
      BY <3>2, <3>3, <3>4, <3>6
    <3>7. CASE k = NewId /\ l = i
      BY <3>2, <3>3, <3>4, <3>7
    <3>. QED  BY <3>3, <3>5, <3>6, <3>7
  <2>3. CASE ~Promoting
    <3>1. \A j, k : <<j, k, "promoted_from">> \in relations' => <<j, k, "promoted_from">> \in relations
      <4>1. CASE Touching \/ Confirming \/ Adding \/ UNCHANGED <<notes, relations>>
        BY <4>1 DEF Touching, Confirming, Adding
      <4>2. CASE Replacing
        <5>1. PICK old : relations' = relations \cup {<<NewId, old, "supersedes">>}
          BY <4>2 DEF Replacing, ReplaceBy
        <5>. QED  BY <5>1
      <4>3. CASE Relating
        BY <4>3 DEF Relating
      <4>. QED  BY <2>3, <4>1, <4>2, <4>3 DEF RowStep
    <3>2. \A j, k : <<j, k, "promoted_from">> \in relations => j \in NoteIds /\ k \in NoteIds
      BY <2>1
    <3>. QED  BY <2>1, <3>1, <3>2 DEF PromotedOnce
  <2>. QED  BY <2>2, <2>3
<1>. QED  BY <1>1, <1>2, NotesTyped, PTL DEF NoteSpec

-----------------------------------------------------------------------------
(***************************************************************************)
(* The index of the workspace rows, with the history of what reconcile_    *)
(* stale removed from it.                                                  *)
(***************************************************************************)
RecordedNext == NoteNext /\ reconciled' = reconciled \cup (index \ index')

RecordedSpec ==
  NoteInit /\ reconciled = {} /\ [][RecordedNext]_<<noteVars, reconciled>>

\* A put that succeeded and is not yet marked left a vector.
MarksFound ==
  \A p \in Processes :
    At(p, "marking") /\ op[p].mark = "indexed" => op[p].note \in index \cup reconciled

\* A call is about to mark a row indexed only if it was so before, or has just put it.
LEMMA MarkingCalls ==
  ASSUME NoteInv, NoteNext, NEW p \in Processes, At(p, "marking")', op'[p].mark = "indexed"
  PROVE  op'[p] = op[p] \/ op'[p].note \in index'
<1>1. op \in [Processes -> Calls] /\ \A q \in Processes : op[q] \in Calls
  BY DEF NoteInv, NoteTypeOK
<1>2. ASSUME NEW q \in Processes, NEW c, Goes(q, c), c.step # "marking"
      PROVE  op'[p] = op[p]
  BY <1>1, <1>2 DEF Goes, At
<1>3. ASSUME NEW q \in Processes, Goes(q, Idle)
      PROVE  op'[p] = op[p]
  BY <1>2, <1>3 DEF Idle
<1>4. ASSUME NEW q \in Processes, NEW t, NEW rest, Goes(q, Reconciling(t, rest))
      PROVE  op'[p] = op[p]
  BY <1>2, <1>4 DEF Idle, Reconciling
<1>5. CASE UserStep
  BY <1>2, <1>5 DEF UserStep, AddNoteCandidate, ConfirmNote, RetractNote, RejectCandidate,
                    ReviseRead
<1>6. CASE CallStep
  BY <1>2, <1>3, <1>6 DEF CallStep, ConfirmOwn, ReviseReplace, ReviseRefused
<1>7. CASE SubmitStep
  BY <1>2, <1>3, <1>7 DEF SubmitStep, SubmitCheck, SubmitAdd, SubmitRelate
<1>8. CASE PromoteStep
  BY <1>2, <1>3, <1>8 DEF PromoteStep, PromoteNote
<1>9. CASE IndexStep
  <2>1. PICK q \in Processes :
          PutVector(q) \/ MarkRow(q) \/ (\E t \in Threads : ReconcileIndex(q, t)) \/ RetryNext(q)
    BY <1>9 DEF IndexStep
  <2>2. CASE PutVector(q)
    <3>1. PICK ok \in BOOLEAN :
            /\ index' = IF ok THEN index \cup {op[q].note} ELSE index
            /\ Goes(q, [step |-> "marking", thread |-> op[q].thread, note |-> op[q].note,
                        rest |-> op[q].rest,
                        mark |-> IF ok THEN "indexed" ELSE "index_failed"])
      BY <2>2 DEF PutVector
    <3>2. CASE p = q
      <4>1. /\ op'[p].note = op[q].note
            /\ op'[p].mark = IF ok THEN "indexed" ELSE "index_failed"
        BY <1>1, <3>1, <3>2 DEF Goes
      <4>. QED  BY <3>1, <4>1
    <3>3. CASE p # q
      BY <1>1, <3>1, <3>3 DEF Goes
    <3>. QED  BY <3>2, <3>3
  <2>3. CASE MarkRow(q)
    BY <1>4, <2>3 DEF MarkRow
  <2>4. CASE \E t \in Threads : ReconcileIndex(q, t)
    BY <1>2, <2>4 DEF ReconcileIndex
  <2>5. CASE RetryNext(q)
    <3>1. PICK i \in op[q].rest :
            \/ Goes(q, Idle)
            \/ Goes(q, Reconciling(op[q].thread, op[q].rest \ {i}))
            \/ Goes(q, [step |-> "putting", thread |-> op[q].thread, note |-> i,
                        rest |-> op[q].rest \ {i}])
      BY <2>5 DEF RetryNext
    <3>. QED  BY <1>2, <1>3, <1>4, <3>1
  <2>. QED  BY <2>1, <2>2, <2>3, <2>4, <2>5
<1>10. CASE RetentionStep
  <2>1. ASSUME NEW q \in Processes, ExpireNext(q)
        PROVE  op'[p] = op[p]
    <3>1. /\ op[q] \in [step : {"expiring"}, thread : Threads, rest : SUBSET NoteIds, now : Nat]
      BY <1>1, <2>1, CallFields DEF ExpireNext, At
    <3>2. PICK rest : Goes(q, Idle) \/ Goes(q, [op[q] EXCEPT !.rest = rest])
      BY <2>1 DEF ExpireNext
    <3>3. [op[q] EXCEPT !.rest = rest].step = "expiring"
      BY <3>1
    <3>. QED  BY <1>2, <1>3, <3>2, <3>3
  <2>. QED  BY <1>2, <1>10, <2>1 DEF RetentionStep, SetExpiry, Pin, ScanExpired
<1>11. CASE SearchStep \/ TimePasses \/ CrashStep
  BY <1>3, <1>11 DEF SearchStep, Search, ReconcileStale, TimePasses, CrashStep, Crash
<1>. QED  BY <1>5, <1>6, <1>7, <1>8, <1>9, <1>10, <1>11 DEF NoteNext

\* A row a step leaves marked indexed was so before, or a call marks it.
LEMMA MarkedRows ==
  ASSUME NoteTypeOK, RowStep, NEW i \in NoteIds', notes'[i].mark = "indexed"
  PROVE  /\ i \in NoteIds
         /\ \/ notes[i].mark = "indexed"
            \/ \E p \in Processes : At(p, "marking") /\ op[p].note = i /\ op[p].mark = "indexed"
<1>1. i \in NoteIds
  BY NewRowIs
<1>2. CASE Touching
  <2>1. PICK j \in NoteIds, row \in NoteRow :
          Touched(j, row) /\ notes' = [notes EXCEPT ![j] = row]
    BY <1>2 DEF Touching
  <2>2. /\ notes'[j] = row
        /\ \A k \in NoteIds \ {j} : notes'[k] = notes[k]
    BY <2>1, TouchedRows
  <2>. QED  BY <1>1, <2>1, <2>2 DEF Touched
<1>3. CASE Confirming
  BY <1>1, <1>3, ConfirmedRows DEF Confirming
<1>4. CASE Adding \/ Promoting
  <2>1. \E row \in NoteRow : notes' = Append(notes, row)
    BY <1>4, NewRows DEF Adding, AddCandidate, Promoting, NoNote
  <2>. QED  BY <1>1, <2>1, AppendedRow DEF NoteTypeOK
<1>5. CASE Replacing
  <2>1. PICK old \in NoteIds, t \in Threads \cup {NoThread} : ReplaceBy(t, old)
    BY <1>5 DEF Replacing
  <2>. QED  BY <1>1, <2>1, Replaced
<1>6. CASE Relating \/ UNCHANGED <<notes, relations>>
  BY <1>1, <1>6 DEF Relating
<1>. QED  BY <1>1, <1>2, <1>3, <1>4, <1>5, <1>6 DEF RowStep

\* A row is marked indexed only after its vector was put, in two steps between which
\* other processes put, mark and reconcile (_index_workspace, retry_index).
THEOREM IndexedHaveVectors == RecordedSpec => []IndexedRowsHaveVectors
<1>. DEFINE Inv == IndexedRowsHaveVectors /\ MarksFound
<1>1. NoteInit => Inv
  BY DEF NoteInit, NoteIds, IndexedRowsHaveVectors, MarksFound, At, Idle
<1>2. NoteInv /\ Inv /\ [RecordedNext]_<<noteVars, reconciled>> => Inv'
  <2>. SUFFICES ASSUME NoteInv, Inv, RecordedNext \/ UNCHANGED <<noteVars, reconciled>>
                PROVE  Inv'
    OBVIOUS
  <2>1. CASE UNCHANGED <<noteVars, reconciled>>
    BY <2>1 DEF noteVars, IndexedRowsHaveVectors, MarksFound, NoteIds, At
  <2>2. CASE RecordedNext
    <3>1. index \cup reconciled \subseteq index' \cup reconciled'
      BY <2>2 DEF RecordedNext
    <3>2. NoteTypeOK /\ RowStep
      BY <2>2, NoteSteps DEF RecordedNext, NoteInv
    <3>3. IndexedRowsHaveVectors'
      BY <3>1, <3>2, MarkedRows DEF IndexedRowsHaveVectors, MarksFound
    <3>4. MarksFound'
      BY <2>2, <3>1, MarkingCalls DEF MarksFound, RecordedNext, At
    <3>. QED  BY <3>3, <3>4
  <2>. QED  BY <2>1, <2>2
<1>3. RecordedSpec => NoteSpec
  <2>1. [RecordedNext]_<<noteVars, reconciled>> => [NoteNext]_noteVars
    BY DEF RecordedNext
  <2>. QED  BY <2>1, PTL DEF RecordedSpec, NoteSpec
<1>. QED  BY <1>1, <1>2, <1>3, NotesTyped, PTL DEF RecordedSpec

=============================================================================
