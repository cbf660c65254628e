------------------------ MODULE RollingSummaryProofs ------------------------
(***************************************************************************)
(* Proofs about RollingSummary for every set of threads, tool-call ids,    *)
(* recovering processes and builders, and every bound on the rows.         *)
(***************************************************************************)
EXTENDS RollingSummary, ThreadRunProofs, WellFoundedInduction

SummaryTypeOK ==
  /\ summaries \in Seq(SummaryRow)
  /\ builder \in [Builders -> Builds]

\* As long as the number a build read in the thread row is the next one, what it
\* selected is what it would select now.
BuildStands(b) ==
  /\ builder[b].step \in {"thread_read", "summary_read", "messages_read"} =>
       builder[b].row.next_thread_sequence <= threads[builder[b].thread].next_thread_sequence
  /\ builder[b].step = "messages_read" =>
       /\ builder[b].selected # {}
       /\ builder[b].row.next_thread_sequence
            = threads[builder[b].thread].next_thread_sequence
          => builder[b].selected
               = CompleteMessagesAfter(builder[b].thread, Watermark(builder[b].old))

BuildsStand == \A b \in Builders : BuildStands(b)

OneActive ==
  \A r, s \in SummaryIds :
    /\ summaries[r].status = "active" /\ summaries[s].status = "active"
    /\ summaries[r].thread = summaries[s].thread
    => r = s

\* What is appended from now on comes after every watermark.
CoveredNumbered ==
  \A s \in SummaryIds :
    summaries[s].covered < threads[summaries[s].thread].next_thread_sequence

TablesInv == ThreadInv /\ SummaryTypeOK /\ BuildsStand /\ OneActive /\ CoveredNumbered

-----------------------------------------------------------------------------
(***************************************************************************)
(* The largest number of a bounded set.                                    *)
(***************************************************************************)
LEMMA LeastNatural ==
  ASSUME NEW T, T \subseteq Nat, T # {}
  PROVE  \E x \in T : \A y \in T : x <= y
<1>. DEFINE Less == {ss \in Nat \X Nat : ss[1] < ss[2]}
<1>1. IsWellFoundedOn(Less, Nat)
  BY NatLessThanWellFounded DEF OpToRel
<1>. HIDE DEF Less
<1>2. PICK x \in T : \A y \in T : ~ (<<y, x>> \in Less)
  BY <1>1, WFMin
<1>3. \A y \in T : ~ (y < x)
  BY <1>2 DEF Less
<1>. QED  BY <1>2, <1>3

LEMMA LargestNumber ==
  ASSUME NEW S, S \subseteq Nat, S # {}, NEW n \in Nat, \A x \in S : x < n
  PROVE  Max(S) \in S /\ \A x \in S : x <= Max(S)
<1>1. PICK T : T = {k \in Nat : \A x \in S : x <= k}
  OBVIOUS
<1>2. n \in T /\ T \subseteq Nat
  BY <1>1
<1>3. PICK k \in T : \A y \in T : k <= y
  BY <1>2, LeastNatural
<1>4. k \in S
  <2>. SUFFICES ASSUME k \notin S
                PROVE  FALSE
    OBVIOUS
  <2>1. k \in Nat /\ \A x \in S : x < k
    BY <1>1
  <2>2. k - 1 \in Nat
    <3>1. PICK x \in S : x \in Nat /\ x < k
      BY <2>1
    <3>. QED  BY <2>1, <3>1
  <2>3. ASSUME NEW x \in S
        PROVE  x <= k - 1
    <3>1. x \in Nat /\ x < k
      BY <2>1, <2>3
    <3>. QED  BY <2>1, <3>1
  <2>4. k - 1 \in T
    BY <1>1, <2>2, <2>3
  <2>. QED  BY <1>3, <2>1, <2>4
<1>5. \A x \in S : k >= x
  BY <1>1
<1>. QED  BY <1>4, <1>5 DEF Max

-----------------------------------------------------------------------------
(***************************************************************************)
(* What a build selects.                                                   *)
(***************************************************************************)

\* In a thread, the number of a message tells its place in the table.
LEMMA ThreadMessageFacts ==
  ASSUME ThreadInv, NEW t \in Threads, NEW m \in ThreadMessages(t)
  PROVE  /\ m \in MessageIds /\ messages[m].thread = t /\ messages[m].run \in RunIds
         /\ messages[m].thread_sequence \in Nat
         /\ messages[m].thread_sequence < threads[t].next_thread_sequence
         /\ threads[t].next_thread_sequence \in Nat
         /\ \A n \in ThreadMessages(t) :
              messages[m].thread_sequence < messages[n].thread_sequence =>
                m < n /\ messages[m].run <= messages[n].run
         /\ \A n \in ThreadMessages(t) :
              messages[m].thread_sequence = messages[n].thread_sequence => m = n
<1>1. /\ \A k \in MessageIds : k \in Nat /\ messages[k] \in MessageRow /\ messages[k].run \in RunIds
      /\ threads \in [Threads -> ThreadRow]
  BY RowTypes DEF ThreadInv, TypeOK
<1>2. \A k \in MessageIds : messages[k].thread_sequence \in Nat
  BY <1>1 DEF MessageRow
<1>3. \A k \in ThreadMessages(t) : k \in MessageIds /\ messages[k].thread = t
  BY DEF ThreadMessages
<1>4. threads[t].next_thread_sequence \in Nat
  BY <1>1 DEF ThreadRow
<1>5. messages[m].thread_sequence < threads[t].next_thread_sequence
  BY <1>3 DEF ThreadInv, TranscriptOrder, MessagesNumbered
<1>6. \A k, n \in ThreadMessages(t) : k < n =>
        messages[k].thread_sequence < messages[n].thread_sequence /\ messages[k].run <= messages[n].run
  BY <1>3 DEF ThreadInv, TranscriptOrder, MessagesOrdered
<1>7. ASSUME NEW n \in ThreadMessages(t)
      PROVE  /\ messages[m].thread_sequence < messages[n].thread_sequence =>
                  m < n /\ messages[m].run <= messages[n].run
             /\ messages[m].thread_sequence = messages[n].thread_sequence => m = n
  <2>1. m \in Nat /\ n \in Nat /\ messages[m].thread_sequence \in Nat
        /\ messages[n].thread_sequence \in Nat
    BY <1>1, <1>2, <1>3
  <2>2. m < n \/ m = n \/ n < m
    BY <2>1
  <2>. QED  BY <1>6, <2>1, <2>2
<1>. QED  BY <1>1, <1>2, <1>3, <1>4, <1>5, <1>7

\* A call that is answered stays answered.
LEMMA CallsStayAnswered ==
  ASSUME ThreadInv, StepCase, NEW m \in MessageIds
  PROVE  OpenCalls(m)' \subseteq OpenCalls(m)
<1>1. PICK r : r = messages[m].run
  OBVIOUS
<1>2. messages'[m] = messages[m]
  BY MessageSteps
<1>3. \A n \in MessagesOf(r) : n \in MessagesOf(r)' /\ messages'[n] = messages[n]
  BY MessageSteps DEF MessagesOf
<1>4. \A c \in Consumed(MessagesOf(r)) : c \in Consumed(MessagesOf(r))'
  <2>. SUFFICES ASSUME NEW c \in Consumed(MessagesOf(r))
                PROVE  c \in Consumed(MessagesOf(r))'
    OBVIOUS
  <2>1. PICK n \in MessagesOf(r) : c = messages[n].result /\ c # NoCall
    BY DEF Consumed
  <2>. QED  BY <1>3, <2>1 DEF Consumed
<1>. QED  BY <1>1, <1>2, <1>4 DEF OpenCalls

\* A step that takes no number of a thread changes no selection in it.
LEMMA SelectionStands ==
  ASSUME ThreadInv, ThreadInv', StepCase, NEW t \in Threads, NEW w,
         threads'[t].next_thread_sequence = threads[t].next_thread_sequence
  PROVE  CompleteMessagesAfter(t, w)' = CompleteMessagesAfter(t, w)
<1>1. threads[t].next_thread_sequence \in Nat
  BY DEF ThreadInv, TypeOK, ThreadRow
<1>2. \A n \in MessageIds' \ MessageIds : messages'[n].thread # t
  BY <1>1, MessageSteps
<1>3. After(t, w)' = After(t, w)
  BY <1>2, MessageSteps DEF After, ThreadMessages
<1>4. ASSUME NEW m \in After(t, w)
      PROVE  OpenCalls(m)' = OpenCalls(m)
  <2>1. /\ m \in MessageIds /\ messages[m].thread = t /\ messages'[m] = messages[m]
        /\ messages[m].run \in RunIds /\ runs[messages[m].run].thread = t
    BY MessageSteps, RowTypes
       DEF After, ThreadMessages, ThreadInv, TranscriptOrder, MessagesNumbered
  <2>2. PICK r : r = messages[m].run
    OBVIOUS
  <2>3. runs'[r].thread = t
    BY <1>3, <2>1, <2>2 DEF After, ThreadMessages, ThreadInv, TranscriptOrder, MessagesNumbered
  <2>4. MessagesOf(r)' = MessagesOf(r)
    BY <1>2, <2>3, MessageSteps DEF MessagesOf, ThreadInv, TranscriptOrder, MessagesNumbered
  <2>5. {messages'[n].result : n \in MessagesOf(r)'} = {messages[n].result : n \in MessagesOf(r)}
    BY <2>4, MessageSteps DEF MessagesOf
  <2>6. Consumed(MessagesOf(r))' = Consumed(MessagesOf(r))
    BY <2>5 DEF Consumed
  <2>. QED  BY <2>1, <2>2, <2>6 DEF OpenCalls
<1>5. \A m \in After(t, w) : messages'[m] = messages[m]
  BY MessageSteps DEF After, ThreadMessages
<1>. QED  BY <1>3, <1>4, <1>5 DEF CompleteMessagesAfter

\* A selection is all that is after the watermark, up to its last message.
LEMMA SelectionCovers ==
  ASSUME ThreadInv, NEW t \in Threads, NEW w \in Nat, CompleteMessagesAfter(t, w) # {},
         NEW c, c = Max({messages[m].thread_sequence : m \in CompleteMessagesAfter(t, w)})
  PROVE  /\ c \in Nat /\ w < c /\ c < threads[t].next_thread_sequence
         /\ CompleteMessagesAfter(t, w)
              = {m \in ThreadMessages(t) : w < messages[m].thread_sequence
                                           /\ messages[m].thread_sequence <= c}
<1>. DEFINE S == {messages[m].thread_sequence : m \in CompleteMessagesAfter(t, w)}
<1>1. \A m \in CompleteMessagesAfter(t, w) :
        m \in ThreadMessages(t) /\ w < messages[m].thread_sequence
  BY ThreadMessageFacts DEF CompleteMessagesAfter, After
<1>2. threads[t].next_thread_sequence \in Nat
  BY DEF ThreadInv, TypeOK, ThreadRow
<1>3. S \subseteq Nat /\ S # {} /\ \A x \in S : x < threads[t].next_thread_sequence
  BY <1>1, ThreadMessageFacts
<1>4. c \in S /\ \A x \in S : x <= c
  BY <1>2, <1>3, LargestNumber
<1>5. PICK last \in CompleteMessagesAfter(t, w) : messages[last].thread_sequence = c
  BY <1>4
<1>6. c \in Nat /\ w < c /\ c < threads[t].next_thread_sequence
  BY <1>1, <1>3, <1>4, <1>5
<1>7. ASSUME NEW m \in ThreadMessages(t), w < messages[m].thread_sequence,
             messages[m].thread_sequence <= c
      PROVE  m \in CompleteMessagesAfter(t, w)
  <2>1. messages[m].thread_sequence \in Nat
    BY ThreadMessageFacts
  <2>2. m \in After(t, w)
    BY <1>7, <2>1 DEF After
  <2>3. ASSUME NEW n \in After(t, w), messages[n].thread_sequence <= messages[m].thread_sequence
        PROVE  OpenCalls(n) = {}
    <3>1. messages[n].thread_sequence \in Nat
      BY ThreadMessageFacts DEF After
    <3>2. messages[n].thread_sequence <= messages[last].thread_sequence
      BY <1>5, <1>6, <1>7, <2>1, <2>3, <3>1
    <3>. QED  BY <3>2 DEF CompleteMessagesAfter
  <2>. QED  BY <2>2, <2>3 DEF CompleteMessagesAfter
<1>8. \A m \in CompleteMessagesAfter(t, w) : messages[m].thread_sequence <= c
  BY <1>4
<1>. QED  BY <1>1, <1>6, <1>7, <1>8

\* A selection that holds a call holds its results: between a call and its result
\* there is nothing but results, which call nothing.
LEMMA SelectionKeepsGroups ==
  ASSUME ThreadInv, NEW t \in Threads, NEW w \in Nat, NEW m \in CompleteMessagesAfter(t, w),
         NEW n \in MessagesOf(messages[m].run), messages[n].result \in messages[m].calls,
         messages[m].thread_sequence < messages[n].thread_sequence
  PROVE  n \in CompleteMessagesAfter(t, w)
<1>1. m \in After(t, w) /\ m \in ThreadMessages(t) /\ w < messages[m].thread_sequence
  BY ThreadMessageFacts DEF CompleteMessagesAfter, After
<1>2. m \in MessageIds /\ n \in MessageIds /\ messages[n].run = messages[m].run
  BY <1>1 DEF MessagesOf, ThreadMessages
<1>3. n \in ThreadMessages(t)
  BY <1>1, <1>2 DEF ThreadMessages, ThreadInv, TranscriptOrder, MessagesNumbered
<1>4. /\ messages[m].thread_sequence \in Nat /\ messages[n].thread_sequence \in Nat
      /\ messages[m].run \in Nat
  BY <1>1, <1>2, <1>3, ThreadMessageFacts, RowTypes DEF ThreadInv
<1>5. n \in After(t, w)
  BY <1>1, <1>3, <1>4 DEF After
<1>6. PICK c : c = messages[n].result
  OBVIOUS
<1>7. c # NoCall /\ c \in messages[m].calls
  <2>1. messages[m].calls \subseteq CallIds
    BY <1>2, RowTypes DEF ThreadInv, MessageRow
  <2>. QED  BY <1>6, <2>1, CallIdsAssumption
<1>8. c \notin Consumed(SeenBefore(n))
  BY <1>2, <1>6, <1>7 DEF ThreadInv, ThreadsReadable, ReadableAt, Pending
<1>9. ASSUME NEW k \in After(t, w), messages[k].thread_sequence <= messages[n].thread_sequence
      PROVE  OpenCalls(k) = {}
  <2>1. k \in ThreadMessages(t) /\ k \in MessageIds /\ messages[k].thread_sequence \in Nat
        /\ messages[k].run \in Nat
    BY ThreadMessageFacts, RowTypes DEF After, ThreadInv
  <2>2. CASE messages[k].thread_sequence <= messages[m].thread_sequence
    BY <2>2 DEF CompleteMessagesAfter
  <2>3. ASSUME messages[k].result # NoCall
        PROVE  OpenCalls(k) = {}
    BY <2>1, <2>3 DEF OpenCalls, ThreadInv, ResultsCallNothing
  <2>4. CASE messages[k].thread_sequence = messages[n].thread_sequence
    BY <1>3, <1>6, <1>7, <2>1, <2>3, <2>4, ThreadMessageFacts
  <2>5. CASE /\ messages[m].thread_sequence < messages[k].thread_sequence
             /\ messages[k].thread_sequence < messages[n].thread_sequence
    <3>1. messages[m].run <= messages[k].run /\ messages[k].run <= messages[n].run
      BY <1>1, <1>3, <2>1, <2>5, ThreadMessageFacts
    <3>2. messages[k].run = messages[m].run
      BY <1>2, <1>4, <2>1, <3>1
    <3>3. m \in SeenBefore(k)
      BY <1>2, <2>5, <3>2 DEF SeenBefore, MessagesOf
    <3>4. SeenBefore(k) \subseteq SeenBefore(n)
      <4>1. \A j \in MessagesOf(messages[k].run) : messages[j].thread_sequence \in Nat
        BY RowTypes DEF MessagesOf, ThreadInv, MessageRow
      <4>. QED  BY <1>2, <1>4, <2>1, <2>5, <3>2, <4>1 DEF SeenBefore
    <3>5. c \in Declared(SeenBefore(k))
      BY <1>7, <3>3 DEF Declared
    <3>6. c \notin Consumed(SeenBefore(k))
      BY <1>8, <3>4 DEF Consumed
    <3>7. Pending(SeenBefore(k)) # {}
      BY <3>5, <3>6 DEF Pending
    <3>8. messages[k].result # NoCall
      BY <2>1, <3>7 DEF ThreadInv, ThreadsReadable, ReadableAt
    <3>. QED  BY <2>3, <3>8
  <2>. QED  BY <1>4, <1>9, <2>1, <2>2, <2>4, <2>5
<1>. QED  BY <1>5, <1>9 DEF CompleteMessagesAfter

-----------------------------------------------------------------------------
(***************************************************************************)
(* What the steps do to the tables of the module.                          *)
(***************************************************************************)
LEMMA SummaryTypes ==
  ASSUME SummaryTypeOK
  PROVE  /\ Len(summaries) \in Nat /\ SummaryIds = 1..Len(summaries)
         /\ NoSummary \notin SummaryIds
         /\ \A s \in SummaryIds :
              /\ summaries[s] \in SummaryRow
              /\ summaries[s].thread \in Threads /\ summaries[s].covered \in Nat
              /\ summaries[s].version \in Nat /\ summaries[s].sources \subseteq MessageIds
<1>1. summaries \in Seq(SummaryRow)
  BY DEF SummaryTypeOK
<1>2. Len(summaries) \in Nat /\ SummaryIds = 1..Len(summaries)
  BY <1>1, LenProperties DEF SummaryIds
<1>3. \A s \in SummaryIds : summaries[s] \in SummaryRow
  BY <1>1, <1>2, ElementOfSeq
<1>4. NoSummary \notin SummaryIds
  BY <1>2 DEF NoSummary
<1>5. \A s \in SummaryIds :
        /\ summaries[s].thread \in Threads /\ summaries[s].covered \in Nat
        /\ summaries[s].version \in Nat /\ summaries[s].sources \subseteq MessageIds
  BY <1>3 DEF SummaryRow
<1>. QED  BY <1>2, <1>3, <1>4, <1>5

LEMMA BuildFields ==
  ASSUME NEW c \in Builds
  PROVE  /\ c.step \in {"idle", "thread_read", "summary_read", "messages_read"}
         /\ c.step = "idle" => c = NoBuild
         /\ c.step = "thread_read" =>
              c = [step |-> "thread_read", thread |-> c.thread, row |-> c.row]
         /\ c.step = "summary_read" =>
              /\ c = [step |-> "summary_read", thread |-> c.thread, row |-> c.row, old |-> c.old]
              /\ c.old \in {NoSummary} \cup SummaryIds
         /\ c.step = "messages_read" =>
              /\ c = [step |-> "messages_read", thread |-> c.thread, row |-> c.row,
                      old |-> c.old, selected |-> c.selected]
              /\ c.old \in {NoSummary} \cup SummaryIds
              /\ c.selected \in SUBSET MessageIds
         /\ c.step # "idle" => c.thread \in Threads /\ c.row \in ThreadRow
<1>1. CASE c = NoBuild
  BY <1>1 DEF NoBuild
<1>2. CASE c \in [step : {"thread_read"}, thread : Threads, row : ThreadRow]
  BY <1>2
<1>3. CASE c \in [step : {"summary_read"}, thread : Threads, row : ThreadRow,
                  old : {NoSummary} \cup SummaryIds]
  BY <1>3
<1>4. CASE c \in [step : {"messages_read"}, thread : Threads, row : ThreadRow,
                  old : {NoSummary} \cup SummaryIds, selected : SUBSET MessageIds]
  BY <1>4
<1>. QED  BY <1>1, <1>2, <1>3, <1>4 DEF Builds

\* As the tables grow, what was a build stays one and what was a row stays one.
LEMMA SummaryTypesGrow ==
  ASSUME SummaryTypeOK, MessageIds \subseteq MessageIds', SummaryIds \subseteq SummaryIds'
  PROVE  Builds \subseteq Builds' /\ SummaryRow \subseteq SummaryRow'
<1>1. ASSUME NEW c \in Builds
      PROVE  c \in Builds'
  <2>1. CASE c = NoBuild
    BY <2>1 DEF Builds, NoBuild
  <2>2. CASE c \in [step : {"thread_read"}, thread : Threads, row : ThreadRow]
    BY <2>2 DEF Builds, ThreadRow
  <2>3. CASE c \in [step : {"summary_read"}, thread : Threads, row : ThreadRow,
                    old : {NoSummary} \cup SummaryIds]
    <3>1. c \in [step : {"summary_read"}, thread : Threads, row : ThreadRow,
                 old : {NoSummary} \cup SummaryIds']
      BY <2>3
    <3>. QED  BY <3>1 DEF Builds, ThreadRow, NoSummary
  <2>4. CASE c \in [step : {"messages_read"}, thread : Threads, row : ThreadRow,
                    old : {NoSummary} \cup SummaryIds, selected : SUBSET MessageIds]
    <3>1. c \in [step : {"messages_read"}, thread : Threads, row : ThreadRow,
                 old : {NoSummary} \cup SummaryIds', selected : SUBSET MessageIds']
      BY <2>4
    <3>. QED  BY <3>1 DEF Builds, ThreadRow, NoSummary
  <2>. QED  BY <2>1, <2>2, <2>3, <2>4 DEF Builds
<1>2. ASSUME NEW row \in SummaryRow
      PROVE  row \in SummaryRow'
  BY DEF SummaryRow
<1>. QED  BY <1>1, <1>2

\* Every step is one of the five of ThreadRun.
LEMMA SummarySteps ==
  ASSUME ThreadInv, SummaryTypeOK, [SummaryNext]_summaryVars
  PROVE  StepCase /\ recovery' \in [Recoverers -> SUBSET RunIds]
<1>1. TypeOK /\ recovery \in [Recoverers -> SUBSET RunIds]
  BY DEF ThreadInv, TypeOK
<1>2. CASE [Next]_vars
  BY <1>1, <1>2, StepCases, RecoveryTypes
<1>3. ASSUME NEW b \in Builders, Activate(b)
      PROVE  StepCase /\ recovery' = recovery
  <2>1. builder[b].thread \in Threads
    BY <1>3, BuildFields DEF Activate, SummaryTypeOK
  <2>2. ThreadChange
    BY <1>3, <2>1 DEF Activate, ThreadChange
  <2>. QED  BY <1>3, <2>2 DEF Activate, StepCase
<1>. QED  BY <1>1, <1>2, <1>3
          DEF SummaryNext, BuildStep, ReadThread, ReadSummary, SelectMessages, GiveUp, summaryVars, vars

\* What a build b of thread t that activates over summary old, with watermark w, has
\* selected, and what the rows are when its own is n, with watermark c.
Activated(b, t, old, n, w, c) ==
  /\ t \in Threads /\ w \in Nat /\ c \in Nat
  /\ IsActiveSummary(t, old) /\ old \in {NoSummary} \cup SummaryIds
  /\ builder[b].selected = CompleteMessagesAfter(t, w)
  /\ CompleteMessagesAfter(t, w) # {}
  /\ c = Max({messages[m].thread_sequence : m \in CompleteMessagesAfter(t, w)})
  /\ NewSummary(b) \in SummaryRow
  /\ summaries' \in Seq(SummaryRow)
  /\ SummaryIds' = SummaryIds \cup {n} /\ n \notin SummaryIds
  /\ \A s \in SummaryIds :
       /\ summaries'[s].thread = summaries[s].thread
       /\ summaries'[s].sources = summaries[s].sources
       /\ summaries'[s].covered = summaries[s].covered
       /\ summaries'[s].status = IF s = old THEN "superseded" ELSE summaries[s].status
  /\ summaries'[n] = NewSummary(b)

Activating(b, t, old, n, w, c) ==
  /\ Activate(b)
  /\ t = builder[b].thread /\ old = builder[b].old /\ n = Len(summaries) + 1
  /\ w = Watermark(old) /\ c = NewSummary(b).covered

LEMMA ActivatedRows ==
  ASSUME TablesInv, NEW b \in Builders, NEW t, NEW old, NEW n, NEW w, NEW c,
         Activating(b, t, old, n, w, c)
  PROVE  Activated(b, t, old, n, w, c)
<1>. USE DEF Activating
<1>1. /\ t \in Threads /\ old \in {NoSummary} \cup SummaryIds
      /\ builder[b].selected \in SUBSET MessageIds
      /\ builder[b].step = "messages_read"
  BY BuildFields DEF Activate, TablesInv, SummaryTypeOK
<1>2. threads[t] = builder[b].row /\ IsActiveSummary(t, old)
  BY DEF Activate, UnchangedSinceRead
<1>3. w \in Nat
  BY <1>1, SummaryTypes DEF Watermark, TablesInv
<1>4. builder[b].selected = CompleteMessagesAfter(t, w) /\ CompleteMessagesAfter(t, w) # {}
  BY <1>1, <1>2 DEF TablesInv, BuildsStand, BuildStands
<1>5. c = Max({messages[m].thread_sequence : m \in CompleteMessagesAfter(t, w)})
  BY <1>4 DEF NewSummary
<1>6. c \in Nat
  BY <1>1, <1>3, <1>4, <1>5, SelectionCovers DEF TablesInv
<1>7. NewSummary(b) \in SummaryRow
  <2>. DEFINE v == IF old = NoSummary THEN 1 ELSE summaries[old].version + 1
              ss == builder[b].selected
                      \cup (IF old = NoSummary THEN {} ELSE summaries[old].sources)
  <2>1. v \in Nat \ {0}
    BY <1>1, SummaryTypes DEF TablesInv
  <2>2. ss \in SUBSET MessageIds
    BY <1>1, SummaryTypes DEF TablesInv
  <2>3. NewSummary(b) = [thread |-> t, version |-> v, sources |-> ss, covered |-> c,
                         status |-> "active"]
    BY DEF NewSummary
  <2>. HIDE DEF v, ss
  <2>. QED  BY <1>1, <1>6, <2>1, <2>2, <2>3 DEF SummaryRow
<1>8. /\ Len(summaries) \in Nat /\ SummaryIds = 1..Len(summaries)
      /\ \A s \in SummaryIds : summaries[s] \in SummaryRow
  BY SummaryTypes DEF TablesInv
<1>9. PICK kept : kept = [s \in SummaryIds |->
                            IF s = old THEN [summaries[s] EXCEPT !.status = "superseded"]
                            ELSE summaries[s]]
  OBVIOUS
<1>10. \A s \in SummaryIds :
         /\ kept[s] \in SummaryRow
         /\ kept[s].thread = summaries[s].thread
         /\ kept[s].sources = summaries[s].sources
         /\ kept[s].covered = summaries[s].covered
         /\ kept[s].status = IF s = old THEN "superseded" ELSE summaries[s].status
  BY <1>8, <1>9 DEF SummaryRow
<1>11. kept \in [1..Len(summaries) -> SummaryRow]
  BY <1>8, <1>9, <1>10
<1>12. kept \in Seq(SummaryRow)
  BY <1>8, <1>11, SeqDef
<1>13. Len(kept) = Len(summaries)
  BY <1>8, <1>11, <1>12, LenProperties
<1>14. summaries' = Append(kept, NewSummary(b))
  BY <1>9 DEF Activate
<1>15. /\ summaries' \in Seq(SummaryRow) /\ Len(summaries') = n
       /\ \A s \in 1..Len(summaries) : summaries'[s] = kept[s]
       /\ summaries'[n] = NewSummary(b)
  BY <1>7, <1>12, <1>13, <1>14, AppendProperties
<1>16. SummaryIds' = SummaryIds \cup {n} /\ n \notin SummaryIds
  BY <1>8, <1>15, LenProperties DEF SummaryIds
<1>. QED  BY <1>1, <1>2, <1>3, <1>4, <1>5, <1>6, <1>7, <1>8, <1>10, <1>15, <1>16 DEF Activated

\* A build that read stays right while the tables change under it.
LEMMA BuildsKept ==
  ASSUME ThreadInv, ThreadInv', StepCase, SummaryTypeOK, NEW b \in Builders, BuildStands(b),
         builder'[b] = builder[b],
         \A s \in SummaryIds : s \in SummaryIds' /\ summaries'[s].covered = summaries[s].covered
  PROVE  BuildStands(b)'
<1>1. PICK c \in Builds : c = builder[b]
  BY DEF SummaryTypeOK
<1>2. CASE c.step = "idle"
  BY <1>1, <1>2 DEF BuildStands
<1>3. CASE c.step # "idle"
  <2>1. c.thread \in Threads /\ c.row.next_thread_sequence \in Nat
    BY <1>3, BuildFields DEF ThreadRow
  <2>2. /\ threads'[c.thread].next_thread_sequence \in Nat
        /\ threads[c.thread].next_thread_sequence \in Nat
        /\ threads'[c.thread].next_thread_sequence >= threads[c.thread].next_thread_sequence
    BY <2>1, CountersGrow DEF ThreadInv
  <2>3. c.row.next_thread_sequence <= threads[c.thread].next_thread_sequence
    BY <1>1, <1>3, BuildFields DEF BuildStands
  <2>4. ASSUME c.step = "messages_read",
               c.row.next_thread_sequence = threads'[c.thread].next_thread_sequence
        PROVE  c.selected = CompleteMessagesAfter(c.thread, Watermark(c.old))'
    <3>1. threads'[c.thread].next_thread_sequence = threads[c.thread].next_thread_sequence
      BY <2>1, <2>2, <2>3, <2>4
    <3>2. PICK w : w = Watermark(c.old)
      OBVIOUS
    <3>3. Watermark(c.old)' = w
      BY <2>4, <3>2, BuildFields DEF Watermark
    <3>4. c.selected = CompleteMessagesAfter(c.thread, w)
      BY <1>1, <2>4, <3>1, <3>2 DEF BuildStands
    <3>5. CompleteMessagesAfter(c.thread, w)' = CompleteMessagesAfter(c.thread, w)
      BY <2>1, <3>1, SelectionStands
    <3>. QED  BY <3>3, <3>4, <3>5
  <2>5. c.step = "messages_read" => c.selected # {}
    BY <1>1 DEF BuildStands
  <2>. QED  BY <1>1, <2>1, <2>2, <2>3, <2>4, <2>5 DEF BuildStands
<1>. QED  BY <1>2, <1>3

-----------------------------------------------------------------------------
(***************************************************************************)
(* The invariant holds in every state.                                     *)
(***************************************************************************)

\* A build that selects takes what is complete now.
LEMMA SelectedStands ==
  ASSUME TablesInv, ThreadInv', NEW b \in Builders, SelectMessages(b)
  PROVE  builder'[b] \in Builds /\ BuildStands(b)'
<1>1. PICK c \in Builds : c = builder[b] /\ c.step = "summary_read"
  BY DEF TablesInv, SummaryTypeOK, SelectMessages
<1>2. c.thread \in Threads /\ c.row \in ThreadRow /\ c.old \in {NoSummary} \cup SummaryIds
  BY <1>1, BuildFields
<1>3. PICK selected : selected = CompleteMessagesAfter(c.thread, Watermark(c.old))
  OBVIOUS
<1>4. selected \in SUBSET MessageIds
  BY <1>3 DEF CompleteMessagesAfter, After, ThreadMessages
<1>5. PICK new : new = [step |-> "messages_read", thread |-> c.thread, row |-> c.row,
                        old |-> c.old, selected |-> selected]
  OBVIOUS
<1>6. new \in Builds
  BY <1>2, <1>4, <1>5 DEF Builds
<1>7. builder'[b] = IF selected = {} THEN NoBuild ELSE new
  BY <1>1, <1>3, <1>5 DEF SelectMessages, TablesInv, SummaryTypeOK
<1>8. CASE selected = {}
  BY <1>7, <1>8 DEF Builds, BuildStands, NoBuild
<1>9. CASE selected # {}
  <2>1. UNCHANGED <<threads, runs, messages, summaries>>
    BY DEF SelectMessages
  <2>2. CompleteMessagesAfter(c.thread, Watermark(c.old))' = selected
    BY <1>3, <2>1
       DEF CompleteMessagesAfter, After, ThreadMessages, OpenCalls, Consumed, MessagesOf,
           MessageIds, Watermark
  <2>3. c.row.next_thread_sequence <= threads[c.thread].next_thread_sequence
    BY <1>1 DEF TablesInv, BuildsStand, BuildStands
  <2>4. builder'[b] = new
    BY <1>7, <1>9
  <2>. QED  BY <1>5, <1>6, <1>9, <2>1, <2>2, <2>3, <2>4 DEF BuildStands
<1>. QED  BY <1>8, <1>9

\* A step of a builder that writes no row.
LEMMA BuilderReads ==
  ASSUME TablesInv, ThreadInv', StepCase, NEW b \in Builders,
         \/ \E t \in Threads : ReadThread(b, t)
         \/ ReadSummary(b)
         \/ SelectMessages(b)
         \/ GiveUp(b)
  PROVE  TablesInv'
<1>1. UNCHANGED <<threads, runs, messages, summaries>>
  BY DEF ReadThread, ReadSummary, SelectMessages, GiveUp
<1>2. SummaryIds' = SummaryIds /\ MessageIds' = MessageIds
  BY <1>1 DEF SummaryIds, MessageIds
<1>3. builder'[b] \in Builds /\ BuildStands(b)'
  <2>1. ASSUME NEW t \in Threads, ReadThread(b, t)
        PROVE  builder'[b] \in Builds /\ BuildStands(b)'
    <3>1. threads[t] \in ThreadRow /\ threads[t].next_thread_sequence \in Nat
      BY DEF TablesInv, ThreadInv, TypeOK, ThreadRow
    <3>2. builder'[b] = [step |-> "thread_read", thread |-> t, row |-> threads[t]]
      BY <2>1 DEF ReadThread, TablesInv, SummaryTypeOK
    <3>. QED  BY <1>1, <3>1, <3>2 DEF Builds, BuildStands
  <2>2. CASE ReadSummary(b)
    <3>1. PICK s \in {NoSummary} \cup SummaryIds :
            builder'[b] = [step |-> "summary_read", thread |-> builder[b].thread,
                           row |-> builder[b].row, old |-> s]
      BY <2>2 DEF ReadSummary, TablesInv, SummaryTypeOK
    <3>2. builder[b] \in Builds /\ builder[b].step = "thread_read"
      BY <2>2 DEF ReadSummary, TablesInv, SummaryTypeOK
    <3>3. builder[b].thread \in Threads /\ builder[b].row \in ThreadRow
      BY <3>2, BuildFields
    <3>4. builder[b].row.next_thread_sequence <= threads[builder[b].thread].next_thread_sequence
      BY <3>2 DEF TablesInv, BuildsStand, BuildStands
    <3>. QED  BY <1>1, <3>1, <3>3, <3>4 DEF Builds, BuildStands
  <2>3. CASE SelectMessages(b)
    BY <2>3, SelectedStands
  <2>4. CASE GiveUp(b)
    <3>1. builder'[b] = NoBuild
      BY <2>4 DEF GiveUp, TablesInv, SummaryTypeOK
    <3>. QED  BY <3>1 DEF Builds, BuildStands, NoBuild
  <2>. QED  BY <2>1, <2>2, <2>3, <2>4
<1>4. \E step : builder' = [builder EXCEPT ![b] = step]
  BY DEF ReadThread, ReadSummary, SelectMessages, GiveUp
<1>5. /\ builder \in [Builders -> Builds] /\ summaries \in Seq(SummaryRow)
      /\ Builds' = Builds /\ SummaryRow' = SummaryRow
  BY <1>2 DEF TablesInv, SummaryTypeOK, Builds, SummaryRow, ThreadRow, NoBuild, NoSummary
<1>6. SummaryTypeOK'
  BY <1>1, <1>3, <1>4, <1>5 DEF SummaryTypeOK
<1>7. BuildsStand'
  <2>1. ASSUME NEW a \in Builders, a # b
        PROVE  BuildStands(a)'
    <3>1. builder'[a] = builder[a]
      BY <1>4, <1>5, <2>1
    <3>. QED  BY <1>1, <1>2, <3>1, BuildsKept DEF TablesInv, BuildsStand
  <2>. QED  BY <1>3, <2>1 DEF BuildsStand
<1>8. OneActive' /\ CoveredNumbered'
  BY <1>1, <1>2 DEF TablesInv, OneActive, CoveredNumbered
<1>. QED  BY <1>6, <1>7, <1>8 DEF TablesInv

LEMMA BuilderWrites ==
  ASSUME TablesInv, ThreadInv', StepCase, NEW b \in Builders, Activate(b)
  PROVE  TablesInv'
<1>1. PICK t, old, n, w, c : Activating(b, t, old, n, w, c)
  BY DEF Activating
<1>2. Activated(b, t, old, n, w, c)
  BY <1>1, ActivatedRows
<1>. USE <1>2 DEF Activated
<1>3. summaries'[n].thread = t /\ summaries'[n].covered = c
  BY <1>1 DEF Activating, NewSummary
<1>4. builder' = [builder EXCEPT ![b] = NoBuild] /\ builder \in [Builders -> Builds]
      /\ MessageIds' = MessageIds
  BY DEF Activate, TablesInv, SummaryTypeOK, MessageIds
<1>5. SummaryTypeOK'
  <2>1. Builds \subseteq Builds' /\ SummaryRow \subseteq SummaryRow'
    BY <1>2, <1>4, SummaryTypesGrow DEF TablesInv
  <2>2. NoBuild \in Builds
    BY DEF Builds
  <2>3. summaries' \in Seq(SummaryRow')
    BY <1>2, <2>1, SeqMonotonic
  <2>4. \A a \in Builders : builder'[a] \in Builds
    BY <1>4, <2>2
  <2>5. builder' \in [Builders -> Builds']
    BY <1>4, <2>1, <2>4
  <2>. QED  BY <2>3, <2>5 DEF SummaryTypeOK
<1>6. BuildsStand'
  <2>1. BuildStands(b)'
    <3>1. builder'[b] = NoBuild
      BY <1>4
    <3>. QED  BY <3>1 DEF BuildStands, NoBuild
  <2>2. ASSUME NEW a \in Builders, a # b
        PROVE  BuildStands(a)'
    <3>1. builder'[a] = builder[a]
      BY <1>4, <2>2
    <3>. QED  BY <1>2, <3>1, BuildsKept DEF TablesInv, BuildsStand
  <2>. QED  BY <2>1, <2>2 DEF BuildsStand
<1>7. OneActive'
  <2>1. \A s \in SummaryIds : summaries'[s].status = "active" => summaries[s].status = "active"
    BY <1>2
  <2>2. ASSUME NEW s \in SummaryIds, summaries'[s].status = "active"
        PROVE  summaries'[s].thread # t
    <3>. SUFFICES ASSUME summaries[s].thread = t
                  PROVE  FALSE
      BY <1>2
    <3>1. s \in ActiveSummaries(t)
      BY <2>1, <2>2 DEF ActiveSummaries
    <3>2. old \in ActiveSummaries(t)
      BY <1>2, <3>1 DEF IsActiveSummary
    <3>3. s = old
      BY <3>1, <3>2 DEF ActiveSummaries, TablesInv, OneActive
    <3>. QED  BY <1>2, <2>2, <3>3
  <2>. QED  BY <1>2, <1>3, <2>1, <2>2 DEF TablesInv, OneActive
<1>8. CoveredNumbered'
  <2>1. c < threads[t].next_thread_sequence
    BY <1>2, SelectionCovers DEF TablesInv
  <2>2. \A u \in Threads :
          /\ threads'[u].next_thread_sequence \in Nat /\ threads[u].next_thread_sequence \in Nat
          /\ threads'[u].next_thread_sequence >= threads[u].next_thread_sequence
    BY CountersGrow DEF TablesInv, ThreadInv
  <2>3. \A s \in SummaryIds : summaries[s].covered \in Nat /\ summaries[s].thread \in Threads
    BY SummaryTypes DEF TablesInv
  <2>4. \A s \in SummaryIds :
          summaries'[s].covered < threads'[summaries'[s].thread].next_thread_sequence
    BY <1>2, <2>2, <2>3 DEF TablesInv, CoveredNumbered
  <2>5. c < threads'[t].next_thread_sequence
    BY <1>2, <2>1, <2>2
  <2>. QED  BY <1>2, <1>3, <2>4, <2>5 DEF CoveredNumbered
<1>. QED  BY <1>5, <1>6, <1>7, <1>8 DEF TablesInv

\* A step of the threads under the builds.
LEMMA BuildersWait ==
  ASSUME TablesInv, ThreadInv', StepCase, UNCHANGED <<summaries, builder>>
  PROVE  TablesInv'
<1>1. SummaryIds' = SummaryIds /\ MessageIds \subseteq MessageIds'
  BY MessageSteps DEF SummaryIds, TablesInv
<1>2. SummaryTypeOK'
  <2>1. Builds \subseteq Builds' /\ SummaryRow \subseteq SummaryRow'
    BY <1>1, SummaryTypesGrow DEF TablesInv
  <2>2. summaries \in Seq(SummaryRow) /\ builder \in [Builders -> Builds]
    BY DEF TablesInv, SummaryTypeOK
  <2>3. summaries' \in Seq(SummaryRow')
    BY <2>1, <2>2, SeqMonotonic
  <2>4. builder' \in [Builders -> Builds']
    BY <2>1, <2>2
  <2>. QED  BY <2>3, <2>4 DEF SummaryTypeOK
<1>3. BuildsStand'
  BY <1>1, BuildsKept DEF TablesInv, BuildsStand
<1>4. OneActive'
  BY <1>1 DEF TablesInv, OneActive
<1>5. CoveredNumbered'
  <2>1. \A u \in Threads :
          /\ threads'[u].next_thread_sequence \in Nat /\ threads[u].next_thread_sequence \in Nat
          /\ threads'[u].next_thread_sequence >= threads[u].next_thread_sequence
    BY CountersGrow DEF TablesInv, ThreadInv
  <2>2. \A s \in SummaryIds : summaries[s].covered \in Nat /\ summaries[s].thread \in Threads
    BY SummaryTypes DEF TablesInv
  <2>3. \A s \in SummaryIds :
          summaries[s].covered < threads'[summaries[s].thread].next_thread_sequence
    BY <2>1, <2>2 DEF TablesInv, CoveredNumbered
  <2>. QED  BY <1>1, <2>3 DEF CoveredNumbered
<1>. QED  BY <1>2, <1>3, <1>4, <1>5 DEF TablesInv

LEMMA TablesInvInit ==
  ASSUME SummaryInit
  PROVE  TablesInv
<1>1. ThreadInv
  BY ThreadInvInit DEF SummaryInit
<1>2. SummaryTypeOK /\ SummaryIds = {}
  BY EmptySeq DEF SummaryInit, SummaryTypeOK, Builds, SummaryIds
<1>3. BuildsStand
  BY DEF SummaryInit, BuildsStand, BuildStands, NoBuild
<1>. QED  BY <1>1, <1>2, <1>3 DEF TablesInv, OneActive, CoveredNumbered

LEMMA TablesInvStep ==
  ASSUME TablesInv, [SummaryNext]_summaryVars
  PROVE  TablesInv' /\ StepCase
<1>1. StepCase /\ ThreadInv'
  BY SummarySteps, ThreadInvStep DEF TablesInv
<1>2. CASE BuildStep
  BY <1>1, <1>2, BuilderReads, BuilderWrites DEF BuildStep
<1>3. CASE UNCHANGED <<summaries, builder>>
  BY <1>1, <1>3, BuildersWait
<1>. QED  BY <1>1, <1>2, <1>3 DEF SummaryNext, summaryVars

-----------------------------------------------------------------------------
(***************************************************************************)
(* What the summaries promise.                                             *)
(***************************************************************************)
Prefix(t, w) == {m \in ThreadMessages(t) : messages[m].thread_sequence <= w}

\* What is up to a number that is already given does not change.
LEMMA PrefixStands ==
  ASSUME ThreadInv, StepCase, NEW t \in Threads, NEW w \in Nat,
         w < threads[t].next_thread_sequence
  PROVE  Prefix(t, w)' = Prefix(t, w)
<1>1. threads[t].next_thread_sequence \in Nat
  BY CountersGrow DEF ThreadInv
<1>2. \A m \in Prefix(t, w) : m \in Prefix(t, w)'
  BY MessageSteps DEF Prefix, ThreadMessages
<1>3. ASSUME NEW m \in Prefix(t, w)'
      PROVE  m \in Prefix(t, w)
  <2>1. m \in MessageIds' /\ messages'[m].thread = t /\ messages'[m].thread_sequence <= w
    BY <1>3 DEF Prefix, ThreadMessages
  <2>2. m \in MessageIds
    BY <1>1, <2>1, MessageSteps
  <2>. QED  BY <2>1, <2>2, MessageSteps DEF Prefix, ThreadMessages
<1>. QED  BY <1>2, <1>3

LEMMA PrefixExtends ==
  ASSUME NEW t, \A m \in ThreadMessages(t) : messages[m].thread_sequence \in Nat,
         NEW w \in Nat, NEW c \in Nat, w < c
  PROVE  {m \in ThreadMessages(t) : w < messages[m].thread_sequence
                                    /\ messages[m].thread_sequence <= c} \cup Prefix(t, w)
           = Prefix(t, c)
<1>1. \A m \in ThreadMessages(t) :
        messages[m].thread_sequence <= c <=>
          \/ w < messages[m].thread_sequence /\ messages[m].thread_sequence <= c
          \/ messages[m].thread_sequence <= w
  OBVIOUS
<1>. QED  BY <1>1 DEF Prefix

LEMMA PrefixStep ==
  ASSUME TablesInv, SummariesCoverPrefix, [SummaryNext]_summaryVars
  PROVE  SummariesCoverPrefix'
<1>1. StepCase
  BY TablesInvStep
<1>2. \A s \in SummaryIds : /\ summaries[s].thread \in Threads /\ summaries[s].covered \in Nat
                            /\ summaries[s].covered < threads[summaries[s].thread].next_thread_sequence
                            /\ summaries[s].sources = Prefix(summaries[s].thread, summaries[s].covered)
  BY SummaryTypes DEF TablesInv, CoveredNumbered, SummariesCoverPrefix, Prefix
<1>3. ASSUME NEW s \in SummaryIds, NEW t, NEW w,
             t = summaries[s].thread, w = summaries[s].covered
      PROVE  Prefix(t, w)' = summaries[s].sources
  BY <1>1, <1>2, <1>3, PrefixStands DEF TablesInv
<1>4. ASSUME NEW b \in Builders, Activate(b)
      PROVE  SummariesCoverPrefix'
  <2>1. PICK t, old, n, w, c : Activating(b, t, old, n, w, c)
    BY <1>4 DEF Activating
  <2>2. Activated(b, t, old, n, w, c)
    BY <2>1, ActivatedRows
  <2>3. /\ t \in Threads /\ w \in Nat /\ c \in Nat
        /\ IsActiveSummary(t, old) /\ old \in {NoSummary} \cup SummaryIds
        /\ builder[b].selected = CompleteMessagesAfter(t, w)
        /\ CompleteMessagesAfter(t, w) # {}
        /\ c = Max({messages[m].thread_sequence : m \in CompleteMessagesAfter(t, w)})
        /\ SummaryIds' = SummaryIds \cup {n}
        /\ \A s \in SummaryIds : /\ summaries'[s].thread = summaries[s].thread
                                 /\ summaries'[s].sources = summaries[s].sources
                                 /\ summaries'[s].covered = summaries[s].covered
        /\ summaries'[n] = NewSummary(b)
    BY <2>2 DEF Activated
  <2>4. messages' = messages /\ MessageIds' = MessageIds
    BY <1>4 DEF Activate, MessageIds
  <2>5. /\ summaries'[n].thread = t /\ summaries'[n].covered = c
        /\ summaries'[n].sources = CompleteMessagesAfter(t, w)
             \cup (IF old = NoSummary THEN {} ELSE summaries[old].sources)
    BY <2>1, <2>3 DEF Activating, NewSummary
  <2>6. /\ w < c
        /\ CompleteMessagesAfter(t, w) = {m \in ThreadMessages(t) :
              w < messages[m].thread_sequence /\ messages[m].thread_sequence <= c}
    BY <2>3, SelectionCovers DEF TablesInv
  <2>7. (IF old = NoSummary THEN {} ELSE summaries[old].sources) = Prefix(t, w)
    <3>1. CASE old = NoSummary
      <4>1. w = 0
        BY <2>1, <3>1 DEF Activating, Watermark
      <4>2. \A m \in ThreadMessages(t) : messages[m].thread_sequence \in Nat \ {0}
        BY RowTypes DEF TablesInv, ThreadInv, ThreadMessages, MessageRow
      <4>. QED  BY <3>1, <4>1, <4>2 DEF Prefix
    <3>2. CASE old \in SummaryIds
      <4>1. summaries[old].covered = w /\ old # NoSummary
        BY <2>1, <3>2, SummaryTypes DEF Activating, Watermark, TablesInv
      <4>2. old \in ActiveSummaries(t)
        BY <2>3, <4>1 DEF IsActiveSummary
      <4>. QED  BY <1>2, <3>2, <4>1, <4>2 DEF ActiveSummaries
    <3>. QED  BY <2>3, <3>1, <3>2
  <2>8. \A m \in ThreadMessages(t) : messages[m].thread_sequence \in Nat
    BY <2>3, ThreadMessageFacts DEF TablesInv
  <2>9. summaries'[n].sources = Prefix(t, c)
    <3>1. w \in Nat /\ c \in Nat /\ w < c
      BY <2>3, <2>6
    <3>2. {m \in ThreadMessages(t) : w < messages[m].thread_sequence
                                     /\ messages[m].thread_sequence <= c} \cup Prefix(t, w)
            = Prefix(t, c)
      BY <2>8, <3>1, PrefixExtends
    <3>. QED  BY <2>5, <2>6, <2>7, <3>2
  <2>10. ASSUME NEW s \in SummaryIds
        PROVE  summaries'[s].sources = Prefix(summaries'[s].thread, summaries'[s].covered)
    BY <1>2, <2>3
  <2>11. \A s \in SummaryIds' :
           summaries'[s].sources = Prefix(summaries'[s].thread, summaries'[s].covered)
    BY <2>3, <2>5, <2>9, <2>10
  <2>. QED  BY <2>4, <2>11 DEF SummariesCoverPrefix, Prefix, ThreadMessages
<1>5. CASE UNCHANGED summaries
  <2>1. SummaryIds' = SummaryIds
    BY <1>5 DEF SummaryIds
  <2>2. ASSUME NEW s \in SummaryIds
        PROVE  summaries'[s].sources = {m \in ThreadMessages(summaries[s].thread)' :
                                          messages'[m].thread_sequence <= summaries'[s].covered}
    <3>1. PICK t, w : t = summaries[s].thread /\ w = summaries[s].covered
      OBVIOUS
    <3>2. Prefix(t, w)' = summaries[s].sources
      BY <1>3, <3>1
    <3>. QED  BY <1>5, <3>1, <3>2 DEF Prefix, ThreadMessages
  <2>. QED  BY <1>5, <2>1, <2>2 DEF SummariesCoverPrefix
<1>. QED  BY <1>4, <1>5 DEF SummaryNext, BuildStep, ReadThread, ReadSummary, SelectMessages,
             GiveUp, summaryVars

\* The summaries, the builds and the counters fit together in every state.
LEMMA TablesInvHolds == SummarySpec => []TablesInv
  BY TablesInvInit, TablesInvStep, PTL DEF SummarySpec

\* The sources of a summary are all the messages of its thread up to its watermark,
\* although build reads three times without a lock and other processes append in
\* between: nothing is below a watermark that no summary tells.
THEOREM SummariesCover == SummarySpec => []SummariesCoverPrefix
<1>1. SummaryInit => SummariesCoverPrefix
  BY DEF SummaryInit, SummariesCoverPrefix, SummaryIds
<1>2. TablesInv /\ SummariesCoverPrefix /\ [SummaryNext]_summaryVars => SummariesCoverPrefix'
  BY PrefixStep
<1>. QED  BY <1>1, <1>2, TablesInvHolds, PTL DEF SummarySpec

-----------------------------------------------------------------------------
\* A result comes after its call.
LEMMA ResultsFollowCalls ==
  ASSUME ThreadInv, NEW m \in MessageIds, NEW n \in MessagesOf(messages[m].run),
         messages[n].result \in messages[m].calls
  PROVE  messages[m].thread_sequence < messages[n].thread_sequence
<1>1. PICK c : c = messages[n].result
  OBVIOUS
<1>2. /\ n \in MessageIds /\ messages[n].run = messages[m].run
      /\ messages[m].thread_sequence \in Nat /\ messages[n].thread_sequence \in Nat
      /\ messages[m].calls \subseteq CallIds /\ messages[m].run \in RunIds
  BY RowTypes DEF ThreadInv, MessagesOf, MessageRow
<1>3. c # NoCall /\ c \in messages[m].calls
  BY <1>1, <1>2, CallIdsAssumption
<1>4. n # m
  BY <1>1, <1>3 DEF ThreadInv, ResultsCallNothing
<1>5. messages[m].thread = messages[n].thread
  BY <1>2 DEF ThreadInv, TranscriptOrder, MessagesNumbered
<1>6. messages[m].thread_sequence # messages[n].thread_sequence
  <2>1. messages[m].thread \in Threads
    BY RowTypes DEF ThreadInv, MessageRow
  <2>. QED  BY <1>2, <1>4, <1>5, <2>1, ThreadMessageFacts DEF ThreadMessages
<1>7. ASSUME messages[n].thread_sequence < messages[m].thread_sequence
      PROVE  FALSE
  <2>1. n \in SeenBefore(m)
    BY <1>7 DEF SeenBefore
  <2>2. c \in Consumed(SeenBefore(m))
    BY <1>1, <1>3, <2>1 DEF Consumed
  <2>. QED  BY <1>3, <2>2 DEF ThreadInv, ThreadsReadable, ReadableAt
<1>. QED  BY <1>2, <1>6, <1>7

\* A group that is whole below a watermark stays whole: what is appended answers no
\* call that is answered.
Whole(m, M) == /\ OpenCalls(m) = {}
               /\ \A n \in MessagesOf(messages[m].run) :
                    messages[n].result \in messages[m].calls => n \in M

LEMMA WholeStands ==
  ASSUME ThreadInv, StepCase, NEW m \in MessageIds, NEW M, Whole(m, M)
  PROVE  Whole(m, M)'
<1>1. OpenCalls(m)' = {}
  BY CallsStayAnswered DEF Whole
<1>2. messages'[m] = messages[m]
  BY MessageSteps
<1>3. PICK r, C : r = messages[m].run /\ C = messages[m].calls
  OBVIOUS
<1>4. C \subseteq CallIds
  BY <1>3, RowTypes DEF ThreadInv, MessageRow
<1>5. ASSUME NEW n \in MessagesOf(r)', messages'[n].result \in C
      PROVE  n \in M
  <2>1. n \in MessageIds' /\ messages'[n].run = r
    BY <1>5 DEF MessagesOf
  <2>2. CASE n \in MessageIds
    <3>1. messages'[n] = messages[n]
      BY <2>2, MessageSteps
    <3>2. n \in MessagesOf(r)
      BY <2>1, <2>2, <3>1 DEF MessagesOf
    <3>. QED  BY <1>3, <1>5, <3>1, <3>2 DEF Whole
  <2>3. CASE n \notin MessageIds
    <3>1. PICK c : c = messages'[n].result
      OBVIOUS
    <3>2. c \in C /\ c # NoCall
      BY <1>4, <1>5, <3>1, CallIdsAssumption
    <3>3. c \in Pending(MessagesOf(r))
      BY <2>1, <2>3, <3>1, <3>2, MessageSteps
    <3>4. c \in OpenCalls(m)
      BY <1>3, <3>2, <3>3 DEF OpenCalls, Pending
    <3>. QED  BY <3>4 DEF Whole
  <2>. QED  BY <2>2, <2>3
<1>. QED  BY <1>1, <1>2, <1>3, <1>5 DEF Whole

LEMMA GroupsStep ==
  ASSUME TablesInv, WatermarksKeepGroups, [SummaryNext]_summaryVars
  PROVE  WatermarksKeepGroups'
<1>1. StepCase
  BY TablesInvStep
<1>2. /\ MessageIds \subseteq MessageIds'
      /\ \A m \in MessageIds : messages'[m] = messages[m]
  BY <1>1, MessageSteps DEF TablesInv
<1>3. ASSUME NEW s \in SummaryIds, NEW m \in summaries[s].sources, messages[m].calls # {},
             NEW M, summaries[s].sources \subseteq M
      PROVE  Whole(m, M)' /\ m \in MessageIds
  <2>1. m \in MessageIds
    BY SummaryTypes DEF TablesInv
  <2>2. Whole(m, M)
    BY <1>3 DEF WatermarksKeepGroups, Whole
  <2>. QED  BY <1>1, <2>1, <2>2, WholeStands DEF TablesInv
<1>4. ASSUME NEW b \in Builders, Activate(b)
      PROVE  WatermarksKeepGroups'
  <2>1. PICK t, old, n, w, c : Activating(b, t, old, n, w, c)
    BY <1>4 DEF Activating
  <2>2. Activated(b, t, old, n, w, c)
    BY <2>1, ActivatedRows
  <2>3. /\ t \in Threads /\ w \in Nat
        /\ old \in {NoSummary} \cup SummaryIds
        /\ builder[b].selected = CompleteMessagesAfter(t, w)
        /\ SummaryIds' = SummaryIds \cup {n}
        /\ \A s \in SummaryIds : summaries'[s].sources = summaries[s].sources
        /\ summaries'[n] = NewSummary(b)
    BY <2>2 DEF Activated
  <2>4. PICK M : M = summaries'[n].sources
    OBVIOUS
  <2>5. M = CompleteMessagesAfter(t, w)
              \cup (IF old = NoSummary THEN {} ELSE summaries[old].sources)
    BY <2>1, <2>3, <2>4 DEF Activating, NewSummary
  <2>6. ASSUME NEW m \in CompleteMessagesAfter(t, w)
        PROVE  m \in MessageIds /\ Whole(m, M)'
    <3>1. /\ m \in After(t, w) /\ m \in ThreadMessages(t) /\ m \in MessageIds
          /\ messages[m].thread_sequence \in Nat
      BY <2>3, <2>6, ThreadMessageFacts DEF CompleteMessagesAfter, After, TablesInv
    <3>2. OpenCalls(m) = {}
      BY <3>1 DEF CompleteMessagesAfter
    <3>3. \A k \in MessagesOf(messages[m].run) :
            messages[k].result \in messages[m].calls => k \in CompleteMessagesAfter(t, w)
      BY <2>3, <3>1, ResultsFollowCalls, SelectionKeepsGroups DEF TablesInv
    <3>4. Whole(m, M)
      BY <2>5, <3>2, <3>3 DEF Whole
    <3>. QED  BY <1>1, <3>1, <3>4, WholeStands DEF TablesInv
  <2>7. ASSUME NEW s \in SummaryIds', NEW m \in summaries'[s].sources, messages'[m].calls # {},
               NEW S, S = summaries'[s].sources
        PROVE  Whole(m, S)'
    <3>1. CASE s \in SummaryIds
      <4>1. m \in summaries[s].sources /\ m \in MessageIds /\ summaries[s].sources = S
        BY <2>3, <2>7, <3>1, SummaryTypes DEF TablesInv
      <4>. QED  BY <1>2, <1>3, <2>7, <3>1, <4>1
    <3>2. CASE s = n /\ m \in CompleteMessagesAfter(t, w)
      BY <2>4, <2>6, <2>7, <3>2
    <3>3. CASE s = n /\ m \notin CompleteMessagesAfter(t, w)
      <4>1. old \in SummaryIds /\ m \in summaries[old].sources /\ summaries[old].sources \subseteq M
        BY <2>3, <2>4, <2>5, <2>7, <3>3
      <4>2. m \in MessageIds
        BY <4>1, SummaryTypes DEF TablesInv
      <4>. QED  BY <1>2, <1>3, <2>4, <2>7, <3>3, <4>1, <4>2
    <3>. QED  BY <2>3, <3>1, <3>2, <3>3
  <2>. QED  BY <2>7 DEF WatermarksKeepGroups, Whole
<1>5. CASE UNCHANGED summaries
  <2>1. SummaryIds' = SummaryIds
    BY <1>5 DEF SummaryIds
  <2>2. ASSUME NEW s \in SummaryIds, NEW m \in summaries[s].sources, messages'[m].calls # {},
               NEW S, S = summaries[s].sources
        PROVE  Whole(m, S)'
    <3>1. m \in MessageIds
      BY SummaryTypes DEF TablesInv
    <3>. QED  BY <1>2, <1>3, <2>2, <3>1
  <2>3. ASSUME NEW s \in SummaryIds', NEW m \in summaries'[s].sources, messages'[m].calls # {},
               NEW S, S = summaries'[s].sources
        PROVE  Whole(m, S)'
    BY <1>5, <2>1, <2>2, <2>3
  <2>. QED  BY <2>3 DEF WatermarksKeepGroups, Whole
<1>. QED  BY <1>4, <1>5 DEF SummaryNext, BuildStep, ReadThread, ReadSummary, SelectMessages,
             GiveUp, summaryVars

\* No tool call is below a watermark with a result above it, now or ever after: the
\* selection stops before a call that has no result, and nothing answers a call twice.
THEOREM GroupsKept == SummarySpec => []WatermarksKeepGroups
<1>1. SummaryInit => WatermarksKeepGroups
  BY DEF SummaryInit, WatermarksKeepGroups, SummaryIds
<1>2. TablesInv /\ WatermarksKeepGroups /\ [SummaryNext]_summaryVars => WatermarksKeepGroups'
  BY GroupsStep
<1>. QED  BY <1>1, <1>2, TablesInvHolds, PTL DEF SummarySpec

-----------------------------------------------------------------------------
\* The watermark an undisturbed build would start from is the one this build read.
LEMMA ActiveWatermark ==
  ASSUME TablesInv, NEW t \in Threads, NEW old, IsActiveSummary(t, old)
  PROVE  Max({0} \cup {summaries[r].covered : r \in ActiveSummaries(t)}) = Watermark(old)
<1>1. CASE ActiveSummaries(t) = {}
  <2>1. Max({0}) = 0
    BY LargestNumber, 0 < 1, 1 \in Nat
  <2>. QED  BY <1>1, <2>1 DEF IsActiveSummary, Watermark
<1>2. CASE ActiveSummaries(t) # {}
  <2>1. old \in ActiveSummaries(t) /\ old \in SummaryIds /\ old # NoSummary
    BY <1>2, SummaryTypes DEF IsActiveSummary, ActiveSummaries, TablesInv
  <2>2. ActiveSummaries(t) = {old}
    BY <2>1 DEF ActiveSummaries, TablesInv, OneActive
  <2>3. PICK k : k = summaries[old].covered
    OBVIOUS
  <2>4. k \in Nat
    BY <2>1, <2>3, SummaryTypes DEF TablesInv
  <2>5. {0} \cup {summaries[r].covered : r \in ActiveSummaries(t)} = {0, k}
    BY <2>2, <2>3
  <2>6. Max({0, k}) = k
    <3>1. k + 1 \in Nat /\ 0 < k + 1 /\ k < k + 1
      BY <2>4
    <3>2. PICK S : S = {0, k}
      OBVIOUS
    <3>3. S \subseteq Nat /\ S # {} /\ \A x \in S : x < k + 1
      BY <2>4, <3>1, <3>2
    <3>4. Max(S) \in S /\ \A x \in S : x <= Max(S)
      BY <3>1, <3>3, LargestNumber
    <3>. QED  BY <2>4, <3>2, <3>4
  <2>. QED  BY <2>1, <2>3, <2>5, <2>6 DEF Watermark
<1>. QED  BY <1>1, <1>2

\* A summary that is activated is the one an undisturbed build would make of the
\* thread at that moment, although build reads three times without a lock.
THEOREM BuildsLookAtomic == SummarySpec => BuildsAreAtomic
<1>. DEFINE Fresh == \A s \in DOMAIN summaries' : s \notin SummaryIds =>
       LET t == summaries'[s].thread
           w == Max({0} \cup {summaries[r].covered : r \in ActiveSummaries(t)})
           fresh == CompleteMessagesAfter(t, w)
       IN /\ fresh # {}
          /\ summaries'[s].covered = Max({messages[m].thread_sequence : m \in fresh})
<1>1. ASSUME TablesInv, NEW b \in Builders, Activate(b)
      PROVE  Fresh
  <2>1. PICK t, old, n, w, c : Activating(b, t, old, n, w, c)
    BY <1>1 DEF Activating
  <2>2. Activated(b, t, old, n, w, c)
    BY <1>1, <2>1, ActivatedRows
  <2>3. /\ t \in Threads /\ IsActiveSummary(t, old)
        /\ CompleteMessagesAfter(t, w) # {}
        /\ c = Max({messages[m].thread_sequence : m \in CompleteMessagesAfter(t, w)})
        /\ SummaryIds' = SummaryIds \cup {n}
        /\ summaries'[n] = NewSummary(b)
    BY <2>2 DEF Activated
  <2>4. summaries'[n].thread = t /\ summaries'[n].covered = c /\ w = Watermark(old)
    BY <2>1, <2>3 DEF Activating, NewSummary
  <2>5. Max({0} \cup {summaries[r].covered : r \in ActiveSummaries(t)}) = w
    BY <1>1, <2>3, <2>4, ActiveWatermark
  <2>6. ASSUME NEW s \in SummaryIds', s \notin SummaryIds
        PROVE  s = n
    BY <2>3, <2>6
  <2>. QED  BY <2>3, <2>4, <2>5, <2>6 DEF SummaryIds
<1>2. ASSUME UNCHANGED summaries
      PROVE  Fresh
  BY <1>2 DEF SummaryIds
<1>3. TablesInv /\ [SummaryNext]_summaryVars => Fresh
  BY <1>1, <1>2 DEF SummaryNext, BuildStep, ReadThread, ReadSummary, SelectMessages, GiveUp,
     summaryVars
<1>4. TablesInv /\ [SummaryNext]_summaryVars => [Fresh]_summaryVars
  BY <1>3
<1>. QED  BY <1>4, TablesInvHolds, PTL DEF SummarySpec, BuildsAreAtomic

=============================================================================
