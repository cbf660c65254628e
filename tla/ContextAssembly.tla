--------------------------- MODULE ContextAssembly ---------------------------
(***************************************************************************)
(* ContextAssembler.assemble: which messages of a thread, which notes and  *)
(* search hits, and whether the summary, make the prompt of a model call,  *)
(* under budgets in characters.                                            *)
(*                                                                         *)
(* A request is what prepare_context hands over: the messages resume()     *)
(* returns in thread order (a message is its position), the run in         *)
(* progress, the provider, the active summary, the notes.  A rendered      *)
(* message is its size.  The module has one step, the call.                *)
(***************************************************************************)
EXTENDS Integers, Sequences, FiniteSets, FiniteSetsExt

CONSTANTS
  CurrentRun,   \* the run in progress, the newest of the thread
  Transcripts,  \* what resume() may return
  Providers,    \* providers of the session
  Summaries,    \* summaries to choose from, with Unsummarized
  Recalls,      \* notes, and hits, that may be handed over
  Budgets       \* budgets of the assembler

VARIABLES
  transcript,   \* the messages of the thread
  request,      \* the arguments of assemble
  prompt        \* what it returned

contextVars == <<transcript, request, prompt>>

NoResult == "no_call"
Unsummarized == [size |-> 0]
Waiting == [outcome |-> "waiting"]
Raised == [outcome |-> "raised"]     \* MemoryIntegrityError: orphan tool result

Sized(entries) ==
  /\ Len(entries) \in Nat /\ DOMAIN entries = 1..Len(entries)
  /\ \A n \in DOMAIN entries : entries[n].size \in Nat

\* What _message_shape and _validate_sequence_and_pairs let pass: only an assistant has
\* calls, only a tool message a result; a result follows its call in its run, once.
Paired(t) ==
  \A i \in DOMAIN t :
    LET earlier == {h \in 1..(i - 1) : t[h].run = t[i].run}
    IN /\ NoResult \notin t[i].calls
       /\ t[i].result # NoResult =>
            /\ t[i].calls = {}
            /\ \E h \in earlier : t[i].result \in t[h].calls
            /\ \A h \in earlier : t[h].result # t[i].result

ASSUME TranscriptsAssumption == \A t \in Transcripts : Sized(t) /\ Paired(t)

ASSUME RecallsAssumption == \A r \in Recalls : Sized(r)

ASSUME SummariesAssumption == \A s \in Summaries : s.size \in Nat

\* ContextBudgets.__post_init__.
ASSUME BudgetsAssumption ==
  \A b \in Budgets :
    /\ {b.total, b.current_run, b.history, b.single_message,
        b.tool_group, b.summary, b.notes, b.retrieval} \subseteq Nat \ {0}
    /\ b.current_run <= b.total /\ b.history <= b.total

Items(q) == DOMAIN q.items

LocalProviders == {"local", "fake"}

\* _provider_allowed, for messages, summary, notes and hits alike.
Allowed(q, class) == class # "secret" /\ (class = "confidential" => q.provider \in LocalProviders)

AllowedItems(q) == {i \in Items(q) : Allowed(q, q.items[i].class)}

(***************************************************************************)
(* _groups: a message without calls is a group; a message with calls takes *)
(* the results that follow it directly.  A group that lacks a result is    *)
(* left out with the results it has; a result outside of a group raises.   *)
(***************************************************************************)
IsHead(q, i) == q.items[i].result = NoResult

Heads(q) == {i \in AllowedItems(q) : IsHead(q, i)}

\* The message i and those after it that are results of its calls, each once, up to
\* the first that is not.
GroupAt(q, i) ==
  LET between(j) == {h \in AllowedItems(q) : i < h /\ h < j}
      isNext(j) == q.items[j].result \in q.items[i].calls \ {q.items[h].result : h \in between(j)}
  IN {i} \cup {j \in AllowedItems(q) : i < j /\ \A h \in between(j) \cup {j} : isNext(h)}

Orphaned(q) == \E j \in AllowedItems(q) : \A i \in Heads(q) : j \notin GroupAt(q, i)

\* Mutant: a group that lacks a result is used all the same.
CompletePartial(q, g) == TRUE

Complete(q, g) ==
  UNION {q.items[i].calls : i \in g} \subseteq {q.items[i].result : i \in g}

\* The complete groups, each by the message it begins with.
Groups(q) == {i \in Heads(q) : Complete(q, GroupAt(q, i))}

(***************************************************************************)
(* Budgets.                                                                *)
(***************************************************************************)
\* What the chosen entries take.
SizeOf(entries, chosen) ==
  LET size[n \in 0..Len(entries)] ==
        IF n = 0 THEN 0 ELSE size[n - 1] + (IF n \in chosen THEN entries[n].size ELSE 0)
  IN size[Len(entries)]

Ceiling(q, g) ==
  IF \E i \in g : q.items[i].calls # {} \/ q.items[i].result # NoResult
  THEN q.budgets.tool_group ELSE q.budgets.single_message

TakeGroup(q, budget, taken, i) ==
  LET size == SizeOf(q.items, GroupAt(q, i))
  IN IF size <= Ceiling(q, GroupAt(q, i)) /\ taken.used + size <= budget
     THEN [used |-> taken.used + size, items |-> taken.items \cup GroupAt(q, i)]
     ELSE taken

\* _fit: the groups taken one after the other, from the first on or from the last,
\* skipping what does not fit.
Fit(q, groups, budget, recentFirst) ==
  LET N == Len(q.items)
      head(n) == IF recentFirst THEN N + 1 - n ELSE n
      taken[n \in 0..N] ==
        IF n = 0 THEN [used |-> 0, items |-> {}]
        ELSE IF head(n) \in groups THEN TakeGroup(q, budget, taken[n - 1], head(n))
        ELSE taken[n - 1]
  IN taken[N]

KeepEntry(q, entries, budget, kept, n) ==
  IF Allowed(q, entries[n].class) /\ SizeOf(entries, kept) + entries[n].size <= budget
  THEN kept \cup {n} ELSE kept

\* Notes and hits: in order, each kept when the provider may see it and it fits.
FitEntries(q, entries, budget) ==
  LET kept[n \in 0..Len(entries)] ==
        IF n = 0 THEN {} ELSE KeepEntry(q, entries, budget, kept[n - 1], n)
  IN kept[Len(entries)]

\* What is left of the entries kept after popping the last until room is enough.
Popped(entries, kept, room) ==
  kept \cap 1..Max({0} \cup {last \in DOMAIN entries : SizeOf(entries, kept \cap 1..last) <= room})

SummaryFits(q) ==
  /\ q.summary # Unsummarized
  /\ Allowed(q, q.summary.class)
  /\ q.summary.size <= q.budgets.summary

\* Mutant: the summary hides what it covers even when it is not in the prompt.
HistoryBehindSummary(q, groups, withSummary) ==
  IF q.summary # Unsummarized THEN {i \in groups : Max(GroupAt(q, i)) > q.summary.covered}
  ELSE groups

HistoryAfter(q, groups, withSummary) ==
  IF withSummary THEN {i \in groups : Max(GroupAt(q, i)) > q.summary.covered}
  ELSE groups

\* Mutant: the room left by the rest of the prompt does not bound the history.
HistoryBudgetAlone(q, used) == q.budgets.history

HistoryBudget(q, used) == Min({q.budgets.history, Max({0, q.budgets.total - used})})

Assembled(q) ==
  LET history == {i \in Groups(q) : q.items[i].run # q.current}
      current == Fit(q, Groups(q) \ history, q.budgets.current_run, FALSE)
      fittingNotes == FitEntries(q, q.notes, q.budgets.notes)
      fittingHits == FitEntries(q, q.hits, q.budgets.retrieval)
      fixed == current.used + (IF SummaryFits(q) THEN q.summary.size ELSE 0)
      hits == Popped(q.hits, fittingHits, q.budgets.total - fixed - SizeOf(q.notes, fittingNotes))
      notes == Popped(q.notes, fittingNotes, q.budgets.total - fixed - SizeOf(q.hits, hits))
      recalled == SizeOf(q.notes, notes) + SizeOf(q.hits, hits)
      withSummary == SummaryFits(q) /\ fixed + recalled <= q.budgets.total
      used == current.used + recalled + (IF withSummary THEN q.summary.size ELSE 0)
      older == Fit(q, HistoryAfter(q, history, withSummary), HistoryBudget(q, used), TRUE)
  IN [outcome |-> "prompt", messages |-> current.items \cup older.items,
      notes |-> notes, hits |-> hits, summary |-> withSummary]

Assemble(q) == IF Orphaned(q) THEN Raised ELSE Assembled(q)

-----------------------------------------------------------------------------
ContextInit == transcript \in Transcripts /\ request = Waiting /\ prompt = Waiting

\* What active() may return: a summary's watermark cuts no group (RollingSummary).
SummariesInUse ==
  {s \in Summaries \ {Unsummarized} :
     s.covered \in DOMAIN transcript /\ transcript[s.covered].calls = {}
     /\ (s.covered < Len(transcript) => transcript[s.covered + 1].result = NoResult)}
  \cup {Unsummarized}

PrepareContext ==
  /\ prompt = Waiting
  /\ \E provider \in Providers, summary \in SummariesInUse,
        recalled \in Recalls, budgets \in Budgets :
       request' = [items |-> transcript, current |-> CurrentRun, provider |-> provider,
                   summary |-> summary, notes |-> recalled, hits |-> recalled,
                   budgets |-> budgets]
  /\ prompt' = Assemble(request')
  /\ UNCHANGED transcript

ContextSpec == ContextInit /\ [][PrepareContext]_contextVars

-----------------------------------------------------------------------------
(***************************************************************************)
(* Properties.                                                             *)
(***************************************************************************)
Answered == prompt.outcome = "prompt"

\* Four budgets are spent in an order in which later parts make earlier ones give
\* way, and the history takes what is left: together they keep to the total.
PromptsKeepToTotal ==
  Answered => SizeOf(request.items, prompt.messages) + SizeOf(request.notes, prompt.notes)
                + SizeOf(request.hits, prompt.hits)
                + (IF prompt.summary THEN request.summary.size ELSE 0)
              <= request.budgets.total

\* append keeps call ids apart within a run only; a model that repeats the id of an
\* earlier run is left out here (the hazard at context_assembler.py line 188).
CallIdsUnique ==
  \A i, j \in Items(request) :
    request.items[i].calls \cap request.items[j].calls # {} => i = j

\* Neither a filter nor a budget nor the watermark separates a call from its
\* results: model providers refuse such a prompt.
PromptsKeepGroups ==
  Answered /\ CallIdsUnique => \A i, j \in Items(request) :
    /\ request.items[i].run = request.items[j].run
    /\ request.items[j].result \in request.items[i].calls
    => (i \in prompt.messages <=> j \in prompt.messages)

\* A message of an earlier run is hidden by the watermark only behind a summary
\* that is in the prompt: where everything would fit, what is missing is covered.
\* A summary the provider may not see, or that did not fit, hides nothing.
OnlyTheSummaryHides ==
  Answered => \A i \in Items(request) :
    /\ request.items[i].class = "internal"
    /\ request.items[i].calls = {} /\ request.items[i].result = NoResult
    /\ request.items[i].run # request.current
    /\ request.items[i].size <= request.budgets.single_message
    /\ SizeOf(request.items, Items(request)) + SizeOf(request.notes, DOMAIN request.notes)
         + SizeOf(request.hits, DOMAIN request.hits) + request.summary.size
         <= Min({request.budgets.total, request.budgets.history})
    /\ i \notin prompt.messages
    => prompt.summary /\ i <= request.summary.covered

=============================================================================
