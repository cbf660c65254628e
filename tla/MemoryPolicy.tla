---------------------------- MODULE MemoryPolicy ----------------------------
(***************************************************************************)
(* The gate before every memory that is written (MemorySafetyEvaluator):   *)
(* detectors look at the text, RiskPolicyEngine decides on their signals,  *)
(* personal data is redacted, and what needs a confirmation is evaluated   *)
(* anew after the user gave it.  Any detector may fail in any evaluation.  *)
(*                                                                         *)
(* Of a text the module keeps what the detectors find in it when they do   *)
(* not fail: signals of a category and, unless the signal is of a decoded  *)
(* variant or of the source, a span of positions.                          *)
(***************************************************************************)
EXTENDS Integers, FiniteSets

CONSTANTS
  Spans        \* spans <<first, last>> of positions in the text

ASSUME SpansAssumption == \A s \in Spans : s \in Nat \X Nat /\ s[1] <= s[2]

VARIABLES
  facts,       \* what is to be found in the text
  candidate,   \* requested_scope and source.user_confirmed
  context,     \* which of thread_id and session_id the caller has
  failed,      \* the detectors that failed in the last evaluation
  evaluation   \* its result

policyVars == <<facts, candidate, context, failed, evaluation>>

NoSpan == <<>>
Signal(category, span) == [category |-> category, span |-> span]

\* One category stands for each group the code treats alike.
DetectorOf == [private_key |-> "secrets", api_key |-> "secrets", email |-> "entities",
               internal_ip |-> "entities", high_entropy_token |-> "entropy",
               placeholder |-> "placeholders", confidential_source |-> "source"]
Categories == DOMAIN DetectorOf
Detectors == {DetectorOf[c] : c \in Categories}

Facts == [category : Categories \ {"confidential_source"}, span : Spans \cup {NoSpan}]
           \cup {Signal("confidential_source", NoSpan)}

NotEvaluated == [action |-> "none", target |-> "none", visible |-> {}]

\* Any text, any request of any caller; a thread is one of a session.
PolicyInit ==
  /\ facts \in {found \in SUBSET Facts : IsFiniteSet(found)}
  /\ candidate \in [requested_scope : {"thread", "session", "workspace"}, user_confirmed : BOOLEAN]
  /\ context \in {ctx \in [thread : BOOLEAN, session : BOOLEAN] : ctx.thread => ctx.session}
  /\ failed = {}
  /\ evaluation = NotEvaluated

-----------------------------------------------------------------------------
(***************************************************************************)
(* Detection and the decision.                                             *)
(***************************************************************************)
\* A detector that fails on one variant of the text loses what it found in the others.
Detect(found, failing) ==
  {s \in found : DetectorOf[s.category] \notin failing}
    \cup {Signal("detector_failure", NoSpan) : d \in failing}

SpansOverlap(left, right) ==
  left # NoSpan /\ right # NoSpan /\ left[1] <= right[2] /\ right[1] <= left[2]

IsUnmitigatedHardSecret(s, signals) ==
  \/ s.category = "private_key"
  \/ /\ s.category = "api_key"
     /\ ~\E m \in signals : m.category = "placeholder" /\ SpansOverlap(s.span, m.span)

Decision(action, target) == [action |-> action, target |-> target]

\* _session_only: the narrowest scope the caller is in, and never the workspace.
SessionOnly(cand, ctx) ==
  IF cand.requested_scope # "session" /\ ctx.thread THEN Decision("SESSION_ONLY", "thread")
  ELSE IF cand.requested_scope # "thread" /\ ctx.session THEN Decision("SESSION_ONLY", "session")
  ELSE Decision("DENY", "none")

\* Mutant: what is found beside personal data is left to the redaction.
DecidePersonalFirst(cand, signals, ctx) ==
  LET Has(categories) == \E s \in signals : s.category \in categories
  IN IF \E s \in signals : IsUnmitigatedHardSecret(s, signals) THEN Decision("DENY", "none")
     ELSE IF Has({"detector_failure"}) THEN SessionOnly(cand, ctx)
     ELSE IF Has({"email"}) THEN Decision("REDACT", cand.requested_scope)
     ELSE IF Has({"high_entropy_token", "internal_ip", "confidential_source"})
          THEN IF cand.requested_scope = "workspace" THEN Decision("REQUIRE_CONFIRMATION", "none")
               ELSE SessionOnly(cand, ctx)
     ELSE Decision("ALLOW", cand.requested_scope)

\* RiskPolicyEngine.decide returns at the first rule that applies.
Decide(cand, signals, ctx) ==
  LET Has(categories) == \E s \in signals : s.category \in categories
      confidential == Has({"internal_ip", "confidential_source"})
      workspace == cand.requested_scope = "workspace"
  IN IF \E s \in signals : IsUnmitigatedHardSecret(s, signals) THEN Decision("DENY", "none")
     ELSE IF Has({"detector_failure"}) THEN SessionOnly(cand, ctx)
     ELSE IF Has({"high_entropy_token"})
          THEN IF workspace THEN Decision("REQUIRE_CONFIRMATION", "none") ELSE SessionOnly(cand, ctx)
     ELSE IF confidential /\ workspace /\ ~cand.user_confirmed
          THEN Decision("REQUIRE_CONFIRMATION", "none")
     ELSE IF Has({"email"}) THEN Decision("REDACT", cand.requested_scope)
     ELSE IF confidential /\ cand.requested_scope = "session" THEN SessionOnly(cand, ctx)
     ELSE IF confidential THEN Decision("ALLOW", "workspace")
     ELSE Decision("ALLOW", cand.requested_scope)

-----------------------------------------------------------------------------
(***************************************************************************)
(* Redaction.                                                              *)
(***************************************************************************)
Positions(span) == IF span = NoSpan THEN {} ELSE span[1]..span[2]
Selected(signals) == {s \in signals : s.category \notin {"placeholder", "confidential_source", "detector_failure"}}

\* Mutant: of spans that begin together the shorter is taken.
EarlierShort(a, b) == a[1] < b[1] \/ (a[1] = b[1] /\ a[2] < b[2])

\* The order of the spans: by their first position, the longer first.
Earlier(a, b) == a[1] < b[1] \/ (a[1] = b[1] /\ a[2] > b[2])

\* A span is accepted unless it overlaps one accepted before it.
NonOverlappingSpans(signals) ==
  LET spans == {s.span : s \in signals} \ {NoSpan}
  IN CHOOSE accepted \in SUBSET spans :
       \A s \in spans : s \in accepted <=> ~\E a \in accepted : Earlier(a, s) /\ SpansOverlap(a, s)

Complete(signals) == \A s \in Selected(signals) : s.span # NoSpan

\* The positions that are replaced.
Redacted(signals) == UNION {Positions(s) : s \in NonOverlappingSpans(Selected(signals))}

Text == UNION {Positions(s) : s \in Spans}

\* MemorySafetyEvaluator.evaluate, with the detectors that fail.
Evaluation(cand, ctx, found, failing) ==
  LET signals == Detect(found, failing)
      decision == Decide(cand, signals, ctx)
      redacts == decision.action = "REDACT" \/ \E s \in signals : s.category = "email"
      Result(d, visible) == [action |-> d.action, target |-> d.target, visible |-> visible]
  IN IF decision.action \in {"DENY", "REQUIRE_CONFIRMATION"} THEN Result(decision, {})
     ELSE IF ~redacts THEN Result(decision, Text)
     ELSE IF Complete(signals) THEN Result(decision, Text \ Redacted(signals))
     ELSE Result(Decision("REQUIRE_CONFIRMATION", "none"), {})

-----------------------------------------------------------------------------
\* Each detector may fail on its own; a failure of the normaliser is one of all of them.
Evaluate ==
  /\ evaluation = NotEvaluated
  /\ \E failing \in SUBSET Detectors :
       /\ failed' = failing
       /\ evaluation' = Evaluation(candidate, context, facts, failing)
  /\ UNCHANGED <<facts, candidate, context>>

\* The user approves; the candidate is evaluated again.
ApplyConfirmation ==
  /\ evaluation.action = "REQUIRE_CONFIRMATION"
  /\ ~candidate.user_confirmed
  /\ candidate' = [candidate EXCEPT !.user_confirmed = TRUE]
  /\ evaluation' = NotEvaluated
  /\ UNCHANGED <<facts, context, failed>>

PolicyNext == Evaluate \/ ApplyConfirmation

PolicySpec == PolicyInit /\ [][PolicyNext]_policyVars

-----------------------------------------------------------------------------
(***************************************************************************)
(* Properties.                                                             *)
(***************************************************************************)
Persisted(e) == e.action \in {"ALLOW", "REDACT", "SESSION_ONLY"}

\* Spans of two detectors that cut each other.
Crossing == \E f, g \in facts :
  SpansOverlap(f.span, g.span) /\ ~(Positions(f.span) \subseteq Positions(g.span))
                               /\ ~(Positions(g.span) \subseteq Positions(f.span))

\* What is stored shows no personal data that a detector found, however spans of several
\* detectors lie within each other and also where the text was only decoded; spans that
\* cross are left out, of them the later one is not replaced.
StoredTextIsRedacted ==
  Persisted(evaluation) /\ ~Crossing =>
    \A f \in facts : f.category = "email" /\ DetectorOf[f.category] \notin failed =>
      f.span # NoSpan /\ Positions(f.span) \cap evaluation.visible = {}

\* How far the write that follows an evaluation takes the text: nowhere, into the thread
\* or session of the caller, into the workspace.  The services refuse a scope the caller
\* is not in.
InScope(target, ctx) ==
  (target = "thread" => ctx.thread) /\ (target = "session" => ctx.session)

Reach(e, ctx) == IF ~Persisted(e) \/ ~InScope(e.target, ctx) THEN 0
                 ELSE IF e.target = "workspace" THEN 2 ELSE 1

\* A text that is asked for the thread, in which the detectors find what is confidential,
\* is allowed for the workspace, unconfirmed too: the policy takes every scope but the
\* session for a confirmed workspace.
WidenedFor(f) ==
  /\ candidate.requested_scope = "thread"
  /\ f.category \in {"internal_ip", "confidential_source"}
  /\ evaluation.action = "ALLOW" /\ evaluation.target = "workspace"

\* Finding more never lets a text reach further: without any one signal that is not a
\* placeholder the same text would have reached at least as far, whichever detectors
\* fail, whoever asks for whatever scope and whether the user confirmed it.  With a
\* detector that failed it never reaches the workspace.  The one exception is what
\* WidenedFor says, where the code does the opposite.
MoreSignalsReachLess ==
  evaluation # NotEvaluated =>
    /\ failed # {} => Reach(evaluation, context) < 2
    /\ \A f \in facts : f.category # "placeholder" /\ ~WidenedFor(f) =>
         Reach(evaluation, context)
           <= Reach(Evaluation(candidate, context, facts \ {f}, failed), context)

=============================================================================
