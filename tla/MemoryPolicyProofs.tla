-------------------------- MODULE MemoryPolicyProofs --------------------------
(***************************************************************************)
(* The gate before every memory is monotone, for every set of spans and    *)
(* whatever a text holds: what a detector finds besides never lets the     *)
(* text reach further.  And what is stored shows none of the personal data *)
(* that was found.                                                         *)
(***************************************************************************)
EXTENDS MemoryPolicy, FiniteSetTheorems, WellFoundedInduction, TLAPS

Has(signals, categories) == \E s \in signals : s.category \in categories

HardSecret(signals) == \E s \in signals : IsUnmitigatedHardSecret(s, signals)

Scopes == {"thread", "session", "workspace"}
Candidate == [requested_scope : Scopes, user_confirmed : BOOLEAN]
AccessContext == [thread : BOOLEAN, session : BOOLEAN]

-----------------------------------------------------------------------------
(***************************************************************************)
(* Signals.                                                                *)
(***************************************************************************)
\* Without one fact that is not a placeholder the detectors signal that one less at most,
\* miss no placeholder, and fail just the same.
LEMMA LessFound ==
  ASSUME NEW found \in SUBSET Facts, NEW f \in Facts, f.category # "placeholder", NEW failing
  PROVE  LET more == Detect(found, failing)
             less == Detect(found \ {f}, failing)
         IN /\ less \subseteq more /\ more \ less \subseteq {f}
            /\ Has(more, {"detector_failure"}) => Has(less, {"detector_failure"})
            /\ \A s \in more : s.category = "placeholder" => s \in less
<1>1. \A s \in found : s.category \in Categories /\ s.category # "detector_failure"
  BY DEF Facts, Signal, Categories, DetectorOf
<1>2. \A d \in failing : Signal("detector_failure", NoSpan).category = "detector_failure"
  BY DEF Signal
<1>. QED  BY <1>1, <1>2 DEF Detect, Has, Signal

LEMMA LessHas ==
  ASSUME NEW less, NEW more, less \subseteq more, NEW categories, Has(less, categories)
  PROVE  Has(more, categories)
  BY DEF Has

\* A secret that nothing mitigates among the fewer signals is one among all of them.
LEMMA LessSecret ==
  ASSUME NEW less, NEW more, less \subseteq more,
         \A s \in more : s.category = "placeholder" => s \in less,
         HardSecret(less)
  PROVE  HardSecret(more)
  BY DEF HardSecret, IsUnmitigatedHardSecret

-----------------------------------------------------------------------------
(***************************************************************************)
(* Decisions.                                                              *)
(***************************************************************************)
\* How far a decision alone takes a text, as Reach does for an evaluation.
Reached(decision, ctx) ==
  IF decision.action \notin {"ALLOW", "REDACT", "SESSION_ONLY"} \/ ~InScope(decision.target, ctx) THEN 0
  ELSE IF decision.target = "workspace" THEN 2 ELSE 1

\* How far the scope a caller asks for takes a text.
Asked(scope, ctx) == IF scope = "workspace" THEN 2 ELSE IF InScope(scope, ctx) THEN 1 ELSE 0

\* What is kept to the session stays below the workspace; of a text asked for the thread
\* or the session it takes nothing away.
LEMMA SessionReach ==
  ASSUME NEW cand \in Candidate, NEW ctx \in AccessContext
  PROVE  /\ Reached(SessionOnly(cand, ctx), ctx) \in {0, 1}
         /\ SessionOnly(cand, ctx).action \in {"SESSION_ONLY", "DENY"}
         /\ cand.requested_scope # "workspace" =>
              Reached(SessionOnly(cand, ctx), ctx) = Asked(cand.requested_scope, ctx)
<1>1. cand.requested_scope \in Scopes
  BY DEF Candidate
<1>2. CASE cand.requested_scope = "thread"
  BY <1>2 DEF SessionOnly, Decision, Reached, Asked, InScope
<1>3. CASE cand.requested_scope = "session"
  BY <1>3 DEF SessionOnly, Decision, Reached, Asked, InScope
<1>4. CASE cand.requested_scope = "workspace"
  BY <1>4 DEF SessionOnly, Decision, Reached, InScope
<1>. QED  BY <1>1, <1>2, <1>3, <1>4 DEF Scopes

\* A confidential text that nothing else holds back: the policy allows it for the
\* workspace when it was asked for the thread.
Widens(signals) == /\ Has(signals, {"internal_ip", "confidential_source"})
                   /\ ~Has(signals, {"high_entropy_token"})
                   /\ ~Has(signals, {"email"})

\* A text that is asked for the workspace and must be confirmed first.
Closed(cand, signals) ==
  \/ Has(signals, {"high_entropy_token"})
  \/ Has(signals, {"internal_ip", "confidential_source"}) /\ ~cand.user_confirmed

\* How far a decision lets a text reach where nothing keeps it out and no detector failed.
Open(cand, ctx, signals) ==
  IF cand.requested_scope = "workspace" THEN IF Closed(cand, signals) THEN 0 ELSE 2
  ELSE IF cand.requested_scope = "thread" /\ Widens(signals) THEN 2
  ELSE Asked(cand.requested_scope, ctx)

LEMMA DecisionReach ==
  ASSUME NEW cand \in Candidate, NEW ctx \in AccessContext, NEW signals
  PROVE  LET decision == Decide(cand, signals, ctx)
             reached == Reached(decision, ctx)
         IN /\ HardSecret(signals) => reached = 0
            /\ ~HardSecret(signals) /\ Has(signals, {"detector_failure"})
                 => reached = Reached(SessionOnly(cand, ctx), ctx)
            /\ ~HardSecret(signals) /\ ~Has(signals, {"detector_failure"})
                 => reached = Open(cand, ctx, signals)
            /\ decision.action = "REDACT" => Has(signals, {"email"})
            /\ cand.requested_scope = "thread" /\ reached = 2
                 => decision.action = "ALLOW" /\ decision.target = "workspace"
<1>. DEFINE hard == HardSecret(signals)
            fails == Has(signals, {"detector_failure"})
            token == Has(signals, {"high_entropy_token"})
            confidential == Has(signals, {"internal_ip", "confidential_source"})
            email == Has(signals, {"email"})
            scope == cand.requested_scope
            only == SessionOnly(cand, ctx)
            decision == Decide(cand, signals, ctx)
            reached == Reached(decision, ctx)
            Claim == /\ hard => reached = 0
                     /\ ~hard /\ fails => reached = Reached(only, ctx)
                     /\ ~hard /\ ~fails => reached = Open(cand, ctx, signals)
                     /\ decision.action = "REDACT" => email
                     /\ scope = "thread" /\ reached = 2
                          => decision.action = "ALLOW" /\ decision.target = "workspace"
<1>1. decision =
        IF hard THEN Decision("DENY", "none")
        ELSE IF fails THEN only
        ELSE IF token THEN IF scope = "workspace" THEN Decision("REQUIRE_CONFIRMATION", "none")
                           ELSE only
        ELSE IF confidential /\ scope = "workspace" /\ ~cand.user_confirmed
             THEN Decision("REQUIRE_CONFIRMATION", "none")
        ELSE IF email THEN Decision("REDACT", scope)
        ELSE IF confidential /\ scope = "session" THEN only
        ELSE IF confidential THEN Decision("ALLOW", "workspace")
        ELSE Decision("ALLOW", scope)
  BY DEF Decide, HardSecret, Has
<1>2. Open(cand, ctx, signals) =
        IF scope = "workspace"
        THEN IF token \/ (confidential /\ ~cand.user_confirmed) THEN 0 ELSE 2
        ELSE IF scope = "thread" /\ confidential /\ ~token /\ ~email THEN 2
        ELSE Asked(scope, ctx)
  BY DEF Open, Closed, Widens
<1>3. /\ only.action \in {"SESSION_ONLY", "DENY"} /\ Reached(only, ctx) \in {0, 1}
      /\ scope # "workspace" => Reached(only, ctx) = Asked(scope, ctx)
  BY SessionReach
<1>4. scope \in {"thread", "session", "workspace"}
  BY DEF Candidate, Scopes
<1>. HIDE DEF hard, fails, token, confidential, email, scope, only, decision
<1>5. \A action, target : /\ Decision(action, target).action = action
                          /\ Decision(action, target).target = target
  BY DEF Decision
<1>6. Reached(Decision("DENY", "none"), ctx) = 0 /\ Reached(Decision("REQUIRE_CONFIRMATION", "none"), ctx) = 0
  BY <1>5 DEF Reached
<1>7. Reached(Decision("ALLOW", "workspace"), ctx) = 2
  BY <1>5 DEF Reached, InScope
<1>8. /\ Reached(Decision("REDACT", scope), ctx) = Asked(scope, ctx)
      /\ Reached(Decision("ALLOW", scope), ctx) = Asked(scope, ctx)
  BY <1>4, <1>5 DEF Reached, Asked, InScope
<1>9. Asked("workspace", ctx) = 2 /\ (scope # "workspace" => Asked(scope, ctx) \in {0, 1})
  BY <1>4 DEF Asked
<1>. HIDE DEF reached, Claim
<1>10. ASSUME hard PROVE Claim
  BY <1>1, <1>5, <1>6, <1>10 DEF Claim, reached
<1>11. ASSUME ~hard, fails PROVE Claim
  BY <1>1, <1>3, <1>11 DEF Claim, reached
<1>12. ASSUME ~hard, ~fails, token PROVE Claim
  BY <1>1, <1>2, <1>3, <1>4, <1>5, <1>6, <1>12 DEF Claim, reached
<1>13. ASSUME ~hard, ~fails, ~token, confidential PROVE Claim
  <2>1. CASE scope = "workspace"
    BY <1>1, <1>2, <1>5, <1>6, <1>7, <1>8, <1>9, <1>13, <2>1 DEF Claim, reached
  <2>2. CASE scope = "session"
    BY <1>1, <1>2, <1>3, <1>5, <1>8, <1>9, <1>13, <2>2 DEF Claim, reached
  <2>3. CASE scope = "thread"
    BY <1>1, <1>2, <1>5, <1>7, <1>8, <1>9, <1>13, <2>3 DEF Claim, reached
  <2>. QED  BY <1>4, <2>1, <2>2, <2>3
<1>14. ASSUME ~hard, ~fails, ~token, ~confidential PROVE Claim
  <2>1. decision \in {Decision("REDACT", scope), Decision("ALLOW", scope)}
        /\ (decision.action = "REDACT" => email)
    BY <1>1, <1>5, <1>14
  <2>2. reached = Asked(scope, ctx)
    BY <1>8, <2>1 DEF reached
  <2>3. Open(cand, ctx, signals) = Asked(scope, ctx)
    BY <1>2, <1>9, <1>14
  <2>4. scope = "thread" => reached # 2
    BY <1>9, <2>2
  <2>. QED  BY <1>14, <2>1, <2>2, <2>3, <2>4 DEF Claim
<1>15. Claim
  BY <1>10, <1>11, <1>12, <1>13, <1>14
<1>. QED
  BY <1>15 DEF Claim, reached, hard, fails, email, scope, only, decision

\* With the redaction: an evaluation reaches as far as its decision, or nowhere where
\* personal data was found that cannot be redacted; one that lets a text of the thread
\* into the workspace is the plain decision to allow it there.
LEMMA EvaluationReach ==
  ASSUME NEW cand \in Candidate, NEW ctx \in AccessContext, NEW found, NEW failing
  PROVE  LET signals == Detect(found, failing)
             reach == Reach(Evaluation(cand, ctx, found, failing), ctx)
         IN /\ reach = IF Has(signals, {"email"}) /\ ~Complete(signals) THEN 0
                       ELSE Reached(Decide(cand, signals, ctx), ctx)
            /\ cand.requested_scope = "thread" /\ reach = 2
                 => /\ Evaluation(cand, ctx, found, failing).action = "ALLOW"
                    /\ Evaluation(cand, ctx, found, failing).target = "workspace"
<1>. DEFINE signals == Detect(found, failing)
            decision == Decide(cand, signals, ctx)
            evaluation_ == Evaluation(cand, ctx, found, failing)
            email == Has(signals, {"email"})
            Result(d, visible) == [action |-> d.action, target |-> d.target, visible |-> visible]
<1>1. evaluation_ =
        IF decision.action \in {"DENY", "REQUIRE_CONFIRMATION"} THEN Result(decision, {})
        ELSE IF ~(decision.action = "REDACT" \/ email) THEN Result(decision, Text)
        ELSE IF Complete(signals) THEN Result(decision, Text \ Redacted(signals))
        ELSE Result(Decision("REQUIRE_CONFIRMATION", "none"), {})
  BY DEF Evaluation, Has
<1>2. /\ decision.action = "REDACT" => email
      /\ cand.requested_scope = "thread" /\ Reached(decision, ctx) = 2
           => decision.action = "ALLOW" /\ decision.target = "workspace"
  BY DecisionReach
<1>3. \A d, visible : /\ Reach(Result(d, visible), ctx) = Reached(d, ctx)
                      /\ Result(d, visible).action = d.action
                      /\ Result(d, visible).target = d.target
  BY DEF Reach, Persisted, Reached
<1>4. Reached(Decision("REQUIRE_CONFIRMATION", "none"), ctx) = 0
  BY DEF Reached, Decision
<1>5. decision.action \in {"DENY", "REQUIRE_CONFIRMATION"} => Reached(decision, ctx) = 0
  BY DEF Reached
<1>. HIDE DEF signals, decision, evaluation_, email, Result
<1>6. \/ Reach(evaluation_, ctx) = 0
      \/ \E visible : evaluation_ = Result(decision, visible)
  <2>1. \/ \E visible : evaluation_ = Result(decision, visible)
        \/ evaluation_ = Result(Decision("REQUIRE_CONFIRMATION", "none"), {})
    BY <1>1
  <2>. QED  BY <1>3, <1>4, <2>1
<1>7. Reach(evaluation_, ctx) = IF email /\ ~Complete(signals) THEN 0 ELSE Reached(decision, ctx)
  <2>1. CASE decision.action \in {"DENY", "REQUIRE_CONFIRMATION"}
    BY <1>1, <1>3, <1>5, <2>1
  <2>2. CASE decision.action \notin {"DENY", "REQUIRE_CONFIRMATION"} /\ ~email
    BY <1>1, <1>2, <1>3, <2>2
  <2>3. CASE decision.action \notin {"DENY", "REQUIRE_CONFIRMATION"} /\ email
    BY <1>1, <1>3, <1>4, <2>3
  <2>. QED  BY <2>1, <2>2, <2>3
<1>8. ASSUME cand.requested_scope = "thread", Reach(evaluation_, ctx) = 2
      PROVE  evaluation_.action = "ALLOW" /\ evaluation_.target = "workspace"
  <2>1. PICK visible : evaluation_ = Result(decision, visible)
    BY <1>6, <1>8
  <2>2. /\ Reach(evaluation_, ctx) = Reached(decision, ctx)
        /\ evaluation_.action = decision.action /\ evaluation_.target = decision.target
    BY <1>3, <2>1
  <2>. QED  BY <1>2, <1>8, <2>2
<1>. QED  BY <1>7, <1>8 DEF signals, decision, evaluation_, email

\* A detector that failed keeps the text out of the workspace.
LEMMA FailureReach ==
  ASSUME NEW cand \in Candidate, NEW ctx \in AccessContext, NEW found, NEW failing, failing # {}
  PROVE  Reach(Evaluation(cand, ctx, found, failing), ctx) < 2
<1>. DEFINE signals == Detect(found, failing)
<1>1. Has(signals, {"detector_failure"})
  <2>1. PICK d \in failing : TRUE
    OBVIOUS
  <2>2. Signal("detector_failure", NoSpan) \in signals
    BY <2>1 DEF Detect
  <2>3. Signal("detector_failure", NoSpan).category = "detector_failure"
    BY DEF Signal
  <2>. QED  BY <2>2, <2>3 DEF Has
<1>2. Reach(Evaluation(cand, ctx, found, failing), ctx) =
        IF Has(signals, {"email"}) /\ ~Complete(signals) THEN 0
        ELSE Reached(Decide(cand, signals, ctx), ctx)
  BY EvaluationReach
<1>. HIDE DEF signals
<1>3. Reached(Decide(cand, signals, ctx), ctx) \in {0, 1}
  BY <1>1, DecisionReach, SessionReach
<1>. QED  BY <1>2, <1>3

\* Less is found: a text reaches as far, or it was asked for the thread and what is not
\* found any more is the confidential signal for which it got into the workspace.
LEMMA ReachIsMonotone ==
  ASSUME NEW cand \in Candidate, NEW ctx \in AccessContext,
         NEW found \in SUBSET Facts, NEW f \in Facts, f.category # "placeholder", NEW failing
  PROVE  LET more == Reach(Evaluation(cand, ctx, found, failing), ctx)
         IN \/ more <= Reach(Evaluation(cand, ctx, found \ {f}, failing), ctx)
            \/ /\ cand.requested_scope = "thread" /\ more = 2
               /\ f.category \in {"internal_ip", "confidential_source"}
<1>. DEFINE more == Detect(found, failing)
            less == Detect(found \ {f}, failing)
            After(signals) == Reached(Decide(cand, signals, ctx), ctx)
            Excepted == /\ cand.requested_scope = "thread" /\ After(more) = 2
                        /\ f.category \in {"internal_ip", "confidential_source"}
<1>1. /\ less \subseteq more /\ more \ less \subseteq {f}
      /\ Has(more, {"detector_failure"}) => Has(less, {"detector_failure"})
      /\ \A s \in more : s.category = "placeholder" => s \in less
  BY LessFound
<1>2. /\ Reach(Evaluation(cand, ctx, found, failing), ctx) =
           IF Has(more, {"email"}) /\ ~Complete(more) THEN 0 ELSE After(more)
      /\ Reach(Evaluation(cand, ctx, found \ {f}, failing), ctx) =
           IF Has(less, {"email"}) /\ ~Complete(less) THEN 0 ELSE After(less)
  BY EvaluationReach
<1>. HIDE DEF more, less
<1>3. \A categories : Has(less, categories) => Has(more, categories)
  BY <1>1, LessHas
<1>4. HardSecret(less) => HardSecret(more)
  BY <1>1, LessSecret
<1>5. Complete(more) => Complete(less)
  BY <1>1 DEF Complete, Selected
<1>6. \A signals : After(signals) \in {0, 1, 2}
  BY DEF Reached
<1>7. After(more) <= After(less) \/ Excepted
  <2>. HIDE DEF After
  <2>1. CASE HardSecret(more)
    <3>1. After(more) = 0
      BY <2>1, DecisionReach DEF After
    <3>. QED  BY <1>6, <3>1
  <2>2. CASE ~HardSecret(more) /\ Has(more, {"detector_failure"})
    <3>1. After(more) = After(less)
      BY <1>1, <1>4, <2>2, DecisionReach DEF After
    <3>. QED  BY <1>6, <3>1
  <2>3. CASE ~HardSecret(more) /\ ~Has(more, {"detector_failure"})
    <3>1. After(more) = Open(cand, ctx, more) /\ After(less) = Open(cand, ctx, less)
      BY <1>3, <1>4, <2>3, DecisionReach DEF After
    <3>2. Closed(cand, less) => Closed(cand, more)
      BY <1>3 DEF Closed
    <3>3. ASSUME cand.requested_scope = "thread", Widens(more), ~Widens(less)
          PROVE  f.category \in {"internal_ip", "confidential_source"}
      <4>1. ~Has(less, {"internal_ip", "confidential_source"})
        BY <1>3, <3>3 DEF Widens
      <4>2. PICK s \in more : s.category \in {"internal_ip", "confidential_source"}
        BY <3>3 DEF Widens, Has
      <4>3. s \notin less
        BY <4>1, <4>2 DEF Has
      <4>. QED  BY <1>1, <4>2, <4>3
    <3>4. Asked(cand.requested_scope, ctx) \in {0, 1, 2}
      BY DEF Asked
    <3>5. cand.requested_scope = "thread" => Asked(cand.requested_scope, ctx) \in {0, 1}
      BY DEF Asked
    <3>6. CASE cand.requested_scope = "workspace"
      BY <3>1, <3>2, <3>6 DEF Open
    <3>7. CASE cand.requested_scope = "session"
      BY <3>1, <3>4, <3>7 DEF Open
    <3>8. CASE cand.requested_scope = "thread"
      <4>1. CASE Widens(more) /\ ~Widens(less)
        BY <3>1, <3>3, <3>8, <4>1 DEF Open
      <4>2. CASE ~Widens(more) \/ Widens(less)
        BY <3>1, <3>4, <3>5, <3>8, <4>2 DEF Open
      <4>. QED  BY <4>1, <4>2
    <3>. QED  BY <3>6, <3>7, <3>8 DEF Candidate, Scopes
  <2>. QED  BY <2>1, <2>2, <2>3
<1>8. \/ Has(more, {"email"}) /\ ~Complete(more)
      \/ ~(Has(less, {"email"}) /\ ~Complete(less))
  BY <1>3, <1>5
<1>. HIDE DEF After
<1>. QED  BY <1>2, <1>6, <1>7, <1>8

-----------------------------------------------------------------------------
(***************************************************************************)
(* The states of the gate.                                                 *)
(***************************************************************************)
\* A result is that of the evaluation of the candidate as it is.
PolicyInv ==
  /\ facts \in SUBSET Facts
  /\ candidate \in Candidate
  /\ context \in AccessContext
  /\ evaluation # NotEvaluated => evaluation = Evaluation(candidate, context, facts, failed)

LEMMA PolicyInvHolds == PolicySpec => []PolicyInv
<1>1. PolicyInit => PolicyInv
  BY DEF PolicyInit, PolicyInv, Candidate, AccessContext, Scopes
<1>2. PolicyInv /\ [PolicyNext]_policyVars => PolicyInv'
  <2>. SUFFICES ASSUME PolicyInv, [PolicyNext]_policyVars
                PROVE  PolicyInv'
    OBVIOUS
  <2>1. CASE Evaluate
    BY <2>1 DEF Evaluate, PolicyInv
  <2>2. CASE ApplyConfirmation
    <3>1. candidate' = [candidate EXCEPT !.user_confirmed = TRUE] /\ evaluation' = NotEvaluated
          /\ UNCHANGED <<facts, context>>
      BY <2>2 DEF ApplyConfirmation
    <3>2. candidate' \in Candidate
      BY <3>1 DEF PolicyInv, Candidate
    <3>. QED  BY <3>1, <3>2 DEF PolicyInv
  <2>3. CASE UNCHANGED policyVars
    BY <2>3 DEF PolicyInv, policyVars
  <2>. QED  BY <2>1, <2>2, <2>3 DEF PolicyNext
<1>. QED  BY <1>1, <1>2, PTL DEF PolicySpec

\* Whatever the detectors find in a text besides, whichever of them fail, whoever asks for
\* whatever scope and whether the user confirmed it: the policy engine and the redaction
\* together never let it reach further for having found more, but for the confidential
\* text that is asked for the thread and gets into the workspace; and never into the
\* workspace when a detector failed.
THEOREM FindingMoreReachesLess == PolicySpec => []MoreSignalsReachLess
<1>1. PolicyInv => MoreSignalsReachLess
  <2>. SUFFICES ASSUME PolicyInv, evaluation # NotEvaluated
                PROVE  MoreSignalsReachLess
    BY DEF MoreSignalsReachLess
  <2>1. evaluation = Evaluation(candidate, context, facts, failed)
    BY DEF PolicyInv
  <2>2. failed # {} => Reach(evaluation, context) < 2
    BY <2>1, FailureReach DEF PolicyInv
  <2>3. ASSUME NEW f \in facts, f.category # "placeholder", ~WidenedFor(f)
        PROVE  Reach(evaluation, context)
                 <= Reach(Evaluation(candidate, context, facts \ {f}, failed), context)
    <3>1. f \in Facts /\ facts \in SUBSET Facts /\ candidate \in Candidate /\ context \in AccessContext
      BY DEF PolicyInv
    <3>2. \/ Reach(evaluation, context)
               <= Reach(Evaluation(candidate, context, facts \ {f}, failed), context)
          \/ /\ candidate.requested_scope = "thread" /\ Reach(evaluation, context) = 2
             /\ f.category \in {"internal_ip", "confidential_source"}
      BY <2>1, <2>3, <3>1, ReachIsMonotone
    <3>3. candidate.requested_scope = "thread" /\ Reach(evaluation, context) = 2
            => evaluation.action = "ALLOW" /\ evaluation.target = "workspace"
      BY <2>1, <3>1, EvaluationReach
    <3>. QED  BY <2>3, <3>2, <3>3 DEF WidenedFor
  <2>. QED  BY <2>2, <2>3 DEF MoreSignalsReachLess
<1>. QED  BY <1>1, PolicyInvHolds, PTL

-----------------------------------------------------------------------------
(***************************************************************************)
(* The spans that are replaced.  For every finite set of spans there is a  *)
(* set of accepted ones as the loop of the redactor makes it: begin with   *)
(* the first span, leave out what overlaps it, go on with the rest.        *)
(***************************************************************************)
\* A nonempty set of numbers has a least one.
LEMMA Least ==
  ASSUME NEW S \in SUBSET Nat, S # {}
  PROVE  \E m \in S : \A n \in S : m <= n
<1>. DEFINE R == OpToRel(<, Nat)
<1>1. IsWellFoundedOn(R, Nat)
  BY NatLessThanWellFounded
<1>2. PICK m \in S : \A n \in S : <<n, m>> \notin R
  <2>. HIDE DEF R
  <2>. QED  BY <1>1, WFMin
<1>3. \A n \in S : ~(n < m)
  BY <1>2 DEF OpToRel
<1>. QED  BY <1>3

\* Of two spans one is the earlier, and never each of them.
LEMMA EarlierIsAnOrder ==
  /\ \A a, b \in Nat \X Nat : a # b => Earlier(a, b) \/ Earlier(b, a)
  /\ \A a, b \in Nat \X Nat : Earlier(a, b) => ~Earlier(b, a)
  /\ \A a, b, c \in Nat \X Nat : Earlier(a, b) /\ Earlier(b, c) => Earlier(a, c)
BY DEF Earlier

\* The first span of a set: the one with the fewest before it.
LEMMA FirstSpan ==
  ASSUME NEW S \in SUBSET (Nat \X Nat), IsFiniteSet(S), S # {}
  PROVE  \E m \in S : \A s \in S \ {m} : Earlier(m, s)
<1>. DEFINE before(s) == {a \in S : Earlier(a, s)}
            places == {Cardinality(before(s)) : s \in S}
<1>1. \A s \in S : IsFiniteSet(before(s)) /\ Cardinality(before(s)) \in Nat
  BY FS_Subset, FS_CardinalityType
<1>2. places \in SUBSET Nat /\ places # {}
  BY <1>1
<1>3. PICK place \in places : \A n \in places : place <= n
  <2>. HIDE DEF places
  <2>. QED  BY <1>2, Least
<1>4. PICK m \in S : Cardinality(before(m)) = place
  BY <1>3
<1>5. ASSUME NEW s \in S \ {m}, ~Earlier(m, s) PROVE FALSE
  <2>1. Earlier(s, m)
    BY <1>5, EarlierIsAnOrder
  <2>2. before(s) \subseteq before(m)
    BY <2>1, EarlierIsAnOrder
  <2>3. s \in before(m) /\ s \notin before(s)
    BY <2>1, EarlierIsAnOrder
  <2>4. Cardinality(before(s)) < Cardinality(before(m))
    <3>. HIDE DEF before
    <3>1. /\ Cardinality(before(s)) <= Cardinality(before(m))
          /\ Cardinality(before(s)) = Cardinality(before(m)) => before(s) = before(m)
      BY <1>1, <2>2, FS_Subset
    <3>. QED  BY <1>1, <2>3, <3>1
  <2>5. place <= Cardinality(before(s))
    BY <1>3
  <2>. HIDE DEF before
  <2>. QED  BY <1>1, <1>4, <2>4, <2>5
<1>. QED  BY <1>5

\* The spans of a set that are accepted.
AcceptedOf(K, S) == \A s \in S : s \in K <=> ~\E a \in K : Earlier(a, s) /\ SpansOverlap(a, s)

LEMMA AcceptedExist ==
  ASSUME NEW S \in SUBSET (Nat \X Nat), IsFiniteSet(S), \A s \in S : s[1] <= s[2]
  PROVE  \E K \in SUBSET S : AcceptedOf(K, S)
<1>. DEFINE bad == {T \in SUBSET S : ~\E K \in SUBSET T : AcceptedOf(K, T)}
            sizes == {Cardinality(T) : T \in bad}
<1>. SUFFICES ASSUME bad # {} PROVE FALSE
  OBVIOUS
<1>1. \A T \in SUBSET S : IsFiniteSet(T) /\ Cardinality(T) \in Nat
  BY FS_Subset, FS_CardinalityType
<1>2. PICK size \in sizes : \A n \in sizes : size <= n
  <2>1. sizes \in SUBSET Nat /\ sizes # {}
    BY <1>1
  <2>. HIDE DEF sizes
  <2>. QED  BY <2>1, Least
<1>3. PICK T \in bad : Cardinality(T) = size
  BY <1>2
<1>4. T \subseteq S /\ ~\E K \in SUBSET T : AcceptedOf(K, T)
  BY <1>3
<1>5. T # {}
  <2>1. AcceptedOf({}, {})
    BY DEF AcceptedOf
  <2>. QED  BY <1>4, <2>1
<1>6. PICK m \in T : \A s \in T \ {m} : Earlier(m, s)
  BY <1>1, <1>4, <1>5, FirstSpan
<1>. DEFINE rest == {s \in T \ {m} : ~SpansOverlap(m, s)}
<1>7. PICK K \in SUBSET rest : AcceptedOf(K, rest)
  <2>1. rest \subseteq T /\ rest # T
    OBVIOUS
  <2>2. Cardinality(rest) < Cardinality(T)
    <3>. HIDE DEF rest
    <3>1. /\ Cardinality(rest) <= Cardinality(T)
          /\ Cardinality(rest) = Cardinality(T) => rest = T
      BY <1>1, <1>4, <2>1, FS_Subset
    <3>2. Cardinality(rest) \in Nat /\ Cardinality(T) \in Nat
      BY <1>1, <1>4, <2>1
    <3>. QED  BY <2>1, <3>1, <3>2
  <2>3. rest \notin bad
    <3>1. ASSUME rest \in bad PROVE FALSE
      <4>1. size <= Cardinality(rest)
        BY <1>2, <3>1
      <4>2. Cardinality(rest) \in Nat /\ Cardinality(T) \in Nat
        BY <1>1, <1>4, <2>1
      <4>. HIDE DEF rest
      <4>. QED  BY <1>3, <2>2, <4>1, <4>2
    <3>. QED  BY <3>1
  <2>. HIDE DEF rest
  <2>. QED  BY <1>4, <2>1, <2>3
<1>8. AcceptedOf(K \cup {m}, T)
  <2>. SUFFICES ASSUME NEW s \in T
                PROVE  s \in K \cup {m} <=> ~\E a \in K \cup {m} : Earlier(a, s) /\ SpansOverlap(a, s)
    BY DEF AcceptedOf
  <2>1. CASE s = m
    <3>1. \A a \in K \cup {m} : ~Earlier(a, m)
      BY <1>4, <1>6, <1>7, EarlierIsAnOrder
    <3>. QED  BY <2>1, <3>1
  <2>2. CASE s # m /\ SpansOverlap(m, s)
    BY <1>6, <1>7, <2>2
  <2>3. CASE s # m /\ ~SpansOverlap(m, s)
    BY <1>7, <2>3 DEF AcceptedOf
  <2>. QED  BY <2>1, <2>2, <2>3
<1>. QED  BY <1>4, <1>7, <1>8

LEMMA FiniteImage ==
  ASSUME NEW S, IsFiniteSet(S), NEW f, DOMAIN f = S, NEW T, T = {f[x] : x \in S}
  PROVE  IsFiniteSet(T)
<1>. DEFINE g == [x \in S |-> f[x]]
<1>1. g \in Surjection(S, T)
  BY DEF Surjection
<1>. QED  BY <1>1, FS_Surjection

LEMMA FiniteAdd ==
  \A S, x : IsFiniteSet(S) => IsFiniteSet(S \cup {x})
BY FS_AddElement

\* The spans that the redactor replaces are those accepted.
LEMMA RedactorAccepts ==
  ASSUME NEW signals, IsFiniteSet(signals), \A s \in signals : s.span \in Spans \cup {NoSpan}
  PROVE  LET spans == {s.span : s \in signals} \ {NoSpan}
         IN NonOverlappingSpans(signals) \in SUBSET spans /\ AcceptedOf(NonOverlappingSpans(signals), spans)
<1>. DEFINE spans == {s.span : s \in signals} \ {NoSpan}
<1>1. spans \in SUBSET Spans
  OBVIOUS
<1>2. IsFiniteSet({s.span : s \in signals})
  <2>. DEFINE f == [s \in signals |-> s.span]
  <2>1. {s.span : s \in signals} = {f[s] : s \in signals} /\ DOMAIN f = signals
    OBVIOUS
  <2>. HIDE DEF f
  <2>. QED  BY <2>1, FiniteImage
<1>3. IsFiniteSet(spans)
  BY <1>2, FS_Subset
<1>4. NonOverlappingSpans(signals) = CHOOSE K \in SUBSET spans : AcceptedOf(K, spans)
  BY DEF NonOverlappingSpans, AcceptedOf
<1>5. \E K \in SUBSET spans : AcceptedOf(K, spans)
  <2>. HIDE DEF spans
  <2>. QED  BY <1>1, <1>3, AcceptedExist, SpansAssumption
<1>. HIDE DEF spans
<1>6. NonOverlappingSpans(signals) \in SUBSET spans /\ AcceptedOf(NonOverlappingSpans(signals), spans)
  BY <1>4, <1>5
<1>. QED  BY <1>6 DEF spans

\* Where no spans cross, a span that was passed over lies within an accepted one: of two
\* spans that overlap, the earlier contains the other.
LEMMA NothingBetween ==
  ASSUME NEW signals, IsFiniteSet(signals), \A s \in signals : s.span \in Spans \cup {NoSpan},
         \A s, t \in signals : SpansOverlap(s.span, t.span) =>
            Positions(s.span) \subseteq Positions(t.span) \/ Positions(t.span) \subseteq Positions(s.span),
         NEW f \in signals, f.span # NoSpan
  PROVE  Positions(f.span) \subseteq UNION {Positions(s) : s \in NonOverlappingSpans(signals)}
<1>. DEFINE spans == {s.span : s \in signals} \ {NoSpan}
            K == NonOverlappingSpans(signals)
<1>1. K \in SUBSET spans /\ AcceptedOf(K, spans)
  BY RedactorAccepts
<1>2. f.span \in spans /\ spans \in SUBSET Spans
  OBVIOUS
<1>3. CASE f.span \in K
  BY <1>3
<1>4. CASE f.span \notin K
  <2>1. PICK a \in K : Earlier(a, f.span) /\ SpansOverlap(a, f.span)
    BY <1>1, <1>2, <1>4 DEF AcceptedOf
  <2>2. PICK s \in signals : s.span = a
    BY <1>1
  <2>3. a \in Spans /\ f.span \in Spans
    BY <1>1, <1>2
  <2>4. Positions(a) \subseteq Positions(f.span) \/ Positions(f.span) \subseteq Positions(a)
    BY <2>1, <2>2
  <2>5. ASSUME Positions(a) \subseteq Positions(f.span)
        PROVE  Positions(f.span) \subseteq Positions(a)
    <3>1. a[1] \in Nat /\ a[2] \in Nat /\ f.span[1] \in Nat /\ f.span[2] \in Nat /\ a[1] <= a[2]
      BY <2>3, SpansAssumption
    <3>2. a # NoSpan
      BY <2>1 DEF SpansOverlap
    <3>3. a[1] \in Positions(f.span) /\ a[2] \in Positions(f.span)
      BY <2>5, <3>1, <3>2 DEF Positions
    <3>4. f.span[1] <= a[1] /\ a[2] <= f.span[2]
      BY <3>1, <3>3 DEF Positions
    <3>5. FALSE
      BY <2>1, <3>1, <3>4 DEF Earlier
    <3>. QED  BY <3>5
  <2>. QED  BY <2>1, <2>4, <2>5
<1>. QED  BY <1>3, <1>4

\* A text holds finitely many signals, and there are five detectors to fail.
FoundInv == /\ PolicyInv
            /\ IsFiniteSet(facts) /\ IsFiniteSet(failed) /\ "detector_failure" \notin Categories

LEMMA FoundInvHolds == PolicySpec => []FoundInv
<1>1. IsFiniteSet(Detectors) /\ "detector_failure" \notin Categories
  <2>1. Categories = {"private_key", "api_key", "email", "internal_ip", "high_entropy_token",
                      "placeholder", "confidential_source"}
    BY DEF Categories, DetectorOf
  <2>2. Detectors = {} \cup {"secrets"} \cup {"entities"} \cup {"entropy"} \cup {"placeholders"} \cup {"source"}
    BY <2>1 DEF Detectors, DetectorOf
  <2>3. IsFiniteSet({} \cup {"secrets"} \cup {"entities"})
    BY FS_EmptySet, FiniteAdd
  <2>4. IsFiniteSet({} \cup {"secrets"} \cup {"entities"} \cup {"entropy"} \cup {"placeholders"} \cup {"source"})
    BY <2>3, FiniteAdd
  <2>. QED  BY <2>1, <2>2, <2>4
<1>2. PolicyInit => IsFiniteSet(facts) /\ IsFiniteSet(failed)
  BY FS_EmptySet DEF PolicyInit
<1>3. IsFiniteSet(facts) /\ IsFiniteSet(failed) /\ [PolicyNext]_policyVars
        => IsFiniteSet(facts)' /\ IsFiniteSet(failed)'
  <2>1. Evaluate => failed' \in SUBSET Detectors /\ facts' = facts
    BY DEF Evaluate
  <2>2. Evaluate => IsFiniteSet(failed')
    BY <1>1, <2>1, FS_Subset
  <2>. QED  BY <2>1, <2>2 DEF PolicyNext, ApplyConfirmation, policyVars
<1>4. PolicySpec => [](IsFiniteSet(facts) /\ IsFiniteSet(failed))
  BY <1>2, <1>3, PTL DEF PolicySpec
<1>5. PolicyInv /\ IsFiniteSet(facts) /\ IsFiniteSet(failed) => FoundInv
  BY <1>1 DEF FoundInv
<1>. QED  BY <1>4, <1>5, PolicyInvHolds, PTL

\* Whatever finite set of signals a text holds and whichever detectors fail: what is stored
\* shows no personal data that a detector found and did not fail on, where no two spans
\* cross, and a text of which it is not known where the data stands is not stored.
THEOREM StoredIsRedacted == PolicySpec => []StoredTextIsRedacted
<1>1. FoundInv => StoredTextIsRedacted
  <2>. SUFFICES ASSUME FoundInv, Persisted(evaluation), ~Crossing,
                       NEW f \in facts, f.category = "email", DetectorOf[f.category] \notin failed
                PROVE  f.span # NoSpan /\ Positions(f.span) \cap evaluation.visible = {}
    BY DEF StoredTextIsRedacted
  <2>. DEFINE signals == Detect(facts, failed)
              decision == Decide(candidate, signals, context)
              Result(d, visible) == [action |-> d.action, target |-> d.target, visible |-> visible]
  <2>1. f \in signals /\ f \in Selected(signals)
    BY DEF Detect, Selected
  <2>2. evaluation = Evaluation(candidate, context, facts, failed)
    BY DEF FoundInv, PolicyInv, Persisted, NotEvaluated
  <2>3. evaluation =
          IF decision.action \in {"DENY", "REQUIRE_CONFIRMATION"} THEN Result(decision, {})
          ELSE IF Complete(signals) THEN Result(decision, Text \ Redacted(signals))
          ELSE Result(Decision("REQUIRE_CONFIRMATION", "none"), {})
    BY <2>1, <2>2 DEF Evaluation
  <2>4. Decision("REQUIRE_CONFIRMATION", "none").action = "REQUIRE_CONFIRMATION"
    BY DEF Decision
  <2>. HIDE DEF decision
  <2>5. Complete(signals) /\ evaluation.visible = Text \ Redacted(signals)
    <3>. HIDE DEF signals
    <3>. QED  BY <2>3, <2>4 DEF Persisted
  <2>6. f.span # NoSpan
    BY <2>1, <2>5 DEF Complete
  <2>7. Selected(signals) \subseteq facts
    BY DEF Selected, Detect, Signal
  <2>8. IsFiniteSet(Selected(signals))
    BY <2>7, FS_Subset DEF FoundInv
  <2>9. \A s \in Selected(signals) : s.span \in Spans \cup {NoSpan}
    BY <2>7 DEF FoundInv, PolicyInv, Facts, Signal
  <2>10. \A s, t \in Selected(signals) : SpansOverlap(s.span, t.span) =>
           Positions(s.span) \subseteq Positions(t.span) \/ Positions(t.span) \subseteq Positions(s.span)
    BY <2>7 DEF Crossing
  <2>11. Positions(f.span) \subseteq Redacted(signals)
    <3>. HIDE DEF signals
    <3>. QED  BY <2>1, <2>6, <2>8, <2>9, <2>10, NothingBetween DEF Redacted
  <2>. QED  BY <2>5, <2>6, <2>11
<1>. QED  BY <1>1, FoundInvHolds, PTL

=============================================================================
