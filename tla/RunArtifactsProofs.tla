-------------------------- MODULE RunArtifactsProofs --------------------------
(***************************************************************************)
(* Proofs about RunArtifacts, for any routes, answers, verdicts and        *)
(* capsules: what the contracts refuse, what becomes of a dissent, what a  *)
(* receipt that ships rests on, and what the scripts accept.               *)
(***************************************************************************)
EXTENDS RunArtifacts, FiniteSetTheorems, WellFoundedInduction, SequenceTheorems, TLAPS

-----------------------------------------------------------------------------
(* The inductive invariant *)

Analysed == {"analysed", "grounded", "pending", "lost", "recorded", "refused"}
Phases == {"dispatch", "dispatched"} \cup Analysed
Ended == {"recorded", "refused"}

Broken == {"failed", "timeout", "cancelled", "policy_blocked"}

Finding == [severity : {"blocker", "major", "minor"}, summary : STRING,
            checkable : BOOLEAN, verification_id : STRING \cup {None},
            stance_key : STRING, stance : {"supports", "opposes", "uncertain"}]

Review == [recommendation : Recommendations,
           coverage : SUBSET STRING, blind_spots : SUBSET STRING, findings : Seq(Finding)]

\* A call as it may have ended: only one that completed has an output, and a
\* cost limit lets none complete.
IsCall(r, n) ==
  /\ r = Result(r.handle, n, r.status, r.effective_model, r.output)
  /\ r.handle \in External
  /\ \/ /\ r.status = "completed" /\ r.effective_model = route.model[r.handle]
        /\ r.output \in Outputs /\ ~route.capped
     \/ /\ r.status \in Broken /\ r.effective_model \in {None, route.model[r.handle]}
        /\ r.output = NoReview

\* Only a judge is called more than once.
CallInv ==
  /\ route \in Routes /\ phase \in Phases
  /\ results = [i \in 1..Len(results) |-> results[i]] /\ Len(results) \in Nat
  /\ \A i \in DOMAIN results : IsCall(results[i], i)
  /\ ~Ranked => \A i, j \in DOMAIN results : results[i].handle = results[j].handle => i = j
  /\ phase = "dispatch" =>
       \A i \in DOMAIN results :
         IF i <= Len(route.asked) THEN results[i].handle = route.asked[i] ELSE Ranked
  /\ phase # "dispatch" =>
       /\ results # << >>
       /\ "topology" \notin degradation => AllCompleted(results)

Called(h) == {i \in DOMAIN results : results[i].handle = h}

\* The participants and the findings that the analysis is built of.
Parts == {Participant(Input(h)) : h \in ToSet(route.participants)}
Said == UNION {FindingsOf(r) : r \in Answered}

IsAnalysis(a) ==
  a = [topology |-> a.topology, context_complete |-> a.context_complete,
       participants |-> a.participants, findings |-> a.findings, consensus |-> a.consensus,
       contradictions |-> a.contradictions, unique_insights |-> a.unique_insights,
       partial_coverage |-> a.partial_coverage, grounding_candidates |-> a.grounding_candidates,
       grounding_results |-> a.grounding_results, proof_results |-> a.proof_results,
       effect |-> a.effect]

\* Nothing that happens to an analysis touches what it was built of.
BuiltInv ==
  /\ IsAnalysis(analysis)
  /\ analysis.topology = route.topology
  /\ analysis.participants = Parts
  /\ analysis.context_complete = \A p \in Parts : ContextComplete(p)
  /\ analysis.consensus = Consensus(Said)
  /\ analysis.contradictions = Contradictions(Said)
  /\ analysis.unique_insights = UniqueInsights(Said)
  /\ analysis.partial_coverage = PartialCoverage(Parts)
  /\ analysis.grounding_candidates = Candidates(Said)

IsFinding(f) ==
  f = [id |-> f.id, source_id |-> f.source_id, severity |-> f.severity, summary |-> f.summary,
       checkable |-> f.checkable, verification_id |-> f.verification_id,
       stance_key |-> f.stance_key, stance |-> f.stance, status |-> f.status,
       strength |-> f.strength]

\* One finding in two of its states.
Same(f, g) ==
  /\ f.id = g.id /\ f.source_id = g.source_id /\ f.severity = g.severity
  /\ f.summary = g.summary /\ f.checkable = g.checkable
  /\ f.verification_id = g.verification_id
  /\ f.stance_key = g.stance_key /\ f.stance = g.stance

\* The findings fs are the findings gs, each once, in whatever state.
Keeps(fs, gs) ==
  /\ \A f \in fs : IsFinding(f) /\ \E g \in gs : Same(f, g)
  /\ \A g \in gs : \E f \in fs : Same(f, g)
  /\ \A f, g \in fs : f.id = g.id => f = g

\* What an execution confirmed, it grounds; what is grounded is not dismissed.
Grounded(a) == Confirmed(a.grounding_results) \cup Confirmed(a.proof_results)

FindingInv ==
  /\ Keeps(analysis.findings, Said)
  /\ \A f \in analysis.findings :
       /\ f.strength = "grounded" <=> f.id \in Grounded(analysis)
       /\ f.strength = "grounded" => f.status \in {"grounded", "accepted", "resolved", "deadlock"}
       /\ phase \notin Ended =>
            f.status = IF f.strength = "grounded" THEN "grounded" ELSE "proposed"

\* One result for each candidate that was looked at, and it says what its
\* execution says.
ResultInv ==
  /\ \A r \in analysis.grounding_results :
       /\ \E c \in Candidates(Said) :
            c.finding_id = r.finding_id /\ c.verification_id = r.verification_id
       /\ r.verdict \in {"confirmed", "not-reproduced", "inconclusive"}
       /\ r.verdict = "confirmed" <=> Confirming(r)
       /\ r.verdict = "confirmed" => r.exit_code \notin {0, None}
       /\ r.verdict = "not-reproduced" =>
            /\ r.execution_status = "completed" /\ r.exit_code = 0
            /\ r.failure_class = None /\ ~r.matched_expected_failure
  /\ \A r, s \in analysis.grounding_results : r.finding_id = s.finding_id => r = s
  /\ phase = "analysed" => analysis.grounding_results = {}
  /\ phase \notin Ended => analysis.proof_results = {}

\* Until findings are disposed of, a reviewer who asked for changes keeps the
\* run from an effect of its own.
EffectInv ==
  IF phase \in Ended THEN analysis.effect = Effect(analysis, analysis.findings)
  ELSE (\/ ~analysis.context_complete
        \/ \E p \in Parts : p.status = "completed" /\ p.recommendation \in {"block", "revise"})
       => analysis.effect = "human-required"

AnalysisInv ==
  phase \in Analysed => BuiltInv /\ FindingInv /\ ResultInv /\ EffectInv

OutcomeInv ==
  /\ phase = "lost" => Unusable
  /\ phase \in {"pending"} \cup Ended => ~Unusable
  /\ phase \in Ended =>
       /\ \E waited \in BOOLEAN : receipt = Receipt(analysis, waited)
       /\ ValidAnalysis(analysis)
       /\ phase = "recorded" <=> Linked(receipt, analysis)

IInv ==
  /\ CallInv
  /\ phase \notin Analysed => analysis = None
  /\ AnalysisInv
  /\ OutcomeInv

-----------------------------------------------------------------------------
(* Data *)

LEMMA LeastIs ==
  ASSUME NEW S \in SUBSET Nat, S # {}
  PROVE  \E i \in S : \A j \in S : i <= j
<1>1. PICK i \in S : \A j \in S : ~(<<j, i>> \in OpToRel(<, Nat))
  BY NatLessThanWellFounded, WFMin
<1>2. \A j \in S : ~(j < i)
  BY <1>1 DEF OpToRel
<1> QED
  BY <1>2

LEMMA MinIn ==
  ASSUME NEW S \in SUBSET Nat, S # {}
  PROVE  Min(S) \in S
BY LeastIs DEF Min

LEMMA MaxIn ==
  ASSUME NEW n \in Nat, NEW S \in SUBSET (1..n), S # {}
  PROVE  Max(S) \in S
<1> DEFINE T == {n - i : i \in S}
<1>1. T \in SUBSET Nat /\ T # {}
  <2>1. \A i \in S : n - i \in Nat
    OBVIOUS
  <2>2. T \subseteq Nat
    BY <2>1
  <2> QED
    BY <2>2
<1>2. PICK d \in T : \A e \in T : d <= e
  BY <1>1, LeastIs
<1>3. PICK i \in S : d = n - i
  BY <1>2
<1>4. \A j \in S : i >= j
  <2> TAKE j \in S
  <2>1. d <= n - j
    BY <1>2
  <2> QED
    BY <1>3, <2>1
<1> QED
  BY <1>4 DEF Max

\* What the reviewer schema says of an answer.
LEMMA OutputsAre ==
  ASSUME NEW o \in Outputs
  PROVE  o \in Review \/ o = NoReview
BY ReviewAssumption DEF Outputs, Review, Finding

LEMMA AtLeastTwo ==
  ASSUME NEW S, IsFiniteSet(S), NEW x \in S, NEW y \in S, x # y
  PROVE  Cardinality(S) >= 2
<1>1. Cardinality({x}) = 1 /\ IsFiniteSet({x})
  BY FS_Singleton
<1>2. Cardinality({x} \cup {y}) = 2 /\ IsFiniteSet({x} \cup {y})
  BY <1>1, FS_AddElement
<1>3. {x} \cup {y} \in SUBSET S
  OBVIOUS
<1>4. Cardinality({x} \cup {y}) <= Cardinality(S) /\ Cardinality(S) \in Nat
  BY <1>3, FS_Subset, FS_CardinalityType
<1> QED
  BY <1>2, <1>4

LEMMA TwoOf ==
  ASSUME NEW S, IsFiniteSet(S), Cardinality(S) >= 2
  PROVE  \E x, y \in S : x # y
<1>1. S # {}
  BY FS_EmptySet
<1>2. PICK x \in S : TRUE
  BY <1>1
<1>3. CASE S = {x}
  BY <1>3, FS_Singleton
<1> QED
  BY <1>2, <1>3

LEMMA ImageFinite ==
  ASSUME NEW S, IsFiniteSet(S), NEW f, DOMAIN f = S
  PROVE  IsFiniteSet({f[x] : x \in S})
<1> DEFINE g == [x \in S |-> f[x]]
<1>1. g \in Surjection(S, {f[x] : x \in S})
  BY DEF Surjection
<1> QED
  BY <1>1, FS_Surjection

\* A map that keeps elements apart keeps their number.
LEMMA InjectiveImage ==
  ASSUME NEW S, IsFiniteSet(S), NEW f, DOMAIN f = S, \A x, y \in S : f[x] = f[y] => x = y
  PROVE  Cardinality({f[x] : x \in S}) = Cardinality(S)
<1> DEFINE T == {f[x] : x \in S}
           g == [x \in S |-> f[x]]
<1>1. g \in Surjection(S, T)
  BY DEF Surjection
<1>2. g \in Injection(S, T)
  BY DEF Injection, IsInjective
<1> QED
  BY <1>1, <1>2, FS_Surjection

-----------------------------------------------------------------------------
(* Calls and participants *)

LEMMA ReviewIs ==
  ASSUME NEW o \in Review
  PROVE  /\ o.recommendation \in Recommendations
         /\ o.coverage \subseteq STRING
         /\ o.findings \in Seq(Finding)
BY DEF Review

\* What a call says of itself.
LEMMA CallIs ==
  ASSUME NEW r, NEW n, IsCall(r, n)
  PROVE  /\ r.call_id = <<r.handle, n>> /\ r.family = route.family[r.handle]
         /\ r.handle \in External
         /\ r.status \in Broken \cup {"completed"}
         /\ r.status = "completed" => r.output \in Outputs /\ r.effective_model = route.model[r.handle]
         /\ r.status # "completed" => r.output = NoReview
BY DEF IsCall, Result, Broken

LEMMA Representatives ==
  ASSUME CallInv, NEW h
  PROVE  IF Called(h) = {}
         THEN Representative(h) = [Failed(h, 0, "failed") EXCEPT !.call_id = Blank]
         ELSE \E i \in Called(h) :
                /\ Representative(h) = results[i]
                /\ results[i].status = "completed" =>
                     \A j \in Called(h) : results[j].status = "completed"
<1> DEFINE broken == {i \in Called(h) : results[i].status # "completed"}
<1>1. Called(h) \in SUBSET (1..Len(results)) /\ Len(results) \in Nat
  BY DEF CallInv, Called
<1>2. Representative(h) = IF Called(h) = {} THEN [Failed(h, 0, "failed") EXCEPT !.call_id = Blank]
                          ELSE results[IF broken = {} THEN Max(Called(h)) ELSE Min(broken)]
  BY DEF Representative, Called
<1>3. CASE broken = {} /\ Called(h) # {}
  <2>1. Max(Called(h)) \in Called(h)
    BY <1>1, <1>3, MaxIn
  <2> QED
    BY <1>2, <1>3, <2>1
<1>4. CASE broken # {}
  <2>1. broken \in SUBSET Nat
    BY <1>1
  <2>2. Min(broken) \in broken
    BY <1>4, <2>1, MinIn
  <2> QED
    BY <1>2, <1>4, <2>2
<1> QED
  BY <1>2, <1>3, <1>4

LEMMA RouteIs ==
  ASSUME CallInv
  PROVE  /\ route.topology \in {"review", "adversarial-review", "dual-review", "panel-rank", "advisor"}
         /\ route.participants \in Seq(STRING) /\ IsInjective(route.participants)
         /\ \A i \in DOMAIN route.participants : route.participants[i] = "self" => i = 1
         /\ route.asked \in Seq(External) /\ route.asked # << >> /\ IsInjective(route.asked)
         /\ Ranked => route.judge \in External
         /\ route.model \in [ToSet(route.participants) -> STRING]
         /\ "self" \notin External /\ External \subseteq ToSet(route.participants)
         /\ External \subseteq STRING
<1> DEFINE handles == ToSet(route.participants)
<1>1. /\ route.topology \in {"review", "adversarial-review", "dual-review", "panel-rank", "advisor"}
      /\ route.participants \in Seq(STRING) /\ IsInjective(route.participants)
      /\ \A i \in DOMAIN route.participants : route.participants[i] = "self" => i = 1
      /\ route.asked \in Seq(handles \ {"self"}) /\ route.asked # << >> /\ IsInjective(route.asked)
      /\ route.topology = "panel-rank" => route.judge \in handles \ {"self"}
      /\ route.model \in [handles -> STRING]
  BY RouteAssumption DEF CallInv
<1>2. \A i \in DOMAIN route.participants : route.participants[i] \in STRING
  BY <1>1
<1>3. handles \subseteq STRING
  BY <1>2 DEF ToSet
<1> QED
  BY <1>1, <1>3 DEF External, Ranked

\* What stands for the active session.
LEMMA OwnPart ==
  LET p == Participant(Input("self"))
  IN  /\ p.source_id = "self" /\ p.call_id = None /\ p.status = "completed"
      /\ p.effective_model = route.model["self"]
      /\ p.coverage = None /\ p.recommendation = None /\ ContextComplete(p)
<1> DEFINE p == Participant(Input("self"))
<1>1. Input("self") = [result |-> SelfResult, context_complete |-> TRUE]
  BY DEF Input
<1>2. /\ p.source_id = "self" /\ p.call_id = None /\ p.status = "completed"
      /\ p.effective_model = route.model["self"] /\ p.context_complete
      /\ p.coverage = None /\ p.recommendation = None /\ p.blind_spots = {}
  BY <1>1 DEF Participant, ParticipantStatus, SelfResult, NoReview
<1>3. None # "abstain"
  BY NoneAssumption DEF Recommendations
<1> QED
  BY <1>2, <1>3 DEF ContextComplete

LEMMA StatusIs ==
  ASSUME NEW status \in Broken \cup {"completed"}
  PROVE  /\ ParticipantStatus(status) = RecordStatus(status)
         /\ RecordStatus(status) = "completed" <=> status = "completed"
BY DEF ParticipantStatus, RecordStatus, Broken

\* What stands for an external participant: a call of its handle, and a
\* completed one only if all of them completed.
LEMMA OtherPart ==
  ASSUME CallInv, NEW h \in External
  PROVE  LET p == Participant(Input(h))
         IN  /\ p.source_id = h
             /\ Called(h) = {} => p.call_id = Blank /\ p.status = "failed" /\ ~ContextComplete(p)
             /\ Called(h) # {} =>
                  \E i \in Called(h) :
                    /\ p.call_id = results[i].call_id
                    /\ p.effective_model = results[i].effective_model
                    /\ p.status = RecordStatus(results[i].status)
                    /\ p.coverage = results[i].output.coverage
                    /\ p.blind_spots = results[i].output.blind_spots
                    /\ p.recommendation = results[i].output.recommendation
                    /\ p.context_complete <=> p.status = "completed"
                    /\ p.status = "completed" =>
                         \A j \in Called(h) : results[j].status = "completed"
<1> DEFINE p == Participant(Input(h))
<1>1. h # "self"
  BY RouteIs
<1>2. Input(h) = [result |-> Representative(h),
                  context_complete |-> Representative(h).status = "completed"]
  BY <1>1 DEF Input
<1>3. CASE Called(h) = {}
  <2>1. Representative(h) = [Failed(h, 0, "failed") EXCEPT !.call_id = Blank]
    BY <1>3, Representatives
  <2>2. Representative(h).handle = h /\ Representative(h).call_id = Blank
        /\ Representative(h).status = "failed"
    BY <2>1 DEF Failed, Result
  <2>3. p.source_id = h /\ p.call_id = Blank /\ p.status = "failed"
    BY <1>2, <2>2 DEF Participant, ParticipantStatus
  <2>4. ~ContextComplete(p)
    BY <2>3 DEF ContextComplete
  <2> QED
    BY <1>3, <2>3, <2>4
<1>4. CASE Called(h) # {}
  <2>1. PICK i \in Called(h) :
          /\ Representative(h) = results[i]
          /\ results[i].status = "completed" => \A j \in Called(h) : results[j].status = "completed"
    BY <1>4, Representatives
  <2>2. IsCall(results[i], i) /\ results[i].handle = h
    BY <2>1 DEF CallInv, Called
  <2>3. results[i].status \in Broken \cup {"completed"}
    BY <2>2, CallIs
  <2>4. ParticipantStatus(results[i].status) = RecordStatus(results[i].status)
        /\ (RecordStatus(results[i].status) = "completed" <=> results[i].status = "completed")
    BY <2>3, StatusIs
  <2>5. /\ p.source_id = h /\ p.call_id = results[i].call_id
        /\ p.effective_model = results[i].effective_model
        /\ p.status = ParticipantStatus(results[i].status)
        /\ p.coverage = results[i].output.coverage
        /\ p.blind_spots = results[i].output.blind_spots
        /\ p.recommendation = results[i].output.recommendation
    BY <1>2, <2>1, <2>2 DEF Participant
  <2>6. p.context_complete = (results[i].status = "completed")
    BY <1>2, <2>1 DEF Participant
  <2> HIDE DEF p
  <2>7. p.status = RecordStatus(results[i].status)
        /\ (p.status = "completed" <=> results[i].status = "completed")
    BY <2>4, <2>5
  <2>8. p.context_complete <=> p.status = "completed"
    BY <2>6, <2>7
  <2>9. p.status = "completed" => \A j \in Called(h) : results[j].status = "completed"
    BY <2>1, <2>7
  <2> QED
    BY <1>4, <2>5, <2>7, <2>8, <2>9 DEF p
<1> QED
  BY <1>3, <1>4

\* A reviewer answers once, and the answer stands for it.
LEMMA OneAnswer ==
  ASSUME CallInv, ~Ranked, NEW r \in Answered
  PROVE  /\ \A s \in Answered : s.handle = r.handle => s = r
         /\ r.handle \in External
         /\ Input(r.handle) = [result |-> r, context_complete |-> TRUE]
<1>1. PICK i \in DOMAIN results : r = results[i] /\ r.status = "completed"
  BY DEF Answered, ToSet
<1>2. Called(r.handle) = {i}
  BY <1>1 DEF Called, CallInv
<1>3. r.handle \in External
  BY <1>1, CallIs DEF CallInv
<1>4. Representative(r.handle) = r
  BY <1>1, <1>2, Representatives
<1>5. r.handle # "self"
  BY <1>3, RouteIs
<1>6. \A s \in Answered : s.handle = r.handle => s = r
  <2> TAKE s \in Answered
  <2>1. PICK j \in DOMAIN results : s = results[j]
    BY DEF Answered, ToSet
  <2> QED
    BY <1>1, <1>2, <2>1 DEF Called
<1>7. Input(r.handle) = [result |-> r, context_complete |-> TRUE]
  BY <1>1, <1>4, <1>5 DEF Input
<1> QED
  BY <1>3, <1>6, <1>7

-----------------------------------------------------------------------------
(* Findings *)

LEMMA AnswerIs ==
  ASSUME CallInv, NEW r \in Answered
  PROVE  /\ r.handle \in External
         /\ IF Ranked THEN r.output = NoReview ELSE r.output \in Review
         /\ \E i \in DOMAIN results : r = results[i] /\ r.status = "completed"
<1>1. PICK i \in DOMAIN results : r = results[i] /\ r.status = "completed"
  BY DEF Answered, ToSet
<1>2. r.handle \in External /\ r.output \in Outputs
  BY <1>1, CallIs DEF CallInv
<1> QED
  BY <1>1, <1>2, ReviewAssumption DEF Outputs, Review, Finding

\* A finding is one that a reviewer who answered reported.
LEMMA SaidIs ==
  ASSUME CallInv, NEW f \in Said
  PROVE  /\ ~Ranked
         /\ \E r \in Answered : \E n \in DOMAIN r.output.findings :
              /\ r.output \in Review /\ r.output.findings[n] \in Finding
              /\ r.output.findings[n] \in Reported
              /\ f = Normalize(r.output.findings[n], r.handle, n)
<1>1. PICK r \in Answered : f \in FindingsOf(r)
  BY DEF Said
<1>2. PICK n \in DOMAIN r.output.findings : f = Normalize(r.output.findings[n], r.handle, n)
  BY <1>1 DEF FindingsOf
<1>3. CASE Ranked
  BY <1>2, <1>3, AnswerIs DEF NoReview
<1>4. CASE ~Ranked
  <2>1. r.output \in Review /\ r.output.findings \in Seq(Finding)
    BY <1>4, AnswerIs, ReviewIs
  <2>2. r.output.findings[n] \in Finding /\ r.output.findings[n] \in ToSet(r.output.findings)
    BY <2>1 DEF ToSet
  <2> QED
    BY <1>2, <1>4, <2>1, <2>2 DEF Reported
<1> QED
  BY <1>3, <1>4

LEMMA ReportedIs ==
  ASSUME CallInv, NEW g \in Reported
  PROVE  /\ ~Ranked /\ g \in Finding
         /\ \E r \in Answered : \E n \in DOMAIN r.output.findings :
              /\ g = r.output.findings[n]
              /\ Normalize(g, r.handle, n) \in Said
<1>1. PICK r \in Answered : g \in ToSet(r.output.findings)
  BY DEF Reported
<1>2. PICK n \in DOMAIN r.output.findings : g = r.output.findings[n]
  BY <1>1 DEF ToSet
<1>3. Normalize(g, r.handle, n) \in Said
  BY <1>2 DEF Said, FindingsOf
<1>4. PICK q \in Answered : \E k \in DOMAIN q.output.findings :
          /\ q.output.findings[k] \in Finding
          /\ Normalize(g, r.handle, n) = Normalize(q.output.findings[k], q.handle, k)
  BY <1>3, SaidIs
<1>5. ~Ranked
  BY <1>3, SaidIs
<1>6. r.output.findings \in Seq(Finding)
  BY <1>5, AnswerIs, ReviewIs
<1> QED
  BY <1>2, <1>3, <1>5, <1>6

LEMMA NormalIs ==
  ASSUME NEW g, NEW h, NEW n
  PROVE  LET f == Normalize(g, h, n)
         IN  /\ IsFinding(f) /\ f.id = <<h, n>> /\ f.source_id = h
             /\ f.severity = g.severity /\ f.summary = g.summary /\ f.checkable = g.checkable
             /\ f.verification_id = g.verification_id
             /\ f.stance_key = g.stance_key /\ f.stance = g.stance
             /\ f.status = "proposed" /\ f.strength = "reported"
BY DEF Normalize, IsFinding

LEMMA SaidOnce ==
  ASSUME CallInv
  PROVE  /\ Keeps(Said, Said)
         /\ \A f \in Said : f.status = "proposed" /\ f.strength = "reported"
<1>1. \A f \in Said : IsFinding(f) /\ f.status = "proposed" /\ f.strength = "reported"
  BY SaidIs, NormalIs
<1>2. ASSUME NEW f \in Said, NEW g \in Said, f.id = g.id
      PROVE  f = g
  <2>1. PICK r \in Answered : \E n \in DOMAIN r.output.findings :
              f = Normalize(r.output.findings[n], r.handle, n)
    BY SaidIs
  <2>2. PICK s \in Answered : \E n \in DOMAIN s.output.findings :
              g = Normalize(s.output.findings[n], s.handle, n)
    BY SaidIs
  <2>3. PICK n \in DOMAIN r.output.findings : f = Normalize(r.output.findings[n], r.handle, n)
    BY <2>1
  <2>4. PICK m \in DOMAIN s.output.findings : g = Normalize(s.output.findings[m], s.handle, m)
    BY <2>2
  <2>5. <<r.handle, n>> = <<s.handle, m>>
    BY <1>2, <2>3, <2>4, NormalIs
  <2>6. ~Ranked
    BY SaidIs
  <2>7. r = s
    BY <2>5, <2>6, OneAnswer
  <2> QED
    BY <2>3, <2>4, <2>5, <2>7
<1> QED
  BY <1>1, <1>2 DEF Keeps, Same

\* _extract_findings reads what stands for the participants, and so what all
\* reviewers said.
LEMMA AllIsSaid ==
  ASSUME CallInv
  PROVE  Findings(Inputs) = Said
<1>1. ASSUME NEW f \in Findings(Inputs)
      PROVE  f \in Said
  <2>1. PICK h \in ToSet(route.participants) : f \in FindingsOf(Input(h).result)
    BY DEF Findings, Inputs
  <2>2. h # "self"
    BY <2>1 DEF Input, SelfResult, NoReview, FindingsOf
  <2>3. f \in FindingsOf(Representative(h))
    BY <2>1, <2>2 DEF Input
  <2>4. Called(h) # {}
    <3>1. SUFFICES ASSUME Called(h) = {}
                   PROVE  FALSE
      OBVIOUS
    <3>2. Representative(h) = [Failed(h, 0, "failed") EXCEPT !.call_id = Blank]
      BY <3>1, Representatives
    <3>3. Representative(h).output = NoReview
      BY <3>2 DEF Failed, Result
    <3> QED
      BY <2>3, <3>3 DEF FindingsOf, NoReview
  <2>5. PICK i \in DOMAIN results : Representative(h) = results[i]
    BY <2>4, Representatives DEF Called
  <2>6. IsCall(results[i], i)
    BY <2>5 DEF CallInv
  <2>7. results[i].status = "completed"
    BY <2>3, <2>5, <2>6, CallIs DEF FindingsOf, NoReview
  <2> QED
    BY <2>3, <2>5, <2>7 DEF Said, Answered, ToSet
<1>2. ASSUME NEW f \in Said
      PROVE  f \in Findings(Inputs)
  <2>1. PICK r \in Answered : f \in FindingsOf(r)
    BY DEF Said
  <2>2. ~Ranked
    BY SaidIs
  <2>3. r.handle \in External /\ Input(r.handle) = [result |-> r, context_complete |-> TRUE]
    BY <2>2, OneAnswer
  <2>4. r.handle \in ToSet(route.participants)
    BY <2>3, RouteIs
  <2> QED
    BY <2>1, <2>3, <2>4 DEF Findings, Inputs
<1> QED
  BY <1>1, <1>2

-----------------------------------------------------------------------------
(* Numbers *)

LEMMA AnsweredFinite ==
  ASSUME CallInv
  PROVE  /\ IsFiniteSet(Answered)
         /\ AllCompleted(results) => Cardinality(Answered) = Len(results)
<1> DEFINE D == DOMAIN results
<1>1. IsFiniteSet(D) /\ Cardinality(D) = Len(results)
  <2>1. D = 1..Len(results) /\ Len(results) \in Nat
    BY DEF CallInv
  <2>2. IsFiniteSet(1..Len(results)) /\ Cardinality(1..Len(results)) = Len(results)
    <3>1. 1 \in Int /\ Len(results) \in Int
      BY <2>1
    <3>2. /\ IsFiniteSet(1..Len(results))
          /\ Cardinality(1..Len(results)) =
               IF 1 > Len(results) THEN 0 ELSE Len(results) - 1 + 1
      BY <3>1, FS_Interval
    <3> QED
      BY <2>1, <3>2
  <2> QED
    BY <2>1, <2>2
<1>2. ToSet(results) = {results[i] : i \in D}
  BY DEF ToSet
<1>3. IsFiniteSet(ToSet(results))
  BY <1>1, <1>2, ImageFinite
<1>4. Answered \in SUBSET ToSet(results)
  BY DEF Answered
<1>5. ASSUME AllCompleted(results)
      PROVE  Cardinality(Answered) = Len(results)
  <2>1. Answered = {results[i] : i \in D}
    BY <1>2, <1>5 DEF Answered, AllCompleted
  <2>2. \A i, j \in D : results[i] = results[j] => i = j
    <3> TAKE i, j \in D
    <3>1. results[i].call_id = <<results[i].handle, i>> /\ results[j].call_id = <<results[j].handle, j>>
      BY CallIs DEF CallInv
    <3> QED
      BY <3>1
  <2>3. Cardinality({results[i] : i \in D}) = Cardinality(D)
    BY <1>1, <2>2, InjectiveImage
  <2> QED
    BY <1>1, <2>1, <2>3
<1> QED
  BY <1>3, <1>4, <1>5, FS_Subset

LEMMA SaidFinite ==
  ASSUME CallInv
  PROVE  IsFiniteSet(Said)
<1>1. ASSUME NEW r \in Answered
      PROVE  IsFiniteSet(FindingsOf(r))
  <2> DEFINE D == DOMAIN r.output.findings
             f == [n \in D |-> Normalize(r.output.findings[n], r.handle, n)]
  <2>1. IsFiniteSet(D)
    <3>1. CASE Ranked
      <4>1. D = {}
        BY <3>1, AnswerIs DEF NoReview
      <4> QED
        BY <4>1, FS_EmptySet
    <3>2. CASE ~Ranked
      <4>1. r.output.findings \in Seq(Finding)
        BY <3>2, AnswerIs, ReviewIs
      <4>2. D = 1..Len(r.output.findings) /\ Len(r.output.findings) \in Nat
        BY <4>1
      <4> QED
        BY <4>2, FS_Interval
    <3> QED
      BY <3>1, <3>2
  <2>2. IsFiniteSet({f[n] : n \in D})
    BY <2>1, ImageFinite
  <2>3. FindingsOf(r) = {f[n] : n \in D}
    BY DEF FindingsOf
  <2> QED
    BY <2>2, <2>3
<1> DEFINE g == [r \in Answered |-> FindingsOf(r)]
           parts == {g[r] : r \in Answered}
<1>2. IsFiniteSet(parts)
  BY AnsweredFinite, ImageFinite
<1>3. Said = UNION parts
  BY DEF Said
<1>4. \A T \in parts : IsFiniteSet(T)
  BY <1>1
<1> QED
  BY <1>2, <1>3, <1>4, FS_UNION

LEMMA TopicFinite ==
  ASSUME CallInv, NEW t
  PROVE  /\ IsFiniteSet(About(Said, t))
         /\ IsFiniteSet(Stances(About(Said, t)))
         /\ IsFiniteSet(Sources(About(Said, t)))
<1> DEFINE A == About(Said, t)
           st == [f \in A |-> f.stance]
           so == [f \in A |-> f.source_id]
<1>1. IsFiniteSet(A)
  BY SaidFinite, FS_Subset DEF About
<1>2. IsFiniteSet({st[f] : f \in A}) /\ IsFiniteSet({so[f] : f \in A})
  BY <1>1, ImageFinite
<1> QED
  BY <1>1, <1>2 DEF Stances, Sources

\* The findings of an analysis are as many as what was said.
LEMMA KeptFinite ==
  ASSUME NEW fs, NEW gs, Keeps(fs, gs), IsFiniteSet(gs)
  PROVE  IsFiniteSet(fs)
<1> DEFINE f == [g \in gs |-> CHOOSE x \in fs : x.id = g.id]
<1>1. \A x \in fs : \E g \in gs : f[g] = x
  <2> TAKE x \in fs
  <2>1. PICK g \in gs : x.id = g.id
    BY DEF Keeps, Same
  <2>2. f[g] \in fs /\ f[g].id = g.id
    BY <2>1
  <2> QED
    BY <2>1, <2>2 DEF Keeps
<1>2. IsFiniteSet({f[g] : g \in gs})
  <2>1. DOMAIN f = gs
    OBVIOUS
  <2> HIDE DEF f
  <2> QED
    BY <2>1, ImageFinite
<1>3. fs \in SUBSET {f[g] : g \in gs}
  BY <1>1
<1> QED
  BY <1>2, <1>3, FS_Subset

-----------------------------------------------------------------------------
(* Agreement and dissent *)

\* A consensus has one stance, which its supporters and nobody else took.
LEMMA ConsensusIs ==
  ASSUME CallInv, NEW c \in Consensus(Said)
  PROVE  /\ Cardinality(c.supporters) >= 2
         /\ c.supporters = Sources(About(Said, c.topic))
         /\ \E stance \in {f.stance : f \in Reported} :
              \A f \in About(Said, c.topic) : f.stance = stance
<1>1. PICK t \in Topics(Said) :
          /\ c = [topic |-> t, supporters |-> Sources(About(Said, t))]
          /\ Cardinality(Stances(About(Said, t))) = 1
          /\ Cardinality(Sources(About(Said, t))) > 1
  BY DEF Consensus
<1>2. Cardinality(Sources(About(Said, t))) \in Nat
  BY TopicFinite, FS_CardinalityType
<1>3. PICK stance : Stances(About(Said, t)) = {stance}
  BY <1>1, TopicFinite, FS_Singleton
<1>4. PICK f \in Said : f.stance = stance
  BY <1>3 DEF Stances, About
<1>5. stance \in {g.stance : g \in Reported}
  <2>1. PICK r \in Answered : \E n \in DOMAIN r.output.findings :
          /\ r.output.findings[n] \in Reported
          /\ f = Normalize(r.output.findings[n], r.handle, n)
    BY SaidIs
  <2> QED
    BY <1>4, <2>1, NormalIs
<1>6. \A g \in About(Said, t) : g.stance = stance
  BY <1>3 DEF Stances
<1> QED
  BY <1>1, <1>2, <1>5, <1>6

LEMMA ContradictionIs ==
  ASSUME CallInv, NEW f \in Said, NEW g \in Said, f.stance_key = g.stance_key, f.stance # g.stance
  PROVE  \E x \in Contradictions(Said) :
           /\ x.topic = f.stance_key
           /\ {f.source_id, g.source_id} \subseteq Sources(x.positions)
<1> DEFINE t == f.stance_key
           x == [topic |-> t, positions |-> About(Said, t)]
<1>1. f \in About(Said, t) /\ g \in About(Said, t)
  BY DEF About
<1>2. f.stance \in Stances(About(Said, t)) /\ g.stance \in Stances(About(Said, t))
  BY <1>1 DEF Stances
<1>3. Cardinality(Stances(About(Said, t))) >= 2
  BY <1>2, TopicFinite, AtLeastTwo
<1>4. Cardinality(Stances(About(Said, t))) \in Nat
  BY TopicFinite, FS_CardinalityType
<1>5. t \in Topics(Said)
  BY DEF Topics
<1>6. x \in Contradictions(Said)
  BY <1>3, <1>4, <1>5 DEF Contradictions
<1> QED
  BY <1>1, <1>6 DEF Sources

LEMMA DissentKept ==
  ASSUME IInv
  PROVE  DissentIsKept
<1> DEFINE said(r, t) == {f.stance : f \in {g \in ToSet(r.output.findings) : g.stance_key = t}}
<1>1. SUFFICES ASSUME analysis # None
               PROVE  DissentIsKept
  BY DEF DissentIsKept
<1>2. CallInv
  BY DEF IInv
<1>3. ASSUME NEW r \in Answered, NEW g \in ToSet(r.output.findings)
      PROVE  \E f \in Said : f.source_id = r.handle /\ f.stance_key = g.stance_key /\ f.stance = g.stance
  <2>1. PICK n \in DOMAIN r.output.findings : g = r.output.findings[n]
    BY <1>3 DEF ToSet
  <2>2. Normalize(g, r.handle, n) \in Said
    BY <2>1 DEF Said, FindingsOf
  <2> QED
    BY <2>2, NormalIs
<1>4. ASSUME NEW c \in Consensus(Said)
      PROVE  /\ Cardinality(c.supporters) >= 2
             /\ \E stance \in {f.stance : f \in Reported} :
                  \A r \in Answered :
                    said(r, c.topic) = IF r.handle \in c.supporters THEN {stance} ELSE {}
  <2>1. PICK stance \in {f.stance : f \in Reported} :
          \A f \in About(Said, c.topic) : f.stance = stance
    BY <1>2, <1>4, ConsensusIs
  <2>2. Cardinality(c.supporters) >= 2 /\ c.supporters = Sources(About(Said, c.topic))
    BY <1>2, <1>4, ConsensusIs
  <2>3. ASSUME NEW r \in Answered
        PROVE  said(r, c.topic) = IF r.handle \in c.supporters THEN {stance} ELSE {}
    <3>1. \A g \in ToSet(r.output.findings) :
            g.stance_key = c.topic => g.stance = stance /\ r.handle \in c.supporters
      <4> TAKE g \in ToSet(r.output.findings)
      <4>1. PICK f \in Said : f.source_id = r.handle /\ f.stance_key = g.stance_key /\ f.stance = g.stance
        BY <1>3
      <4> QED
        BY <2>1, <2>2, <4>1 DEF About, Sources
    <3>2. ASSUME r.handle \in c.supporters
          PROVE  \E g \in ToSet(r.output.findings) : g.stance_key = c.topic
      <4>1. PICK f \in Said : f.stance_key = c.topic /\ f.source_id = r.handle
        BY <2>2, <3>2 DEF About, Sources
      <4>2. PICK s \in Answered : \E n \in DOMAIN s.output.findings :
              /\ s.output \in Review
              /\ f = Normalize(s.output.findings[n], s.handle, n)
        BY <1>2, SaidIs
      <4>3. PICK n \in DOMAIN s.output.findings : f = Normalize(s.output.findings[n], s.handle, n)
        BY <4>2
      <4>4. ~Ranked
        BY <1>2, SaidIs
      <4>5. s.handle = r.handle
        BY <4>1, <4>3, NormalIs
      <4>6. s = r
        BY <1>2, <4>4, <4>5, OneAnswer
      <4>7. s.output.findings[n] \in ToSet(s.output.findings)
        BY DEF ToSet
      <4> QED
        BY <4>1, <4>3, <4>6, <4>7, NormalIs
    <3> QED
      BY <3>1, <3>2
  <2> QED
    BY <2>1, <2>2, <2>3
<1>5. ASSUME NEW r \in Answered, NEW s \in Answered,
             NEW f \in ToSet(r.output.findings), NEW g \in ToSet(s.output.findings),
             f.stance_key = g.stance_key, f.stance # g.stance
      PROVE  \E x \in Contradictions(Said) :
               x.topic = f.stance_key /\ {r.handle, s.handle} \subseteq Sources(x.positions)
  <2>1. PICK u \in Said : u.source_id = r.handle /\ u.stance_key = f.stance_key /\ u.stance = f.stance
    BY <1>3
  <2>2. PICK v \in Said : v.source_id = s.handle /\ v.stance_key = g.stance_key /\ v.stance = g.stance
    BY <1>3
  <2>3. PICK x \in Contradictions(Said) :
          x.topic = u.stance_key /\ {u.source_id, v.source_id} \subseteq Sources(x.positions)
    BY <1>2, <1>5, <2>1, <2>2, ContradictionIs
  <2> QED
    BY <2>1, <2>2, <2>3
<1>6. analysis.consensus = Consensus(Said) /\ analysis.contradictions = Contradictions(Said)
  BY <1>1 DEF IInv, AnalysisInv, BuiltInv
<1> HIDE DEF said
<1>7. \A c \in analysis.consensus :
        /\ Cardinality(c.supporters) >= 2
        /\ \E stance \in {f.stance : f \in Reported} :
             \A r \in Answered :
               said(r, c.topic) = IF r.handle \in c.supporters THEN {stance} ELSE {}
  BY <1>4, <1>6
<1>8. \A r, s \in Answered : \A f \in ToSet(r.output.findings), g \in ToSet(s.output.findings) :
        (f.stance_key = g.stance_key /\ f.stance # g.stance) =>
          \E x \in analysis.contradictions :
            x.topic = f.stance_key /\ {r.handle, s.handle} \subseteq Sources(x.positions)
  BY <1>5, <1>6
<1> QED
  BY <1>7, <1>8 DEF DissentIsKept, said

-----------------------------------------------------------------------------
(* The receipt *)

LEMMA CallsAre ==
  ASSUME CallInv
  PROVE  /\ DOMAIN Calls = DOMAIN results /\ Len(Calls) = Len(results)
         /\ Calls # << >> <=> results # << >>
         /\ ToSet(Calls) = {Calls[i] : i \in DOMAIN results}
         /\ \A i \in DOMAIN results :
              /\ Calls[i].call_id = results[i].call_id /\ Calls[i].handle = results[i].handle
              /\ Calls[i].status = RecordStatus(results[i].status)
              /\ Calls[i].status = "completed" <=> results[i].status = "completed"
              /\ Calls[i].effective_model = results[i].effective_model
              /\ Calls[i].configured_model = route.model[results[i].handle]
         /\ CompletedHandles(Calls) = {r.handle : r \in Answered}
<1>1. DOMAIN results = 1..Len(results) /\ Len(results) \in Nat
  BY DEF CallInv
<1>2. DOMAIN Calls = 1..Len(results)
  BY <1>1 DEF Calls
<1>3. Calls = [i \in 1..Len(results) |-> Calls[i]]
  BY <1>1 DEF Calls
<1>4. Len(Calls) = Len(results)
  BY <1>1, <1>2
<1>5. Calls # << >> <=> results # << >>
  <2>1. CASE Len(results) = 0
    <3>1. 1..Len(results) = {}
      BY <2>1
    <3>2. results = << >>
      <4> DEFINE T == {results[i] : i \in 1..Len(results)}
      <4>1. results = [i \in 1..Len(results) |-> results[i]]
        BY DEF CallInv
      <4>2. [i \in 1..Len(results) |-> results[i]] \in Seq(T)
        BY <1>1
      <4> QED
        BY <2>1, <4>1, <4>2, EmptySeq
    <3>3. Calls = << >>
      BY <1>3, <3>1
    <3> QED
      BY <3>2, <3>3
  <2>2. CASE Len(results) # 0
    BY <1>1, <1>4, <2>2
  <2> QED
    BY <2>1, <2>2
<1>6. ASSUME NEW i \in DOMAIN results
      PROVE  /\ Calls[i].call_id = results[i].call_id /\ Calls[i].handle = results[i].handle
             /\ Calls[i].status = RecordStatus(results[i].status)
             /\ Calls[i].status = "completed" <=> results[i].status = "completed"
             /\ Calls[i].effective_model = results[i].effective_model
             /\ Calls[i].configured_model = route.model[results[i].handle]
  <2>1. results[i].status \in Broken \cup {"completed"}
    BY CallIs DEF CallInv
  <2>2. RecordStatus(results[i].status) = "completed" <=> results[i].status = "completed"
    BY <2>1, StatusIs
  <2> QED
    BY <1>6, <2>2 DEF Calls
<1>7. ToSet(Calls) = {Calls[i] : i \in DOMAIN results}
  BY <1>1, <1>2 DEF ToSet
<1>8. CompletedHandles(Calls) = {r.handle : r \in Answered}
  <2>1. ASSUME NEW h \in CompletedHandles(Calls)
        PROVE  h \in {r.handle : r \in Answered}
    <3>1. PICK i \in DOMAIN results : Calls[i].status = "completed" /\ h = Calls[i].handle
      BY <1>7 DEF CompletedHandles
    <3> QED
      BY <1>6, <3>1 DEF Answered, ToSet
  <2>2. ASSUME NEW r \in Answered
        PROVE  r.handle \in CompletedHandles(Calls)
    <3>1. PICK i \in DOMAIN results : r = results[i] /\ r.status = "completed"
      BY DEF Answered, ToSet
    <3>2. Calls[i] \in ToSet(Calls) /\ Calls[i].status = "completed" /\ Calls[i].handle = r.handle
      BY <1>6, <1>7, <3>1
    <3> QED
      BY <3>2 DEF CompletedHandles
  <2> QED
    BY <2>1, <2>2
<1> QED
  BY <1>1, <1>2, <1>4, <1>5, <1>6, <1>7, <1>8

LEMMA StateIs ==
  ASSUME NEW effect, NEW degraded \in BOOLEAN
  PROVE  LET s == StateOf(effect, degraded)
         IN  /\ s[1] = IF degraded THEN "degraded"
                       ELSE IF effect = "human-required" THEN "escalated" ELSE "signed_off"
             /\ s[2] = IF degraded THEN "degraded"
                       ELSE IF effect \in {"human-required", "blocked"} THEN "blocked"
                       ELSE IF effect = "revised" THEN "revise" ELSE "ship"
<1>1. CASE degraded
  BY <1>1 DEF StateOf
<1>2. CASE ~degraded /\ effect = "human-required"
  BY <1>2 DEF StateOf
<1>3. CASE ~degraded /\ effect = "blocked"
  BY <1>3 DEF StateOf
<1>4. CASE ~degraded /\ effect = "revised"
  BY <1>4 DEF StateOf
<1>5. CASE ~degraded /\ effect \notin {"human-required", "blocked", "revised"}
  BY <1>5 DEF StateOf
<1> QED
  BY <1>1, <1>2, <1>3, <1>4, <1>5

LEMMA EffectIs ==
  ASSUME NEW a, NEW fs
  PROVE  LET e == Effect(a, fs)
         IN  /\ ~a.context_complete \/ Unsettled(a.participants, fs) => e = "human-required"
             /\ (\E f \in fs : f.status \in {"accepted", "resolved", "grounded"}) =>
                  e \in {"human-required", "blocked", "revised"}
BY DEF Effect

LEMMA ReceiptIs ==
  ASSUME NEW a, NEW waited \in BOOLEAN
  PROVE  LET r == Receipt(a, waited)
             s == StateOf(a.effect, degradation # {})
         IN  /\ r.topology = route.topology /\ r.requested_participants = route.participants
             /\ r.state = s[1] /\ r.verdict = s[2]
             /\ r.fused = (/\ degradation = {} /\ a.context_complete /\ route.topology # "advisor"
                           /\ External \subseteq CompletedHandles(Calls))
             /\ r.consulted = (route.topology = "advisor")
             /\ r.cross_model = (Cardinality(Families) >= 2)
             /\ r.self_model = IF "self" \in ToSet(route.participants) THEN route.model["self"] ELSE None
             /\ r.context_complete = a.context_complete
             /\ r.calls = Calls /\ r.max_calls = route.max_calls
             /\ r.capped = route.capped /\ r.explicit = route.explicit
             /\ r.findings = Summary(a)
             /\ r.degradation_reasons = degradation /\ r.waited = waited
BY DEF Receipt

LEMMA EndedIs ==
  ASSUME IInv, phase \in Ended
  PROVE  /\ CallInv /\ BuiltInv /\ FindingInv /\ ResultInv
         /\ results # << >> /\ (degradation = {} => AllCompleted(results))
         /\ analysis.effect = Effect(analysis, analysis.findings)
         /\ ~Unusable /\ ValidAnalysis(analysis)
         /\ phase = "recorded" <=> Linked(receipt, analysis)
         /\ \E waited \in BOOLEAN : receipt = Receipt(analysis, waited)
<1>1. phase \in Analysed /\ phase # "dispatch"
  BY DEF Ended, Analysed
<1>2. CallInv /\ AnalysisInv /\ OutcomeInv
  BY DEF IInv
<1> QED
  BY <1>1, <1>2 DEF CallInv, AnalysisInv, OutcomeInv, EffectInv

\* A severity that is not counted was not reported.
LEMMA CountIs ==
  ASSUME CallInv, FindingInv, NEW severity
  PROVE  CountOf(analysis.findings, severity) = 0 <=> \A g \in Reported : g.severity # severity
<1> DEFINE S == {f \in analysis.findings : f.severity = severity}
<1>1. IsFiniteSet(analysis.findings)
  BY SaidFinite, KeptFinite DEF FindingInv
<1>2. IsFiniteSet(S)
  BY <1>1, FS_Subset
<1>3. CountOf(analysis.findings, severity) = 0 <=> S = {}
  BY <1>2, FS_EmptySet DEF CountOf
<1>4. ASSUME NEW f \in S
      PROVE  \E g \in Reported : g.severity = severity
  <2>1. PICK q \in Said : q.severity = severity
    BY DEF FindingInv, Keeps, Same
  <2>2. PICK r \in Answered : \E n \in DOMAIN r.output.findings :
          /\ r.output.findings[n] \in Reported
          /\ q = Normalize(r.output.findings[n], r.handle, n)
    BY SaidIs
  <2> QED
    BY <2>1, <2>2, NormalIs
<1>5. ASSUME NEW g \in Reported, g.severity = severity
      PROVE  S # {}
  <2>1. PICK r \in Answered : \E n \in DOMAIN r.output.findings : Normalize(g, r.handle, n) \in Said
    BY ReportedIs
  <2>2. PICK q \in Said : q.severity = severity
    BY <1>5, <2>1, NormalIs
  <2>3. PICK f \in analysis.findings : Same(f, q)
    BY DEF FindingInv, Keeps
  <2> QED
    BY <2>2, <2>3 DEF Same
<1> QED
  BY <1>3, <1>4, <1>5

LEMMA ShipEarned ==
  ASSUME IInv
  PROVE  ShipIsEarned
<1>1. SUFFICES ASSUME phase = "recorded", receipt.verdict = "ship"
               PROVE  /\ External = {r.handle : r \in Answered}
                      /\ Len(results) = Cardinality(Answered)
                      /\ \A f \in Reported : f.severity = "minor"
                      /\ \A r \in Answered :
                           /\ r.output.recommendation # "abstain" /\ r.output.blind_spots = {}
                           /\ r.output.coverage = None \/ r.output.coverage \ {""} # {}
                           /\ r.output.recommendation \in {"block", "revise"} =>
                                /\ r.output.findings # << >>
                                /\ \A f \in analysis.findings : f.source_id = r.handle => f.status \in Settled
                      /\ \A f \in analysis.findings :
                           f.id \in Confirmed(analysis.grounding_results) => f.status = "deadlock"
  BY DEF ShipIsEarned
<1>2. phase \in Ended
  BY <1>1 DEF Ended
<1>3. /\ CallInv /\ BuiltInv /\ FindingInv
      /\ degradation = {} => AllCompleted(results)
      /\ analysis.effect = Effect(analysis, analysis.findings)
      /\ ValidAnalysis(analysis) /\ Linked(receipt, analysis)
  BY <1>1, <1>2, EndedIs
<1>4. PICK waited \in BOOLEAN : receipt = Receipt(analysis, waited)
  BY <1>2, EndedIs
<1>5. receipt.fused
  BY <1>1, <1>3 DEF Linked, ValidReceipt, ReceiptSchema
<1>6. degradation = {} /\ analysis.context_complete /\ External \subseteq CompletedHandles(Calls)
  BY <1>4, <1>5, ReceiptIs
<1>7. analysis.effect \notin {"human-required", "blocked", "revised"}
  <2>1. receipt.verdict = StateOf(analysis.effect, degradation # {})[2]
    BY <1>4, ReceiptIs
  <2> QED
    BY <1>1, <1>6, <2>1, StateIs
<1>8. External = {r.handle : r \in Answered}
  BY <1>3, <1>6, CallsAre, AnswerIs
<1>9. Len(results) = Cardinality(Answered)
  BY <1>3, <1>6, AnsweredFinite
<1>10. ASSUME NEW g \in Reported
       PROVE  g.severity = "minor"
  <2>1. CountOf(analysis.findings, "blocker") = 0 /\ CountOf(analysis.findings, "major") = 0
    BY <1>1, <1>3 DEF Linked, FindingCounts
  <2>2. g.severity # "blocker" /\ g.severity # "major"
    BY <1>3, <2>1, CountIs
  <2>3. g \in Finding
    BY <1>3, ReportedIs
  <2> QED
    BY <2>2, <2>3 DEF Finding
<1>11. ASSUME NEW r \in Answered
       PROVE  /\ r.output.recommendation # "abstain" /\ r.output.blind_spots = {}
              /\ r.output.coverage = None \/ r.output.coverage \ {""} # {}
              /\ r.output.recommendation \in {"block", "revise"} =>
                   /\ r.output.findings # << >>
                   /\ \A f \in analysis.findings : f.source_id = r.handle => f.status \in Settled
  <2>1. CASE Ranked
    <3>1. r.output = NoReview
      BY <1>3, <2>1, AnswerIs
    <3>2. None \notin {"abstain", "block", "revise"}
      BY NoneAssumption DEF Recommendations
    <3> QED
      BY <3>1, <3>2 DEF NoReview
  <2>2. CASE ~Ranked
    <3> DEFINE p == Participant(Input(r.handle))
    <3>1. Input(r.handle) = [result |-> r, context_complete |-> TRUE] /\ r.handle \in External
      BY <1>3, <2>2, OneAnswer
    <3>2. r.status = "completed"
      BY <1>3, AnswerIs
    <3>3. /\ p.source_id = r.handle /\ p.status = "completed" /\ p.coverage = r.output.coverage
          /\ p.blind_spots = r.output.blind_spots /\ p.recommendation = r.output.recommendation
      BY <3>1, <3>2 DEF Participant, ParticipantStatus
    <3>4. p \in Parts
      BY <1>3, <3>1, RouteIs DEF Parts
    <3> HIDE DEF p
    <3>5. ContextComplete(p) /\ p \in analysis.participants
      BY <1>3, <1>6, <3>4 DEF BuiltInv
    <3>6. ~Unsettled(analysis.participants, analysis.findings)
      BY <1>3, <1>7, EffectIs
    <3>7. ASSUME p.recommendation \in {"block", "revise"}
          PROVE  /\ r.handle \in Sources(analysis.findings)
                 /\ \A f \in analysis.findings : f.source_id = r.handle => f.status \in Settled
      BY <3>3, <3>5, <3>6, <3>7 DEF Unsettled
    <3>8. ASSUME r.handle \in Sources(analysis.findings)
          PROVE  r.output.findings # << >>
      <4>1. PICK f \in Said : f.source_id = r.handle
        BY <1>3, <3>8 DEF Sources, FindingInv, Keeps, Same
      <4>2. PICK s \in Answered : \E n \in DOMAIN s.output.findings :
              f = Normalize(s.output.findings[n], s.handle, n)
        BY <1>3, SaidIs
      <4>3. s.handle = r.handle
        BY <4>1, <4>2, NormalIs
      <4>4. s = r
        BY <1>3, <2>2, <4>3, OneAnswer
      <4>5. DOMAIN r.output.findings # {}
        BY <4>2, <4>4
      <4> QED
        BY <4>5
    <3> QED
      BY <3>3, <3>5, <3>7, <3>8 DEF ContextComplete
  <2> QED
    BY <2>1, <2>2
<1>12. ASSUME NEW f \in analysis.findings, f.id \in Confirmed(analysis.grounding_results)
       PROVE  f.status = "deadlock"
  <2>1. f.status \in {"grounded", "accepted", "resolved", "deadlock"}
    BY <1>3, <1>12 DEF FindingInv, Grounded
  <2>2. f.status \notin {"grounded", "accepted", "resolved"}
    BY <1>3, <1>7, EffectIs
  <2> QED
    BY <2>1, <2>2
<1> QED
  BY <1>8, <1>9, <1>10, <1>11, <1>12

-----------------------------------------------------------------------------
(* What groundings, proofs and dispositions change *)

\* An attachment keeps the other parts of an analysis.
KeepsBuilt(b, a) ==
  /\ b.topology = a.topology /\ b.context_complete = a.context_complete
  /\ b.participants = a.participants /\ b.consensus = a.consensus
  /\ b.contradictions = a.contradictions /\ b.unique_insights = a.unique_insights
  /\ b.partial_coverage = a.partial_coverage
  /\ b.grounding_candidates = a.grounding_candidates

LEMMA AttachedGrounding ==
  ASSUME NEW a, IsAnalysis(a), NEW rs
  PROVE  LET b == AttachGrounding(a, rs)
             linked == {[r EXCEPT !.verdict = LinkedVerdict(r.verdict)] : r \in rs}
         IN  /\ IsAnalysis(b) /\ KeepsBuilt(b, a)
             /\ b.grounding_results = linked
             /\ b.findings = WithGrounded(a.findings, Confirmed(linked))
             /\ b.proof_results = a.proof_results /\ b.effect = a.effect
<1> DEFINE linked == {[r EXCEPT !.verdict = LinkedVerdict(r.verdict)] : r \in rs}
           new == WithGrounded(a.findings, Confirmed(linked))
           b == AttachGrounding(a, rs)
<1>1. b = [a EXCEPT !.grounding_results = linked, !.findings = new]
  BY DEF AttachGrounding
<1> HIDE DEF linked, new, b
<1>2. b = [topology |-> a.topology, context_complete |-> a.context_complete,
           participants |-> a.participants, findings |-> new, consensus |-> a.consensus,
           contradictions |-> a.contradictions, unique_insights |-> a.unique_insights,
           partial_coverage |-> a.partial_coverage,
           grounding_candidates |-> a.grounding_candidates, grounding_results |-> linked,
           proof_results |-> a.proof_results, effect |-> a.effect]
  BY <1>1 DEF IsAnalysis
<1>3. IsAnalysis(b) /\ KeepsBuilt(b, a)
  BY <1>2 DEF IsAnalysis, KeepsBuilt
<1> QED
  BY <1>2, <1>3 DEF linked, new, b

LEMMA AttachedProofs ==
  ASSUME NEW a, IsAnalysis(a), NEW capsules
  PROVE  LET b == AttachProofs(a, capsules)
         IN  /\ IsAnalysis(b) /\ KeepsBuilt(b, a)
             /\ b.proof_results = capsules
             /\ b.findings = WithGrounded(a.findings, Confirmed(capsules))
             /\ b.grounding_results = a.grounding_results /\ b.effect = a.effect
<1> DEFINE new == WithGrounded(a.findings, Confirmed(capsules))
           b == AttachProofs(a, capsules)
<1>1. b = [a EXCEPT !.proof_results = capsules, !.findings = new]
  BY DEF AttachProofs
<1> HIDE DEF new, b
<1>2. b = [topology |-> a.topology, context_complete |-> a.context_complete,
           participants |-> a.participants, findings |-> new, consensus |-> a.consensus,
           contradictions |-> a.contradictions, unique_insights |-> a.unique_insights,
           partial_coverage |-> a.partial_coverage,
           grounding_candidates |-> a.grounding_candidates,
           grounding_results |-> a.grounding_results, proof_results |-> capsules, effect |-> a.effect]
  BY <1>1 DEF IsAnalysis
<1>3. IsAnalysis(b) /\ KeepsBuilt(b, a)
  BY <1>2 DEF IsAnalysis, KeepsBuilt
<1> QED
  BY <1>2, <1>3 DEF new, b

LEMMA Reconciled ==
  ASSUME NEW a, IsAnalysis(a), NEW d
  PROVE  LET b == Reconcile(a, d)
         IN  /\ IsAnalysis(b) /\ KeepsBuilt(b, a)
             /\ b.findings = Disposed(a.findings, d) /\ b.effect = Effect(a, b.findings)
             /\ b.grounding_results = a.grounding_results /\ b.proof_results = a.proof_results
<1> DEFINE new == Disposed(a.findings, d)
           effect == Effect(a, new)
           b == Reconcile(a, d)
<1>1. b = [a EXCEPT !.findings = new, !.effect = effect]
  BY DEF Reconcile
<1> HIDE DEF new, effect, b
<1>2. b = [topology |-> a.topology, context_complete |-> a.context_complete,
           participants |-> a.participants, findings |-> new, consensus |-> a.consensus,
           contradictions |-> a.contradictions, unique_insights |-> a.unique_insights,
           partial_coverage |-> a.partial_coverage,
           grounding_candidates |-> a.grounding_candidates,
           grounding_results |-> a.grounding_results, proof_results |-> a.proof_results, effect |-> effect]
  BY <1>1 DEF IsAnalysis
<1>3. IsAnalysis(b) /\ KeepsBuilt(b, a)
  BY <1>2 DEF IsAnalysis, KeepsBuilt
<1> QED
  BY <1>2, <1>3 DEF new, effect, b

LEMMA GroundedFindings ==
  ASSUME NEW fs, NEW gs, Keeps(fs, gs), NEW ids
  PROVE  /\ Keeps(WithGrounded(fs, ids), gs)
         /\ \A x \in WithGrounded(fs, ids) :
              \E f \in fs : /\ x.id = f.id
                            /\ IF f.id \in ids THEN x.status = "grounded" /\ x.strength = "grounded"
                               ELSE x = f
<1> DEFINE G(f) == IF f.id \in ids THEN [f EXCEPT !.status = "grounded", !.strength = "grounded"] ELSE f
<1>1. ASSUME NEW f \in fs
      PROVE  /\ IsFinding(G(f)) /\ Same(G(f), f)
             /\ f.id \in ids => G(f).status = "grounded" /\ G(f).strength = "grounded"
  <2>1. IsFinding(f)
    BY DEF Keeps
  <2> QED
    BY <2>1 DEF IsFinding, Same
<1>2. WithGrounded(fs, ids) = {G(f) : f \in fs}
  BY DEF WithGrounded
<1> HIDE DEF G
<1>3. ASSUME NEW x \in WithGrounded(fs, ids)
      PROVE  IsFinding(x) /\ \E g \in gs : Same(x, g)
  <2>1. PICK f \in fs : x = G(f)
    BY <1>2
  <2>2. PICK g \in gs : Same(f, g)
    BY DEF Keeps
  <2> QED
    BY <1>1, <2>1, <2>2 DEF Same
<1>4. ASSUME NEW g \in gs
      PROVE  \E x \in WithGrounded(fs, ids) : Same(x, g)
  <2>1. PICK f \in fs : Same(f, g)
    BY DEF Keeps
  <2>2. Same(G(f), g) /\ G(f) \in WithGrounded(fs, ids)
    BY <1>1, <1>2, <2>1 DEF Same
  <2> QED
    BY <2>2
<1>5. ASSUME NEW x \in WithGrounded(fs, ids), NEW y \in WithGrounded(fs, ids), x.id = y.id
      PROVE  x = y
  <2>1. PICK f \in fs : x = G(f)
    BY <1>2
  <2>2. PICK g \in fs : y = G(g)
    BY <1>2
  <2>3. f.id = g.id
    BY <1>1, <1>5, <2>1, <2>2 DEF Same
  <2>4. f = g
    BY <2>3 DEF Keeps
  <2> QED
    BY <2>1, <2>2, <2>4
<1>6. ASSUME NEW x \in WithGrounded(fs, ids)
      PROVE  \E f \in fs : /\ x.id = f.id
                           /\ IF f.id \in ids THEN x.status = "grounded" /\ x.strength = "grounded"
                              ELSE x = f
  <2>1. PICK f \in fs : x = G(f)
    BY <1>2
  <2>2. x.id = f.id /\ (f.id \in ids => x.status = "grounded" /\ x.strength = "grounded")
    BY <1>1, <2>1 DEF Same
  <2>3. f.id \notin ids => x = f
    BY <2>1 DEF G
  <2> QED
    BY <2>2, <2>3
<1> QED
  BY <1>3, <1>4, <1>5, <1>6 DEF Keeps

LEMMA DisposedFindings ==
  ASSUME NEW fs, NEW gs, Keeps(fs, gs), NEW d
  PROVE  /\ Keeps(Disposed(fs, d), gs)
         /\ \A x \in Disposed(fs, d) :
              \E f \in fs : /\ x.id = f.id /\ x.strength = f.strength
                            /\ x.status = IF f.id \in DOMAIN d THEN d[f.id] ELSE f.status
<1> DEFINE G(f) == IF f.id \in DOMAIN d THEN [f EXCEPT !.status = d[f.id]] ELSE f
<1>1. ASSUME NEW f \in fs
      PROVE  /\ IsFinding(G(f)) /\ Same(G(f), f) /\ G(f).strength = f.strength
             /\ G(f).status = IF f.id \in DOMAIN d THEN d[f.id] ELSE f.status
  <2>1. IsFinding(f)
    BY DEF Keeps
  <2> QED
    BY <2>1 DEF IsFinding, Same
<1>2. Disposed(fs, d) = {G(f) : f \in fs}
  BY DEF Disposed
<1> HIDE DEF G
<1>3. ASSUME NEW x \in Disposed(fs, d)
      PROVE  IsFinding(x) /\ \E g \in gs : Same(x, g)
  <2>1. PICK f \in fs : x = G(f)
    BY <1>2
  <2>2. PICK g \in gs : Same(f, g)
    BY DEF Keeps
  <2> QED
    BY <1>1, <2>1, <2>2 DEF Same
<1>4. ASSUME NEW g \in gs
      PROVE  \E x \in Disposed(fs, d) : Same(x, g)
  <2>1. PICK f \in fs : Same(f, g)
    BY DEF Keeps
  <2>2. Same(G(f), g) /\ G(f) \in Disposed(fs, d)
    BY <1>1, <1>2, <2>1 DEF Same
  <2> QED
    BY <2>2
<1>5. ASSUME NEW x \in Disposed(fs, d), NEW y \in Disposed(fs, d), x.id = y.id
      PROVE  x = y
  <2>1. PICK f \in fs : x = G(f)
    BY <1>2
  <2>2. PICK g \in fs : y = G(g)
    BY <1>2
  <2>3. f.id = g.id
    BY <1>1, <1>5, <2>1, <2>2 DEF Same
  <2>4. f = g
    BY <2>3 DEF Keeps
  <2> QED
    BY <2>1, <2>2, <2>4
<1>6. ASSUME NEW x \in Disposed(fs, d)
      PROVE  \E f \in fs : /\ x.id = f.id /\ x.strength = f.strength
                           /\ x.status = IF f.id \in DOMAIN d THEN d[f.id] ELSE f.status
  <2>1. PICK f \in fs : x = G(f)
    BY <1>2
  <2> QED
    BY <1>1, <2>1 DEF Same
<1> QED
  BY <1>3, <1>4, <1>5, <1>6 DEF Keeps

-----------------------------------------------------------------------------
(* The invariant is inductive: the calls *)

LEMMA ResultIsCall ==
  ASSUME NEW h \in External, NEW n, NEW r \in ResultsOf(h, n)
  PROVE  IsCall(r, n) /\ r.handle = h
<1>1. CASE \E o \in Outputs : r = Result(h, n, "completed", route.model[h], o) /\ ~route.capped
  BY <1>1 DEF Result, IsCall
<1>2. CASE \E s \in {"failed", "timeout", "cancelled"} : r = Failed(h, n, s)
  BY <1>2 DEF Failed, Result, IsCall, Broken
<1>3. CASE r = Dropped(h, n)
  BY <1>3 DEF Dropped, Result, IsCall, Broken
<1> QED
  BY <1>1, <1>2, <1>3 DEF ResultsOf

LEMMA SameRoute ==
  ASSUME route' = route
  PROVE  /\ External' = External /\ Ranked' = Ranked
         /\ (\A i \in DOMAIN results' : IsCall(results'[i], i)) =>
              (\A i \in DOMAIN results : IsCall(results[i], i))'
<1>1. External' = External /\ Ranked' = Ranked /\ Outputs' = Outputs
  BY DEF External, Ranked, Outputs
<1> HIDE DEF External, Outputs
<1>2. ASSUME \A i \in DOMAIN results' : IsCall(results'[i], i)
      PROVE  (\A i \in DOMAIN results : IsCall(results[i], i))'
  BY <1>1, <1>2 DEF IsCall, Result
<1> QED
  BY <1>1, <1>2

LEMMA AnswerStep ==
  ASSUME IInv, Answer
  PROVE  IInv'
<1>1. /\ CallInv /\ phase = "dispatch" /\ analysis = None
      /\ UNCHANGED <<route, phase, analysis, degradation, receipt>>
  BY DEF IInv, Answer, Analysed
<1> DEFINE n == Len(results) + 1
           h == NextHandle
<1>2. /\ results = [i \in 1..Len(results) |-> results[i]] /\ Len(results) \in Nat
      /\ DOMAIN results = 1..Len(results)
  BY <1>1 DEF CallInv
<1>3. h \in External /\ (IF n <= Len(route.asked) THEN h = route.asked[n] ELSE Ranked)
  <2>1. route.asked \in Seq(External) /\ (Ranked => route.judge \in External)
    BY <1>1, RouteIs
  <2>2. h # None
    BY DEF Answer
  <2>3. CASE Len(results) < Len(route.asked)
    <3>1. h = route.asked[n] /\ n <= Len(route.asked) /\ n \in 1..Len(route.asked)
      BY <1>2, <2>1, <2>3 DEF NextHandle
    <3> QED
      BY <2>1, <3>1
  <2>4. CASE ~(Len(results) < Len(route.asked))
    <3>1. Judging /\ h = route.judge
      BY <2>2, <2>4 DEF NextHandle
    <3>2. ~(n <= Len(route.asked))
      BY <1>2, <2>1, <2>4
    <3> QED
      BY <2>1, <3>1, <3>2 DEF Judging
  <2> QED
    BY <2>3, <2>4
<1>4. PICK r \in ResultsOf(h, n) : results' = Append(results, r)
  BY DEF Answer
<1>5. IsCall(r, n) /\ r.handle = h
  BY <1>3, <1>4, ResultIsCall
<1>6. /\ results' = [i \in 1..n |-> results'[i]] /\ Len(results') = n /\ n \in Nat
      /\ results'[n] = r /\ \A i \in DOMAIN results : results'[i] = results[i]
  <2> DEFINE T == {results[i] : i \in 1..Len(results)} \cup {r}
  <2>1. results \in Seq(T)
    <3>1. [i \in 1..Len(results) |-> results[i]] \in Seq(T)
      BY <1>2
    <3> QED
      BY <1>2, <3>1
  <2>2. /\ results' \in Seq(T) /\ Len(results') = n /\ results'[n] = r
        /\ \A i \in 1..Len(results) : results'[i] = results[i]
    BY <1>4, <2>1, AppendProperties
  <2>3. results' = [i \in 1..n |-> results'[i]]
    BY <2>2
  <2> QED
    BY <1>2, <2>2, <2>3
<1>7. \A i \in 1..n : i \in DOMAIN results \/ i = n
  BY <1>2
<1>8. \A i \in DOMAIN results : i <= n /\ i # n
  BY <1>2
<1> HIDE DEF n, h
<1>9. (\A i \in DOMAIN results : IsCall(results[i], i))'
  <2>1. \A i \in DOMAIN results' : IsCall(results'[i], i)
    BY <1>1, <1>5, <1>6, <1>7 DEF CallInv
  <2> QED
    BY <1>1, <2>1, SameRoute
<1>10. \A i \in DOMAIN results' :
         IF i <= Len(route.asked) THEN results'[i].handle = route.asked[i] ELSE Ranked
  BY <1>1, <1>3, <1>5, <1>6, <1>7 DEF CallInv
<1>11. ASSUME ~Ranked, NEW i \in DOMAIN results', NEW j \in DOMAIN results',
              results'[i].handle = results'[j].handle
       PROVE  i = j
  <2>1. i <= Len(route.asked) /\ j <= Len(route.asked)
    BY <1>10, <1>11
  <2>2. route.asked[i] = route.asked[j]
    BY <1>10, <1>11, <2>1
  <2>3. i \in DOMAIN route.asked /\ j \in DOMAIN route.asked /\ IsInjective(route.asked)
    <3>1. route.asked \in Seq(External) /\ IsInjective(route.asked)
      BY <1>1, RouteIs
    <3>2. i \in 1..n /\ j \in 1..n
      BY <1>6
    <3> QED
      BY <1>6, <2>1, <3>1, <3>2
  <2> QED
    BY <2>2, <2>3 DEF IsInjective
<1>12. CallInv'
  <2>1. Ranked' = Ranked
    BY <1>1, SameRoute
  <2> QED
    BY <1>1, <1>6, <1>9, <1>10, <1>11, <2>1 DEF CallInv
<1> QED
  BY <1>1, <1>12 DEF IInv, AnalysisInv, OutcomeInv, Analysed, Ended

LEMMA PolicyBlockedStep ==
  ASSUME IInv, PolicyBlocked
  PROVE  IInv'
<1>1. /\ CallInv /\ phase = "dispatch" /\ analysis = None
      /\ phase' = "dispatched" /\ degradation' = {"topology"} /\ UNCHANGED <<route, analysis, receipt>>
  BY DEF IInv, PolicyBlocked, Analysed
<1> DEFINE p == route.participants
           handles == IF p[1] = "self" THEN Tail(p) ELSE p
<1>2. /\ p \in Seq(STRING) /\ IsInjective(p)
      /\ \A i \in DOMAIN p : p[i] = "self" => i = 1
      /\ \E h \in External : TRUE
  <2>1. route.asked \in Seq(External) /\ route.asked # << >>
    BY <1>1, RouteIs
  <2>2. route.asked[1] \in External
    BY <2>1, EmptySeq
  <2> QED
    BY <1>1, <2>2, RouteIs
<1>3. PICK k \in DOMAIN p : p[k] # "self"
  BY <1>2 DEF External, ToSet
<1>4. /\ handles \in Seq(STRING) /\ Len(handles) # 0 /\ IsInjective(handles)
      /\ \A i \in DOMAIN handles : handles[i] \in External
  <2>1. p # << >> /\ Len(p) \in Nat /\ DOMAIN p = 1..Len(p)
    BY <1>2, <1>3
  <2>2. CASE p[1] = "self"
    <3>1. k # 1 /\ Len(p) >= 2
      BY <1>3, <2>1, <2>2
    <3>2. /\ Tail(p) \in Seq(STRING) /\ Len(Tail(p)) = Len(p) - 1
          /\ \A i \in 1..Len(Tail(p)) : Tail(p)[i] = p[i + 1]
      BY <1>2, <2>1, HeadTailProperties
    <3>3. ASSUME NEW i \in DOMAIN Tail(p)
          PROVE  i + 1 \in DOMAIN p /\ i + 1 # 1 /\ Tail(p)[i] = p[i + 1]
      BY <2>1, <3>2, <3>3
    <3>4. \A i \in DOMAIN Tail(p) : Tail(p)[i] \in External
      BY <1>2, <3>3 DEF External, ToSet
    <3>5. IsInjective(Tail(p))
      <4> SUFFICES ASSUME NEW i \in DOMAIN Tail(p), NEW j \in DOMAIN Tail(p), Tail(p)[i] = Tail(p)[j]
                   PROVE  i = j
        BY DEF IsInjective
      <4>1. i + 1 = j + 1
        BY <1>2, <3>3 DEF IsInjective
      <4> QED
        BY <3>2, <4>1
    <3> QED
      BY <2>2, <3>1, <3>2, <3>4, <3>5
  <2>3. CASE p[1] # "self"
    BY <1>2, <2>1, <2>3 DEF External, ToSet
  <2> QED
    BY <2>2, <2>3
<1>5. results' = [i \in DOMAIN handles |-> Failed(handles[i], i, "policy_blocked")]
  BY DEF PolicyBlocked
<1> HIDE DEF handles
<1>6. DOMAIN handles = 1..Len(handles) /\ Len(handles) \in Nat
  BY <1>4
<1>7. results' = [i \in 1..Len(results') |-> results'[i]] /\ Len(results') \in Nat /\ results' # << >>
  <2>1. Len(results') = Len(handles) /\ DOMAIN results' = 1..Len(handles)
    BY <1>5, <1>6
  <2>2. results' = [i \in 1..Len(results') |-> results'[i]]
    BY <1>5, <1>6, <2>1
  <2> QED
    BY <1>4, <1>6, <2>1, <2>2
<1>8. ASSUME NEW i \in DOMAIN results'
      PROVE  IsCall(results'[i], i) /\ results'[i].handle = handles[i] /\ i \in DOMAIN handles
  <2>1. results'[i] = Failed(handles[i], i, "policy_blocked") /\ i \in DOMAIN handles
    BY <1>5
  <2> QED
    BY <1>4, <2>1 DEF Failed, Result, IsCall, Broken
<1>9. (\A i \in DOMAIN results : IsCall(results[i], i))'
  BY <1>1, <1>8, SameRoute
<1>10. \A i, j \in DOMAIN results' : results'[i].handle = results'[j].handle => i = j
  BY <1>4, <1>8 DEF IsInjective
<1>11. CallInv'
  BY <1>1, <1>7, <1>9, <1>10 DEF CallInv, Phases
<1> QED
  BY <1>1, <1>11 DEF IInv, AnalysisInv, OutcomeInv, Analysed, Ended

LEMMA FinishDispatchStep ==
  ASSUME IInv, FinishDispatch
  PROVE  IInv'
<1>1. /\ CallInv /\ phase = "dispatch" /\ analysis = None
      /\ phase' = "dispatched" /\ UNCHANGED <<route, results, analysis, receipt>>
  BY DEF IInv, FinishDispatch, Analysed
<1>2. PICK abstained \in BOOLEAN :
        /\ NextHandle = None \/ (abstained /\ Judgments > 0)
        /\ degradation' = IF AllCompleted(results) /\ ~abstained THEN {} ELSE {"topology"}
  BY DEF FinishDispatch
<1>3. "topology" \notin degradation' => AllCompleted(results)
  BY <1>2
<1>4. /\ route.asked \in Seq(External) /\ Len(route.asked) \in Nat \ {0}
      /\ External \subseteq STRING /\ Len(results) \in Nat
  <2>1. route.asked \in Seq(External) /\ route.asked # << >> /\ External \subseteq STRING
    BY <1>1, RouteIs
  <2> QED
    BY <1>1, <2>1, EmptySeq DEF CallInv
<1>5. Len(results) # 0
  <2>1. CASE NextHandle = None
    <3>1. SUFFICES ASSUME Len(results) = 0
                   PROVE  FALSE
      OBVIOUS
    <3>2. NextHandle = route.asked[1]
      <4>1. Len(results) < Len(route.asked) /\ Len(results) + 1 = 1
        BY <1>4, <3>1
      <4> QED
        BY <4>1 DEF NextHandle
    <3>3. route.asked[1] \in External
      BY <1>4
    <3>4. None \in STRING
      BY <1>4, <2>1, <3>2, <3>3
    <3> QED
      BY <3>4, NoneAssumption
  <2>2. CASE Judgments > 0
    BY <1>4, <2>2 DEF Judgments
  <2> QED
    BY <1>2, <2>1, <2>2
<1>6. results # << >>
  BY <1>5
<1>7. CallInv'
  <2>1. (\A i \in DOMAIN results : IsCall(results[i], i))' /\ Ranked' = Ranked
    BY <1>1, SameRoute DEF CallInv
  <2> QED
    BY <1>1, <1>3, <1>6, <2>1 DEF CallInv, Phases, AllCompleted
<1> QED
  BY <1>1, <1>7 DEF IInv, AnalysisInv, OutcomeInv, Analysed, Ended

-----------------------------------------------------------------------------
(* The invariant is inductive: the analysis *)

\* What the invariant is about stays with the route and the results.
LEMMA SameCalls ==
  ASSUME UNCHANGED <<route, results>>
  PROVE  /\ External' = External /\ Ranked' = Ranked /\ Answered' = Answered
         /\ Reported' = Reported /\ Said' = Said /\ Parts' = Parts /\ Unusable' = Unusable
<1>1. External' = External /\ Ranked' = Ranked
  BY DEF External, Ranked
<1>2. Answered' = Answered
  BY DEF Answered
<1>3. Reported' = Reported /\ Said' = Said
  BY <1>2 DEF Reported, Said
<1>4. Parts' = Parts
  BY DEF Parts, Input, SelfResult, Representative, Failed, Result
<1>5. Unusable' = Unusable
  BY <1>1, <1>3 DEF Unusable
<1> QED
  BY <1>1, <1>2, <1>3, <1>4, <1>5

LEMMA CallsStay ==
  ASSUME CallInv, UNCHANGED <<route, results>>, phase \in Analysed \cup {"dispatched"},
         phase' \in Phases \ {"dispatch"},
         "topology" \notin degradation' => "topology" \notin degradation
  PROVE  CallInv'
<1>1. phase # "dispatch"
  BY DEF Analysed
<1>2. (\A i \in DOMAIN results : IsCall(results[i], i))' /\ Ranked' = Ranked
  BY SameRoute DEF CallInv
<1> QED
  BY <1>1, <1>2 DEF CallInv, AllCompleted

LEMMA AnalyseStep ==
  ASSUME IInv, Analyse
  PROVE  IInv'
<1>1. /\ CallInv /\ phase = "dispatched" /\ phase' = "analysed"
      /\ analysis' = BuildAnalysis(route.topology, Inputs)
      /\ UNCHANGED <<route, results, degradation, receipt>>
  BY DEF IInv, Analyse
<1>2. CallInv'
  BY <1>1, CallsStay DEF Phases, Analysed
<1>3. Said' = Said /\ Parts' = Parts
  BY <1>1, SameCalls
<1>4. {Participant(i) : i \in Inputs} = Parts /\ Findings(Inputs) = Said
  BY <1>1, AllIsSaid DEF Inputs, Parts
<1> DEFINE context == \A p \in Parts : ContextComplete(p)
           effect == IF ~context \/ Unsettled(Parts, Said) THEN "human-required"
                     ELSE IF \E f \in Said : f.severity = "blocker" THEN "blocked" ELSE "none"
<1>5. analysis' =
        [topology |-> route.topology, context_complete |-> context,
         participants |-> Parts, findings |-> Said, consensus |-> Consensus(Said),
         contradictions |-> Contradictions(Said), unique_insights |-> UniqueInsights(Said),
         partial_coverage |-> PartialCoverage(Parts), grounding_candidates |-> Candidates(Said),
         grounding_results |-> {}, proof_results |-> {}, effect |-> effect]
  BY <1>1, <1>4 DEF BuildAnalysis
<1>6. \A f \in Said : f.status = "proposed" /\ f.strength = "reported"
  BY <1>1, SaidOnce
<1>7. (~context \/ \E p \in Parts : p.status = "completed" /\ p.recommendation \in {"block", "revise"})
        => effect = "human-required"
  BY <1>6 DEF Unsettled, Sources, Settled
<1> HIDE DEF context, effect
<1>8. BuiltInv'
  BY <1>1, <1>3, <1>5 DEF BuiltInv, IsAnalysis, context
<1>9. FindingInv'
  <2>1. Keeps(Said, Said)
    BY <1>1, SaidOnce
  <2>2. (analysis').findings = Said /\ (analysis').grounding_results = {} /\ (analysis').proof_results = {}
    BY <1>5
  <2> QED
    BY <1>1, <1>3, <1>6, <2>1, <2>2 DEF FindingInv, Grounded, Confirmed, Ended
<1>10. ResultInv'
  BY <1>5 DEF ResultInv
<1>11. EffectInv'
  <2>1. (analysis').context_complete = context /\ (analysis').effect = effect
    BY <1>5
  <2> QED
    BY <1>1, <1>3, <1>7, <2>1 DEF EffectInv, Ended
<1> QED
  BY <1>1, <1>2, <1>8, <1>9, <1>10, <1>11 DEF IInv, AnalysisInv, OutcomeInv, Analysed, Ended

LEMMA AnalysisStays ==
  ASSUME IInv, phase \in Analysed \ Ended, phase' \in Analysed \ Ended, phase' # "analysed",
         UNCHANGED <<route, results, analysis>>
  PROVE  AnalysisInv'
<1>1. BuiltInv /\ FindingInv /\ ResultInv /\ EffectInv
  BY DEF IInv, AnalysisInv
<1>2. Said' = Said /\ Parts' = Parts
  BY SameCalls
<1>3. BuiltInv'
  BY <1>1, <1>2 DEF BuiltInv
<1>4. FindingInv'
  BY <1>1, <1>2 DEF FindingInv
<1>5. ResultInv'
  BY <1>1, <1>2 DEF ResultInv
<1>6. EffectInv'
  BY <1>1, <1>2 DEF EffectInv
<1> QED
  BY <1>3, <1>4, <1>5, <1>6 DEF AnalysisInv

\* What a result says is what its execution says.
LEMMA LinkIs ==
  ASSUME NEW c, NEW o \in Verdicts \cup {Blocked}
  PROVE  LET r == [Link(c, o) EXCEPT !.verdict = LinkedVerdict(Link(c, o).verdict)]
         IN  /\ r.finding_id = c.finding_id /\ r.verification_id = c.verification_id
             /\ r.verdict \in {"confirmed", "not-reproduced", "inconclusive"}
             /\ r.verdict = "confirmed" <=> Confirming(r)
             /\ r.verdict = "confirmed" => r.exit_code \notin {0, None}
             /\ r.verdict = "not-reproduced" =>
                  /\ r.execution_status = "completed" /\ r.exit_code = 0
                  /\ r.failure_class = None /\ ~r.matched_expected_failure
<1> DEFINE r == [Link(c, o) EXCEPT !.verdict = LinkedVerdict(Link(c, o).verdict)]
<1>1. /\ r.finding_id = c.finding_id /\ r.verification_id = c.verification_id
      /\ r.verdict = LinkedVerdict(o.verdict) /\ r.execution_status = o.execution_status
      /\ r.exit_code = o.exit_code /\ r.failure_class = o.failure_class
      /\ r.matched_expected_failure = o.matched_expected_failure
  BY DEF Link
<1> HIDE DEF r
<1>2. /\ r.verdict \in {"confirmed", "not-reproduced", "inconclusive"}
      /\ r.verdict = "confirmed" <=> o.verdict = "confirmed"
      /\ r.verdict = "not-reproduced" <=> o.verdict = "not-reproduced"
  BY <1>1 DEF LinkedVerdict
<1>3. CASE o = Blocked
  BY <1>1, <1>2, <1>3 DEF Blocked, Confirming, r
<1>4. CASE o \in Verdicts
  <2>1. /\ o.verdict = "confirmed" <=> Confirming(o)
        /\ o.verdict = "confirmed" => o.exit_code \notin {0, None}
        /\ o.verdict = "not-reproduced" =>
             /\ o.execution_status = "completed" /\ o.exit_code = 0
             /\ o.failure_class = None /\ ~o.matched_expected_failure
    BY <1>4, VerdictAssumption
  <2>2. Confirming(r) <=> Confirming(o)
    BY <1>1 DEF Confirming
  <2> QED
    BY <1>1, <1>2, <2>1, <2>2 DEF r
<1> QED
  BY <1>3, <1>4

LEMMA CandidateOnce ==
  ASSUME CallInv, NEW c \in Candidates(Said), NEW d \in Candidates(Said), c.finding_id = d.finding_id
  PROVE  c = d
<1>1. PICK f \in Said : c = [finding_id |-> f.id, verification_id |-> f.verification_id]
  BY DEF Candidates
<1>2. PICK g \in Said : d = [finding_id |-> g.id, verification_id |-> g.verification_id]
  BY DEF Candidates
<1>3. f.id = g.id
  BY <1>1, <1>2
<1>4. f = g
  BY <1>3, SaidOnce DEF Keeps
<1> QED
  BY <1>1, <1>2, <1>4

LEMMA GroundStep ==
  ASSUME IInv, Ground
  PROVE  IInv'
<1>1. /\ CallInv /\ BuiltInv /\ FindingInv /\ ResultInv /\ EffectInv
      /\ phase = "analysed" /\ phase' = "grounded" /\ UNCHANGED <<route, results, receipt>>
  BY DEF IInv, AnalysisInv, Ground, Analysed
<1>2. PICK g \in Groundings :
        /\ analysis' = AttachGrounding(analysis, g.results)
        /\ degradation' = degradation \cup IF g.late THEN {"deadline"} ELSE {}
  BY DEF Ground
<1> DEFINE cs == Candidates(Said)
           ids == {c.verification_id : c \in cs}
           linked == {[r EXCEPT !.verdict = LinkedVerdict(r.verdict)] : r \in g.results}
<1>3. analysis.grounding_candidates = cs
  BY <1>1 DEF BuiltInv
<1>4. PICK done \in SUBSET cs, outcome \in [ids -> Verdicts \cup {Blocked}] :
        g.results = {Link(c, outcome[c.verification_id]) : c \in done}
  <2>1. PICK done \in LookedAt(cs), outcome \in [ids -> Verdicts \cup {Blocked}] :
          g = [results |-> {Link(c, outcome[c.verification_id]) : c \in done}, late |-> done # cs]
    <3> DEFINE outcomes == {o \in [ids -> Verdicts \cup {Blocked}] : \A v \in ids \ Known : o[v] = Blocked}
               G(done, outcome) == [results |-> {Link(c, outcome[c.verification_id]) : c \in done},
                                    late |-> done # cs]
    <3>1. Groundings = {G(done, outcome) : done \in LookedAt(cs), outcome \in outcomes}
      BY <1>3 DEF Groundings
    <3> HIDE DEF G, outcomes, cs
    <3>2. g \in {G(done, outcome) : done \in LookedAt(cs), outcome \in outcomes}
      BY <3>1
    <3>3. PICK done \in LookedAt(cs), outcome \in outcomes : g = G(done, outcome)
      BY <3>2
    <3> QED
      BY <3>3 DEF G, outcomes, cs
  <2>2. done \in SUBSET cs
    BY DEF LookedAt
  <2>3. g.results = {Link(c, outcome[c.verification_id]) : c \in done}
    BY <2>1
  <2> QED
    BY <2>2, <2>3
<1> DEFINE R(c) == [Link(c, outcome[c.verification_id]) EXCEPT
                      !.verdict = LinkedVerdict(Link(c, outcome[c.verification_id]).verdict)]
<1>5. linked = {R(c) : c \in done}
  BY <1>4
<1>6. ASSUME NEW c \in done
      PROVE  /\ R(c).finding_id = c.finding_id /\ R(c).verification_id = c.verification_id
             /\ R(c).verdict \in {"confirmed", "not-reproduced", "inconclusive"}
             /\ R(c).verdict = "confirmed" <=> Confirming(R(c))
             /\ R(c).verdict = "confirmed" => R(c).exit_code \notin {0, None}
             /\ R(c).verdict = "not-reproduced" =>
                  /\ R(c).execution_status = "completed" /\ R(c).exit_code = 0
                  /\ R(c).failure_class = None /\ ~R(c).matched_expected_failure
  <2>1. outcome[c.verification_id] \in Verdicts \cup {Blocked}
    BY <1>4
  <2> QED
    BY <2>1, LinkIs
<1> HIDE DEF linked, R
<1>7. /\ IsAnalysis(analysis') /\ KeepsBuilt(analysis', analysis)
      /\ (analysis').grounding_results = linked
      /\ (analysis').findings = WithGrounded(analysis.findings, Confirmed(linked))
      /\ (analysis').proof_results = analysis.proof_results
      /\ (analysis').effect = analysis.effect
  BY <1>1, <1>2, AttachedGrounding DEF BuiltInv, linked
<1>8. Said' = Said /\ Parts' = Parts
  BY <1>1, SameCalls
<1>9. CallInv'
  BY <1>1, <1>2, CallsStay DEF Phases, Analysed
<1>10. BuiltInv'
  BY <1>1, <1>7, <1>8 DEF BuiltInv, KeepsBuilt
<1>11. ResultInv'
  <2>1. \A x, y \in linked : x.finding_id = y.finding_id => x = y
    <3> SUFFICES ASSUME NEW x \in linked, NEW y \in linked, x.finding_id = y.finding_id
                 PROVE  x = y
      OBVIOUS
    <3>1. PICK c \in done : x = R(c)
      BY <1>5
    <3>2. PICK d \in done : y = R(d)
      BY <1>5
    <3>3. c.finding_id = d.finding_id
      BY <1>6, <3>1, <3>2
    <3> QED
      BY <1>1, <3>1, <3>2, <3>3, CandidateOnce
  <2>2. \A x \in linked :
          /\ \E c \in cs : c.finding_id = x.finding_id /\ c.verification_id = x.verification_id
          /\ x.verdict \in {"confirmed", "not-reproduced", "inconclusive"}
          /\ x.verdict = "confirmed" <=> Confirming(x)
          /\ x.verdict = "confirmed" => x.exit_code \notin {0, None}
          /\ x.verdict = "not-reproduced" =>
               /\ x.execution_status = "completed" /\ x.exit_code = 0
               /\ x.failure_class = None /\ ~x.matched_expected_failure
    BY <1>5, <1>6
  <2> QED
    BY <1>1, <1>7, <1>8, <2>1, <2>2 DEF ResultInv, Ended
<1>12. FindingInv'
  <2>1. Keeps(analysis.findings, Said) /\ Grounded(analysis) = {}
    BY <1>1 DEF FindingInv, ResultInv, Grounded, Confirmed, Ended
  <2>2. (Grounded(analysis))' = Confirmed(linked)
    BY <1>1, <1>7 DEF ResultInv, Grounded, Confirmed, Ended
  <2>3. \A f \in analysis.findings : f.strength # "grounded" /\ f.status = "proposed"
    BY <1>1, <2>1 DEF FindingInv, Ended
  <2>4. /\ Keeps((analysis').findings, Said)
        /\ \A x \in (analysis').findings :
              \E f \in analysis.findings :
                /\ x.id = f.id
                /\ IF f.id \in Confirmed(linked) THEN x.status = "grounded" /\ x.strength = "grounded"
                   ELSE x = f
    BY <1>7, <2>1, GroundedFindings
  <2>5. \A x \in (analysis').findings :
          /\ x.strength = "grounded" <=> x.id \in Confirmed(linked)
          /\ x.status = IF x.strength = "grounded" THEN "grounded" ELSE "proposed"
    BY <2>3, <2>4
  <2> QED
    BY <1>8, <2>2, <2>4, <2>5 DEF FindingInv
<1>13. EffectInv'
  BY <1>1, <1>7, <1>8 DEF EffectInv, Ended, KeepsBuilt
<1> QED
  BY <1>1, <1>9, <1>10, <1>11, <1>12, <1>13 DEF IInv, AnalysisInv, OutcomeInv, Analysed, Ended

-----------------------------------------------------------------------------
(* What the contracts refuse of an analysis *)

Says(f, g) ==
  /\ f.severity = g.severity /\ f.summary = g.summary /\ f.checkable = g.checkable
  /\ f.verification_id = g.verification_id
  /\ f.stance_key = g.stance_key /\ f.stance = g.stance

\* What was said was reported, and the other way round.
LEMMA SaidSays ==
  ASSUME CallInv
  PROVE  /\ \A f \in Said : \E g \in Reported : Says(f, g)
         /\ \A g \in Reported : \E f \in Said : Says(f, g)
<1>1. ASSUME NEW f \in Said
      PROVE  \E g \in Reported : Says(f, g)
  <2>1. PICK r \in Answered : \E n \in DOMAIN r.output.findings :
          /\ r.output.findings[n] \in Reported
          /\ f = Normalize(r.output.findings[n], r.handle, n)
    BY <1>1, SaidIs
  <2> QED
    BY <2>1, NormalIs DEF Says
<1>2. ASSUME NEW g \in Reported
      PROVE  \E f \in Said : Says(f, g)
  <2>1. PICK r \in Answered : \E n \in DOMAIN r.output.findings : Normalize(g, r.handle, n) \in Said
    BY <1>2, ReportedIs
  <2> QED
    BY <2>1, NormalIs DEF Says
<1> QED
  BY <1>1, <1>2

LEMMA SourceCompleted ==
  ASSUME CallInv, NEW f \in Said
  PROVE  f.source_id \in Completed(Parts)
<1>1. PICK r \in Answered : \E n \in DOMAIN r.output.findings :
        f = Normalize(r.output.findings[n], r.handle, n)
  BY SaidIs
<1>2. f.source_id = r.handle
  BY <1>1, NormalIs
<1>3. ~Ranked
  BY SaidIs
<1> DEFINE p == Participant(Input(r.handle))
<1>4. Input(r.handle) = [result |-> r, context_complete |-> TRUE] /\ r.handle \in External
  BY <1>3, OneAnswer
<1>5. p.source_id = r.handle /\ p.status = "completed"
  BY <1>4, AnswerIs DEF Participant, ParticipantStatus
<1>6. p \in Parts
  BY <1>4, RouteIs DEF Parts
<1> QED
  BY <1>2, <1>5, <1>6 DEF Completed

LEMMA CallIdsIff ==
  ASSUME CallInv
  PROVE  (\A p \in Parts : p.call_id # Blank) <=> \A h \in External : Called(h) # {}
<1>1. ASSUME NEW h \in ToSet(route.participants)
      PROVE  Participant(Input(h)).call_id = Blank <=> (h \in External /\ Called(h) = {})
  <2>1. CASE h = "self"
    <3>1. None # Blank
      BY NoneAssumption
    <3> QED
      BY <2>1, <3>1, OwnPart, RouteIs
  <2>2. CASE h # "self"
    <3>1. h \in External
      BY <2>2 DEF External
    <3>2. ASSUME Called(h) # {}
          PROVE  Participant(Input(h)).call_id # Blank
      <4>1. PICK i \in Called(h) : Participant(Input(h)).call_id = results[i].call_id
        BY <3>1, <3>2, OtherPart
      <4>2. results[i].call_id = <<results[i].handle, i>>
        BY CallIs DEF CallInv, Called
      <4> QED
        BY <4>1, <4>2 DEF Blank
    <3> QED
      BY <3>1, <3>2, OtherPart
  <2> QED
    BY <2>1, <2>2
<1>2. External \subseteq ToSet(route.participants)
  BY RouteIs
<1> QED
  BY <1>1, <1>2 DEF Parts

\* A text is blank in the analysis if a reviewer left it blank.
LEMMA TextsIff ==
  ASSUME CallInv, FindingInv, NEW blank, blank # None
  PROVE  /\ (\E f \in analysis.findings : f.summary = blank) <=> \E g \in Reported : g.summary = blank
         /\ (\E c \in Candidates(Said) : c.verification_id = blank) <=>
              \E g \in Reported : g.checkable /\ g.verification_id = blank
         /\ (\E x \in Contradictions(Said) : x.topic = blank) <=>
              \E f, g \in Reported : f.stance_key = blank /\ g.stance_key = blank /\ f.stance # g.stance
<1>1. ASSUME NEW f \in analysis.findings, f.summary = blank
      PROVE  \E g \in Reported : g.summary = blank
  <2>1. PICK q \in Said : Same(f, q)
    BY DEF FindingInv, Keeps
  <2>2. PICK g \in Reported : Says(q, g)
    BY SaidSays
  <2> QED
    BY <1>1, <2>1, <2>2 DEF Same, Says
<1>2. ASSUME NEW g \in Reported, g.summary = blank
      PROVE  \E f \in analysis.findings : f.summary = blank
  <2>1. PICK q \in Said : Says(q, g)
    BY SaidSays
  <2>2. PICK f \in analysis.findings : Same(f, q)
    BY DEF FindingInv, Keeps
  <2> QED
    BY <1>2, <2>1, <2>2 DEF Same, Says
<1>3. ASSUME NEW c \in Candidates(Said), c.verification_id = blank
      PROVE  \E g \in Reported : g.checkable /\ g.verification_id = blank
  <2>1. PICK q \in Said : q.checkable /\ c.verification_id = q.verification_id
    BY DEF Candidates
  <2>2. PICK g \in Reported : Says(q, g)
    BY SaidSays
  <2>3. q.checkable = g.checkable /\ q.verification_id = g.verification_id
    BY <2>2 DEF Says
  <2>4. g.checkable
    BY <2>1, <2>3
  <2> QED
    BY <1>3, <2>1, <2>3, <2>4
<1>4. ASSUME NEW g \in Reported, g.checkable, g.verification_id = blank
      PROVE  \E c \in Candidates(Said) : c.verification_id = blank
  <2>1. PICK q \in Said : Says(q, g)
    BY SaidSays
  <2>2. q.checkable = g.checkable /\ q.verification_id = blank
    BY <1>4, <2>1 DEF Says
  <2>3. q.checkable /\ q.verification_id # None
    BY <1>4, <2>2
  <2>4. [finding_id |-> q.id, verification_id |-> q.verification_id] \in Candidates(Said)
    BY <2>3 DEF Candidates
  <2> QED
    BY <2>2, <2>4
<1>5. ASSUME NEW x \in Contradictions(Said), x.topic = blank
      PROVE  \E d, e \in Reported : d.stance_key = blank /\ e.stance_key = blank /\ d.stance # e.stance
  <2> DEFINE S == Stances(About(Said, blank))
  <2>1. Cardinality(S) > 1
    BY <1>5 DEF Contradictions
  <2>2. Cardinality(S) \in Nat /\ IsFiniteSet(S)
    BY TopicFinite, FS_CardinalityType
  <2>3. PICK s, t \in S : s # t
    BY <2>1, <2>2, TwoOf
  <2>4. PICK f \in Said : f.stance_key = blank /\ f.stance = s
    BY <2>3 DEF Stances, About
  <2>5. PICK g \in Said : g.stance_key = blank /\ g.stance = t
    BY <2>3 DEF Stances, About
  <2>6. PICK d \in Reported : Says(f, d)
    BY SaidSays
  <2>7. PICK e \in Reported : Says(g, e)
    BY SaidSays
  <2> QED
    BY <2>3, <2>4, <2>5, <2>6, <2>7 DEF Says
<1>6. ASSUME NEW d \in Reported, NEW e \in Reported,
             d.stance_key = blank, e.stance_key = blank, d.stance # e.stance
      PROVE  \E x \in Contradictions(Said) : x.topic = blank
  <2>1. PICK f \in Said : Says(f, d)
    BY SaidSays
  <2>2. PICK g \in Said : Says(g, e)
    BY SaidSays
  <2>3. f.stance_key = blank /\ g.stance_key = blank /\ f.stance # g.stance
    BY <1>6, <2>1, <2>2 DEF Says
  <2>4. PICK x \in Contradictions(Said) : x.topic = f.stance_key
    BY <2>3, ContradictionIs
  <2> QED
    BY <2>3, <2>4
<1> QED
  BY <1>1, <1>2, <1>3, <1>4, <1>5, <1>6

LEMMA SchemaIff ==
  ASSUME CallInv, BuiltInv, FindingInv
  PROVE  AnalysisSchema(analysis) <=> ~Unusable
<1>1. (\A p \in Parts : p.call_id # Blank) <=>
        ~\E h \in External : \A i \in DOMAIN results : results[i].handle # h
  BY CallIdsIff DEF Called
<1> DEFINE Refusing(blank) ==
             /\ (\E f \in analysis.findings : f.summary = blank) <=> \E g \in Reported : g.summary = blank
             /\ (\E c \in Candidates(Said) : c.verification_id = blank) <=>
                  \E g \in Reported : g.checkable /\ g.verification_id = blank
             /\ (\E x \in Contradictions(Said) : x.topic = blank) <=>
                  \E f, g \in Reported : f.stance_key = blank /\ g.stance_key = blank /\ f.stance # g.stance
<1>2. \A blank : blank # None => Refusing(blank)
  BY TextsIff
<1> HIDE DEF Refusing
<1>3. "" # None
  BY NoneAssumption
<1>4. Refusing("")
  BY <1>2, <1>3
<1>5. /\ (\E f \in analysis.findings : f.summary = "") <=> \E g \in Reported : g.summary = ""
      /\ (\E c \in Candidates(Said) : c.verification_id = "") <=>
           \E g \in Reported : g.checkable /\ g.verification_id = ""
      /\ (\E x \in Contradictions(Said) : x.topic = "") <=>
           \E f, g \in Reported : f.stance_key = "" /\ g.stance_key = "" /\ f.stance # g.stance
  BY <1>4, Zenon DEF Refusing
<1> QED
  BY <1>1, <1>5, Zenon DEF AnalysisSchema, Unusable, BuiltInv

\* Whatever is left of an analysis holds, so that it is refused for a blank
\* text or a call that was not made, or not at all.
LEMMA ValidIff ==
  ASSUME IInv, phase \in Analysed \ Ended
  PROVE  ValidAnalysis(analysis) <=> ~Unusable
<1>1. CallInv /\ BuiltInv /\ FindingInv /\ ResultInv /\ EffectInv
  BY DEF IInv, AnalysisInv
<1>2. AnalysisSchema(analysis) <=> ~Unusable
  BY <1>1, SchemaIff
<1>3. \A f \in Said : f.source_id \in Completed(Parts)
  BY <1>1, SourceCompleted
<1>4. \A c \in analysis.consensus :
        Cardinality(c.supporters) >= 2 /\ c.supporters \subseteq Completed(analysis.participants)
  <2> SUFFICES ASSUME NEW c \in Consensus(Said)
               PROVE  Cardinality(c.supporters) >= 2 /\ c.supporters \subseteq Completed(Parts)
    BY <1>1 DEF BuiltInv
  <2>1. Cardinality(c.supporters) >= 2 /\ c.supporters = Sources(About(Said, c.topic))
    BY <1>1, ConsensusIs
  <2> QED
    BY <1>3, <2>1 DEF Sources, About
<1>5. \A f \in analysis.findings : f.source_id \in Completed(analysis.participants)
  BY <1>1, <1>3 DEF BuiltInv, FindingInv, Keeps, Same
<1>6. EvidenceHolds(analysis)
  <2>1. analysis.proof_results = {}
    BY <1>1 DEF ResultInv
  <2>2. \A r \in analysis.grounding_results :
          /\ \E c \in analysis.grounding_candidates :
               c.finding_id = r.finding_id /\ c.verification_id = r.verification_id
          /\ r.verdict = "confirmed" => Confirming(r) /\ r.exit_code # None /\ r.exit_code # 0
    BY <1>1 DEF ResultInv, BuiltInv
  <2>3. \A f \in analysis.findings : f.status = "grounded" => f.id \in Grounded(analysis)
    BY <1>1 DEF FindingInv
  <2> QED
    BY <2>1, <2>2, <2>3 DEF EvidenceHolds, Grounded
<1>7. (~analysis.context_complete \/ Unsettled(analysis.participants, analysis.findings)) =>
        analysis.effect \in {"blocked", "human-required"}
  BY <1>1 DEF EffectInv, BuiltInv, Unsettled
<1>8. analysis.context_complete = \A p \in analysis.participants : ContextComplete(p)
  BY <1>1 DEF BuiltInv
<1> QED
  BY <1>2, <1>4, <1>5, <1>6, <1>7, <1>8 DEF ValidAnalysis

-----------------------------------------------------------------------------
(* The invariant is inductive: the end of the run *)

LEMMA SkipGroundingStep ==
  ASSUME IInv, SkipGrounding
  PROVE  IInv'
<1>1. /\ CallInv /\ phase = "analysed" /\ phase' = "grounded"
      /\ UNCHANGED <<route, results, analysis, degradation, receipt>>
  BY DEF IInv, SkipGrounding
<1>2. CallInv'
  BY <1>1, CallsStay DEF Phases, Analysed
<1>3. AnalysisInv'
  BY <1>1, AnalysisStays DEF Analysed, Ended
<1> QED
  BY <1>1, <1>2, <1>3 DEF IInv, OutcomeInv, Analysed, Ended

LEMMA WriteStep ==
  ASSUME IInv, Write
  PROVE  IInv'
<1>1. /\ CallInv /\ phase = "grounded"
      /\ phase' = IF ValidAnalysis(analysis) THEN "pending" ELSE "lost"
      /\ UNCHANGED <<route, results, analysis, degradation, receipt>>
  BY DEF IInv, Write
<1>2. CallInv'
  BY <1>1, CallsStay DEF Phases, Analysed
<1>3. AnalysisInv'
  BY <1>1, AnalysisStays DEF Analysed, Ended
<1>4. ValidAnalysis(analysis) <=> ~Unusable
  BY <1>1, ValidIff DEF Analysed, Ended
<1>5. Unusable' = Unusable
  BY <1>1, SameCalls
<1> QED
  BY <1>1, <1>2, <1>3, <1>4, <1>5 DEF IInv, OutcomeInv, Analysed, Ended

LEMMA EditedStep ==
  ASSUME IInv, Edited
  PROVE  IInv'
<1>1. /\ CallInv /\ phase = "pending" /\ phase' = "pending"
      /\ degradation = {} /\ UNCHANGED <<route, results, analysis, receipt>>
  BY DEF IInv, Edited
<1>2. CallInv'
  BY <1>1, CallsStay DEF Phases, Analysed
<1>3. AnalysisInv'
  BY <1>1, AnalysisStays DEF Analysed, Ended
<1>4. Unusable' = Unusable
  BY <1>1, SameCalls
<1> QED
  BY <1>1, <1>2, <1>3, <1>4 DEF IInv, OutcomeInv, Analysed, Ended

LEMMA SameReceipt ==
  ASSUME UNCHANGED <<route, results, degradation>>, NEW waited \in BOOLEAN,
         receipt' = Receipt(analysis', waited)
  PROVE  (receipt = Receipt(analysis, waited))'
<1>1. Calls' = Calls
  BY DEF Calls
<1>2. Families' = Families /\ External' = External
  BY <1>1 DEF Families, External
<1> QED
  BY <1>1, <1>2 DEF Receipt

LEMMA FinalizeStep ==
  ASSUME IInv, Finalize
  PROVE  IInv'
<1>1. /\ CallInv /\ BuiltInv /\ FindingInv /\ ResultInv /\ phase = "pending" /\ ~Unusable
      /\ UNCHANGED <<route, results, degradation>>
  BY DEF IInv, AnalysisInv, OutcomeInv, Finalize, Analysed
<1>2. PICK capsules \in CapsuleSets, waited \in BOOLEAN :
        \E d \in Judgements(AttachProofs(analysis, capsules)) :
          /\ CanReconcile(AttachProofs(analysis, capsules), d, degradation = {})
          /\ analysis' = Reconcile(AttachProofs(analysis, capsules), d)
          /\ ValidAnalysis(analysis')
          /\ receipt' = Receipt(analysis', waited)
          /\ phase' = IF Linked(receipt', analysis') THEN "recorded" ELSE "refused"
  BY DEF Finalize
<1> DEFINE proved == AttachProofs(analysis, capsules)
<1>3. /\ IsAnalysis(proved) /\ KeepsBuilt(proved, analysis)
      /\ proved.proof_results = capsules
      /\ proved.findings = WithGrounded(analysis.findings, Confirmed(capsules))
      /\ proved.grounding_results = analysis.grounding_results
  BY <1>1, AttachedProofs DEF BuiltInv
<1>4. PICK d \in Judgements(proved) :
        /\ CanReconcile(proved, d, degradation = {})
        /\ analysis' = Reconcile(proved, d)
        /\ ValidAnalysis(analysis')
        /\ receipt' = Receipt(analysis', waited)
        /\ phase' = IF Linked(receipt', analysis') THEN "recorded" ELSE "refused"
  BY <1>2
<1> HIDE DEF proved
<1>5. /\ IsAnalysis(analysis') /\ KeepsBuilt(analysis', proved)
      /\ (analysis').findings = Disposed(proved.findings, d)
      /\ (analysis').effect = Effect(proved, (analysis').findings)
      /\ (analysis').grounding_results = proved.grounding_results
      /\ (analysis').proof_results = proved.proof_results
  BY <1>3, <1>4, Reconciled
<1>6. Said' = Said /\ Parts' = Parts /\ Unusable' = Unusable
  BY <1>1, SameCalls
<1>7. phase' \in Ended /\ (phase' = "recorded" <=> Linked(receipt', analysis'))
  BY <1>4 DEF Ended
<1>8. CallInv'
  BY <1>1, <1>7, CallsStay DEF Phases, Analysed, Ended
<1>9. BuiltInv'
  BY <1>1, <1>3, <1>5, <1>6 DEF BuiltInv, KeepsBuilt
<1>10. ResultInv'
  BY <1>1, <1>3, <1>5, <1>6, <1>7 DEF ResultInv, Ended
<1>11. EffectInv'
  BY <1>5, <1>7 DEF EffectInv, Effect, KeepsBuilt
<1>12. FindingInv'
  <2>1. Keeps(analysis.findings, Said)
    BY <1>1 DEF FindingInv
  <2>2. /\ Keeps(proved.findings, Said)
        /\ \A x \in proved.findings :
             \E f \in analysis.findings :
               /\ x.id = f.id
               /\ IF f.id \in Confirmed(capsules) THEN x.status = "grounded" /\ x.strength = "grounded"
                  ELSE x = f
    BY <1>3, <2>1, GroundedFindings
  <2>3. \A x \in proved.findings :
          /\ x.strength = "grounded" <=> x.id \in Confirmed(analysis.grounding_results) \cup Confirmed(capsules)
          /\ x.status = IF x.strength = "grounded" THEN "grounded" ELSE "proposed"
    BY <1>1, <2>2 DEF FindingInv, ResultInv, Grounded, Confirmed, Ended
  <2>4. (Grounded(analysis))' = Confirmed(analysis.grounding_results) \cup Confirmed(capsules)
    BY <1>3, <1>5 DEF Grounded
  <2>5. /\ Keeps((analysis').findings, Said)
        /\ \A x \in (analysis').findings :
             \E f \in proved.findings :
               /\ x.id = f.id /\ x.strength = f.strength
               /\ x.status = IF f.id \in DOMAIN d THEN d[f.id] ELSE f.status
    BY <1>5, <2>2, DisposedFindings
  <2>6. \A id \in DOMAIN d : d[id] \in Dispositions
    <3>1. CASE d = Automatic(proved)
      BY <3>1 DEF Automatic, Dispositions
    <3>2. CASE \E ids : d \in [ids -> Dispositions]
      BY <3>2
    <3> QED
      BY <1>4, <3>1, <3>2 DEF Judgements
  <2>7. \A f \in proved.findings :
          (f.strength = "grounded" /\ f.id \in DOMAIN d) => d[f.id] \notin {"rejected", "waived"}
    BY <1>4 DEF CanReconcile
  <2>8. \A x \in (analysis').findings :
          /\ x.strength = "grounded" <=> x.id \in (Grounded(analysis))'
          /\ x.strength = "grounded" => x.status \in {"grounded", "accepted", "resolved", "deadlock"}
    BY <2>3, <2>4, <2>5, <2>6, <2>7 DEF Dispositions
  <2> QED
    BY <1>6, <1>7, <2>5, <2>8 DEF FindingInv
<1>13. OutcomeInv'
  <2>1. (receipt = Receipt(analysis, waited))'
    BY <1>1, <1>4, SameReceipt
  <2> QED
    BY <1>1, <1>4, <1>6, <1>7, <2>1 DEF OutcomeInv, Ended
<1> QED
  BY <1>7, <1>8, <1>9, <1>10, <1>11, <1>12, <1>13 DEF IInv, AnalysisInv, Analysed, Ended

-----------------------------------------------------------------------------
(* What the contracts refuse of a receipt *)

LEMMA RecordIs ==
  ASSUME IInv, phase \in Ended
  PROVE  /\ receipt.topology = route.topology /\ receipt.requested_participants = route.participants
         /\ receipt.state = IF degradation # {} THEN "degraded"
                            ELSE IF analysis.effect = "human-required" THEN "escalated" ELSE "signed_off"
         /\ receipt.verdict = IF degradation # {} THEN "degraded"
                              ELSE IF analysis.effect \in {"human-required", "blocked"} THEN "blocked"
                              ELSE IF analysis.effect = "revised" THEN "revise" ELSE "ship"
         /\ receipt.fused <=> (/\ degradation = {} /\ analysis.context_complete
                               /\ route.topology # "advisor" /\ External \subseteq CompletedHandles(Calls))
         /\ receipt.consulted <=> route.topology = "advisor"
         /\ receipt.cross_model <=> Cardinality(Families) >= 2
         /\ receipt.self_model = IF "self" \in ToSet(route.participants) THEN route.model["self"] ELSE None
         /\ receipt.context_complete = analysis.context_complete
         /\ receipt.calls = Calls /\ receipt.max_calls = route.max_calls
         /\ receipt.capped = route.capped /\ receipt.explicit = route.explicit
         /\ receipt.findings = Summary(analysis)
         /\ receipt.degradation_reasons = degradation
         /\ ~analysis.context_complete => analysis.effect = "human-required"
         /\ Unsettled(analysis.participants, analysis.findings) => analysis.effect = "human-required"
<1>1. PICK waited \in BOOLEAN : receipt = Receipt(analysis, waited)
  BY EndedIs
<1> DEFINE s == StateOf(analysis.effect, degradation # {})
<1>2. /\ receipt.topology = route.topology /\ receipt.requested_participants = route.participants
      /\ receipt.state = s[1] /\ receipt.verdict = s[2]
      /\ receipt.fused = (/\ degradation = {} /\ analysis.context_complete /\ route.topology # "advisor"
                          /\ External \subseteq CompletedHandles(Calls))
      /\ receipt.consulted = (route.topology = "advisor")
      /\ receipt.cross_model = (Cardinality(Families) >= 2)
      /\ receipt.self_model = IF "self" \in ToSet(route.participants) THEN route.model["self"] ELSE None
      /\ receipt.context_complete = analysis.context_complete
      /\ receipt.calls = Calls /\ receipt.max_calls = route.max_calls
      /\ receipt.capped = route.capped /\ receipt.explicit = route.explicit
      /\ receipt.findings = Summary(analysis)
      /\ receipt.degradation_reasons = degradation
  BY <1>1, ReceiptIs
<1>3. /\ s[1] = IF degradation # {} THEN "degraded"
                ELSE IF analysis.effect = "human-required" THEN "escalated" ELSE "signed_off"
      /\ s[2] = IF degradation # {} THEN "degraded"
                ELSE IF analysis.effect \in {"human-required", "blocked"} THEN "blocked"
                ELSE IF analysis.effect = "revised" THEN "revise" ELSE "ship"
  BY StateIs
<1>4. /\ ~analysis.context_complete => analysis.effect = "human-required"
      /\ Unsettled(analysis.participants, analysis.findings) => analysis.effect = "human-required"
  BY EndedIs, EffectIs
<1> HIDE DEF s
<1> QED
  BY <1>2, <1>3, <1>4

\* Whoever saw everything has answered.
LEMMA ContextCalled ==
  ASSUME IInv, phase \in Ended, analysis.context_complete
  PROVE  External \subseteq CompletedHandles(Calls)
<1>1. CallInv /\ BuiltInv
  BY EndedIs
<1> SUFFICES ASSUME NEW h \in External
             PROVE  h \in CompletedHandles(Calls)
  OBVIOUS
<1> DEFINE p == Participant(Input(h))
<1>2. p \in Parts
  BY <1>1, RouteIs DEF Parts
<1>3. ContextComplete(p)
  BY <1>1, <1>2 DEF BuiltInv
<1>4. Called(h) # {}
  BY <1>1, <1>3, OtherPart
<1>5. PICK i \in Called(h) : p.status = RecordStatus(results[i].status)
  BY <1>1, <1>4, OtherPart
<1>6. results[i].status \in Broken \cup {"completed"} /\ results[i].handle = h
  BY <1>1, CallIs DEF CallInv, Called
<1>7. results[i].status = "completed"
  BY <1>3, <1>5, <1>6, StatusIs DEF ContextComplete
<1>8. results[i] \in Answered
  BY <1>7 DEF Called, Answered, ToSet
<1> QED
  BY <1>1, <1>6, <1>8, CallsAre

\* Two families are the families of two participants.
LEMMA FamiliesAre ==
  ASSUME CallInv
  PROVE  /\ Cardinality(Families) \in Nat
         /\ Cardinality(Families) >= 2 => Len(route.participants) >= 2
<1> DEFINE P == ToSet(route.participants)
           H == CompletedHandles(Calls) \cup ({"self"} \cap P)
           D == 1..Len(route.participants)
           f == [i \in D |-> route.participants[i]]
           g == [h \in H |-> route.family[h]]
<1>1. route.participants \in Seq(STRING) /\ DOMAIN route.participants = D /\ Len(route.participants) \in Nat
  BY RouteIs
<1>2. IsFiniteSet(D)
  BY <1>1, FS_Interval
<1>3. P = {f[i] : i \in D}
  BY <1>1 DEF ToSet
<1>4. IsFiniteSet(P)
  <2>1. DOMAIN f = D
    OBVIOUS
  <2> HIDE DEF f, D, P
  <2> QED
    BY <1>2, <1>3, <2>1, ImageFinite
<1>5. H \in SUBSET P
  BY CallsAre, AnswerIs, RouteIs
<1>6. IsFiniteSet(H)
  BY <1>4, <1>5, FS_Subset
<1>7. Families = {g[h] : h \in H}
  BY DEF Families
<1>8. IsFiniteSet(Families)
  <2>1. DOMAIN g = H
    OBVIOUS
  <2> HIDE DEF g, H
  <2> QED
    BY <1>6, <1>7, <2>1, ImageFinite
<1>9. ASSUME Cardinality(Families) >= 2
      PROVE  Len(route.participants) >= 2
  <2>1. PICK x, y \in Families : x # y
    BY <1>8, <1>9, TwoOf
  <2>2. PICK h, k \in H : h # k
    BY <1>7, <2>1
  <2>3. PICK i, j \in D : f[i] = h /\ f[j] = k
    BY <1>3, <1>5, <2>2
  <2>4. i # j
    BY <2>2, <2>3
  <2> QED
    BY <1>1, <2>4
<1> QED
  BY <1>8, <1>9, FS_CardinalityType

LEMMA ReceiptSchemaIff ==
  ASSUME IInv, phase \in Ended
  PROVE  ReceiptSchema(receipt) <=>
           /\ receipt.fused => Cardinality(Families) >= 2
           /\ ~(route.topology = "advisor" /\ receipt.verdict \in {"ship", "revise"})
<1>1. /\ CallInv /\ results # << >> /\ (degradation = {} => AllCompleted(results))
  BY EndedIs
<1>2. Calls # << >> /\ Len(Calls) = Len(results)
  BY <1>1, CallsAre
<1>3. degradation = {} => /\ CompletedHandles(Calls) # {}
                          /\ \A c \in ToSet(Calls) : c.status = "completed"
  <2> SUFFICES ASSUME degradation = {}
               PROVE  /\ CompletedHandles(Calls) # {}
                      /\ \A c \in ToSet(Calls) : c.status = "completed"
    OBVIOUS
  <2>1. \A i \in DOMAIN results : Calls[i].status = "completed"
    BY <1>1, CallsAre DEF AllCompleted
  <2>2. \A c \in ToSet(Calls) : c.status = "completed"
    BY <1>1, <2>1, CallsAre
  <2>3. 1 \in DOMAIN Calls
    <3>1. Len(results) # 0
      <4>1. Len(results) = 0 => results = << >>
        <5> SUFFICES ASSUME Len(results) = 0
                     PROVE  results = << >>
          OBVIOUS
        <5> DEFINE T == {results[i] : i \in 1..Len(results)}
        <5>1. results = [i \in 1..Len(results) |-> results[i]]
          BY <1>1 DEF CallInv
        <5>2. [i \in 1..Len(results) |-> results[i]] \in Seq(T)
          BY <1>1 DEF CallInv
        <5> QED
          BY <5>1, <5>2, EmptySeq
      <4> QED
        BY <1>1, <4>1
    <3> QED
      BY <1>1, <3>1, CallsAre DEF CallInv
  <2>4. Calls[1] \in ToSet(Calls)
    BY <2>3 DEF ToSet
  <2> QED
    BY <2>2, <2>4 DEF CompletedHandles
<1>4. analysis.context_complete => External \subseteq CompletedHandles(Calls)
  BY ContextCalled
<1>5. Cardinality(Families) >= 2 => Len(route.participants) >= 2
  BY <1>1, FamiliesAre
<1>6. ReceiptSchema(receipt) =>
        /\ receipt.fused => Cardinality(Families) >= 2
        /\ ~(route.topology = "advisor" /\ receipt.verdict \in {"ship", "revise"})
  BY RecordIs DEF ReceiptSchema
<1>7. ASSUME receipt.fused => Cardinality(Families) >= 2,
             ~(route.topology = "advisor" /\ receipt.verdict \in {"ship", "revise"})
      PROVE  ReceiptSchema(receipt)
  BY <1>2, <1>3, <1>4, <1>5, <1>7, RecordIs DEF ReceiptSchema
<1> QED
  BY <1>6, <1>7

\* A call that is recorded: who was called, and whether it completed.
LEMMA RecordedCall ==
  ASSUME CallInv, NEW c \in ToSet(Calls)
  PROVE  \E i \in DOMAIN results :
           /\ c = Calls[i]
           /\ c.call_id = <<results[i].handle, i>> /\ c.handle = results[i].handle
           /\ c.handle \in External
           /\ IdentityHolds(c) <=>
                ~(results[i].status # "completed" /\ results[i].effective_model # None)
<1>1. PICK i \in DOMAIN results : c = Calls[i]
  BY CallsAre
<1>2. /\ c.call_id = results[i].call_id /\ c.handle = results[i].handle
      /\ c.status = "completed" <=> results[i].status = "completed"
      /\ c.effective_model = results[i].effective_model
      /\ c.configured_model = route.model[results[i].handle]
  BY <1>1, CallsAre
<1>3. /\ results[i].call_id = <<results[i].handle, i>> /\ results[i].handle \in External
      /\ results[i].status = "completed" => results[i].effective_model = route.model[results[i].handle]
  BY <1>1, CallIs DEF CallInv
<1> QED
  BY <1>1, <1>2, <1>3 DEF IdentityHolds

LEMMA IdentitiesIff ==
  ASSUME CallInv
  PROVE  (\A c \in ToSet(Calls) : IdentityHolds(c)) <=>
           ~\E i \in DOMAIN results :
              results[i].status # "completed" /\ results[i].effective_model # None
<1>1. ASSUME NEW i \in DOMAIN results
      PROVE  IdentityHolds(Calls[i]) <=>
               ~(results[i].status # "completed" /\ results[i].effective_model # None)
  <2>1. Calls[i] \in ToSet(Calls)
    BY CallsAre
  <2>2. PICK j \in DOMAIN results :
          /\ Calls[i].call_id = <<results[j].handle, j>>
          /\ IdentityHolds(Calls[i]) <=>
               ~(results[j].status # "completed" /\ results[j].effective_model # None)
    BY <2>1, RecordedCall
  <2>3. Calls[i].call_id = <<results[i].handle, i>>
    BY CallsAre, CallIs DEF CallInv
  <2>4. i = j
    BY <2>2, <2>3
  <2> QED
    BY <2>2, <2>4
<1> QED
  BY <1>1, CallsAre

LEMMA CallIdsApart ==
  ASSUME CallInv
  PROVE  IsInjective([i \in DOMAIN Calls |-> Calls[i].call_id])
<1> DEFINE f == [i \in DOMAIN Calls |-> Calls[i].call_id]
<1>1. \A i \in DOMAIN f : f[i] = <<results[i].handle, i>>
  BY CallsAre, CallIs DEF CallInv
<1>2. \A i, j \in DOMAIN f : f[i] = f[j] => i = j
  <2> TAKE i, j \in DOMAIN f
  <2>1. f[i] = <<results[i].handle, i>> /\ f[j] = <<results[j].handle, j>>
    BY <1>1
  <2> QED
    BY <2>1
<1> QED
  BY <1>2 DEF IsInjective

\* Whom the analysis names, and for which calls they stand.
LEMMA PartsLinked ==
  ASSUME CallInv, \A h \in External : Called(h) # {}
  PROVE  /\ ToSet(route.participants) = {p.source_id : p \in Parts}
         /\ \A p \in Parts :
              IF p.source_id = "self" THEN p.call_id = None
              ELSE \E c \in ToSet(Calls) :
                     /\ c.call_id = p.call_id /\ c.handle = p.source_id
                     /\ c.effective_model = p.effective_model /\ c.status = p.status
<1>1. ASSUME NEW h \in ToSet(route.participants)
      PROVE  LET p == Participant(Input(h))
             IN  /\ p.source_id = h
                 /\ IF p.source_id = "self" THEN p.call_id = None
                    ELSE \E c \in ToSet(Calls) :
                           /\ c.call_id = p.call_id /\ c.handle = p.source_id
                           /\ c.effective_model = p.effective_model /\ c.status = p.status
  <2> DEFINE p == Participant(Input(h))
  <2>1. CASE h = "self"
    BY <2>1, OwnPart
  <2>2. CASE h # "self"
    <3>1. h \in External
      BY <2>2 DEF External
    <3>2. p.source_id = h
      BY <3>1, OtherPart
    <3>3. PICK i \in Called(h) :
            /\ p.call_id = results[i].call_id
            /\ p.effective_model = results[i].effective_model
            /\ p.status = RecordStatus(results[i].status)
      BY <3>1, OtherPart
    <3>4. /\ i \in DOMAIN results /\ results[i].handle = h
      BY DEF Called
    <3>5. /\ Calls[i].call_id = p.call_id /\ Calls[i].handle = h
          /\ Calls[i].effective_model = p.effective_model /\ Calls[i].status = p.status
          /\ Calls[i] \in ToSet(Calls)
      BY <3>3, <3>4, CallsAre
    <3> QED
      BY <2>2, <3>2, <3>5
  <2> QED
    BY <2>1, <2>2
<1> QED
  BY <1>1 DEF Parts

\* What validate_linked refuses of a run that is over.
LEMMA LinkedIff ==
  ASSUME IInv, phase \in Ended
  PROVE  Linked(receipt, analysis) <=> ~Unrecordable
<1>1. CallInv /\ BuiltInv /\ FindingInv /\ ~Unusable /\ ValidAnalysis(analysis)
  BY EndedIs
<1>2. /\ receipt.topology = route.topology /\ receipt.requested_participants = route.participants
      /\ receipt.calls = Calls /\ receipt.max_calls = route.max_calls
      /\ receipt.context_complete = analysis.context_complete
      /\ receipt.findings = Summary(analysis)
      /\ receipt.fused => External \subseteq CompletedHandles(Calls)
      /\ receipt.verdict = "ship" => analysis.effect \notin {"blocked", "human-required"}
  BY RecordIs
<1>3. \A h \in External : Called(h) # {}
  BY <1>1 DEF Unusable, Called
<1>4. Len(Calls) = Len(results)
  BY <1>1, CallsAre
<1>5. ValidReceipt(receipt) <=>
        /\ Len(results) <= route.max_calls
        /\ ~\E i \in DOMAIN results :
              results[i].status # "completed" /\ results[i].effective_model # None
        /\ receipt.fused => Cardinality(Families) >= 2
        /\ ~(route.topology = "advisor" /\ receipt.verdict \in {"ship", "revise"})
  BY <1>1, <1>2, <1>4, ReceiptSchemaIff, CallIdsApart, IdentitiesIff DEF ValidReceipt, External
<1>6. ToSet(receipt.requested_participants) = {p.source_id : p \in analysis.participants}
      /\ ParticipantsLinked(receipt, analysis)
  BY <1>1, <1>2, <1>3, PartsLinked DEF ParticipantsLinked, BuiltInv
<1>7. receipt.findings = FindingCounts(analysis)
  BY <1>2 DEF Summary, FindingCounts, CountOf, Confirmed
<1>8. (receipt.findings.blocker = 0 /\ receipt.findings.major = 0) <=>
        ~\E f \in Reported : f.severity # "minor"
  <2>1. receipt.findings.blocker = CountOf(analysis.findings, "blocker")
        /\ receipt.findings.major = CountOf(analysis.findings, "major")
    BY <1>7 DEF FindingCounts
  <2>2. \A g \in Reported : g.severity \in {"blocker", "major", "minor"}
    BY <1>1, ReportedIs DEF Finding
  <2>3. receipt.findings.blocker = 0 <=> \A g \in Reported : g.severity # "blocker"
    BY <1>1, <2>1, CountIs
  <2>4. receipt.findings.major = 0 <=> \A g \in Reported : g.severity # "major"
    BY <1>1, <2>1, CountIs
  <2> QED
    BY <2>2, <2>3, <2>4
<1>9. Linked(receipt, analysis) <=>
        /\ ValidReceipt(receipt)
        /\ receipt.verdict = "ship" => receipt.findings.blocker = 0 /\ receipt.findings.major = 0
  BY <1>1, <1>2, <1>6, <1>7 DEF Linked
<1>10. Unrecordable <=>
         ~ /\ Len(results) <= route.max_calls
           /\ ~\E i \in DOMAIN results :
                 results[i].status # "completed" /\ results[i].effective_model # None
           /\ receipt.fused => Cardinality(Families) >= 2
           /\ ~(route.topology = "advisor" /\ receipt.verdict \in {"ship", "revise"})
           /\ ~(receipt.verdict = "ship" /\ \E f \in Reported : f.severity # "minor")
  <2>1. Len(results) \in Nat /\ route.max_calls \in Nat /\ Cardinality(Families) \in Nat
    BY <1>1, RouteAssumption, FamiliesAre DEF CallInv
  <2> QED
    BY <2>1 DEF Unrecordable
<1> QED
  BY <1>5, <1>8, <1>9, <1>10

LEMMA RefusedOnly ==
  ASSUME IInv
  PROVE  RefusedOnlyFor
<1>1. phase \in Ended => (phase = "recorded" <=> ~Unrecordable)
  BY LinkedIff, EndedIs
<1>2. /\ phase = "lost" => Unusable
      /\ phase \in {"pending"} \cup Ended => ~Unusable
      /\ phase \in Phases
  BY DEF IInv, OutcomeInv, CallInv
<1> QED
  BY <1>1, <1>2 DEF RefusedOnlyFor, Ended, Phases, Analysed

-----------------------------------------------------------------------------
(* What the scripts accept *)

\* An undisputed run, in which every call completed.
Undisputed == phase = "recorded" /\ ~Disputed

LEMMA UndisputedIs ==
  ASSUME IInv, Undisputed
  PROVE  /\ CallInv /\ BuiltInv /\ FindingInv /\ ResultInv /\ phase \in Ended
         /\ degradation = {} /\ ~receipt.waited /\ route.topology # "advisor" /\ ~route.explicit
         /\ \A f \in Reported : IF f.checkable THEN f.verification_id \in Known
                                ELSE f.verification_id = None
         /\ \A r \in analysis.grounding_results : r.exit_code # None
         /\ \A r \in analysis.proof_results : r.verdict # "confirmed"
         /\ AllCompleted(results) /\ ~route.capped
         /\ CompletedHandles(Calls) = External
         /\ ValidAnalysis(analysis) /\ ValidReceipt(receipt) /\ Linked(receipt, analysis)
         /\ \A h \in External : Called(h) # {}
<1>1. phase \in Ended
  BY DEF Undisputed, Ended
<1>2. /\ CallInv /\ BuiltInv /\ FindingInv /\ ResultInv /\ results # << >>
      /\ degradation = {} => AllCompleted(results)
      /\ ~Unusable /\ Linked(receipt, analysis)
  BY <1>1, EndedIs DEF Undisputed
<1>3. /\ degradation = {} /\ ~receipt.waited /\ route.topology # "advisor" /\ ~route.explicit
      /\ \A f \in Reported : IF f.checkable THEN f.verification_id \in Known
                             ELSE f.verification_id = None
      /\ \A r \in analysis.grounding_results : r.exit_code # None
      /\ \A r \in analysis.proof_results : r.verdict # "confirmed"
  BY DEF Undisputed, Disputed
<1>4. AllCompleted(results)
  BY <1>2, <1>3
<1>5. \A h \in External : Called(h) # {}
  BY <1>2 DEF Unusable, Called
<1>6. \A h \in External : \E r \in Answered : r.handle = h
  BY <1>4, <1>5 DEF Called, AllCompleted, Answered, ToSet
<1>7. CompletedHandles(Calls) = External
  <2>1. CompletedHandles(Calls) = {r.handle : r \in Answered}
    BY <1>2, CallsAre
  <2>2. \A r \in Answered : r.handle \in External
    BY <1>2, AnswerIs
  <2> QED
    BY <1>6, <2>1, <2>2
<1>8. ~route.capped
  <2>1. External # {}
    <3>1. route.asked \in Seq(External) /\ route.asked # << >>
      BY <1>2, RouteIs
    <3> QED
      BY <3>1
  <2>2. PICK i \in DOMAIN results : results[i].status = "completed"
    BY <1>4, <1>5, <2>1 DEF Called, AllCompleted
  <2> QED
    BY <1>2, <2>2 DEF CallInv, IsCall, Broken
<1> QED
  BY <1>1, <1>2, <1>3, <1>4, <1>5, <1>7, <1>8 DEF Linked

\* Two families are two models, by the panel that the run is of.
LEMMA ModelsAgree ==
  ASSUME IInv, Undisputed
  PROVE  receipt.cross_model = (Cardinality(ResolvedModels(receipt)) >= 2)
<1> DEFINE P == ToSet(route.participants)
<1>1. /\ CallInv /\ phase \in Ended /\ CompletedHandles(Calls) = External
      /\ AllCompleted(results)
  BY UndisputedIs
<1>2. PICK waited \in BOOLEAN : receipt = Receipt(analysis, waited)
  BY <1>1, EndedIs
<1>3. /\ receipt.cross_model = (Cardinality(Families) >= 2) /\ receipt.calls = Calls
      /\ receipt.self_model = IF "self" \in P THEN route.model["self"] ELSE None
  BY <1>2, ReceiptIs
<1>4. External \cup ({"self"} \cap P) = P
  BY DEF External
<1>5. Families = {route.family[h] : h \in P}
  BY <1>1, <1>4 DEF Families
<1>6. {c.effective_model : c \in {d \in ToSet(Calls) : d.status = "completed"}} =
        {route.model[h] : h \in External}
  <2>1. ASSUME NEW i \in DOMAIN results
        PROVE  /\ Calls[i].status = "completed" /\ results[i].handle \in External
               /\ Calls[i].effective_model = route.model[results[i].handle]
    BY <1>1, CallsAre, CallIs DEF CallInv, AllCompleted
  <2>2. \A h \in External : \E i \in DOMAIN results : results[i].handle = h
    BY UndisputedIs DEF Called
  <2>3. ToSet(Calls) = {Calls[i] : i \in DOMAIN results}
    BY <1>1, CallsAre
  <2>4. ASSUME NEW c \in ToSet(Calls)
        PROVE  c.status = "completed" /\ \E h \in External : c.effective_model = route.model[h]
    BY <2>1, <2>3
  <2>5. ASSUME NEW h \in External
        PROVE  \E c \in ToSet(Calls) : c.status = "completed" /\ c.effective_model = route.model[h]
    BY <2>1, <2>2, <2>3
  <2> QED
    BY <2>4, <2>5
<1>7. IF receipt.self_model = None THEN "self" \notin P
      ELSE "self" \in P /\ receipt.self_model = route.model["self"]
  <2>1. "self" \in P => route.model["self"] \in STRING
    BY <1>1, RouteIs
  <2> QED
    BY <1>3, <2>1, NoneAssumption
<1>8. ResolvedModels(receipt) = {route.model[h] : h \in P}
  <2>1. CASE "self" \in P
    <3>1. ResolvedModels(receipt) = {route.model[h] : h \in External} \cup {route.model["self"]}
      BY <1>3, <1>6, <1>7, <2>1 DEF ResolvedModels
    <3> QED
      BY <2>1, <3>1 DEF External
  <2>2. CASE "self" \notin P
    <3>1. ResolvedModels(receipt) = {route.model[h] : h \in External}
      BY <1>3, <1>6, <1>7, <2>2 DEF ResolvedModels
    <3> QED
      BY <2>2, <3>1 DEF External
  <2> QED
    BY <2>1, <2>2
<1>9. (Cardinality({route.family[h] : h \in P}) >= 2) = (Cardinality({route.model[h] : h \in P}) >= 2)
  BY DEF Undisputed, Disputed
<1> QED
  BY <1>3, <1>5, <1>8, <1>9

LEMMA ScriptsAcceptReceipt ==
  ASSUME IInv, Undisputed
  PROVE  ScriptReceipt(receipt)
<1>1. /\ CallInv /\ phase \in Ended /\ ValidReceipt(receipt)
      /\ degradation = {} /\ ~receipt.waited /\ route.topology # "advisor" /\ ~route.explicit
      /\ ~route.capped /\ CompletedHandles(Calls) = External
  BY UndisputedIs
<1>2. /\ receipt.topology = route.topology /\ receipt.requested_participants = route.participants
      /\ receipt.calls = Calls /\ receipt.max_calls = route.max_calls
      /\ receipt.capped = route.capped /\ receipt.explicit = route.explicit
      /\ receipt.degradation_reasons = degradation
  BY <1>1, RecordIs
<1>3. ReceiptSchema(receipt)
  BY <1>1 DEF ValidReceipt
<1>4. ScriptPolicy(receipt) /\ ScriptTimes(receipt)
  BY <1>1, <1>2 DEF ScriptPolicy, ScriptTimes
<1>5. ScriptCalls(receipt)
  BY <1>1, <1>2, RecordedCall DEF ScriptCalls, ValidReceipt, External
<1>6. ScriptBudget(receipt)
  BY <1>1, <1>2 DEF ScriptBudget, ValidReceipt
<1>7. receipt.fused => CompletedHandles(receipt.calls) = ToSet(receipt.requested_participants) \ {"self"}
  BY <1>1, <1>2 DEF External
<1> QED
  BY <1>3, <1>4, <1>5, <1>6, <1>7, ModelsAgree DEF ScriptReceipt

LEMMA ScriptsAcceptParticipants ==
  ASSUME IInv, Undisputed
  PROVE  ScriptParticipants(analysis)
<1>1. /\ CallInv /\ BuiltInv /\ ValidAnalysis(analysis) /\ route.topology # "advisor"
      /\ AllCompleted(results) /\ \A h \in External : Called(h) # {}
      /\ phase \in Ended
  BY UndisputedIs
<1>2. ASSUME NEW h \in ToSet(route.participants)
      PROVE  LET p == Participant(Input(h))
             IN  /\ p.effective_model # None
                 /\ IF p.source_id = "self" THEN p.call_id = None ELSE p.call_id \notin {None, Blank}
  <2> DEFINE p == Participant(Input(h))
  <2>1. route.model[h] \in STRING /\ None \notin STRING /\ None \notin STRING \X Nat
    BY <1>1, RouteIs, NoneAssumption
  <2>2. CASE h = "self"
    BY <2>1, <2>2, OwnPart
  <2>3. CASE h # "self"
    <3>1. h \in External /\ h \in STRING
      BY <1>1, <2>3, RouteIs DEF External
    <3>2. PICK i \in Called(h) : /\ p.call_id = results[i].call_id
                                 /\ p.effective_model = results[i].effective_model
      BY <1>1, <3>1, OtherPart
    <3>3. /\ results[i].handle = h /\ results[i].call_id = <<h, i>> /\ i \in Nat
          /\ results[i].effective_model = route.model[h]
      BY <1>1, CallIs DEF CallInv, Called, AllCompleted
    <3>4. <<h, i>> \in STRING \X Nat
      BY <3>1, <3>3
    <3>5. p.source_id = h
      BY <1>1, <3>1, OtherPart
    <3> HIDE DEF p
    <3>6. p.call_id # None /\ p.call_id # Blank /\ p.effective_model # None
      BY <2>1, <3>2, <3>3, <3>4 DEF Blank
    <3> QED
      BY <2>3, <3>5, <3>6 DEF p
  <2> QED
    BY <2>2, <2>3
<1>3. \A p \in analysis.participants :
        /\ p.effective_model # None
        /\ IF p.source_id = "self" THEN p.call_id = None ELSE p.call_id \notin {None, Blank}
  BY <1>1, <1>2 DEF BuiltInv, Parts
<1> QED
  BY <1>1, <1>3 DEF ScriptParticipants, ValidAnalysis, BuiltInv

\* A reviewer takes one position on a topic that is disputed.
LEMMA OnePosition ==
  ASSUME IInv, Undisputed, NEW x \in Contradictions(Said),
         NEW f \in x.positions, NEW g \in x.positions, f.source_id = g.source_id
  PROVE  f = g
<1>1. CallInv
  BY UndisputedIs
<1>2. PICK t : /\ x.positions = About(Said, t)
               /\ Cardinality(Stances(About(Said, t))) > 1
  BY DEF Contradictions
<1>3. PICK r \in Answered : \E n \in DOMAIN r.output.findings :
        /\ r.output \in Review /\ r.output.findings[n] \in Reported
        /\ f = Normalize(r.output.findings[n], r.handle, n)
  BY <1>1, <1>2, SaidIs DEF About
<1>4. PICK s \in Answered : \E n \in DOMAIN s.output.findings :
        g = Normalize(s.output.findings[n], s.handle, n)
  BY <1>1, <1>2, SaidIs DEF About
<1>5. PICK n \in DOMAIN r.output.findings : f = Normalize(r.output.findings[n], r.handle, n)
  BY <1>3
<1>6. PICK m \in DOMAIN s.output.findings : g = Normalize(s.output.findings[m], s.handle, m)
  BY <1>4
<1>7. s = r
  <2>1. s.handle = r.handle
    BY <1>5, <1>6, NormalIs
  <2>2. ~Ranked
    BY <1>1, <1>2, SaidIs DEF About
  <2> QED
    BY <1>1, <2>1, <2>2, OneAnswer
<1>8. PICK d, e \in Reported : d.stance_key = t /\ e.stance_key = t /\ d.stance # e.stance
  <2> DEFINE S == Stances(About(Said, t))
  <2>1. Cardinality(S) \in Nat /\ IsFiniteSet(S)
    BY <1>1, TopicFinite, FS_CardinalityType
  <2>2. PICK v, w \in S : v # w
    BY <1>2, <2>1, TwoOf
  <2>3. PICK y \in Said : y.stance_key = t /\ y.stance = v
    BY <2>2 DEF Stances, About
  <2>4. PICK z \in Said : z.stance_key = t /\ z.stance = w
    BY <2>2 DEF Stances, About
  <2>5. PICK d \in Reported : Says(y, d)
    BY <1>1, SaidSays
  <2>6. PICK e \in Reported : Says(z, e)
    BY <1>1, SaidSays
  <2> QED
    BY <2>2, <2>3, <2>4, <2>5, <2>6 DEF Says
<1> DEFINE N == {k \in DOMAIN r.output.findings : r.output.findings[k].stance_key = t}
<1>9. ~(Cardinality(N) > 1)
  BY <1>8 DEF Undisputed, Disputed
<1>10. IsFiniteSet(N)
  <2>1. r.output.findings \in Seq(Finding)
    BY <1>3, ReviewIs
  <2>2. DOMAIN r.output.findings = 1..Len(r.output.findings) /\ Len(r.output.findings) \in Nat
    BY <2>1
  <2>3. IsFiniteSet(DOMAIN r.output.findings)
    BY <2>2, FS_Interval
  <2> QED
    BY <2>3, FS_Subset
<1>11. n \in N /\ m \in N
  <2>1. f.stance_key = t /\ g.stance_key = t
    BY <1>2 DEF About
  <2> QED
    BY <1>5, <1>6, <1>7, <2>1, NormalIs
<1>12. n = m
  <2> SUFFICES ASSUME n # m
               PROVE  FALSE
    OBVIOUS
  <2> HIDE DEF N
  <2>1. Cardinality(N) >= 2 /\ Cardinality(N) \in Nat
    BY <1>10, <1>11, AtLeastTwo, FS_CardinalityType
  <2> QED
    BY <1>9, <2>1
<1> QED
  BY <1>5, <1>6, <1>7, <1>12

LEMMA ScriptsAcceptComparison ==
  ASSUME IInv, Undisputed
  PROVE  ScriptComparison(analysis)
<1>1. CallInv /\ BuiltInv /\ ValidAnalysis(analysis)
  BY UndisputedIs
<1>2. \A f \in Said : f.source_id \in Completed(Parts)
  BY <1>1, SourceCompleted
<1>3. ASSUME NEW x \in Contradictions(Said)
      PROVE  /\ Sources(x.positions) \subseteq Completed(Parts)
             /\ Cardinality(Sources(x.positions)) = Cardinality(x.positions)
  <2>1. PICK t : x.positions = About(Said, t)
    BY DEF Contradictions
  <2>2. IsFiniteSet(x.positions)
    BY <1>1, <2>1, TopicFinite
  <2> DEFINE source == [f \in x.positions |-> f.source_id]
  <2>3. \A f, g \in x.positions : source[f] = source[g] => f = g
    BY OnePosition
  <2>4. Sources(x.positions) = {source[f] : f \in x.positions}
    BY DEF Sources
  <2>5. Cardinality({source[f] : f \in x.positions}) = Cardinality(x.positions)
    <3>1. DOMAIN source = x.positions
      OBVIOUS
    <3> HIDE DEF source
    <3> QED
      BY <2>2, <2>3, <3>1, InjectiveImage
  <2> QED
    BY <1>2, <2>1, <2>4, <2>5 DEF Sources, About
<1>4. ASSUME NEW k \in PartialCoverage(Parts)
      PROVE  k.covered_by \subseteq Completed(Parts)
  <2> DEFINE reviewers == {p \in Parts : p.status = "completed" /\ p.coverage # None}
  <2>1. PICK a : k = [area |-> a,
                      covered_by |-> {p.source_id : p \in {q \in reviewers : a \in q.coverage}}]
    BY DEF PartialCoverage
  <2>2. k.covered_by = {p.source_id : p \in {q \in reviewers : a \in q.coverage}}
    BY <2>1
  <2>3. reviewers \subseteq {q \in Parts : q.status = "completed"}
    OBVIOUS
  <2> HIDE DEF reviewers
  <2> QED
    BY <2>2, <2>3 DEF Completed
<1>5. ASSUME NEW u \in UniqueInsights(Said)
      PROVE  u.source_id \in Completed(Parts)
  BY <1>2 DEF UniqueInsights
<1> QED
  BY <1>1, <1>3, <1>4, <1>5 DEF ScriptComparison, BuiltInv, ValidAnalysis

LEMMA ScriptsAcceptResults ==
  ASSUME IInv, Undisputed
  PROVE  ScriptResults(analysis)
<1>1. BuiltInv /\ ResultInv /\ \A r \in analysis.grounding_results : r.exit_code # None
  BY UndisputedIs
<1> SUFFICES ASSUME NEW r \in analysis.grounding_results
             PROVE  /\ \E c \in analysis.grounding_candidates :
                         c.finding_id = r.finding_id /\ c.verification_id = r.verification_id
                    /\ r.exit_code # None
                    /\ r.verdict = "confirmed" => Confirming(r) /\ r.exit_code # 0
                    /\ r.verdict = "not-reproduced" =>
                         /\ r.execution_status = "completed" /\ r.exit_code = 0
                         /\ r.failure_class = None /\ ~r.matched_expected_failure
                    /\ r.verdict = "inconclusive" => ~Confirming(r)
  BY DEF ScriptResults
<1>2. /\ \E c \in analysis.grounding_candidates :
           c.finding_id = r.finding_id /\ c.verification_id = r.verification_id
      /\ r.verdict = "confirmed" <=> Confirming(r)
      /\ r.verdict = "confirmed" => r.exit_code \notin {0, None}
      /\ r.verdict = "not-reproduced" =>
           /\ r.execution_status = "completed" /\ r.exit_code = 0
           /\ r.failure_class = None /\ ~r.matched_expected_failure
  BY <1>1 DEF ResultInv, BuiltInv
<1> QED
  BY <1>1, <1>2

\* What is grounded could be checked, and an execution confirmed it.
LEMMA ScriptsAcceptFindings ==
  ASSUME IInv, Undisputed
  PROVE  ScriptFindings(analysis)
<1>1. /\ CallInv /\ BuiltInv /\ FindingInv /\ ResultInv /\ ValidAnalysis(analysis)
      /\ \A f \in Reported : IF f.checkable THEN f.verification_id \in Known
                             ELSE f.verification_id = None
      /\ \A r \in analysis.proof_results : r.verdict # "confirmed"
  BY UndisputedIs
<1>2. Confirmed(analysis.proof_results) = {}
  BY <1>1 DEF Confirmed
<1> SUFFICES ASSUME NEW f \in analysis.findings
             PROVE  /\ f.source_id \in Completed(analysis.participants)
                    /\ IF f.checkable THEN f.verification_id \in Known ELSE f.verification_id = None
                    /\ (f.status = "grounded" \/ f.strength = "grounded") =>
                         f.checkable /\ f.id \in Confirmed(analysis.grounding_results)
  BY DEF ScriptFindings
<1>3. f.source_id \in Completed(analysis.participants)
  BY <1>1 DEF ValidAnalysis
<1>4. PICK q \in Said : Same(f, q)
  BY <1>1 DEF FindingInv, Keeps
<1>5. PICK g \in Reported : Says(q, g)
  BY <1>1, SaidSays
<1>6. f.checkable = g.checkable /\ f.verification_id = g.verification_id
  BY <1>4, <1>5 DEF Same, Says
<1>7. IF f.checkable THEN f.verification_id \in Known ELSE f.verification_id = None
  BY <1>1, <1>6
<1>8. ASSUME f.status = "grounded" \/ f.strength = "grounded"
      PROVE  f.checkable /\ f.id \in Confirmed(analysis.grounding_results)
  <2>1. f.id \in Confirmed(analysis.grounding_results)
    BY <1>1, <1>2, <1>8 DEF FindingInv, Grounded, ValidAnalysis, EvidenceHolds
  <2>2. PICK r \in analysis.grounding_results : r.finding_id = f.id
    BY <2>1 DEF Confirmed
  <2>3. PICK c \in Candidates(Said) : c.finding_id = f.id
    BY <1>1, <2>2 DEF ResultInv
  <2>4. PICK s \in Said : s.checkable /\ s.id = f.id
    BY <2>3 DEF Candidates
  <2>5. s = q
    BY <1>1, <1>4, <2>4, SaidOnce DEF Same, Keeps
  <2>6. f.checkable = s.checkable
    BY <1>4, <2>5 DEF Same
  <2> QED
    BY <2>1, <2>4, <2>6
<1> QED
  BY <1>3, <1>7, <1>8

\* Each candidate has one result at most.
LEMMA ConfirmedOnce ==
  ASSUME IInv, Undisputed
  PROVE  Cardinality(Confirmed(analysis.grounding_results)) =
           Cardinality({r \in analysis.grounding_results : r.verdict = "confirmed"})
<1> DEFINE R == analysis.grounding_results
           C == {r \in R : r.verdict = "confirmed"}
           at == [q \in Said |-> CHOOSE r \in R : r.finding_id = q.id]
           id == [r \in C |-> r.finding_id]
<1>1. CallInv /\ ResultInv
  BY UndisputedIs
<1>2. \A r \in R : \E q \in Said : at[q] = r
  <2> TAKE r \in R
  <2>1. PICK c \in Candidates(Said) : c.finding_id = r.finding_id
    BY <1>1 DEF ResultInv
  <2>2. PICK q \in Said : q.id = r.finding_id
    BY <2>1 DEF Candidates
  <2>3. at[q] \in R /\ at[q].finding_id = q.id
    BY <2>2
  <2> QED
    BY <1>1, <2>2, <2>3 DEF ResultInv
<1>3. IsFiniteSet({at[q] : q \in Said})
  <2>1. DOMAIN at = Said
    OBVIOUS
  <2> HIDE DEF at
  <2> QED
    BY <1>1, <2>1, SaidFinite, ImageFinite
<1>4. IsFiniteSet(C)
  <2>1. C \in SUBSET {at[q] : q \in Said}
    BY <1>2
  <2> QED
    BY <1>3, <2>1, FS_Subset
<1>5. \A r, s \in C : id[r] = id[s] => r = s
  BY <1>1 DEF ResultInv
<1>6. Confirmed(R) = {id[r] : r \in C}
  BY DEF Confirmed
<1> QED
  <2>1. DOMAIN id = C
    OBVIOUS
  <2> HIDE DEF id, C
  <2>2. Cardinality({id[r] : r \in C}) = Cardinality(C)
    BY <1>4, <1>5, <2>1, InjectiveImage
  <2> QED
    BY <1>6, <2>2 DEF C

LEMMA ScriptsAcceptLink ==
  ASSUME IInv, Undisputed
  PROVE  ScriptLinked(receipt, analysis)
<1>1. /\ CallInv /\ BuiltInv /\ phase \in Ended /\ Linked(receipt, analysis)
      /\ \A h \in External : Called(h) # {}
      /\ \A r \in analysis.proof_results : r.verdict # "confirmed"
  BY UndisputedIs
<1>2. receipt.findings = FindingCounts(analysis)
  BY <1>1 DEF Linked
<1>3. /\ receipt.findings.blocker = CountOf(analysis.findings, "blocker")
      /\ receipt.findings.major = CountOf(analysis.findings, "major")
      /\ receipt.findings.minor = CountOf(analysis.findings, "minor")
      /\ receipt.findings.confirmed_by_exec = Cardinality(Confirmed(analysis.grounding_results))
      /\ receipt.findings.confirmed_by_proof = Cardinality(Confirmed(analysis.proof_results))
      /\ receipt.findings.deadlocks = Cardinality({f \in analysis.findings : f.status = "deadlock"})
      /\ receipt.findings["blocker"] = receipt.findings.blocker
      /\ receipt.findings["major"] = receipt.findings.major
      /\ receipt.findings["minor"] = receipt.findings.minor
  BY <1>2 DEF FindingCounts
<1>4. \A severity \in {"blocker", "major", "minor"} :
        receipt.findings[severity] = CountOf(analysis.findings, severity)
  BY <1>3
<1>5. receipt.findings.confirmed_by_exec =
        Cardinality({s \in analysis.grounding_results : s.verdict = "confirmed"})
  BY <1>3, ConfirmedOnce
<1>6. receipt.findings.confirmed_by_proof =
        Cardinality({s \in analysis.proof_results : s.verdict = "confirmed"})
  <2>1. {s \in analysis.proof_results : s.verdict = "confirmed"} = {}
    BY <1>1
  <2>2. Confirmed(analysis.proof_results) = {}
    BY <1>1 DEF Confirmed
  <2> QED
    BY <1>3, <2>1, <2>2
<1>7. /\ receipt.context_complete = analysis.context_complete
      /\ ToSet(receipt.requested_participants) = {p.source_id : p \in analysis.participants}
      /\ receipt.verdict = "ship" =>
           /\ receipt.findings.blocker = 0 /\ receipt.findings.major = 0
           /\ analysis.effect \notin {"blocked", "human-required"}
      /\ ParticipantsLinked(receipt, analysis)
  BY <1>1 DEF Linked
<1>8. \A p \in analysis.participants :
        IF p.source_id = "self" THEN p.call_id = None
        ELSE \E c \in ToSet(receipt.calls) :
               /\ c.call_id = p.call_id /\ c.handle = p.source_id
               /\ c.effective_model = p.effective_model
  BY <1>7 DEF ParticipantsLinked
<1> QED
  BY <1>3, <1>4, <1>5, <1>6, <1>7, <1>8, Zenon DEF ScriptLinked

LEMMA ScriptsAgreed ==
  ASSUME IInv
  PROVE  ScriptsAgree
<1> SUFFICES ASSUME Undisputed
             PROVE  ScriptsAccept(receipt, analysis)
  BY DEF ScriptsAgree, Undisputed
<1>1. ValidAnalysis(analysis)
  BY UndisputedIs
<1>2. AnalysisSchema(analysis)
      /\ (Unsettled(analysis.participants, analysis.findings) =>
            analysis.effect \in {"blocked", "human-required"})
  BY <1>1 DEF ValidAnalysis
<1>3. ScriptAnalysis(analysis)
  BY <1>2, ScriptsAcceptParticipants, ScriptsAcceptComparison, ScriptsAcceptResults,
     ScriptsAcceptFindings DEF ScriptAnalysis
<1> QED
  BY <1>3, ScriptsAcceptReceipt, ScriptsAcceptLink DEF ScriptsAccept

-----------------------------------------------------------------------------
(* The theorems *)

LEMMA InitIInv == Init => IInv
<1> SUFFICES ASSUME Init
             PROVE  IInv
  OBVIOUS
<1>1. /\ route \in Routes /\ results = << >> /\ phase = "dispatch" /\ analysis = None
  BY DEF Init
<1>2. Len(results) = 0 /\ DOMAIN results = {} /\ results = [i \in 1..Len(results) |-> results[i]]
  BY <1>1
<1>3. CallInv
  BY <1>1, <1>2 DEF CallInv, Phases
<1> QED
  BY <1>1, <1>3 DEF IInv, AnalysisInv, OutcomeInv, Analysed, Ended

LEMMA StutterStep ==
  ASSUME IInv, UNCHANGED vars
  PROVE  IInv'
<1>1. /\ UNCHANGED <<route, results, degradation, phase, analysis, receipt>> /\ CallInv
  BY DEF vars, IInv
<1>2. Said' = Said /\ Parts' = Parts /\ Unusable' = Unusable
  BY <1>1, SameCalls
<1>3. CallInv'
  <2>1. (\A i \in DOMAIN results : IsCall(results[i], i))' /\ Ranked' = Ranked
    BY <1>1, SameRoute DEF CallInv
  <2> QED
    BY <1>1, <2>1 DEF CallInv, AllCompleted
<1>4. AnalysisInv'
  BY <1>1, <1>2 DEF IInv, AnalysisInv, BuiltInv, FindingInv, ResultInv, EffectInv, Grounded
<1>5. OutcomeInv'
  <2>1. ASSUME phase \in Ended
        PROVE  (\E waited \in BOOLEAN : receipt = Receipt(analysis, waited))'
    <3>1. PICK waited \in BOOLEAN : receipt = Receipt(analysis, waited)
      BY <2>1 DEF IInv, OutcomeInv
    <3>2. receipt' = Receipt(analysis', waited)
      <4>1. Calls' = Calls
        BY <1>1 DEF Calls
      <4>2. Families' = Families /\ External' = External
        BY <1>1, <4>1 DEF Families, External
      <4> QED
        BY <1>1, <3>1, <4>1, <4>2 DEF Receipt
    <3>3. (receipt = Receipt(analysis, waited))'
      BY <1>1, <3>2, SameReceipt
    <3> QED
      BY <3>3
  <2> QED
    BY <1>1, <1>2, <2>1 DEF IInv, OutcomeInv
<1> QED
  BY <1>1, <1>3, <1>4, <1>5 DEF IInv

LEMMA SpecIInv == Spec => []IInv
<1>1. IInv /\ [Next]_vars => IInv'
  BY AnswerStep, PolicyBlockedStep, FinishDispatchStep, AnalyseStep, GroundStep,
     SkipGroundingStep, WriteStep, EditedStep, FinalizeStep, StutterStep DEF Next
<1> QED
  BY <1>1, InitIInv, PTL DEF Spec

\* Whatever the providers answer, the groundings say and the operator decides,
\* for every route: the engine's own artifacts are refused for the listed
\* reasons only, and for those always.
THEOREM ArtifactsRefused == Spec => []RefusedOnlyFor
BY SpecIInv, RefusedOnly, PTL

\* build_analysis makes up no agreement and drops no dissent, and nothing that
\* grounding, proofs and dispositions do to the analysis changes that.
THEOREM ArtifactsDissent == Spec => []DissentIsKept
BY SpecIInv, DissentKept, PTL

\* A receipt that ships rests on complete answers of all external participants
\* with minor findings, all of which are settled where changes were asked for.
THEOREM ArtifactsShip == Spec => []ShipIsEarned
BY SpecIInv, ShipEarned, PTL

\* An undisputed run that the program records passes the validation of the
\* repository's scripts.
THEOREM ArtifactsScripts == Spec => []ScriptsAgree
BY SpecIInv, ScriptsAgreed, PTL

=============================================================================
