----------------------------- MODULE RunArtifacts -----------------------------
(***************************************************************************)
(* The artifacts of one run, from the first answer to the receipt          *)
(* (engine.py): the calls, the analysis that is built of them, grounded,   *)
(* validated and written, then proved, disposed of and, with the receipt   *)
(* of the run, validated again.                                            *)
(*                                                                         *)
(* What the engine produces and what contracts.py accepts were written     *)
(* apart from each other.  A refusal costs the run: an analysis that is    *)
(* refused after the calls were paid leaves nothing behind, a receipt that *)
(* is refused leaves a run nobody can finish with these dispositions.      *)
(* Crashes, retries and competitors are Finalization's; here each step     *)
(* happens once, on every kind of data.                                    *)
(***************************************************************************)
EXTENDS ArtifactContracts, FiniteSetsExt

CONSTANTS
  Routes,               \* the routes considered: topology, participants, the
                        \* handles asked in the order of their calls, the
                        \* judge, call budget, whether it has a cost limit,
                        \* whether the panel was named, families and
                        \* canonical models
  Reviews,              \* what a reviewer may answer
  Verdicts,             \* what executing a verification may result in
  CapsuleSets           \* the sets of proof capsules an operator may supply

Dispositions == {"accepted", "rejected", "deadlock", "resolved", "waived"}

Recommendations == {"ship", "revise", "block", "abstain"}

\* None is no recommendation, text or call id.
ASSUME NoneAssumption ==
  None \notin Recommendations \cup {""} \cup STRING \cup (STRING \X Nat) \cup {Blank}

\* panel_participants: a panel lists its drafter first, every handle once, and
\* only the drafter may be self; context_quorum asks no handle twice.
ASSUME RouteAssumption ==
  \A r \in Routes :
    LET handles == ToSet(r.participants)
    IN  /\ r.topology \in {"review", "adversarial-review", "dual-review", "panel-rank", "advisor"}
        /\ r.participants \in Seq(STRING) /\ IsInjective(r.participants)
        /\ \A i \in DOMAIN r.participants : r.participants[i] = "self" => i = 1
        /\ r.asked \in Seq(handles \ {"self"}) /\ r.asked # << >> /\ IsInjective(r.asked)
        /\ r.topology = "panel-rank" => r.judge \in handles \ {"self"}
        /\ r.family \in [handles -> STRING] /\ r.model \in [handles -> STRING]
        /\ r.max_calls \in Nat /\ r.capped \in BOOLEAN /\ r.explicit \in BOOLEAN

\* reviewer-output.schema.json
ASSUME ReviewAssumption ==
  Reviews \subseteq
    [recommendation : Recommendations,
     coverage : SUBSET STRING, blind_spots : SUBSET STRING,
     findings : Seq([severity : {"blocker", "major", "minor"}, summary : STRING,
                     checkable : BOOLEAN, verification_id : STRING \cup {None},
                     stance_key : STRING, stance : {"supports", "opposes", "uncertain"}])]

\* run_grounding: what is confirmed has failed as expected, what is not has
\* ended well or otherwise than expected.
ASSUME VerdictAssumption ==
  /\ Known \subseteq STRING
  /\ \A o \in Verdicts :
       /\ {"verdict", "execution_status", "exit_code", "failure_class", "matched_expected_failure"}
            \subseteq DOMAIN o
       /\ o.verdict = "confirmed" <=> Confirming(o)
       /\ o.verdict = "confirmed" => o.exit_code \notin {0, None}
       /\ o.verdict = "not-reproduced" =>
            /\ o.execution_status = "completed" /\ o.exit_code = 0
            /\ o.failure_class = None /\ ~o.matched_expected_failure

\* Supplied capsules have one proof id each, and a confirmed one passed its gate.
ASSUME CapsuleAssumption ==
  \A capsules \in CapsuleSets :
    /\ IsFiniteSet(capsules)
    /\ \A c, d \in capsules : c.proof_id = d.proof_id => c = d
    /\ \A c \in capsules : c.verdict = "confirmed" => c.mutation_gate_passed

VARIABLES
  route,                \* the route of the run
  results,              \* results of its calls, in the order of the requests
  phase,                \* how far the run is
  analysis,             \* analysis.json
  degradation,          \* reasons of degradation
  receipt               \* the receipt handed to the receipt store

vars == <<route, results, phase, analysis, degradation, receipt>>

External == ToSet(route.participants) \ {"self"}

-----------------------------------------------------------------------------
(* Calls *)

Result(handle, n, status, model, output) ==
  [handle |-> handle, call_id |-> <<handle, n>>, status |-> status,
   effective_model |-> model, family |-> route.family[handle], output |-> output]

Ranked == route.topology = "panel-rank"

\* Only reviewers and advisors answer with a review.
Outputs == IF Ranked THEN {NoReview} ELSE Reviews

Failed(handle, n, status) == Result(handle, n, status, None, NoReview)

\* An answer that breaks the cost or the output bound of the call: the
\* output is dropped, the identity stays.
Dropped(handle, n) == Result(handle, n, "failed", route.model[handle], NoReview)

\* build_result, _failed_result, and a reservation that the budget refuses.  No
\* provider reports its cost, which a cost limit takes for a breach.
ResultsOf(handle, n) ==
  IF n > route.max_calls THEN {Failed(handle, n, "failed")}
  ELSE {Result(handle, n, "completed", route.model[handle], o) :
          o \in IF route.capped THEN {} ELSE Outputs}
         \cup {Failed(handle, n, s) : s \in {"failed", "timeout", "cancelled"}}
         \cup {Dropped(handle, n)}

AllCompleted(rs) == \A i \in DOMAIN rs : rs[i].status = "completed"

\* run_panel_rank asks the judge only if every proposal arrived, twice about
\* each pair, and about another pair only if both judgments of the last one did.
Judgments == Len(results) - Len(route.asked)

Judging ==
  /\ Ranked /\ Judgments >= 0
  /\ Len(results) < Len(route.asked) * Len(route.asked)
  /\ AllCompleted(SubSeq(results, 1, Len(results) - (Judgments % 2)))

NextHandle ==
  IF Len(results) < Len(route.asked) THEN route.asked[Len(results) + 1]
  ELSE IF Judging THEN route.judge ELSE None

Answer ==
  /\ phase = "dispatch" /\ NextHandle # None
  /\ \E r \in ResultsOf(NextHandle, Len(results) + 1) : results' = Append(results, r)
  /\ UNCHANGED <<route, phase, analysis, degradation, receipt>>

\* Secrets in the snapshot: no call is made, every participant has a result.
PolicyBlocked ==
  /\ phase = "dispatch" /\ results = << >>
  /\ LET handles == IF route.participants[1] = "self" THEN Tail(route.participants)
                    ELSE route.participants
     IN  results' = [i \in DOMAIN handles |-> Failed(handles[i], i, "policy_blocked")]
  /\ phase' = "dispatched"
  /\ degradation' = {"topology"}
  /\ UNCHANGED <<route, analysis, receipt>>

\* _result and run_panel_rank: a call that failed, or a judge who abstained on a
\* pair or between the best.
FinishDispatch ==
  /\ phase = "dispatch"
  /\ \E abstained \in IF Ranked THEN BOOLEAN ELSE {FALSE} :
       /\ NextHandle = None \/ (abstained /\ Judgments > 0 /\ Judgments % 2 = 0)
       /\ degradation' = IF AllCompleted(results) /\ ~abstained THEN {} ELSE {"topology"}
  /\ phase' = "dispatched"
  /\ UNCHANGED <<route, results, analysis, receipt>>

-----------------------------------------------------------------------------
(* The analysis *)

SelfResult ==
  [handle |-> "self", call_id |-> None, status |-> "completed",
   effective_model |-> route.model["self"], family |-> route.family["self"], output |-> NoReview]

\* The result that stands for a handle: its first failure or its last call.
\* A participant nobody called has a result without a call.
Representative(handle) ==
  LET calls == {i \in DOMAIN results : results[i].handle = handle}
      broken == {i \in calls : results[i].status # "completed"}
  IN  IF calls = {} THEN [Failed(handle, 0, "failed") EXCEPT !.call_id = Blank]
      ELSE results[IF broken = {} THEN Max(calls) ELSE Min(broken)]

\* _analysis_inputs: a participant saw everything if all its calls completed.
Input(handle) ==
  IF handle = "self" THEN [result |-> SelfResult, context_complete |-> TRUE]
  ELSE [result |-> Representative(handle),
        context_complete |-> Representative(handle).status = "completed"]

Inputs == {Input(h) : h \in ToSet(route.participants)}

Analyse ==
  /\ phase = "dispatched"
  /\ phase' = "analysed"
  /\ analysis' = BuildAnalysis(route.topology, Inputs)
  /\ UNCHANGED <<route, results, degradation, receipt>>

\* A verification that is unknown or that policy refuses.
Blocked ==
  [verdict |-> "inconclusive", execution_status |-> "policy-blocked", exit_code |-> None,
   failure_class |-> "policy", matched_expected_failure |-> FALSE]

\* Candidates are listed by participant, then as the reviewer listed them.
Before(c, d) ==
  LET place(x) == CHOOSE i \in DOMAIN route.participants : route.participants[i] = x.finding_id[1]
  IN  \/ place(c) < place(d)
      \/ place(c) = place(d) /\ c.finding_id[2] < d.finding_id[2]

\* The candidates that are looked at until the deadline passes, which is noticed
\* before a verification that has not been executed yet.
LookedAt(candidates) ==
  {done \in SUBSET candidates :
     LET left == candidates \ done
     IN  /\ \A c \in done, d \in left : Before(c, d)
         /\ \A d \in left : (\E c \in done : c.verification_id = d.verification_id) =>
                              \E e \in left : Before(e, d)}

Link(candidate, outcome) ==
  [finding_id |-> candidate.finding_id, verification_id |-> candidate.verification_id,
   verdict |-> outcome.verdict, execution_status |-> outcome.execution_status,
   exit_code |-> outcome.exit_code, failure_class |-> outcome.failure_class,
   matched_expected_failure |-> outcome.matched_expected_failure]

\* _ground: one execution for each verification; a deadline that passes leaves
\* the rest, and degrades the run.
Groundings ==
  LET candidates == analysis.grounding_candidates
      ids == {c.verification_id : c \in candidates}
  IN  {[results |-> {Link(c, outcome[c.verification_id]) : c \in done}, late |-> done # candidates] :
         done \in LookedAt(candidates),
         outcome \in {o \in [ids -> Verdicts \cup {Blocked}] : \A v \in ids \ Known : o[v] = Blocked}}

Ground ==
  /\ phase = "analysed"
  /\ \E g \in Groundings :
       /\ analysis' = AttachGrounding(analysis, g.results)
       /\ degradation' = degradation \cup IF g.late THEN {"deadline"} ELSE {}
  /\ phase' = "grounded"
  /\ UNCHANGED <<route, results, receipt>>

\* The artifact is no diff, or the caller wants no grounding.
SkipGrounding ==
  /\ phase = "analysed"
  /\ phase' = "grounded"
  /\ UNCHANGED <<route, results, analysis, degradation, receipt>>

\* The analysis is validated before it is written; a refusal raises.
Write ==
  /\ phase = "grounded"
  /\ phase' = IF ValidAnalysis(analysis) THEN "pending" ELSE "lost"
  /\ UNCHANGED <<route, results, analysis, degradation, receipt>>

-----------------------------------------------------------------------------
(* The receipt *)

\* Mutant: the transport's spelling of a status goes into the record.
RecordStatusAsIs(status) == status

RecordStatus(status) ==
  CASE status = "timeout" -> "timed-out"
    [] status = "cancelled" -> "failed"
    [] status = "policy_blocked" -> "policy-blocked"
    [] OTHER -> status

\* _result_json and _call_records
Calls ==
  [i \in DOMAIN results |->
     [call_id |-> results[i].call_id, handle |-> results[i].handle,
      status |-> RecordStatus(results[i].status),
      effective_model |-> results[i].effective_model,
      configured_model |-> route.model[results[i].handle]]]

\* Mutant: handles are counted, not what they resolve to.
FamiliesByHandle == CompletedHandles(Calls) \cup ({"self"} \cap ToSet(route.participants))

\* The families that make a run cross-model.
Families ==
  {route.family[h] : h \in CompletedHandles(Calls) \cup ({"self"} \cap ToSet(route.participants))}

\* The state and the verdict of _finalize_locked.
StateOf(effect, degraded) ==
  IF degraded THEN <<"degraded", "degraded">>
  ELSE CASE effect = "human-required" -> <<"escalated", "blocked">>
         [] effect = "blocked" -> <<"signed_off", "blocked">>
         [] effect = "revised" -> <<"signed_off", "revise">>
         [] OTHER -> <<"signed_off", "ship">>

\* _finding_counts of engine.py
Summary(a) ==
  LET severity(s) == Cardinality({f \in a.findings : f.severity = s})
      confirmed(rs) == Cardinality({r.finding_id : r \in {q \in rs : q.verdict = "confirmed"}})
  IN  [blocker |-> severity("blocker"), major |-> severity("major"), minor |-> severity("minor"),
       confirmed_by_exec |-> confirmed(a.grounding_results),
       confirmed_by_proof |-> confirmed(a.proof_results),
       deadlocks |-> Cardinality({f \in a.findings : f.status = "deadlock"})]

\* _build_receipt; waited tells that time passed since the analysis.
Receipt(a, waited) ==
  LET state == StateOf(a.effect, degradation # {})
  IN  [topology |-> route.topology, requested_participants |-> route.participants,
       state |-> state[1], verdict |-> state[2],
       fused |-> /\ degradation = {} /\ a.context_complete /\ route.topology # "advisor"
                 /\ External \subseteq CompletedHandles(Calls),
       consulted |-> route.topology = "advisor",
       cross_model |-> Cardinality(Families) >= 2,
       self_model |-> IF "self" \in ToSet(route.participants) THEN route.model["self"] ELSE None,
       context_complete |-> a.context_complete,
       calls |-> Calls, max_calls |-> route.max_calls,
       capped |-> route.capped, explicit |-> route.explicit,
       findings |-> Summary(a),
       degradation_reasons |-> degradation, waited |-> waited]

\* The tree is edited while the run waits for a judgement.
Edited ==
  /\ phase = "pending"
  /\ degradation = {}
  /\ degradation' = {"tree"}
  /\ UNCHANGED <<route, results, phase, analysis, receipt>>

\* The dispositions an operator may supply, and those of a run that settles
\* itself.
Judgements(a) ==
  LET ids == {f.id : f \in a.findings}
      given == IF degradation = {} THEN {ids} ELSE SUBSET ids
  IN  {Automatic(a)} \cup UNION {[d -> Dispositions] : d \in given}

\* finalize: capsules of this run, dispositions, then the receipt, which the
\* store persists only if validate_linked accepts it.
Finalize ==
  /\ phase = "pending"
  /\ \E capsules \in CapsuleSets, waited \in BOOLEAN :
       /\ \A c \in capsules : \E f \in analysis.findings : f.id = c.finding_id
       /\ LET proved == AttachProofs(analysis, capsules)
          IN  \E d \in Judgements(proved) :
                /\ CanReconcile(proved, d, degradation = {})
                /\ analysis' = Reconcile(proved, d)
                /\ ValidAnalysis(analysis')
                /\ receipt' = Receipt(analysis', waited)
                /\ phase' = IF Linked(receipt', analysis') THEN "recorded" ELSE "refused"
  /\ UNCHANGED <<route, results, degradation>>

Init ==
  /\ route \in Routes
  /\ results = << >> /\ phase = "dispatch"
  /\ analysis = None /\ degradation = {} /\ receipt = None

Next ==
  \/ Answer \/ PolicyBlocked \/ FinishDispatch
  \/ Analyse \/ Ground \/ SkipGrounding \/ Write
  \/ Edited \/ Finalize

Spec == Init /\ [][Next]_vars

-----------------------------------------------------------------------------
(* Properties *)

\* What the reviewers answered, whatever the analysis made of it.
Answered == {r \in ToSet(results) : r.status = "completed"}
Reported == UNION {ToSet(r.output.findings) : r \in Answered}

\* The answers an analysis cannot hold: nobody asked a participant, or a
\* reviewer left a text blank that the analysis must carry.
Unusable ==
  \/ \E h \in External : \A i \in DOMAIN results : results[i].handle # h
  \/ \E f \in Reported : f.summary = "" \/ (f.checkable /\ f.verification_id = "")
  \/ \E f, g \in Reported : f.stance_key = "" /\ g.stance_key = "" /\ f.stance # g.stance

\* The runs a receipt cannot hold: a call that the budget refused counts as
\* used, an answer that broke its bound keeps its identity, one family cannot
\* fuse, an advisor's guidance neither ships nor revises, and a major or
\* blocking finding that was dismissed still stands.
Unrecordable ==
  \/ Len(results) > route.max_calls
  \/ \E i \in DOMAIN results : results[i].status # "completed" /\ results[i].effective_model # None
  \/ receipt.fused /\ Cardinality(Families) < 2
  \/ route.topology = "advisor" /\ receipt.verdict \in {"ship", "revise"}
  \/ receipt.verdict = "ship" /\ \E f \in Reported : f.severity # "minor"

\* Whatever the calls return, the groundings say and the operator decides: the
\* engine's artifacts are accepted except for the reasons above, and then
\* never.
RefusedOnlyFor ==
  /\ phase = "lost" <=> (phase \notin {"dispatch", "dispatched", "analysed", "grounded"} /\ Unusable)
  /\ phase \in {"recorded", "refused"} => (phase = "refused" <=> Unrecordable)

\* No agreement is made up and no dissent is lost: a consensus has two
\* participants that answered and that both take that stance, nobody who
\* answered takes another, and whoever disagrees stands in a contradiction.
DissentIsKept ==
  analysis # None =>
    LET said(r, t) == {f.stance : f \in {g \in ToSet(r.output.findings) : g.stance_key = t}}
    IN  /\ \A c \in analysis.consensus :
             /\ Cardinality(c.supporters) >= 2
             /\ \E stance \in {f.stance : f \in Reported} :
                  \A r \in Answered :
                    said(r, c.topic) = IF r.handle \in c.supporters THEN {stance} ELSE {}
        /\ \A r, s \in Answered : \A f \in ToSet(r.output.findings), g \in ToSet(s.output.findings) :
             (f.stance_key = g.stance_key /\ f.stance # g.stance) =>
               \E x \in analysis.contradictions :
                 x.topic = f.stance_key /\ {r.handle, s.handle} \subseteq Sources(x.positions)

\* A receipt that ships rests on an answer of every external participant, none
\* of whom abstained, saw a gap, covered nothing or reported more than minor
\* findings; whoever asked for changes has all findings settled; and an
\* execution that confirmed a finding is outweighed only by a deadlock.
ShipIsEarned ==
  (phase = "recorded" /\ receipt.verdict = "ship") =>
    /\ External = {r.handle : r \in Answered} /\ Len(results) = Cardinality(Answered)
    /\ \A f \in Reported : f.severity = "minor"
    /\ \A r \in Answered :
         /\ r.output.recommendation # "abstain" /\ r.output.blind_spots = {}
         /\ r.output.coverage = None \/ r.output.coverage \ {""} # {}
         /\ r.output.recommendation \in {"block", "revise"} =>
              /\ r.output.findings # << >>
              /\ \A f \in analysis.findings : f.source_id = r.handle => f.status \in Settled
    /\ \A f \in analysis.findings :
         f.id \in Confirmed(analysis.grounding_results) => f.status = "deadlock"

\* Where the scripts and the program disagree about a recorded run.
Disputed ==
  \/ degradation # {} \/ receipt.waited \/ route.topology = "advisor" \/ route.explicit
  \/ LET over(f) == Cardinality({f[h] : h \in ToSet(route.participants)}) >= 2
     IN  over(route.family) # over(route.model)
  \/ \E f \in Reported : IF f.checkable THEN f.verification_id \notin Known ELSE f.verification_id # None
  \/ \E r \in Answered : \E f, g \in Reported :
       /\ f.stance_key = g.stance_key /\ f.stance # g.stance
       /\ Cardinality({n \in DOMAIN r.output.findings : r.output.findings[n].stance_key = f.stance_key}) > 1
  \/ \E r \in analysis.grounding_results : r.exit_code = None
  \/ \E r \in analysis.proof_results : r.verdict = "confirmed"

\* A recorded run passes the repository's own validation, unless it is one of
\* those the two were never written to agree about.
ScriptsAgree == phase = "recorded" => Disputed \/ ScriptsAccept(receipt, analysis)
=============================================================================
