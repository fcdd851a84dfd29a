---------------------------- MODULE ReviewAnalysis ----------------------------
(***************************************************************************)
(* What a run makes of its participants' answers (analysis.py) and how     *)
(* groundings, proofs and dispositions change it (reconcile.py): pure      *)
(* operators over records named as in the code.                            *)
(*                                                                         *)
(* A review is the part of a reviewer's structured output that the         *)
(* reviewer-output schema admits and that analysis.py reads.  Texts are    *)
(* values; "" is the one text that matters, for the analysis schema        *)
(* refuses it where the reviewer schema does not.  Participants, findings, *)
(* candidates and results are sets: a participant is named by its handle,  *)
(* a finding by its source and its number there, which also tells the      *)
(* order of the lists in the code.                                         *)
(***************************************************************************)
EXTENDS Naturals, Sequences, FiniteSets

CONSTANT None

\* The output of the active session, of a proposer, of a judge and of a call
\* that failed: it holds neither findings nor the metadata of a review.
NoReview == [recommendation |-> None, coverage |-> None, blind_spots |-> {}, findings |-> << >>]

\* The blank id of a call that was never made; other call ids are pairs.
Blank == << >>

-----------------------------------------------------------------------------
(* Participants *)

ParticipantStatus(status) ==
  CASE status = "timeout" -> "timed-out"
    [] status = "cancelled" -> "failed"
    [] status = "policy_blocked" -> "policy-blocked"
    [] OTHER -> status

\* _participant: the context a participant saw is the dispatcher's word, the
\* rest is the answer's.
Participant(item) ==
  [source_id |-> item.result.handle,
   effective_model |-> item.result.effective_model,
   family |-> item.result.family,
   status |-> ParticipantStatus(item.result.status),
   call_id |-> item.result.call_id,
   context_complete |-> item.context_complete,
   coverage |-> item.result.output.coverage,
   blind_spots |-> item.result.output.blind_spots,
   recommendation |-> item.result.output.recommendation]

\* Mutant: a reviewer who abstains counts as complete.
ContextCompleteAbstaining(p) ==
  /\ p.status = "completed" /\ p.context_complete
  /\ p.blind_spots = {}
  /\ p.coverage = None \/ p.coverage \ {""} # {}

\* participant_context_complete
ContextComplete(p) ==
  /\ p.status = "completed" /\ p.context_complete
  /\ p.recommendation # "abstain"
  /\ p.blind_spots = {}
  /\ p.coverage = None \/ p.coverage \ {""} # {}

Completed(participants) ==
  {p.source_id : p \in {q \in participants : q.status = "completed"}}

\* _review_coverage: who covered which area; blank areas are nobody's.
PartialCoverage(participants) ==
  LET reviewers == {p \in participants : p.status = "completed" /\ p.coverage # None}
      areas == UNION {p.coverage : p \in reviewers} \ {""}
  IN  {[area |-> a, covered_by |-> {p.source_id : p \in {q \in reviewers : a \in q.coverage}}]
         : a \in areas}

-----------------------------------------------------------------------------
(* Findings *)

\* _normalize_finding: whatever the answer says of its own provenance, the
\* source is the participant, the finding is proposed, its evidence reported.
Normalize(raw, source, number) ==
  [id |-> <<source, number>>, source_id |-> source,
   severity |-> raw.severity, summary |-> raw.summary,
   checkable |-> raw.checkable, verification_id |-> raw.verification_id,
   stance_key |-> raw.stance_key, stance |-> raw.stance,
   status |-> "proposed", strength |-> "reported"]

\* The findings of one participant, and _extract_findings.
FindingsOf(result) ==
  {Normalize(result.output.findings[n], result.handle, n) : n \in DOMAIN result.output.findings}

Findings(inputs) == UNION {FindingsOf(i.result) : i \in inputs}

About(findings, topic) == {f \in findings : f.stance_key = topic}
Topics(findings) == {f.stance_key : f \in findings}
Stances(group) == {f.stance : f \in group}
Sources(group) == {f.source_id : f \in group}

\* _compare: one entry for each topic.  Different stances contradict each
\* other, one stance of several sources is a consensus.
Contradictions(findings) ==
  {[topic |-> t, positions |-> About(findings, t)]
     : t \in {k \in Topics(findings) : Cardinality(Stances(About(findings, k))) > 1}}

\* Mutant: two findings make a consensus, whoever reported them.
ConsensusOfFindings(findings) ==
  {[topic |-> t, supporters |-> Sources(About(findings, t))]
     : t \in {k \in Topics(findings) : /\ Cardinality(Stances(About(findings, k))) = 1
                                       /\ Cardinality(About(findings, k)) > 1}}

Consensus(findings) ==
  {[topic |-> t, supporters |-> Sources(About(findings, t))]
     : t \in {k \in Topics(findings) : /\ Cardinality(Stances(About(findings, k))) = 1
                                       /\ Cardinality(Sources(About(findings, k))) > 1}}

UniqueInsights(findings) ==
  {[topic |-> f.stance_key, source_id |-> f.source_id]
     : f \in {g \in findings : /\ Cardinality(Stances(About(findings, g.stance_key))) = 1
                               /\ Cardinality(Sources(About(findings, g.stance_key))) = 1}}

Candidates(findings) ==
  {[finding_id |-> f.id, verification_id |-> f.verification_id]
     : f \in {g \in findings : g.checkable /\ g.verification_id # None}}

Settled == {"accepted", "rejected", "resolved", "waived"}

\* unsettled_review_recommendations
Unsettled(participants, findings) ==
  \E p \in participants :
    /\ p.status = "completed" /\ p.recommendation \in {"block", "revise"}
    /\ \/ p.source_id \notin Sources(findings)
       \/ \E f \in findings : f.source_id = p.source_id /\ f.status \notin Settled

-----------------------------------------------------------------------------
(* The analysis *)

\* build_analysis
BuildAnalysis(topology, inputs) ==
  LET participants == {Participant(i) : i \in inputs}
      findings == Findings(inputs)
      context == \A p \in participants : ContextComplete(p)
  IN  [topology |-> topology,
       context_complete |-> context,
       participants |-> participants,
       findings |-> findings,
       consensus |-> Consensus(findings),
       contradictions |-> Contradictions(findings),
       unique_insights |-> UniqueInsights(findings),
       partial_coverage |-> PartialCoverage(participants),
       grounding_candidates |-> Candidates(findings),
       grounding_results |-> {},
       proof_results |-> {},
       effect |-> IF ~context \/ Unsettled(participants, findings) THEN "human-required"
                  ELSE IF \E f \in findings : f.severity = "blocker" THEN "blocked" ELSE "none"]

Confirmed(results) == {r.finding_id : r \in {s \in results : s.verdict = "confirmed"}}

\* A confirmed finding is grounded, and so is its evidence.
WithGrounded(findings, ids) ==
  {IF f.id \in ids THEN [f EXCEPT !.status = "grounded", !.strength = "grounded"] ELSE f
     : f \in findings}

\* attach_grounding: every verdict but the first two becomes inconclusive.
LinkedVerdict(verdict) ==
  IF verdict \in {"confirmed", "not-reproduced"} THEN verdict ELSE "inconclusive"

AttachGrounding(a, results) ==
  LET linked == {[r EXCEPT !.verdict = LinkedVerdict(r.verdict)] : r \in results}
  IN  [a EXCEPT !.grounding_results = linked, !.findings = WithGrounded(a.findings, Confirmed(linked))]

\* attach_proof_capsules, for capsules of this run and of the frozen tree.
AttachProofs(a, capsules) ==
  [a EXCEPT !.proof_results = capsules, !.findings = WithGrounded(a.findings, Confirmed(capsules))]

\* automatic_external_dispositions
Automatic(a) ==
  [id \in {f.id : f \in a.findings} |->
     LET f == CHOOSE g \in a.findings : g.id = id
     IN  IF f.strength = "grounded" THEN "accepted"
         ELSE IF f.severity \in {"blocker", "major"} THEN "deadlock" ELSE "waived"]

\* The errors of reconcile_analysis.
CanReconcile(a, dispositions, require_all) ==
  LET ids == {f.id : f \in a.findings}
  IN  /\ DOMAIN dispositions \subseteq ids
      /\ require_all => DOMAIN dispositions = ids
      /\ \A f \in a.findings :
           (f.strength = "grounded" /\ f.id \in DOMAIN dispositions) =>
             dispositions[f.id] \notin {"rejected", "waived"}

\* decision_impact.effect of reconciled findings
Effect(a, findings) ==
  LET accepted == {f \in findings : f.status \in {"accepted", "resolved", "grounded"}}
  IN  IF \/ ~a.context_complete
         \/ Unsettled(a.participants, findings)
         \/ \E f \in findings : f.status = "deadlock" /\ f.severity # "minor"
      THEN "human-required"
      ELSE IF \E f \in accepted : f.severity = "blocker" THEN "blocked"
      ELSE IF accepted # {} THEN "revised"
      ELSE IF findings # {} THEN "clarified" ELSE "none"

\* reconcile_analysis
Disposed(findings, dispositions) ==
  {IF f.id \in DOMAIN dispositions THEN [f EXCEPT !.status = dispositions[f.id]] ELSE f
     : f \in findings}

Reconcile(a, dispositions) ==
  LET findings == Disposed(a.findings, dispositions)
  IN  [a EXCEPT !.findings = findings, !.effect = Effect(a, findings)]
=============================================================================
