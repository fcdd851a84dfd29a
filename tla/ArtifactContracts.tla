--------------------------- MODULE ArtifactContracts ---------------------------
(***************************************************************************)
(* What the program accepts of an analysis and of a receipt (contracts.py  *)
(* with the packaged schemas, enforced while a run is recorded), and what  *)
(* the repository's own scripts accept (scripts/validate_*.py, run in      *)
(* continuous integration).  Both were written by hand for the same files. *)
(*                                                                         *)
(* Left out: hashes, times and costs that are copied from one record to    *)
(* the other, the fields that both sides copy from one model profile, and  *)
(* the fixture file of trusted attestations, which stands in for a key     *)
(* infrastructure: the attestations of the run are taken to be in it.      *)
(***************************************************************************)
EXTENDS ReviewAnalysis, SequencesExt

CONSTANT Known        \* verification ids of the trusted registry

-----------------------------------------------------------------------------
(* contracts.py: the analysis *)

\* The strings for which fusion-analysis.schema.json demands a length, where
\* the reviewer schema does not.
AnalysisSchema(a) ==
  /\ \A p \in a.participants : p.call_id # Blank
  /\ \A f \in a.findings : f.summary # ""
  /\ \A c \in a.grounding_candidates : c.verification_id # ""
  /\ \A x \in a.contradictions : x.topic # ""

Confirming(result) ==
  /\ result.execution_status = "completed"
  /\ result.failure_class \in {"assertion", "static-diagnostic"}
  /\ result.matched_expected_failure

\* The conditions of validate_analysis on groundings and proofs.
EvidenceHolds(a) ==
  /\ \A r \in a.grounding_results :
       /\ \E c \in a.grounding_candidates :
            c.finding_id = r.finding_id /\ c.verification_id = r.verification_id
       /\ r.verdict = "confirmed" => Confirming(r) /\ r.exit_code # None /\ r.exit_code # 0
  /\ \A r \in a.proof_results :
       /\ \E f \in a.findings : f.id = r.finding_id
       /\ r.verdict = "confirmed" => r.mutation_gate_passed
  /\ \A f \in a.findings :
       f.status = "grounded" => f.id \in Confirmed(a.grounding_results) \cup Confirmed(a.proof_results)

\* validate_analysis
ValidAnalysis(a) ==
  /\ AnalysisSchema(a)
  /\ a.context_complete = \A p \in a.participants : ContextComplete(p)
  /\ \A c \in a.consensus :
       Cardinality(c.supporters) >= 2 /\ c.supporters \subseteq Completed(a.participants)
  /\ \A f \in a.findings : f.source_id \in Completed(a.participants)
  /\ EvidenceHolds(a)
  /\ (~a.context_complete \/ Unsettled(a.participants, a.findings)) =>
       a.effect \in {"blocked", "human-required"}

-----------------------------------------------------------------------------
(* contracts.py: the receipt *)

CompletedHandles(calls) == {c.handle : c \in {d \in ToSet(calls) : d.status = "completed"}}

\* The implications of fusion-receipt.schema.json.
ReceiptSchema(r) ==
  /\ r.topology = "advisor" => ~r.fused
  /\ (r.topology = "advisor" /\ r.state = "signed_off") =>
       r.consulted /\ r.context_complete /\ CompletedHandles(r.calls) # {}
  /\ r.consulted => ~r.fused /\ r.calls # << >>
  /\ r.state = "degraded" => ~r.fused /\ r.degradation_reasons # {} /\ r.verdict = "degraded"
  /\ r.state = "escalated" => r.verdict = "blocked"
  /\ r.fused =>
       /\ r.cross_model /\ r.context_complete /\ r.degradation_reasons = {}
       /\ r.state \in {"signed_off", "escalated"} /\ r.verdict \in {"ship", "revise", "blocked"}
       /\ Len(r.requested_participants) >= 2
       /\ r.calls # << >> /\ \A c \in ToSet(r.calls) : c.status = "completed"
  /\ r.verdict \in {"ship", "revise"} => r.fused /\ r.context_complete /\ r.state = "signed_off"
  /\ ~r.context_complete => ~r.fused /\ r.verdict \in {"blocked", "degraded"}

\* _validate_execution_identity and the identity rules of validate_receipt:
\* exactly the completed calls claim a model.
IdentityHolds(call) ==
  IF call.status = "completed" THEN call.effective_model = call.configured_model
  ELSE call.effective_model = None

\* validate_receipt
ValidReceipt(r) ==
  /\ ReceiptSchema(r)
  /\ IsInjective([i \in DOMAIN r.calls |-> r.calls[i].call_id])
  /\ \A c \in ToSet(r.calls) : IdentityHolds(c)
  /\ r.fused => ToSet(r.requested_participants) \ {"self"} \subseteq CompletedHandles(r.calls)
  /\ Len(r.calls) <= r.max_calls

CountOf(findings, severity) == Cardinality({f \in findings : f.severity = severity})

\* _finding_counts of contracts.py
FindingCounts(a) ==
  [blocker |-> CountOf(a.findings, "blocker"),
   major |-> CountOf(a.findings, "major"),
   minor |-> CountOf(a.findings, "minor"),
   confirmed_by_exec |-> Cardinality(Confirmed(a.grounding_results)),
   confirmed_by_proof |-> Cardinality(Confirmed(a.proof_results)),
   deadlocks |-> Cardinality({f \in a.findings : f.status = "deadlock"})]

\* Each external participant stands for one call of its handle.
ParticipantsLinked(r, a) ==
  \A p \in a.participants :
    IF p.source_id = "self" THEN p.call_id = None
    ELSE \E c \in ToSet(r.calls) :
           /\ c.call_id = p.call_id /\ c.handle = p.source_id
           /\ c.effective_model = p.effective_model /\ c.status = p.status

\* validate_linked
Linked(r, a) ==
  /\ ValidAnalysis(a)
  /\ ValidReceipt(r)
  /\ r.context_complete = a.context_complete
  /\ ToSet(r.requested_participants) = {p.source_id : p \in a.participants}
  /\ ParticipantsLinked(r, a)
  /\ r.findings = FindingCounts(a)
  /\ r.verdict = "ship" =>
       /\ r.findings.blocker = 0 /\ r.findings.major = 0
       /\ a.effect \notin {"blocked", "human-required"}

-----------------------------------------------------------------------------
(* scripts/validate_analysis_instances.py *)

\* validate_participants and the binding to the panel: every participant has
\* an identity and an output, and an advisor belongs to no panel.
ScriptParticipants(a) ==
  /\ a.topology # "advisor"
  /\ \A p \in a.participants :
       /\ p.effective_model # None
       /\ IF p.source_id = "self" THEN p.call_id = None ELSE p.call_id \notin {None, Blank}
  /\ a.context_complete = \A p \in a.participants : ContextComplete(p)
  /\ ~a.context_complete => a.effect \in {"blocked", "human-required"}

\* validate_consensus, validate_contradictions and the coverage
ScriptComparison(a) ==
  LET eligible == Completed(a.participants)
  IN  /\ \A c \in a.consensus : Cardinality(c.supporters) >= 2 /\ c.supporters \subseteq eligible
      /\ \A x \in a.contradictions :
           /\ Sources(x.positions) \subseteq eligible
           /\ Cardinality(Sources(x.positions)) = Cardinality(x.positions)
      /\ \A k \in a.partial_coverage : k.covered_by \subseteq eligible
      /\ \A u \in a.unique_insights : u.source_id \in eligible

\* validate_grounding, the results
ScriptResults(a) ==
  \A r \in a.grounding_results :
    /\ \E c \in a.grounding_candidates :
         c.finding_id = r.finding_id /\ c.verification_id = r.verification_id
    /\ r.exit_code # None
    /\ r.verdict = "confirmed" => Confirming(r) /\ r.exit_code # 0
    /\ r.verdict = "not-reproduced" =>
         /\ r.execution_status = "completed" /\ r.exit_code = 0
         /\ r.failure_class = None /\ ~r.matched_expected_failure
    /\ r.verdict = "inconclusive" => ~Confirming(r)

\* validate_grounding, the findings: what can be checked names a trusted
\* verification, and only an execution grounds it.
ScriptFindings(a) ==
  \A f \in a.findings :
    /\ f.source_id \in Completed(a.participants)
    /\ IF f.checkable THEN f.verification_id \in Known ELSE f.verification_id = None
    /\ (f.status = "grounded" \/ f.strength = "grounded") =>
         f.checkable /\ f.id \in Confirmed(a.grounding_results)

\* validate_analysis_semantics
ScriptAnalysis(a) ==
  /\ AnalysisSchema(a)
  /\ ScriptParticipants(a) /\ ScriptComparison(a) /\ ScriptResults(a) /\ ScriptFindings(a)
  /\ Unsettled(a.participants, a.findings) => a.effect \in {"blocked", "human-required"}

-----------------------------------------------------------------------------
(* scripts/validate_contract_instances.py and validate_linked_run.py *)

ResolvedModels(r) ==
  {c.effective_model : c \in {d \in ToSet(r.calls) : d.status = "completed"}}
    \cup IF r.self_model = None THEN {} ELSE {r.self_model}

\* validate_runtime_policy_binding: the panel is that of a configured preset.
ScriptPolicy(r) == ~r.explicit /\ r.topology # "advisor"

\* validate_call_registry: a call is one of the panel, under the identity that
\* its profile and its status allow.
ScriptCalls(r) ==
  /\ \A c \in ToSet(r.calls) :
       /\ c.handle \in ToSet(r.requested_participants) \ {"self"}
       /\ IdentityHolds(c)
  /\ IsInjective([i \in DOMAIN r.calls |-> r.calls[i].call_id])

\* validate_budget_semantics: no provider reports what a call costs, and a cost
\* limit cannot be checked against unknown costs.
ScriptBudget(r) ==
  /\ Len(r.calls) <= r.max_calls
  /\ ~r.capped
  /\ "deadline" \notin r.degradation_reasons

\* validate_timestamps: a run lasts from its start to its receipt.
ScriptTimes(r) == ~r.waited

\* validate_receipt_semantics: a model crosses another by its identity.
ScriptReceipt(r) ==
  /\ ReceiptSchema(r)
  /\ ScriptPolicy(r) /\ ScriptCalls(r) /\ ScriptBudget(r) /\ ScriptTimes(r)
  /\ r.fused => CompletedHandles(r.calls) = ToSet(r.requested_participants) \ {"self"}
  /\ r.cross_model = (Cardinality(ResolvedModels(r)) >= 2)

\* validate_linked_run and validate_receipt_analysis_summary: results are
\* counted, not findings.
ScriptLinked(r, a) ==
  /\ r.context_complete = a.context_complete
  /\ ToSet(r.requested_participants) = {p.source_id : p \in a.participants}
  /\ \A p \in a.participants :
       IF p.source_id = "self" THEN p.call_id = None
       ELSE \E c \in ToSet(r.calls) :
              /\ c.call_id = p.call_id /\ c.handle = p.source_id
              /\ c.effective_model = p.effective_model
  /\ \A severity \in {"blocker", "major", "minor"} :
       r.findings[severity] = CountOf(a.findings, severity)
  /\ LET confirmed(results) == Cardinality({s \in results : s.verdict = "confirmed"})
     IN  /\ r.findings.confirmed_by_exec = confirmed(a.grounding_results)
         /\ r.findings.confirmed_by_proof = confirmed(a.proof_results)
  /\ r.findings.deadlocks = Cardinality({f \in a.findings : f.status = "deadlock"})
  /\ r.verdict = "ship" =>
       /\ r.findings.blocker = 0 /\ r.findings.major = 0
       /\ a.effect \notin {"blocked", "human-required"}

ScriptsAccept(r, a) == ScriptReceipt(r) /\ ScriptAnalysis(a) /\ ScriptLinked(r, a)
=============================================================================
