---------------------------- MODULE MCRunArtifacts ----------------------------
(* Instances of RunArtifacts for TLC. *)
EXTENDS RunArtifacts

F(severity, checkable, verification, stance) ==
  [severity |-> severity, summary |-> "text", checkable |-> checkable,
   verification_id |-> verification, stance_key |-> "k", stance |-> stance]

Plain == F("minor", FALSE, None, "supports")

Review(recommendation, findings) ==
  [recommendation |-> recommendation, coverage |-> {"area"}, blind_spots |-> {},
   findings |-> findings]

\* Every recommendation, with and without findings, gaps and blank texts; findings
\* that agree, that contradict each other or one and the same reviewer, and that name a
\* known, an unknown, a blank or no verification.
MCReviews ==
  {Review("ship", << >>), Review("ship", <<Plain>>),
   [Review("ship", << >>) EXCEPT !.coverage = {""}],
   [Review("ship", << >>) EXCEPT !.blind_spots = {"gap"}],
   Review("abstain", <<Plain>>),
   Review("block", << >>),
   Review("block", <<F("blocker", TRUE, "known", "opposes")>>),
   Review("revise", <<F("minor", TRUE, "known", "opposes")>>),
   Review("revise", <<F("major", TRUE, "unknown", "supports")>>),
   Review("ship", <<Plain, F("minor", TRUE, "known", "supports")>>),
   Review("revise", <<Plain, F("minor", TRUE, None, "opposes")>>),
   Review("ship", <<F("minor", FALSE, "known", "supports")>>),
   Review("ship", <<[Plain EXCEPT !.stance_key = ""]>>),
   Review("ship", <<[Plain EXCEPT !.stance_key = "", !.stance = "opposes"]>>),
   Review("ship", <<[Plain EXCEPT !.summary = ""]>>),
   Review("ship", <<F("minor", TRUE, "", "uncertain")>>)}

Outcome(verdict, status, exit, class, matched) ==
  [verdict |-> verdict, execution_status |-> status, exit_code |-> exit,
   failure_class |-> class, matched_expected_failure |-> matched]

MCVerdicts ==
  {Outcome("confirmed", "completed", 1, "assertion", TRUE),
   Outcome("not-reproduced", "completed", 0, None, FALSE),
   Outcome("inconclusive", "completed", 1, "assertion", FALSE),
   Outcome("environment_error", "completed", 1, "environment", TRUE),
   Outcome("timeout", "timeout", None, "timeout", FALSE)}

Capsule(proof, finding, verdict, gate) ==
  [proof_id |-> proof, finding_id |-> finding, verdict |-> verdict, mutation_gate_passed |-> gate]

MCCapsuleSets ==
  {{}, {Capsule(1, <<"a", 1>>, "confirmed", TRUE)},
   {Capsule(1, <<"a", 1>>, "not-reproduced", FALSE), Capsule(2, <<"a", 1>>, "confirmed", TRUE)},
   {Capsule(1, <<"a", 1>>, "confirmed", TRUE), Capsule(2, <<"a", 1>>, "confirmed", TRUE)}}

Route(topology, participants, asked, max_calls, family, model) ==
  [topology |-> topology, participants |-> participants, asked |-> asked, judge |-> None,
   max_calls |-> max_calls, capped |-> FALSE, explicit |-> FALSE,
   family |-> family, model |-> model]

Own == [self |-> "opus", a |-> "gpt", b |-> "opus", j |-> "gpt"]
Over(participants, f) == [h \in ToSet(participants) |-> f[h]]
R(topology, participants, asked, max_calls, family, model) ==
  Route(topology, participants, asked, max_calls, Over(participants, family), Over(participants, model))

\* The default panels, and panels a user may configure: one family, two models of one
\* family, an advisor, a named panel, a cost limit, a call budget below the panel, a second reviewer of a
\* topology that asks only the first.
MCRoutes ==
  {R("review", <<"self", "a">>, <<"a">>, 2, Own, Own),
   [R("review", <<"self", "a">>, <<"a">>, 2, Own, Own) EXCEPT !.explicit = TRUE],
   [R("dual-review", <<"self", "a", "b">>, <<"a", "b">>, 3, Own, Own) EXCEPT !.capped = TRUE],
   R("dual-review", <<"self", "a", "b">>, <<"a", "b">>, 3, Own, Own),
   R("dual-review", <<"self", "a", "b">>, <<"a", "b">>, 1, Own, Own),
   [R("panel-rank", <<"a", "b", "j">>, <<"a", "b">>, 4, Own, Own) EXCEPT !.judge = "j"],
   [R("panel-rank", <<"a", "b", "j">>, <<"a", "b", "j">>, 9, Own, Own) EXCEPT !.judge = "j"],
   R("review", <<"self", "b">>, <<"b">>, 2, Own, Own),
   R("advisor", <<"self", "a">>, <<"a">>, 2, Own, Own),
   R("review", <<"self", "a", "b">>, <<"a">>, 2, Own, Own),
   R("review", <<"self", "a">>, <<"a">>, 2, [self |-> "claude", a |-> "claude"],
                                            [self |-> "opus", a |-> "sonnet"])}
=============================================================================
