--------------------------- MODULE MCRunPreparation ---------------------------
(***************************************************************************)
(* Values of RunPreparation's constants: the handles, panels, presets and  *)
(* packs are those of default_config.json, with panels a user may add.     *)
(***************************************************************************)
EXTENDS RunPreparation

Sol == "gpt-sol"
Ultra == "gpt-sol-ultra"
Opus == "claude-opus"
Flash == "gemini-flash"

ConfiguredHandle == {Sol, Ultra, Opus, Flash}

\* Two handles of one model.
ConfiguredModelOf == (Sol :> "gpt-5.6-sol") @@ (Ultra :> "gpt-5.6-sol")
                     @@ (Opus :> "claude-opus-5") @@ (Flash :> "gemini-3.8-flash-high")

ConfiguredRepoAccess == {Sol, Ultra, Opus}

Reviewed(topology, reviewers) ==
  [topology |-> topology, enabled |-> TRUE, drafter |-> {Self}, reviewers |-> reviewers,
   proposers |-> << >>, judge |-> {}, advisor |-> {}]

RankedBy(proposers, judge) ==
  [topology |-> "panel-rank", enabled |-> TRUE, drafter |-> {}, reviewers |-> << >>,
   proposers |-> proposers, judge |-> {judge}, advisor |-> {}]

Default == Reviewed("review", <<Sol>>)
DualOpus == Reviewed("dual-review", <<Sol, Opus>>)
Quality == Reviewed("adversarial-review", <<Ultra, Opus>>)
ExternalCouncil == RankedBy(<<Sol, Opus>>, Ultra)

\* Panels a user may add.
Twins == Reviewed("dual-review", <<Sol, Ultra>>)
Twice == Reviewed("dual-review", <<Sol, Sol>>)
Idler == Reviewed("review", <<Sol, Opus>>)
Lone == Reviewed("dual-review", <<Sol>>)
Retired == [Default EXCEPT !.enabled = FALSE]
Advised == [Reviewed("advisor", << >>) EXCEPT !.advisor = {Flash}]
CouncilOfThree == RankedBy(<<Sol, Opus, Flash>>, Ultra)

ConfiguredPanel == {Default, DualOpus, Quality, ExternalCouncil,
                    Twins, Twice, Idler, Lone, Retired, Advised, CouncilOfThree}

ConfiguredPanelOf == [preset \in Preset |->
  CASE preset = "balanced" -> DualOpus
    [] preset = "high" -> Quality
    [] preset = "parallel" -> ExternalCouncil
    [] OTHER -> Default]

Security == [minimum |-> "high", kinds |-> {"diff", "plan", "incident"},
             topologies |-> {"adversarial-review", "dual-review"}]
Release == [minimum |-> "balanced", kinds |-> {"release", "diff"},
            topologies |-> {"review", "dual-review"}]

ConfiguredPack == {Security, Release}

Plain == [preset |-> "adaptive", panel |-> None, pack |-> None, kind |-> "diff", wide |-> FALSE,
          sensitive |-> FALSE, external |-> FALSE, known |-> TRUE, secrets |-> {},
          ground |-> FALSE, artifacts |-> {}]

With(chosen) == [Plain EXCEPT !.panel = chosen]

\* Routes: gates, packs, refusals, and every topology.
RoutedRequests ==
  {[Plain EXCEPT !.sensitive = TRUE, !.panel = p] :
     p \in {None, Quality, Twins, Default, ExternalCouncil}}
  \cup {[Plain EXCEPT !.pack = Security, !.panel = p] : p \in {None, DualOpus}}
  \cup {[Plain EXCEPT !.preset = "high", !.pack = Release],
        [Plain EXCEPT !.kind = "answer", !.pack = Release],
        [Plain EXCEPT !.kind = "answer", !.external = TRUE],
        [Plain EXCEPT !.kind = "migration", !.known = FALSE]}
  \cup {With(p) : p \in {Twice, Idler, Lone, Retired, Advised, CouncilOfThree}}

\* Secrets in the packet, or elsewhere in the tree.
SecretRequests ==
  {[With(p) EXCEPT !.secrets = s] : p \in {Default, Advised}, s \in SUBSET {"packet", "repo"}}

\* Reviews of a file, with grounding.
GroundedRequests == {[Plain EXCEPT !.ground = TRUE, !.artifacts = {1}]}

AllRequests == RoutedRequests \cup SecretRequests \cup GroundedRequests

CouncilRequests == {[Plain EXCEPT !.preset = "parallel", !.external = TRUE]}

\* Two findings name the same verification.
VerificationOfThree == <<"tests", "types", "tests">>
===============================================================================
