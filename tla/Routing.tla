------------------------------ MODULE Routing ------------------------------
(***************************************************************************)
(* How a request chooses the panel that reviews it: router.py, policy.py   *)
(* and FusionEngine._resolve_route.  A route is a panel; a set of routes   *)
(* is empty when the code raises and holds the one it returns otherwise.   *)
(* A configuration is taken to have passed validate_config.                *)
(***************************************************************************)
EXTENDS Naturals, Sequences, FiniteSets, Functions

CONSTANTS
  Handle,               \* configured models, self excepted
  Self,                 \* the session that drives the tool
  ModelOf,              \* the canonical model of each handle
  Panel,                \* the configured panels
  PanelOf,              \* preset -> panel
  Pack,                 \* the configured packs, each with its minimum preset,
                        \* its artifact kinds and its topologies
  HardMinimum,          \* the preset that sensitive paths require at least
  MaxPanelSize,
  None                  \* no explicit panel, no pack

Topologies == {"review", "adversarial-review", "dual-review", "panel-rank", "advisor"}

PanelType == [topology : Topologies, enabled : BOOLEAN, drafter : SUBSET {Self},
              reviewers : Seq(Handle), proposers : Seq(Handle),
              judge : SUBSET Handle, advisor : SUBSET Handle]

Preset == {"budget", "fast", "balanced", "high", "parallel"}

ASSUME RoutingAssumption ==
  /\ IsFiniteSet(Handle) /\ Self \notin Handle /\ None \notin Panel \cup Pack
  /\ ModelOf \in [Handle -> STRING]
  /\ Panel \subseteq PanelType
  /\ PanelOf \in [Preset -> Panel]
  /\ Pack \subseteq [minimum : Preset, kinds : SUBSET STRING, topologies : SUBSET Topologies]
  /\ HardMinimum \in Preset
  /\ MaxPanelSize \in Nat \ {0}

Strength == [preset \in Preset |->
  CASE preset = "budget" -> 0
    [] preset = "fast" -> 1
    [] preset = "balanced" -> 2
    [] OTHER -> 3]

External(panel) ==
  Range(panel.reviewers) \cup Range(panel.proposers) \cup panel.judge \cup panel.advisor

Participants(panel) == panel.drafter \cup External(panel)

\* The models whose work is compared.
Models(panel) ==
  {ModelOf[h] : h \in Range(IF panel.topology = "panel-rank" THEN panel.proposers
                                                             ELSE panel.reviewers)}

\* Mutant: handles are counted, whatever model answers for them.
PanelRankByHandle(panel) ==
  LET several == Len(panel.reviewers) >= 2
  IN  CASE panel.topology = "panel-rank" /\ Len(panel.proposers) >= 2 -> 3
        [] panel.topology = "adversarial-review" /\ several -> 3
        [] panel.topology = "dual-review" /\ several -> 2
        [] OTHER -> 1

\* The review structure that is executed, whatever the panel is called.
PanelRank(panel) ==
  LET several == Cardinality(Models(panel)) >= 2
  IN  CASE panel.topology = "panel-rank" -> IF several /\ panel.judge # {} THEN 3 ELSE 0
        [] panel.topology = "adversarial-review" /\ several -> 3
        [] panel.topology = "dual-review" /\ several -> 2
        [] panel.topology \in {"review", "adversarial-review"} /\ Models(panel) # {} -> 1
        [] OTHER -> 0

AtLeast(panel, preset) == PanelRank(panel) >= Strength[preset]

\* The preset an adaptive request starts from.
Baseline(request) ==
  CASE request.preset # "adaptive" -> request.preset
    [] request.kind = "migration" \/ request.wide -> "high"
    [] request.kind # "diff" -> "balanced"
    [] OTHER -> "fast"

\* A preset below the minimum gives way to it; an explicit panel must satisfy
\* the minimum by its structure.
Resolve(request, preset, explicit) ==
  LET minimum == IF request.sensitive THEN HardMinimum ELSE "fast"
      selected == IF Strength[preset] < Strength[minimum] THEN minimum ELSE preset
      panel == IF explicit = None THEN PanelOf[selected] ELSE explicit
  IN  {p \in {panel} :
         /\ p.enabled
         /\ request.sensitive => AtLeast(p, minimum)
         /\ request.external => Self \notin Participants(p)
         /\ Cardinality(Participants(p)) <= MaxPanelSize}

\* A pack replaces an inadequate panel that nobody asked for, and refuses one
\* that somebody did.
Routes(request) ==
  LET first == Resolve(request, Baseline(request), request.panel)
      pack == request.pack
      adequate(routes) == {p \in routes : AtLeast(p, pack.minimum)}
      replaced == IF request.panel = None /\ first # {} /\ adequate(first) = {}
                    THEN Resolve(request, pack.minimum, None)
                    ELSE {}
  IN  IF pack = None
        THEN first
        ELSE {p \in adequate(first \cup replaced) :
                request.kind \in pack.kinds /\ p.topology \in pack.topologies}
=============================================================================
