--------------------------- MODULE MCProofExecution ---------------------------
(***************************************************************************)
(* Two files and an overlay that replaces one of them; version 3 is binary. *)
(***************************************************************************)
EXTENDS ProofExecution, TLC

TwoFiles == {1, 2}

Original == 1 :> 1 @@ 2 :> 1
Changed == 1 :> 2 @@ 2 :> 1

Roots == [r \in Root |-> CASE r = "overlay" -> 1 :> Absent @@ 2 :> 2
                           [] r \in {"head", "mutant"} -> Changed
                           [] OTHER -> Original]

Reported == [exited |-> TRUE, exit |-> 0, timedOut |-> FALSE, truncated |-> FALSE,
             class |-> "none", text |-> {}]

\* The container runner: any exit, any text, no class of its own.
DockerOutputs ==
  {[Reported EXCEPT !.exit = n, !.truncated = t, !.text = x] :
     n \in {-9, 0, 1, 2, 3, 4, 5}, t \in BOOLEAN, x \in SUBSET Feature}
  \cup {[Reported EXCEPT !.exited = e, !.timedOut = d, !.truncated = t] : e, d, t \in BOOLEAN}

Words == DeclaredErrors \cup {"none", "timeout", "assertion", "static-diagnostic", "killed"}

\* A runner of one's own may declare a class.
CustomOutputs ==
  {[Reported EXCEPT !.exit = n, !.truncated = t, !.class = c, !.text = x] :
     n \in {-9, 0, 1}, t \in BOOLEAN,
     c \in Words,
     x \in {{}, {"assertion", "expected failure"}}}

SteadyOutputs == {Reported, [Reported EXCEPT !.exit = 1, !.text = {"assertion", "expected failure"}]}

RunnerOutputs == [docker |-> DockerOutputs, custom |-> CustomOutputs, steady |-> SteadyOutputs]

Plain == [relation |-> "regression", mutation |-> TRUE, enabled |-> TRUE, strict |-> TRUE,
          isolated |-> TRUE, trusted |-> TRUE, static |-> FALSE, pytest |-> FALSE,
          patterns |-> "valid", cwd |-> "inside", runner |-> "docker", key |-> TRUE]

EditedRequests == {[Plain EXCEPT !.runner = "steady", !.relation = r] : r \in {"regression", "repair"}}

ProofRequests ==
  EditedRequests
  \cup {[Plain EXCEPT !.static = s, !.pytest = p] : s, p \in BOOLEAN}
  \cup {[Plain EXCEPT !.runner = "custom", !.relation = r] : r \in DOMAIN Relations}
  \cup {[Plain EXCEPT !.runner = "steady", !.mutation = m, !.strict = s] : m, s \in BOOLEAN}
  \cup {[Plain EXCEPT !.runner = "steady", !.patterns = p, !.cwd = c] :
          p \in {"none", "broken", "valid"}, c \in {"missing", "outside", "inside"}}
  \cup {[Plain EXCEPT !.enabled = FALSE], [Plain EXCEPT !.isolated = FALSE],
        [Plain EXCEPT !.trusted = FALSE], [Plain EXCEPT !.runner = "steady", !.key = FALSE]}
===============================================================================
