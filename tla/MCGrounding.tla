----------------------------- MODULE MCGrounding -----------------------------
EXTENDS Grounding

Plain == [known |-> TRUE, runner |-> "unshare", cwd |-> "inside", static |-> FALSE, patterns |-> TRUE]

Candidates ==
  {Plain, [Plain EXCEPT !.static = TRUE], [Plain EXCEPT !.patterns = FALSE]}
  \cup {[Plain EXCEPT !.known = FALSE], [Plain EXCEPT !.cwd = "outside"]}
  \cup {[Plain EXCEPT !.runner = r] : r \in {"none", "connected", "wsl"}}

Oom == -9
Codes3 == {0, 1, Oom}
===============================================================================
