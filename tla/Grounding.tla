------------------------------ MODULE Grounding ------------------------------
(***************************************************************************)
(* grounding.py over the command runner: run_grounding resolves a          *)
(* verification, refuses what policy forbids, lets the sandbox runner      *)
(* (sandbox.py) execute the command through CommandRunner.run within what  *)
(* is left of the run's budget, and turns the outcome into a verdict.      *)
(***************************************************************************)
EXTENDS CommandRunner

CONSTANT Request   \* the candidates that are grounded: see Requests

\* What a candidate names and what it meets.
Requests ==
  [known : BOOLEAN,                                 \* the verification is configured
   runner : {"none", "connected", "wsl", "unshare"},
   cwd : {"inside", "outside"},                     \* of the snapshot; it may be missing
   static : BOOLEAN, patterns : BOOLEAN]            \* the command

ASSUME RequestAssumption == Request \subseteq Requests

VARIABLES
  request,
  over,      \* the budget of the run is spent
  exitedOver,\* history: it was spent before the child ended
  verdict    \* of the candidate: "none" until it has one

asked == <<request, over, exitedOver, verdict>>
vars == <<runnerVars, asked>>

Init ==
  /\ RunnerInit /\ pc = "idle"
  /\ request \in Request
  /\ over \in BOOLEAN
  /\ exitedOver = FALSE /\ verdict = "none"

-----------------------------------------------------------------------------
(* Before the command runs *)

\* GroundingError and PolicyError become a result of the engine.  The
\* ProviderError of a command that does not start does not: it ends the run.
Blocked ==
  \/ ~request.known
  \/ request.runner \in {"none", "connected"}
  \/ request.runner = "wsl"                  \* cannot enforce a total deadline
  \/ request.cwd = "outside"

Conclude(v) ==
  /\ pc' = "judged" /\ verdict' = v
  /\ UNCHANGED <<late, timedOut, returned, survivors, processes, streams, request, over, exitedOver>>

Block == pc = "idle" /\ Blocked /\ Conclude("policy-blocked")

FindBudgetSpent == pc = "idle" /\ ~Blocked /\ over /\ Conclude("timeout")

Launch ==
  /\ Goto("idle", "ready") /\ ~Blocked /\ ~over
  /\ UNCHANGED <<late, timedOut, returned, survivors, processes, streams, asked>>

-----------------------------------------------------------------------------
(* After it *)

Shown(text, c) == \E s \in Stream, i \in 1..MaxChunks : i <= Len(text[s]) /\ text[s][i] = c

\* _classify_failure reads what the sinks retained.
FailureClass(text) ==
  CASE Shown(text, "environment") -> "environment"
    [] ~Shown(text, "environment") /\ request.static -> "static-diagnostic"
    [] ~Shown(text, "environment") /\ ~request.static
         /\ (Shown(text, "assertion") \/ Shown(text, "expected")) -> "assertion"
    [] OTHER -> "other"

Matched(text) == request.patterns /\ Shown(text, "expected")

\* The patterns are searched in a text that is cut once more, in its middle.
Findings(text) == {FALSE, Matched(text)}

Judgement(o, found) ==
  CASE o.code = 0 -> "not-reproduced"
    [] o.code = Running -> "environment_error"
    [] o.code \notin {0, Running} /\ FailureClass(o.text) \in {"assertion", "static-diagnostic"}
         /\ found -> "confirmed"
    [] o.code \notin {0, Running} /\ FailureClass(o.text) = "environment" -> "environment_error"
    [] OTHER -> "inconclusive"

\* Mutant: only the runner's own deadline counts.
TooLateByRunner == timedOut

TooLate == timedOut \/ over

Judge ==
  /\ pc = "done"
  /\ \E found \in Findings(returned.text) :
       Conclude(IF TooLate THEN "timeout" ELSE Judgement(returned, found))

BudgetEnds ==
  /\ ~over /\ over' = TRUE
  /\ exitedOver' = (exitedOver \/ code = Running)
  /\ UNCHANGED <<runnerVars, request, verdict>>

-----------------------------------------------------------------------------

Ends == {"judged", "raised"}

Own == Block \/ FindBudgetSpent \/ Launch \/ Judge

Done == pc \in Ends /\ UNCHANGED vars

Next ==
  \/ Own
  \/ (Caller \/ Thread \/ Processes \/ DeadlinePasses) /\ pc \notin Ends /\ UNCHANGED asked
  \/ BudgetEnds /\ pc \notin Ends
  \/ Done

\* The calling thread and the clock go on, and so do the other threads once no
\* process keeps them waiting.  Nothing is fair about the processes.
Fairness ==
  /\ WF_vars(Own) /\ WF_vars(Caller /\ UNCHANGED asked)
  /\ WF_vars(DeadlinePasses /\ UNCHANGED asked)
  /\ WF_vars(Thread /\ Alive = {} /\ UNCHANGED asked)

Spec == Init /\ [][Next]_vars /\ Fairness

-----------------------------------------------------------------------------
(* Properties *)

\* What run returns of a stream is an unbroken piece of what was written there.
\* If run does not call it truncated it is all of it, unless some process
\* outlived the wait and may still be writing.  This rests on the second that the
\* threads are joined for: where SlowThreads is FALSE, a thread that no process
\* keeps waiting is done within it.
OutputIsWhole ==
  pc = "done" =>
    /\ \A s \in Stream : \E n \in Len(returned.text[s])..Len(wrote[s]) :
         returned.text[s] = SubSeq(wrote[s], n - Len(returned.text[s]) + 1, n)
    /\ ~returned.truncated /\ survivors = {} => returned.text = wrote

\* A command that ran at its deadline ends in a timeout, and its process group is
\* killed before run returns.  The only way for a member to live on is that the child
\* ended by itself after the poll that found it running and before the next one;
\* then the code kills nothing, and this is all it leaves.
KilledTreeIsGone ==
  pc \in {"done", "judged"} /\ timedOut =>
    /\ kin \ doomed \subseteq {"escaped"} \/ (doomed = {} /\ code \in ExitCode)
    /\ verdict \in {"none", "timeout"}

\* A confirmed verification ended by itself, within the budget, with a failure,
\* and if its output is whole, it showed what was expected and no complaint about
\* the environment.
ConfirmedIsShown ==
  verdict = "confirmed" =>
    /\ code \in ExitCode \ {0} /\ ~timedOut /\ ~exitedOver
    /\ ~returned.truncated /\ survivors = {} =>
         Shown(wrote, "expected") /\ ~Shown(wrote, "environment")

\* The grounding of a candidate ends, with a verdict or with the exception of a
\* command that does not start, whatever the child and its descendants do.
GroundingEnds == <>(pc \in Ends)
==============================================================================
