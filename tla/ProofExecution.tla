--------------------------- MODULE ProofExecution ---------------------------
(***************************************************************************)
(* proof.py: one proof run.  run_proof hashes an overlay and the declared  *)
(* revisions of the reviewed program, stages every revision file by file   *)
(* in a disposable workspace, lays the overlay over it, runs the trusted   *)
(* command there, classifies what the runner reports, and decides.  The    *)
(* source directories and the overlay are not locked: somebody may edit    *)
(* them between any two reads.                                             *)
(*                                                                         *)
(* A hash is modelled by the tree it was computed from.  A file is listed  *)
(* before it is read: one that is gone by then raises.                     *)
(***************************************************************************)
EXTENDS Integers, FiniteSets, Sequences

CONSTANTS
  File,         \* relative paths, as numbers in their sorted order
  Version,      \* contents of a file
  Absent,       \* no file
  Text,         \* the contents that decode as text
  Approved,     \* the paths that the overlay may touch
  MaxOverlay,   \* files an overlay may have
  Source,       \* root -> the tree that is there when the proof starts
  Request,      \* the proofs that are run: see Requests
  Outputs,      \* runner -> what it may report: see Output
  Word,         \* what a runner may call its failure
  Edited,       \* the requests during which somebody edits (bounds the model)
  MaxEdits      \* edits of the roots during such a request (bounds the model)

ASSUME FileAssumption == File \subseteq Nat /\ IsFiniteSet(File)

Content == Version \cup {Absent}
Tree == [File -> Content]
Empty == [f \in File |-> Absent]
Files(t) == {f \in File : t[f] # Absent}

ASSUME ContentAssumption ==
  /\ Absent \notin Version /\ Text \subseteq Version /\ Approved \subseteq File
  /\ MaxOverlay \in Nat /\ MaxEdits \in Nat

-----------------------------------------------------------------------------
(* Relations and intents *)

Revision == {"base", "head", "fixed", "control", "mutant"}
Root == Revision \cup {"overlay"}

ASSUME SourceAssumption == Source \in [Root -> Tree]

Relations == [regression |-> <<"base", "head">>, repair |-> <<"head", "fixed">>,
              feature |-> <<"base", "head">>, counterexample |-> <<"control", "head">>]

Outcomes == [regression |-> <<"pass", "fail">>, repair |-> <<"fail", "pass">>,
             feature |-> <<"fail", "pass">>, counterexample |-> <<"pass", "fail">>]

Declared(r) == IF r.mutation THEN Append(Relations[r.relation], "mutant")
                             ELSE Relations[r.relation]

Observed(r) == {Declared(r)[i] : i \in 1..Len(Declared(r))}

Expectation(r, revision) ==
  IF revision = "mutant" THEN "fail"
  ELSE Outcomes[r.relation][CHOOSE i \in 1..2 : Relations[r.relation][i] = revision]

\* An intent, the command it names, the policy and the runner.
Requests ==
  [relation : DOMAIN Relations, mutation : BOOLEAN,
   enabled : BOOLEAN, strict : BOOLEAN,                 \* the policy
   isolated : BOOLEAN, trusted : BOOLEAN,               \* runner; intent and command agree
   static : BOOLEAN, pytest : BOOLEAN,                  \* the command
   patterns : {"none", "valid", "broken"},              \* its expected failures
   cwd : {"inside", "missing", "outside"},
   runner : DOMAIN Outputs, key : BOOLEAN]              \* an attestation key of 32 bytes

ASSUME RequestAssumption == Request \subseteq Requests /\ Edited \subseteq Request

Admitted(r) == /\ r.enabled /\ r.isolated /\ r.trusted
               /\ r.strict => r.mutation
               /\ r.patterns # "broken"

-----------------------------------------------------------------------------
(* What a runner reports, and what it is taken for *)

Feature == {"collection error", "error report", "environment message",
            "assertion", "other exception", "expected failure"}

Output == [exited : BOOLEAN, exit : Int, timedOut : BOOLEAN, truncated : BOOLEAN,
           class : Word, text : SUBSET Feature]

ASSUME OutputAssumption ==
  {"none", "environment"} \subseteq Word /\ \A n \in DOMAIN Outputs : Outputs[n] \subseteq Output

\* TimeoutError and OSError out of the runner.
Late == [exited |-> FALSE, exit |-> 0, timedOut |-> TRUE, truncated |-> FALSE,
         class |-> "none", text |-> {}]
Broken == [Late EXCEPT !.timedOut = FALSE, !.class = "environment"]

\* The runner starts in the workspace only if the directory exists.
Reports(r) == {Late, Broken} \cup (IF r.cwd = "inside" THEN Outputs[r.runner] ELSE {})

Says(actual, status, class) ==
  [actual |-> actual, status |-> status, class |-> class, matched |-> FALSE]

DeclaredErrors == {"environment", "collection", "collection-error", "no-tests", "usage", "usage-error"}

\* Mutant: the class a runner declares is taken for the outcome.
ErrorOfDeclared(class) == Says(class, "completed", class)

ErrorOf(class) ==
  CASE class = "environment" -> Says("environment-error", "environment-error", "environment")
    [] class \in {"collection", "collection-error"} -> Says("collection-error", "completed", "collection")
    [] class = "no-tests" -> Says("no-tests", "completed", "no-tests")
    [] class \in {"usage", "usage-error"} -> Says("usage-error", "completed", "usage")

Unknown(class) == Says("unknown-failure", "completed", class)

\* Mutant: a summary line is enough, whatever the exit code.
FailureClassBySummary(r, o) ==
  CASE o.exit > 0 /\ r.static -> "static-diagnostic"
    [] ~(o.exit > 0 /\ r.static) /\ "assertion" \in o.text -> "assertion"
    [] OTHER -> "unknown"

\* What a failing command shows: a static check fails by its exit code, a test by
\* an AssertionError that no other exception contradicts.
FailureClass(r, o) ==
  CASE o.exit > 0 /\ r.static -> "static-diagnostic"
    [] ~(o.exit > 0 /\ r.static) /\ o.exit = 1 /\ "assertion" \in o.text
         /\ "other exception" \notin o.text -> "assertion"
    [] OTHER -> "unknown"

Failure(r, o) ==
  LET class == FailureClass(r, o)
      matched == class # "unknown" /\ r.patterns = "valid" /\ "expected failure" \in o.text
  IN  [actual |-> IF matched THEN "fail" ELSE "unknown-failure", status |-> "completed",
       class |-> class, matched |-> matched]

\* The branches of _classify in their order: the first that applies decides.
Branches(r, o) ==
  <<[when |-> o.timedOut \/ o.class = "timeout", says |-> Says("timeout", "timeout", "timeout")],
    [when |-> ~o.exited, says |-> Says("environment-error", "runner-error", "environment")],
    [when |-> o.class \in DeclaredErrors,
     says |-> IF o.class \in DeclaredErrors THEN ErrorOf(o.class) ELSE Unknown("unknown")],
    [when |-> o.class \notin {"none", "assertion", "static-diagnostic"}, says |-> Unknown("unknown")],
    [when |-> o.exit = 0 /\ o.truncated, says |-> Unknown("truncated-output")],
    [when |-> o.exit = 0 /\ o.class # "none", says |-> Unknown("unknown")],
    [when |-> o.exit = 0, says |-> Says("pass", "completed", "none")],
    [when |-> r.pytest /\ "collection error" \in o.text, says |-> ErrorOf("collection")],
    [when |-> r.pytest /\ o.exit = 5, says |-> ErrorOf("no-tests")],
    [when |-> r.pytest /\ o.exit = 4, says |-> ErrorOf("usage")],
    [when |-> r.pytest /\ (o.exit = 3 \/ "error report" \in o.text), says |-> ErrorOf("environment")],
    [when |-> r.pytest /\ o.exit # 1, says |-> Unknown("unknown")],
    [when |-> "environment message" \in o.text, says |-> ErrorOf("environment")],
    [when |-> o.truncated, says |-> Unknown("truncated-output")],
    [when |-> TRUE, says |-> Failure(r, o)]>>

Classify(r, o) ==
  LET branches == Branches(r, o)
      applies == {i \in 1..Len(branches) : branches[i].when}
  IN  branches[CHOOSE i \in applies : \A j \in applies : i <= j].says

ClassesOf(actual) ==
  CASE actual = "timeout" -> {"timeout"}
    [] actual = "environment-error" -> {"environment"}
    [] actual = "collection-error" -> {"collection"}
    [] actual = "no-tests" -> {"no-tests"}
    [] actual = "usage-error" -> {"usage"}
    [] actual = "unknown-failure" -> {"unknown", "assertion", "static-diagnostic", "truncated-output"}
    [] OTHER -> {}

StatusOf(c, o) ==
  CASE c.actual = "timeout" -> "timeout"
    [] c.actual # "timeout" /\ ~o.exited -> "runner-error"
    [] c.actual = "environment-error" /\ o.exited -> "environment-error"
    [] OTHER -> "completed"

\* What the constructor of an observation accepts.
Consistent(c, o) ==
  \/ /\ c.actual = "pass"
     /\ o.exited /\ o.exit = 0 /\ c.status = "completed"
     /\ c.class = "none" /\ ~c.matched /\ ~o.truncated
  \/ /\ c.actual = "fail"
     /\ o.exited /\ o.exit > 0 /\ c.status = "completed" /\ ~o.truncated
     /\ c.class \in {"assertion", "static-diagnostic"} /\ c.matched
     /\ c.class = "assertion" => o.exit = 1
  \/ /\ c.actual \notin {"pass", "fail"}
     /\ c.class \in ClassesOf(c.actual) /\ ~c.matched
     /\ c.status = StatusOf(c, o)
     /\ c.class = "truncated-output" => o.truncated

\* Mutant: the mutant is left to the mutation gate, which nobody asks.
DecideWithoutMutant(r, observed) ==
  LET judged == Observed(r) \ {"mutant"}
  IN  CASE \E v \in judged : observed[v].actual \notin {"pass", "fail"} -> "inconclusive"
        [] \A v \in judged : observed[v].actual = Expectation(r, v) -> "confirmed"
        [] OTHER -> "not-reproduced"

Decide(r, observed) ==
  CASE \E v \in Observed(r) : observed[v].actual \notin {"pass", "fail"} -> "inconclusive"
    [] \A v \in Observed(r) : observed[v].actual = Expectation(r, v) -> "confirmed"
    [] OTHER -> "not-reproduced"

MutationGate(r, observed) ==
  r.mutation => observed["mutant"].actual = "fail" /\ observed["mutant"].matched

-----------------------------------------------------------------------------
(* The state *)

VARIABLES
  tree,       \* root -> what is on disk
  edits,
  request,
  pc,         \* the point run_proof has reached
  left,       \* revisions still to hash, then still to run
  scan,       \* a walk over the files of a root: which, listed and unread, read
  manifest,   \* the overlay that build_overlay_manifest hashed
  workspace,  \* the staged copy of the revision at hand
  seen,       \* revision -> its observation, as far as the decision reads it
  verdict,
  ran,        \* history: revision -> the tree the command ran in
  shown       \* history: revision -> what its output shows

disk == <<tree, edits>>
staging == <<left, scan, manifest, workspace>>
evidence == <<seen, ran, shown>>
vars == <<disk, request, pc, staging, evidence, verdict>>

Hash(revision) == Source[revision]   \* the revision_hashes of the intent

Nothing == [actual |-> "none", matched |-> FALSE]

Walk(root) == [root |-> root, list |-> Files(tree[root]), read |-> Empty]

\* copy2 of the entries of the manifest, in their order.
WalkManifest == [root |-> "overlay", list |-> Files(manifest), read |-> Empty]

Over(overlay, t) == [f \in File |-> IF overlay[f] # Absent THEN overlay[f] ELSE t[f]]

Init ==
  /\ tree = Source /\ edits = 0
  /\ request \in Request
  /\ pc = "start" /\ left = << >>
  /\ scan = [root |-> "overlay", list |-> {}, read |-> Empty]
  /\ manifest = Empty /\ workspace = Empty
  /\ seen = [v \in Revision |-> Nothing] /\ verdict = "none"
  /\ ran = [v \in Revision |-> Empty] /\ shown = [v \in Revision |-> "nothing"]

\* A revision named in the request that is not one of the relation raises too.
Admit ==
  /\ pc = "start" /\ Admitted(request)
  /\ pc' = "manifest" /\ scan' = Walk("overlay")
  /\ UNCHANGED <<disk, request, left, manifest, workspace, evidence, verdict>>

-----------------------------------------------------------------------------
(* Walks over the files of a root *)

Walking == {"manifest", "hash", "copy", "overlay", "rehash"}

Next1 == CHOOSE f \in scan.list : \A g \in scan.list : f <= g

\* A path is checked before its content is read, a copy after it is written.
Readable(f, content) ==
  /\ content # Absent
  /\ pc = "manifest" => f \in Approved /\ content \in Text
  /\ pc = "overlay" => content = manifest[f]

ReadFile ==
  /\ pc \in Walking /\ scan.list # {}
  /\ LET content == tree[scan.root][Next1]
     IN  /\ Readable(Next1, content)
         /\ scan' = [scan EXCEPT !.list = @ \ {Next1}, !.read[Next1] = content]
  /\ UNCHANGED <<disk, request, pc, left, manifest, workspace, evidence, verdict>>

Walked(point) == pc = point /\ scan.list = {}

WithinLimits(overlay) == Files(overlay) # {} /\ Cardinality(Files(overlay)) <= MaxOverlay

FreezeManifest ==
  /\ Walked("manifest") /\ WithinLimits(scan.read)
  /\ manifest' = scan.read
  /\ left' = Declared(request)
  /\ pc' = "hash" /\ scan' = Walk(left'[1])
  /\ UNCHANGED <<disk, request, workspace, evidence, verdict>>

HashRevision ==
  /\ Walked("hash") /\ scan.read = Hash(left[1])
  /\ IF Len(left) > 1
     THEN left' = Tail(left) /\ pc' = "hash"
     ELSE left' = Declared(request) /\ pc' = "copy"
  /\ scan' = Walk(left'[1])
  /\ UNCHANGED <<disk, request, manifest, workspace, evidence, verdict>>

-----------------------------------------------------------------------------
(* Staging, running and observing one revision *)

\* Mutant: the copy is taken for the source that was hashed before.
StagedUnchecked(copy) == TRUE

Staged(copy) == copy = Hash(left[1])

CopyRevision ==
  /\ Walked("copy") /\ Staged(scan.read)
  /\ workspace' = scan.read
  /\ pc' = "overlay" /\ scan' = WalkManifest
  /\ UNCHANGED <<disk, request, left, manifest, evidence, verdict>>

ApplyOverlay ==
  /\ Walked("overlay") /\ request.cwd # "outside"
  /\ workspace' = Over(scan.read, workspace)
  /\ pc' = "run"
  /\ UNCHANGED <<disk, request, left, scan, manifest, evidence, verdict>>

\* History: what an output shows to a reader who has all of it.
Shows(r, o) ==
  LET ran_out == o.exited /\ ~o.timedOut /\ ~o.truncated
      clean == /\ "environment message" \notin o.text
               /\ r.pytest => {"collection error", "error report"} \cap o.text = {}
      failing == IF r.static THEN o.exit > 0
                 ELSE o.exit = 1 /\ "assertion" \in o.text /\ "other exception" \notin o.text
  IN  CASE ran_out /\ o.exit = 0 /\ o.class = "none" -> "pass"
        [] ran_out /\ o.exit # 0 /\ o.class \in {"none", "assertion", "static-diagnostic"}
           /\ clean /\ failing /\ (r.pytest => o.exit = 1)
           /\ r.patterns = "valid" /\ "expected failure" \in o.text -> "fail"
        [] OTHER -> "nothing"

Run ==
  /\ pc = "run"
  /\ \E o \in Reports(request) :
       LET c == Classify(request, o)
       IN  /\ seen' = [seen EXCEPT ![left[1]] = [actual |-> c.actual, matched |-> c.matched]]
           /\ shown' = [shown EXCEPT ![left[1]] = Shows(request, o)]
           /\ pc' = IF Consistent(c, o) THEN "rehash" ELSE "refused"
  /\ ran' = [ran EXCEPT ![left[1]] = workspace]
  /\ scan' = Walk(left[1])
  /\ UNCHANGED <<disk, request, left, manifest, workspace, verdict>>

CheckSource ==
  /\ Walked("rehash") /\ scan.read = Hash(left[1])
  /\ left' = Tail(left)
  /\ IF left' # << >> THEN pc' = "copy" /\ scan' = Walk(left'[1])
                      ELSE pc' = "decide" /\ UNCHANGED scan
  /\ UNCHANGED <<disk, request, manifest, workspace, evidence, verdict>>

-----------------------------------------------------------------------------
(* The capsule, and the command that asked for it *)

MakeCapsule ==
  /\ pc = "decide"
  /\ verdict' = Decide(request, seen)
  /\ pc' = "sign"
  /\ UNCHANGED <<disk, request, staging, evidence>>

\* The schemas of the command line admit no intent and no capsule without a
\* mutant, and no confirmed one whose mutation gate did not pass.
Publishable == request.mutation /\ (verdict = "confirmed" => MutationGate(request, seen))

Publish ==
  /\ pc = "sign" /\ request.key /\ Publishable
  /\ pc' = "published"
  /\ UNCHANGED <<disk, request, staging, evidence, verdict>>

-----------------------------------------------------------------------------

MustRaise ==
  \/ pc = "start" /\ ~Admitted(request)
  \/ pc \in Walking /\ scan.list # {} /\ ~Readable(Next1, tree[scan.root][Next1])
  \/ Walked("manifest") /\ ~WithinLimits(scan.read)
  \/ Walked("hash") /\ scan.read # Hash(left[1])
  \/ Walked("copy") /\ ~Staged(scan.read)
  \/ Walked("overlay") /\ request.cwd = "outside"
  \/ Walked("rehash") /\ scan.read # Hash(left[1])
  \/ pc = "sign" /\ ~(request.key /\ Publishable)

\* The container client cannot be started: a ProviderError that run_proof does
\* not expect.
MayRaise == pc = "run"

Raise ==
  /\ MustRaise \/ MayRaise
  /\ pc' = "raised"
  /\ UNCHANGED <<disk, request, staging, evidence, verdict>>

Ends == {"published", "raised", "refused"}

\* Somebody edits a revision or the overlay.
Edit ==
  /\ pc \notin Ends /\ request \in Edited /\ edits < MaxEdits
  /\ \E root \in Observed(request) \cup {"overlay"}, f \in File, c \in Content :
       c # tree[root][f] /\ tree' = [tree EXCEPT ![root][f] = c]
  /\ edits' = edits + 1
  /\ UNCHANGED <<request, pc, staging, evidence, verdict>>

Step ==
  \/ Admit \/ ReadFile \/ FreezeManifest \/ HashRevision
  \/ CopyRevision \/ ApplyOverlay \/ Run \/ CheckSource
  \/ MakeCapsule \/ Publish \/ Raise

Done == pc \in Ends /\ UNCHANGED vars

Next == Step \/ Edit \/ Done

Spec == Init /\ [][Next]_vars

-----------------------------------------------------------------------------
(* Properties *)

Actual == {"pass", "fail", "timeout", "environment-error", "collection-error",
           "no-tests", "usage-error", "unknown-failure"}

\* The types; a walk reads one root, and what is left is an end of the relation.
TypeOK ==
  /\ tree \in [Root -> Tree] /\ edits \in 0..MaxEdits
  /\ request \in Request
  /\ pc \in Ends \cup Walking \cup {"start", "run", "decide", "sign"}
  /\ \E n \in 0..3 : left = SubSeq(Declared(request), n + 1, Len(Declared(request)))
  /\ scan \in [root : Root, list : SUBSET File, read : Tree]
  /\ manifest \in Tree /\ workspace \in Tree
  /\ seen \in [Revision -> [actual : Actual \cup {"none"}, matched : BOOLEAN]]
  /\ verdict \in {"none", "confirmed", "not-reproduced", "inconclusive"}
  /\ ran \in [Revision -> Tree] /\ shown \in [Revision -> {"pass", "fail", "nothing"}]

\* Every observation was made in the tree its intent declares, under the overlay
\* its manifest lists, however the roots are edited while they are read.
ObservedTreeIsDeclared ==
  \A v \in Revision : seen[v] # Nothing => ran[v] = Over(manifest, Hash(v))

\* A capsule is confirmed exactly if every output, the one of the mutant with
\* them, shows what its relation expects, and not reproduced only if every
\* command ran to an end that shows something.
VerdictIsEarned ==
  verdict # "none" =>
    /\ verdict = "confirmed" <=> \A v \in Observed(request) : shown[v] = Expectation(request, v)
    /\ verdict = "inconclusive" <=> \E v \in Observed(request) : shown[v] = "nothing"

\* No report of a runner gives an observation that its own constructor refuses:
\* the containers would have run for nothing.
ObservationsAccepted == pc # "refused"
=============================================================================
