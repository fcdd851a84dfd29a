--------------------------- MODULE RunPreparation ---------------------------
(***************************************************************************)
(* FusionEngine._prepare (engine.py): one process takes a request from its *)
(* route (Routing) over the snapshot, the packet, the dispatch, the        *)
(* analysis and the grounding to pending.json, while somebody edits the    *)
(* source tree and the deadline comes nearer.  The process may be killed   *)
(* between any two steps; an exception leaves what has been written.       *)
(*                                                                         *)
(* What happens inside one dispatch is BudgetDispatch; what finalize makes *)
(* of pending.json is Finalization.  Appends to the evidence ledger and to *)
(* the run's journal are one step each, as EvidenceLedger licenses.        *)
(***************************************************************************)
EXTENDS Routing, SequencesExt

CONSTANTS
  Requests,             \* what run may be asked for
  RepoAccess,           \* handles that read the snapshot, not only the packet
  DlpAction,            \* guardrails.sensitive_data_action
  Files,                \* number of files, each in a directory of its own
  MaxEdits,             \* bound on edits of the source tree
  Edited,               \* bound: the requests during which there are edits
  Candidate,            \* findings that reviewers may call checkable
  VerificationOf,       \* the verification id each of them names
  GroundingVerdict      \* what a verification may end with

ASSUME PreparationAssumption ==
  /\ RepoAccess \subseteq Handle
  /\ DlpAction \in {"flag", "redact", "block"}
  /\ Files \in Nat /\ MaxEdits \in Nat \ {0}
  /\ Edited \subseteq Requests
  /\ Candidate \subseteq Nat
  /\ GroundingVerdict \subseteq {"confirmed", "not-reproduced", "inconclusive", "policy-blocked"}

ASSUME RequestAssumption ==
  Requests \subseteq
    [preset : Preset \cup {"adaptive"}, panel : Panel \cup {None}, pack : Pack \cup {None},
     kind : STRING, wide : BOOLEAN, sensitive : BOOLEAN, external : BOOLEAN, known : BOOLEAN,
     secrets : SUBSET {"packet", "repo"}, ground : BOOLEAN, artifacts : SUBSET Nat]

VARIABLES
  tree,                 \* file -> version, 0 where there is no file
  edits,                \* versions that were ever written
  late,                 \* budget.remaining_s() has reached 0
  request, panel, pc,
  scan,                 \* the walk over the source tree under way
  manifest,             \* the snapshot's entries
  state,                \* RunStateMachine
  journal, ledger,      \* idempotency keys and record kinds, in order
  results,              \* [handle, status] of every call, in order
  outcomes,             \* PairwiseOutcome of every pair judged
  candidates,           \* grounding candidates still to be looked at
  verdicts,             \* _ground's cache: verification id -> verdict
  reasons,              \* degradation
  written,              \* files of the run directory
  trees,                \* history: trees there were while the snapshot was built
  atCheck               \* history: the tree when the last check began

environment == <<tree, edits, late>>
history == <<trees, atCheck>>
plan == <<request, panel>>
snapshot == <<scan, manifest, history>>
records == <<state, journal, ledger>>
review == <<results, outcomes>>
grounding == <<candidates, verdicts>>
outputs == <<reasons, written>>
vars == <<environment, plan, pc, snapshot, records, review, grounding, outputs>>

File == 1..Files
Trees == [File -> 0..MaxEdits]

Goto(from, to) == pc = from /\ pc' = to

Put(f, key, value) ==
  [k \in DOMAIN f \cup {key} |-> IF k = key THEN value ELSE f[k]]

-----------------------------------------------------------------------------
(* Records *)

NextStates == [
  prepared |-> {"routed"}, routed |-> {"frozen"}, frozen |-> {"dispatched"},
  dispatched |-> {"analyzed"}, analyzed |-> {"grounded"}, grounded |-> {}]

Transition(target) == target \in NextStates[state] /\ state' = target

Record(key) == journal' = Append(journal, key)

Attest(kind) == ledger' = Append(ledger, kind)

CallsAttested == Len(SelectSeq(ledger, LAMBDA kind : kind = "provider-routing"))

-----------------------------------------------------------------------------
(* Walks over the source tree: the directories first, the last one first,  *)
(* then the files in order.                                                *)

Walk(directories, files) == [list |-> directories, read |-> files, seen |-> << >>]

Idle == Walk({}, {})

Scanned == scan.list = {} /\ scan.read = {}

Walking == {"manifest", "copy", "recheck", "packet", "final"}

ListDirectory ==
  /\ pc \in Walking
  /\ scan.list # {}
  /\ LET f == Max(scan.list)
     IN  scan' = [scan EXCEPT !.list = @ \ {f},
                              !.read = IF tree[f] = 0 THEN @ ELSE @ \cup {f}]
  /\ UNCHANGED <<environment, plan, pc, manifest, history, records, review, grounding, outputs>>

\* Mutant: a file that is gone by now reads as an empty one.
ReadableGone(f) == pc = "copy" => tree[f] = manifest[f]

\* _stable_file_bytes makes one file's read atomic; a copy must be what the
\* manifest says.
Readable(f) == tree[f] # 0 /\ (pc = "copy" => tree[f] = manifest[f])

ReadFile ==
  /\ pc \in Walking
  /\ scan.list = {} /\ scan.read # {}
  /\ LET f == Min(scan.read)
     IN  /\ Readable(f)
         /\ scan' = [scan EXCEPT !.read = @ \ {f}, !.seen = Put(@, f, tree[f])]
  /\ UNCHANGED <<environment, plan, pc, manifest, history, records, review, grounding, outputs>>

\* A file of the walk is gone.
Torn == scan.list = {} /\ scan.read # {} /\ ~Readable(Min(scan.read))

\* Mutant: the fresh entries' hashes are not compared.
SamePaths == Scanned /\ DOMAIN scan.seen = DOMAIN manifest

\* assert_snapshot_fresh
Fresh == Scanned /\ scan.seen = manifest

-----------------------------------------------------------------------------
(* Route, snapshot and packet *)

ChooseRoute ==
  /\ Goto("prepared", "routed")
  /\ panel' \in Routes(request)
  /\ Transition("routed") /\ Record("state:routed")
  /\ UNCHANGED <<environment, request, snapshot, ledger, review, grounding, outputs>>

NeedsSelf == Self \in Participants(panel)

AttestSelf ==
  /\ Goto("routed", "manifest")
  /\ NeedsSelf => request.known
  /\ IF NeedsSelf THEN Attest("self-identity") ELSE UNCHANGED ledger
  /\ scan' = Walk(File, {})
  /\ trees' = {tree}
  /\ UNCHANGED <<environment, plan, manifest, atCheck, state, journal, review, grounding, outputs>>

TakeManifest ==
  /\ Goto("manifest", "copy")
  /\ Scanned
  /\ manifest' = scan.seen
  /\ scan' = Walk({}, DOMAIN scan.seen)
  /\ UNCHANGED <<environment, plan, history, records, review, grounding, outputs>>

CopyTree ==
  /\ Goto("copy", "recheck")
  /\ Scanned
  /\ scan' = Walk(File, {})
  /\ UNCHANGED <<environment, plan, manifest, history, records, review, grounding, outputs>>

\* Mutant: the copied tree is published without a last look at the source.
FreezeUnchecked ==
  /\ Goto("recheck", "frozen")
  /\ Scanned
  /\ scan' = Idle
  /\ Transition("frozen") /\ Record("state:frozen")
  /\ UNCHANGED <<environment, plan, manifest, history, ledger, review, grounding, outputs>>

Freeze ==
  /\ Goto("recheck", "frozen")
  /\ Fresh
  /\ scan' = Idle
  /\ Transition("frozen") /\ Record("state:frozen")
  /\ UNCHANGED <<environment, plan, manifest, history, ledger, review, grounding, outputs>>

\* repo_access_blocked
RepoBlocked == "repo" \in request.secrets /\ External(panel) \cap RepoAccess # {}

ScanSecrets ==
  /\ Goto("frozen", "packet")
  /\ IF RepoBlocked THEN Attest("dlp-block") ELSE UNCHANGED ledger
  /\ scan' = Walk(File, {})
  /\ trees' = {}
  /\ UNCHANGED <<environment, plan, manifest, atCheck, state, journal, review, grounding, outputs>>

PacketBlocked == "packet" \in request.secrets /\ DlpAction = "block"

\* compile_packet: the tree is still fresh, and has the files to be reviewed.
Compilable == Fresh /\ request.artifacts \subseteq DOMAIN manifest /\ ~PacketBlocked

CompilePacket ==
  /\ Goto("packet", "compiled")
  /\ Compilable
  /\ Attest("route")
  /\ scan' = Idle
  /\ reasons' = IF "packet" \in request.secrets THEN {"content"} ELSE {}
  /\ UNCHANGED <<environment, plan, manifest, history, state, journal, review, grounding, written>>

-----------------------------------------------------------------------------
(* Dispatch *)

Ranked == panel.topology = "panel-rank"

\* The handles the topology dispatches at first.
FirstPasses ==
  LET reviewers == IF panel.reviewers # << >> THEN panel.reviewers
                   ELSE [i \in 1..Cardinality(panel.advisor) |-> CHOOSE h \in panel.advisor : TRUE]
  IN  CASE Ranked -> panel.proposers
        [] panel.topology \in {"review", "advisor"} /\ reviewers # << >> -> <<Head(reviewers)>>
        [] OTHER -> reviewers

\* Proposals need a judge, and a comparison needs two answers.
Dispatchable ==
  /\ Ranked => panel.judge # {}
  /\ Len(FirstPasses) >= IF panel.topology \in {"dual-review", "panel-rank"} THEN 2 ELSE 1

\* context_quorum: no handle is asked twice.
Quorum == Cardinality(Range(FirstPasses)) = Len(FirstPasses)

Status == {"completed", "failed", "timeout"}

Call(handle, status) == [handle |-> handle, status |-> status]

AllCompleted(calls) == \A i \in 1..Len(calls) : calls[i].status = "completed"

\* Repository access is blocked: nobody is called.
BlockDispatch ==
  /\ Goto("compiled", "attest")
  /\ RepoBlocked
  /\ Transition("dispatched") /\ Record("dispatch:started")
  /\ results' = [i \in 1..Cardinality(External(panel)) |->
                   Call(SetToSeq(External(panel))[i], "policy-blocked")]
  /\ UNCHANGED <<environment, plan, snapshot, ledger, outcomes, grounding, outputs>>

StartDispatch ==
  /\ Goto("compiled", "dispatch")
  /\ ~RepoBlocked
  /\ Transition("dispatched") /\ Record("dispatch:started")
  /\ UNCHANGED <<environment, plan, snapshot, ledger, review, grounding, outputs>>

\* Every call of a dispatch ends in time, or with the deadline (BudgetDispatch).
DispatchFirstPasses ==
  /\ pc = "dispatch" /\ Dispatchable
  /\ \E status \in [1..Len(FirstPasses) -> Status] :
       /\ late => \A i \in DOMAIN status : status[i] # "completed"
       /\ results' = IF Quorum THEN [i \in DOMAIN status |-> Call(FirstPasses[i], status[i])]
                               ELSE << >>
  /\ pc' = IF Ranked /\ results' # << >> /\ AllCompleted(results') THEN "judge" ELSE "attest"
  /\ UNCHANGED <<environment, plan, snapshot, records, outcomes, grounding, outputs>>

Pairs == {p \in (DOMAIN panel.proposers) \X (DOMAIN panel.proposers) : p[1] < p[2]}
Judged == {<<o.left, o.right>> : o \in outcomes}
Earlier(p, q) == p[1] < q[1] \/ (p[1] = q[1] /\ p[2] < q[2])

Nobody == 0

\* Both answer orders of the next pair; the first pair whose orders disagree
\* is the last one.
JudgePair ==
  /\ pc = "judge"
  /\ LET pair == CHOOSE p \in Pairs \ Judged : \A q \in Pairs \ Judged : q = p \/ Earlier(p, q)
         votes == {pair[1], pair[2], Nobody}
         judge == CHOOSE h \in panel.judge : TRUE
     IN  \E forward, reverse \in votes, status, status2 \in {"completed", "failed"} :
           /\ forward # Nobody => status = "completed"
           /\ reverse # Nobody => status2 = "completed"
           /\ late => status = "failed" /\ status2 = "failed"
           /\ LET winner == IF forward = reverse THEN forward ELSE Nobody
              IN  /\ outcomes' = outcomes \cup
                                   {[left |-> pair[1], right |-> pair[2], winner |-> winner]}
                  /\ pc' = IF winner = Nobody \/ Judged \cup {pair} = Pairs
                             THEN "attest" ELSE "judge"
           /\ results' = results \o <<Call(judge, status), Call(judge, status2)>>
  /\ UNCHANGED <<environment, plan, snapshot, records, grounding, outputs>>

Wins(i) == Cardinality({o \in outcomes : o.winner = i})

\* Mutant: a tie is broken by the proposals' order.
WinnersByOrder ==
  {i \in DOMAIN panel.proposers :
     /\ Judged = Pairs /\ \A o \in outcomes : o.winner # Nobody
     /\ \A j \in DOMAIN panel.proposers : Wins(j) < Wins(i) \/ (Wins(j) = Wins(i) /\ j >= i)}

\* The one proposal, if any, that won more comparisons than each other.
Winners ==
  {i \in DOMAIN panel.proposers :
     /\ Judged = Pairs /\ \A o \in outcomes : o.winner # Nobody
     /\ \A j \in DOMAIN panel.proposers \ {i} : Wins(j) < Wins(i)}

\* _topology_degraded, which a blocked dispatch always is.
TopologyDegraded ==
  \/ RepoBlocked
  \/ IF Ranked THEN Winners = {}
               ELSE results = << >> \/ ~AllCompleted(results)

AttestCall ==
  /\ pc = "attest"
  /\ CallsAttested < Len(results)
  /\ Attest("provider-routing")
  /\ UNCHANGED <<environment, plan, pc, snapshot, state, journal, review, grounding, outputs>>

FinishDispatch ==
  /\ Goto("attest", "dispatched")
  /\ CallsAttested = Len(results)
  /\ Record("dispatch:completed")
  /\ UNCHANGED <<environment, plan, snapshot, state, ledger, review, grounding, outputs>>

-----------------------------------------------------------------------------
(* Analysis and grounding *)

CalledHandles == {results[i].handle : i \in DOMAIN results}
Incomplete == {results[i].handle : i \in {j \in DOMAIN results : results[j].status # "completed"}}

\* Only reviewers that completed have findings, and proposals are no reviews.
Analyze ==
  /\ Goto("dispatched", "analyzed")
  /\ candidates' \in SUBSET (IF Ranked \/ CalledHandles \subseteq Incomplete THEN {} ELSE Candidate)
  /\ Transition("analyzed") /\ Record("state:analyzed")
  /\ UNCHANGED <<environment, plan, snapshot, ledger, review, verdicts, outputs>>

MayGround == request.ground /\ request.kind = "diff" /\ ~late

StartGrounding ==
  /\ Goto("analyzed", "ground")
  /\ MayGround
  /\ UNCHANGED <<environment, plan, snapshot, records, review, grounding, outputs>>

\* One run of each verification id; its result serves every finding that
\* names the id, even after the deadline.
GroundCandidate ==
  /\ pc = "ground" /\ candidates # {}
  /\ LET f == Min(candidates)
         id == VerificationOf[f]
     IN  /\ candidates' = candidates \ {f}
         /\ \/ id \in DOMAIN verdicts /\ UNCHANGED verdicts
            \/ /\ id \notin DOMAIN verdicts /\ ~late
               /\ \E v \in GroundingVerdict : verdicts' = Put(verdicts, id, v)
  /\ Attest("grounding")
  /\ UNCHANGED <<environment, plan, pc, snapshot, state, journal, review, outputs>>

FinishGrounding ==
  /\ Goto("ground", "measure")
  /\ candidates # {} => late /\ VerificationOf[Min(candidates)] \notin DOMAIN verdicts
  /\ Transition("grounded") /\ Record("state:grounded")
  /\ UNCHANGED <<environment, plan, snapshot, ledger, review, grounding, outputs>>

SkipGrounding ==
  /\ Goto("analyzed", "measure")
  /\ ~MayGround
  /\ UNCHANGED <<environment, plan, snapshot, records, review, grounding, outputs>>

-----------------------------------------------------------------------------
(* The last checks and pending.json *)

MeasureDegradation ==
  /\ Goto("measure", "final")
  /\ reasons' = reasons \cup (IF TopologyDegraded THEN {"topology"} ELSE {})
  /\ scan' = Walk(File, {})
  /\ atCheck' = tree
  /\ UNCHANGED <<environment, plan, manifest, trees, records, review, grounding, written>>

\* Of a file that goes while it is opened, _stable_file_bytes makes the
\* SnapshotError that counts as a stale tree; one gone earlier raises.
CheckTree ==
  /\ Goto("final", "validate")
  /\ Scanned \/ Torn
  /\ reasons' = reasons \cup (IF Fresh THEN {} ELSE {"stale"})
                        \cup (IF late THEN {"wallclock"} ELSE {})
  /\ UNCHANGED <<environment, plan, snapshot, records, review, grounding, written>>

\* validate_analysis: each participant was called.
AnalysisValid == External(panel) \subseteq CalledHandles

Write(from, to, file) ==
  /\ Goto(from, to)
  /\ written' = written \cup {file}
  /\ UNCHANGED <<environment, plan, snapshot, records, review, grounding, reasons>>

WriteAnalysis == Write("validate", "analysis", "analysis.json") /\ AnalysisValid
WriteResult == Write("analysis", "result", "result.json")
WritePending == Write("result", "pending", "pending.json")

BindPending ==
  /\ Goto("pending", "bound")
  /\ Attest("pending-state")
  /\ UNCHANGED <<environment, plan, snapshot, state, journal, review, grounding, outputs>>

Announce ==
  /\ Goto("bound", "ended")
  /\ Record(IF NeedsSelf /\ reasons = {} THEN "reconcile:waiting" ELSE "reconcile:automatic")
  /\ UNCHANGED <<environment, plan, snapshot, state, ledger, review, grounding, outputs>>

-----------------------------------------------------------------------------
(* Ends, and what goes on meanwhile *)

Ends == {"ended", "raised", "killed"}

\* The code raises by itself: nothing is journalled or cleaned up.
MustRaise ==
  \/ pc = "prepared" /\ Routes(request) = {}
  \/ pc = "routed" /\ NeedsSelf /\ ~request.known
  \/ pc \in Walking /\ Torn
  \/ pc = "recheck" /\ Scanned /\ ~Fresh
  \/ pc = "packet" /\ Scanned /\ ~Compilable
  \/ pc = "dispatch" /\ ~Dispatchable
  \/ pc = "validate" /\ ~AnalysisValid

\* Or the prompts of a dispatch do not fit the context windows, the command of
\* a verification does not start (Grounding), or a reviewer left a text blank
\* that the analysis must carry (RunArtifacts).
MayRaise ==
  \/ pc \in {"dispatch", "judge"}
  \/ /\ pc = "ground" /\ candidates # {} /\ ~late
     /\ VerificationOf[Min(candidates)] \notin DOMAIN verdicts
  \/ pc = "validate" /\ ~Ranked /\ results # << >>

Raise ==
  /\ MustRaise \/ MayRaise
  /\ pc' = "raised"
  /\ UNCHANGED <<environment, plan, snapshot, records, review, grounding, outputs>>

Kill ==
  /\ pc \notin Ends
  /\ pc' = "killed"
  /\ UNCHANGED <<environment, plan, snapshot, records, review, grounding, outputs>>

Building == {"manifest", "copy", "recheck"}

\* Somebody writes a content that the file never had, or deletes the file.  An
\* edit that restores an earlier content is left out: no hash shows it.
Edit ==
  /\ pc \notin Ends
  /\ edits < MaxEdits /\ request \in Edited
  /\ edits' = edits + 1
  /\ \E f \in File, version \in {0, edits'} :
       tree[f] # version /\ tree' = [tree EXCEPT ![f] = version]
  /\ trees' = IF pc \in Building THEN trees \cup {tree'} ELSE trees
  /\ UNCHANGED <<late, plan, pc, scan, manifest, atCheck, records, review, grounding, outputs>>

DeadlinePasses ==
  /\ pc \notin Ends
  /\ ~late /\ late' = TRUE
  /\ UNCHANGED <<tree, edits, plan, pc, snapshot, records, review, grounding, outputs>>

Init ==
  /\ tree \in [File -> {0, 1}] /\ edits = 1 /\ late = FALSE
  /\ request \in Requests /\ panel = None
  /\ pc = "prepared" /\ state = "prepared"
  /\ scan = Idle /\ manifest = << >> /\ trees = {} /\ atCheck = << >>
  /\ journal = <<"state:prepared">> /\ ledger = << >>
  /\ results = << >> /\ outcomes = {}
  /\ candidates = {} /\ verdicts = << >>
  /\ reasons = {} /\ written = {}

Step ==
  \/ ListDirectory \/ ReadFile
  \/ ChooseRoute \/ AttestSelf \/ TakeManifest \/ CopyTree \/ Freeze
  \/ ScanSecrets \/ CompilePacket
  \/ BlockDispatch \/ StartDispatch \/ DispatchFirstPasses \/ JudgePair
  \/ AttestCall \/ FinishDispatch
  \/ Analyze \/ StartGrounding \/ GroundCandidate \/ FinishGrounding \/ SkipGrounding
  \/ MeasureDegradation \/ CheckTree
  \/ WriteAnalysis \/ WriteResult \/ WritePending \/ BindPending \/ Announce

Done == pc \in Ends /\ UNCHANGED vars

Next == Step \/ Raise \/ Kill \/ Edit \/ DeadlinePasses \/ Done

Spec == Init /\ [][Next]_vars

-----------------------------------------------------------------------------
(* Properties *)

Keys == {"state:prepared", "state:routed", "state:frozen", "dispatch:started",
         "dispatch:completed", "state:analyzed", "state:grounded",
         "reconcile:waiting", "reconcile:automatic"}

\* The types, and what they mean to each other: the manifest and a walk hold
\* files that exist, a key is journalled once, a winner is one of the pair.
TypeOK ==
  /\ tree \in Trees /\ edits \in 1..MaxEdits /\ late \in BOOLEAN
  /\ request \in Requests /\ panel \in Panel \cup {None}
  /\ scan.list \subseteq File /\ scan.read \subseteq File
  /\ \A m \in {manifest, scan.seen} :
       DOMAIN m \subseteq File /\ \A f \in DOMAIN m : m[f] \in 1..edits
  /\ state \in DOMAIN NextStates
  /\ Range(journal) \subseteq Keys /\ IsInjective(journal)
  /\ Range(ledger) \subseteq {"self-identity", "dlp-block", "route", "provider-routing",
                               "grounding", "pending-state"}
  /\ \A i \in DOMAIN results :
       results[i] \in [handle : Handle, status : Status \cup {"policy-blocked"}]
  /\ \A o \in outcomes : o.left < o.right /\ o.winner \in {o.left, o.right, Nobody}
  /\ candidates \subseteq Candidate
  /\ \A id \in DOMAIN verdicts : verdicts[id] \in GroundingVerdict
  /\ reasons \subseteq {"content", "topology", "stale", "wallclock"}
  /\ written \subseteq {"analysis.json", "result.json", "pending.json"}
  /\ trees \subseteq Trees

\* What is frozen was there: although the tree is read file by file while it
\* is edited, there was one moment at which every file of the manifest had
\* the frozen content, and any one file that it lacks did not exist
\* (build_snapshot: manifest, copy, assert_snapshot_fresh).
FrozenExisted ==
  pc = "frozen" =>
    \A g \in File : \E t \in trees :
      /\ \A f \in DOMAIN manifest : t[f] = manifest[f]
      /\ g \notin DOMAIN manifest => t[g] = 0

Undegraded == "pending.json" \in written /\ reasons = {}

\* An undegraded pending run reviewed what the tree held after the last call
\* and the last grounding (the final assert_snapshot_fresh).
NotStale == Undegraded => \A f \in DOMAIN manifest : atCheck[f] = manifest[f]

Beats(i, j) == \E o \in outcomes : {o.left, o.right} = {i, j} /\ o.winner = i

\* A pending run without degradation has a completed call of each external
\* participant and no failed one, on a packet without secrets; of ranked
\* proposals exactly one won more comparisons than every other, each in both
\* answer orders (_topology_degraded, run_panel_rank).
UndegradedIsEarned ==
  Undegraded =>
    /\ External(panel) \subseteq CalledHandles /\ AllCompleted(results)
    /\ "packet" \notin request.secrets /\ ~RepoBlocked
    /\ Ranked =>
         LET proposals == DOMAIN panel.proposers
             beaten(i) == {k \in proposals : Beats(i, k)}
         IN  /\ \E i \in proposals : \A j \in proposals \ {i} :
                  Cardinality(beaten(j)) < Cardinality(beaten(i))
             /\ \A j, k \in proposals : j # k => Beats(j, k) \/ Beats(k, j)

\* A request on sensitive paths, with whatever panel or pack it asked for,
\* that comes out undegraded was answered by two different models at least,
\* where the configured minimum is balanced or higher (panel_rank and the
\* hard gates of resolve_route).
SensitiveReviewedTwice ==
  Undegraded /\ request.sensitive /\ Strength[HardMinimum] >= 2 =>
    Cardinality({ModelOf[h] : h \in CalledHandles \ Incomplete}) >= 2

\* README.md:16: "A run whose required reviewer failed, whose packet did not
\* fit, or whose grounding could not execute records degraded state and cannot
\* claim fused success."  A run with a failed call does not end in an
\* exception.
FailureIsRecorded == pc = "raised" => AllCompleted(results)
=============================================================================
