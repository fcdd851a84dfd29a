---------------------------- MODULE Finalization ----------------------------
(***************************************************************************)
(* The last part of one run (engine.py): the engine writes pending.json,   *)
(* binds it to the evidence ledger, announces the reconciliation in the    *)
(* run journal and, when no self participant must judge the findings,      *)
(* finalizes the run itself.  Otherwise, and after any failure, operators  *)
(* call finalize, several at a time, again after an error or a crash, with *)
(* other dispositions and further proof capsules.                          *)
(*                                                                         *)
(* finalize works under a non-blocking flock that the operating system     *)
(* frees when its holder dies.  Ledger and journal appends are single      *)
(* steps here: EvidenceLedger shows what makes them so.  The receipt store *)
(* is a single step too, except that a crash inside it leaves it broken    *)
(* for this run (ReceiptChain).                                            *)
(*                                                                         *)
(* An analysis is named by what tells two of them apart: the capsules      *)
(* attached to it and the status of every finding.                         *)
(***************************************************************************)
EXTENDS Naturals, Sequences, FiniteSets

CONSTANTS
  Caller,               \* processes that call finalize
  Engine,               \* the one of them that prepared the run
  Runs,                 \* the runs considered: does self take part, is the run
                        \* degraded, is the context complete, do the call
                        \* records of its dispatch satisfy validate_linked,
                        \* what panel answered (see Panels), does the reviewer
                        \* recommend block or revise, and how severe is each
                        \* finding
  Finding,              \* findings of the analysis
  Grounded,             \* findings a trusted verifier confirmed beforehand
  Capsule,              \* proof capsules operators may supply
  Valid,                \* those with a valid HMAC for this run and this tree
  ProofOf, FindingOf,   \* proof id and finding of each capsule
  Confirms,             \* capsules whose verdict is confirmed
  Judgement,            \* dispositions operators may supply
  Faults,               \* TRUE: processes crash and the receipt store fails
  MaxCalls,             \* bound on the calls of finalize
  NoValue

Disposition == {"accepted", "rejected", "deadlock", "resolved", "waived"}

\* What tells panels apart once all of their calls are completed: models of two
\* families, of one, or an advisor, whose topology never fuses.
Panels == {"cross-model", "one-family", "advisor"}

ASSUME CallerAssumption == Engine \in Caller /\ NoValue \notin Caller
ASSUME RunAssumption ==
  Runs \subseteq [selfDriven : BOOLEAN, degraded : BOOLEAN, context : BOOLEAN,
                 recordable : BOOLEAN, panel : Panels, adverse : BOOLEAN,
            severity : [Finding -> {"blocker", "major", "minor"}]]
ASSUME FindingAssumption ==
  /\ IsFiniteSet(Finding)
  /\ Grounded \subseteq Finding
  /\ \A j \in Judgement : DOMAIN j \subseteq Finding /\ \A f \in DOMAIN j : j[f] \in Disposition
ASSUME CapsuleAssumption ==
  /\ Valid \subseteq Capsule /\ Confirms \subseteq Capsule
  /\ DOMAIN ProofOf = Capsule
  /\ FindingOf \in [Capsule -> Finding]
ASSUME BoundAssumption == Faults \in BOOLEAN /\ MaxCalls \in Nat

\* What analyses and receipts are; no value stands for a receipt or for the
\* dispositions of all findings.
Analyses == [capsules : SUBSET Capsule, status : [Finding -> Disposition \cup {"grounded", "open"}]]

Receipts == [analysis : Analyses, signoff : Nat, fused : BOOLEAN,
             verdict : {"degraded", "blocked", "revise", "ship"}]

ASSUME ValueAssumption == NoValue \notin Receipts /\ NoValue \notin [Finding -> Disposition]

VARIABLES
  run,                  \* what kind of run it is
  fresh,                \* FALSE while the tree differs from the snapshot
  pending,              \* TRUE once pending.json exists
  evidence,             \* evidence.jsonl
  capsuleFiles,         \* proof-capsules/*.json
  journal,              \* journal.jsonl, from the reconcile step on
  receipt,              \* the receipt of this run in the receipt store
  storeBroken,          \* TRUE if persist can no longer succeed for this run
  finalized,            \* finalized.json
  flock,                \* holder of finalization.lock
  pc,                   \* where each process is
  input,                \* the arguments of its call of finalize
  todo,                 \* capsules it still has to record as accepted
  work,                 \* the analysis it is working on
  calls                 \* calls of finalize so far

disk == <<pending, evidence, capsuleFiles, journal, receipt, storeBroken, finalized>>
local == <<input, todo, work>>
vars == <<run, fresh, disk, flock, pc, local, calls>>

-----------------------------------------------------------------------------
(* Evidence and journal records *)

Record(kind, of) == [kind |-> kind, of |-> of]

Has(kind) == \E i \in DOMAIN evidence : evidence[i].kind = kind

\* Capsules whose acceptance the ledger records.
Accepted == {evidence[i].of : i \in {n \in DOMAIN evidence : evidence[n].kind = "proof-capsule"}}

SignoffIndexes(payload) ==
  {i \in DOMAIN evidence : evidence[i].kind = "signoff" /\ evidence[i].of = payload}

\* An idempotency key names the status; "started" also the capsules.
Event(status, caps, payload) == [key |-> <<status, caps>>, payload |-> payload]

\* RunJournal.record: an equal event is kept, an unequal one of the same key
\* is an error, anything else is appended.
Conflicts(e) == \E i \in DOMAIN journal : journal[i].key = e.key /\ journal[i] # e

Journalled(e) == \E i \in DOMAIN journal : journal[i] = e

AppendOnce(e) == journal' = IF Journalled(e) THEN journal ELSE Append(journal, e)

-----------------------------------------------------------------------------
(* Reconciliation *)

Settled == {"accepted", "rejected", "resolved", "waived"}

\* Findings whose evidence strength is grounded once caps are attached.
Confirmed(caps) == Grounded \cup {FindingOf[c] : c \in caps \cap Confirms}

\* automatic_external_dispositions
Automatic(caps) ==
  [f \in Finding |->
     IF f \in Confirmed(caps) THEN "accepted"
     ELSE IF run.severity[f] \in {"blocker", "major"} THEN "deadlock" ELSE "waived"]

\* The errors of reconcile_analysis.
CanReconcile(caps, dispositions, degraded) ==
  /\ degraded \/ DOMAIN dispositions = Finding
  /\ \A f \in Confirmed(caps) \cap DOMAIN dispositions :
       dispositions[f] \notin {"rejected", "waived"}

Status(caps, dispositions) ==
  [f \in Finding |-> IF f \in DOMAIN dispositions THEN dispositions[f]
                     ELSE IF f \in Confirmed(caps) THEN "grounded" ELSE "open"]

Unsettled(status) ==
  run.adverse /\ (Finding = {} \/ \E f \in Finding : status[f] \notin Settled)

\* decision_impact.effect
Effect(status) ==
  LET accepted == {f \in Finding : status[f] \in {"accepted", "resolved", "grounded"}}
      stuck == {f \in Finding : status[f] = "deadlock" /\ run.severity[f] # "minor"}
  IN  IF ~run.context \/ Unsettled(status) \/ stuck # {} THEN "human-required"
      ELSE IF \E f \in accepted : run.severity[f] = "blocker" THEN "blocked"
      ELSE IF accepted # {} THEN "revised"
      ELSE "clarified"

Verdict(status, degraded) ==
  IF degraded THEN "degraded"
  ELSE CASE Effect(status) \in {"human-required", "blocked"} -> "blocked"
         [] Effect(status) = "revised" -> "revise"
         [] OTHER -> "ship"

Degraded == run.degraded \/ ~fresh

RequiresSelf == run.selfDriven /\ ~run.degraded

\* The dispositions a call works with, NoValue if it must supply some.
Dispositions(in, caps) ==
  IF in.judgement # NoValue THEN in.judgement
  ELSE IF RequiresSelf /\ ~in.automatic /\ ~Degraded THEN NoValue
  ELSE Automatic(caps)

Judgeable(in, caps) ==
  LET dispositions == Dispositions(in, caps)
  IN  dispositions # NoValue /\ CanReconcile(caps, dispositions, Degraded)

Analysis(caps, dispositions) == [capsules |-> caps, status |-> Status(caps, dispositions)]

Signoff(in, caps, dispositions) ==
  [analysis |-> Analysis(caps, dispositions),
   automatic |-> in.automatic, count |-> Cardinality(DOMAIN dispositions)]

-----------------------------------------------------------------------------
(* The engine prepares the run *)

NoInput == [judgement |-> NoValue, automatic |-> FALSE, capsules |-> {}]
AutomaticInput == [NoInput EXCEPT !.automatic = TRUE]
Input == [judgement : Judgement \cup {NoValue}, automatic : BOOLEAN, capsules : SUBSET Capsule]

NoWork == [capsules |-> {}, payload |-> NoValue, degraded |-> FALSE, signoff |-> 0]

Init ==
  /\ run \in Runs
  /\ fresh = TRUE
  /\ pending = FALSE /\ evidence = << >> /\ capsuleFiles = {} /\ journal = << >>
  /\ receipt = NoValue /\ storeBroken = FALSE /\ finalized = NoValue
  /\ flock = NoValue
  /\ pc = [p \in Caller |-> IF p = Engine THEN "analysed" ELSE "idle"]
  /\ input = [p \in Caller |-> NoInput]
  /\ todo = [p \in Caller |-> {}]
  /\ work = [p \in Caller |-> NoWork]
  /\ calls = 0

Goto(p, from, to) == pc[p] = from /\ pc' = [pc EXCEPT ![p] = to]

WritePending ==
  /\ Goto(Engine, "analysed", "unbound")
  /\ pending' = TRUE
  /\ UNCHANGED <<run, fresh, evidence, capsuleFiles, journal, receipt, storeBroken,
                 finalized, flock, local, calls>>

BindPending ==
  /\ Goto(Engine, "unbound", "bound")
  /\ evidence' = Append(evidence, Record("pending-state", NoValue))
  /\ UNCHANGED <<run, fresh, pending, capsuleFiles, journal, receipt, storeBroken,
                 finalized, flock, local, calls>>

\* Mutant: run() returns the pending run whatever it is.
AnnounceOnly ==
  /\ pc[Engine] = "bound"
  /\ AppendOnce(Event(IF RequiresSelf THEN "waiting" ELSE "automatic", {}, NoValue))
  /\ pc' = [pc EXCEPT ![Engine] = "idle"]
  /\ UNCHANGED <<run, fresh, pending, evidence, capsuleFiles, receipt, storeBroken,
                 finalized, flock, local, calls>>

\* _prepare journals the wait or the automatic reconciliation and returns;
\* run() then finalizes a run nobody has to judge.
Announce ==
  /\ pc[Engine] = "bound"
  /\ AppendOnce(Event(IF RequiresSelf THEN "waiting" ELSE "automatic", {}, NoValue))
  /\ pc' = [pc EXCEPT ![Engine] = IF RequiresSelf THEN "idle" ELSE "called"]
  /\ input' = [input EXCEPT ![Engine] = IF RequiresSelf THEN NoInput ELSE AutomaticInput]
  /\ UNCHANGED <<run, fresh, pending, evidence, capsuleFiles, receipt, storeBroken,
                 finalized, flock, todo, work, calls>>

-----------------------------------------------------------------------------
(* One call of finalize *)

Call(p, in) ==
  /\ Goto(p, "idle", "called")
  /\ calls < MaxCalls
  /\ calls' = calls + 1
  /\ input' = [input EXCEPT ![p] = in]
  /\ UNCHANGED <<run, fresh, disk, flock, todo, work>>

\* The call returns or raises: the flock is released, the locals are gone.
Finish(p) ==
  /\ pc' = [pc EXCEPT ![p] = "idle"]
  /\ flock' = IF flock = p THEN NoValue ELSE flock
  /\ input' = [input EXCEPT ![p] = NoInput]
  /\ todo' = [todo EXCEPT ![p] = {}]
  /\ work' = [work EXCEPT ![p] = NoWork]

Fail(p) == Finish(p) /\ UNCHANGED <<run, fresh, disk, calls>>

TakeLock(p) ==
  /\ Goto(p, "called", "locked")
  /\ flock = NoValue
  /\ flock' = p
  /\ UNCHANGED <<run, fresh, disk, local, calls>>

LockBusy(p) == pc[p] = "called" /\ flock # NoValue /\ Fail(p)

OneCapsulePerProof(caps) == \A c, d \in caps : ProofOf[c] = ProofOf[d] => c = d

\* Mutant: a run that is finalized is accepted again.
AcceptableAgain(in) ==
  /\ pending
  /\ Has("pending-state")
  /\ Accepted \subseteq capsuleFiles
  /\ Accepted \cup in.capsules \subseteq Valid
  /\ OneCapsulePerProof(Accepted \cup in.capsules)

\* Everything _finalize_locked checks before it changes anything.
Acceptable(in) ==
  /\ pending /\ finalized = NoValue
  /\ Has("pending-state")
  /\ Accepted \subseteq capsuleFiles
  /\ Accepted \cup in.capsules \subseteq Valid
  /\ OneCapsulePerProof(Accepted \cup in.capsules)

\* Mutant: only the capsules of this call are attached.
LoadSupplied(p) ==
  /\ Goto(p, "locked", "accepting")
  /\ Acceptable(input[p])
  /\ todo' = [todo EXCEPT ![p] = input[p].capsules \ Accepted]
  /\ work' = [work EXCEPT ![p].capsules = input[p].capsules]
  /\ UNCHANGED <<run, fresh, disk, flock, input, calls>>

Load(p) ==
  /\ Goto(p, "locked", "accepting")
  /\ Acceptable(input[p])
  /\ todo' = [todo EXCEPT ![p] = input[p].capsules \ Accepted]
  /\ work' = [work EXCEPT ![p].capsules = Accepted \cup input[p].capsules]
  /\ UNCHANGED <<run, fresh, disk, flock, input, calls>>

LoadFails(p) == pc[p] = "locked" /\ ~Acceptable(input[p]) /\ Fail(p)

\* The capsules are taken in the order of their proof ids.
NextCapsule(p) == CHOOSE c \in todo[p] : TRUE

\* Mutant: the acceptance is recorded before any bytes are kept.
WriteCapsuleLater(p) ==
  /\ Goto(p, "accepting", "written")
  /\ todo[p] # {}
  /\ UNCHANGED <<run, fresh, disk, flock, local, calls>>

WriteCapsule(p) ==
  /\ Goto(p, "accepting", "written")
  /\ todo[p] # {}
  /\ capsuleFiles' = capsuleFiles \cup {NextCapsule(p)}
  /\ UNCHANGED <<run, fresh, pending, evidence, journal, receipt, storeBroken, finalized,
                 flock, local, calls>>

RecordCapsule(p) ==
  /\ Goto(p, "written", "accepting")
  /\ evidence' = Append(evidence, Record("proof-capsule", NextCapsule(p)))
  /\ todo' = [todo EXCEPT ![p] = @ \ {NextCapsule(p)}]
  /\ UNCHANGED <<run, fresh, pending, capsuleFiles, journal, receipt, storeBroken,
                 finalized, flock, input, work, calls>>

Start(p) ==
  /\ Goto(p, "accepting", "started")
  /\ todo[p] = {}
  /\ AppendOnce(Event("started", work[p].capsules, NoValue))
  /\ UNCHANGED <<run, fresh, pending, evidence, capsuleFiles, receipt, storeBroken,
                 finalized, flock, local, calls>>

\* The snapshot is compared with the tree, then the findings are disposed of.
Reconcile(p) ==
  /\ Goto(p, "started", "reconciled")
  /\ Judgeable(input[p], work[p].capsules)
  /\ LET caps == work[p].capsules
         payload == Signoff(input[p], caps, Dispositions(input[p], caps))
     IN  work' = [work EXCEPT ![p].payload = payload, ![p].degraded = Degraded]
  /\ UNCHANGED <<run, fresh, disk, flock, input, todo, calls>>

ReconcileFails(p) ==
  /\ pc[p] = "started"
  /\ ~Judgeable(input[p], work[p].capsules)
  /\ Fail(p)

\* Mutant: any earlier signoff will do.
SignOffAny(p) ==
  /\ Goto(p, "reconciled", "signed")
  /\ IF Has("signoff")
     THEN /\ work' = [work EXCEPT ![p].signoff =
                         CHOOSE i \in DOMAIN evidence : evidence[i].kind = "signoff"]
          /\ UNCHANGED evidence
     ELSE /\ evidence' = Append(evidence, Record("signoff", work[p].payload))
          /\ work' = [work EXCEPT ![p].signoff = Len(evidence) + 1]
  /\ UNCHANGED <<run, fresh, pending, capsuleFiles, journal, receipt, storeBroken,
                 finalized, flock, input, todo, calls>>

\* An equal signoff of an earlier attempt is used again.
SignOff(p) ==
  /\ Goto(p, "reconciled", "signed")
  /\ LET payload == work[p].payload
     IN  IF SignoffIndexes(payload) # {}
         THEN /\ work' = [work EXCEPT ![p].signoff =
                            CHOOSE i \in SignoffIndexes(payload) :
                              \A j \in SignoffIndexes(payload) : i <= j]
              /\ UNCHANGED evidence
         ELSE /\ evidence' = Append(evidence, Record("signoff", payload))
              /\ work' = [work EXCEPT ![p].signoff = Len(evidence) + 1]
  /\ UNCHANGED <<run, fresh, pending, capsuleFiles, journal, receipt, storeBroken,
                 finalized, flock, input, todo, calls>>

Completion(payload, signoff) ==
  Event("completed", {}, [analysis |-> payload.analysis, signoff |-> signoff])

Complete(p) ==
  LET e == Completion(work[p].payload, work[p].signoff)
  IN  /\ Goto(p, "signed", "completed")
      /\ ~Conflicts(e)
      /\ AppendOnce(e)
      /\ UNCHANGED <<run, fresh, pending, evidence, capsuleFiles, receipt, storeBroken,
                     finalized, flock, local, calls>>

CompleteFails(p) ==
  pc[p] = "signed" /\ Conflicts(Completion(work[p].payload, work[p].signoff)) /\ Fail(p)

Receipt(w) ==
  LET verdict == Verdict(w.payload.analysis.status, w.degraded)
  IN  [analysis |-> w.payload.analysis, signoff |-> w.signoff, verdict |-> verdict,
       fused |-> ~w.degraded /\ run.context /\ run.panel # "advisor"]

\* The implications of fusion-receipt.schema.json that a finalized run can fail.
ReceiptSchema(r) ==
  /\ r.fused => run.panel # "one-family"
  /\ r.verdict \in {"ship", "revise"} => r.fused

\* validate_linked: every finding counts, however it was disposed of.
ReceiptValid(r) ==
  /\ run.recordable
  /\ ReceiptSchema(r)
  /\ r.verdict = "ship" => \A f \in Finding : run.severity[f] = "minor"

CanPersist(w) ==
  receipt = NoValue /\ ~storeBroken /\ ReceiptValid(Receipt(w))

Persist(p) ==
  /\ Goto(p, "completed", "persisted")
  /\ CanPersist(work[p])
  /\ receipt' = Receipt(work[p])
  /\ UNCHANGED <<run, fresh, pending, evidence, capsuleFiles, journal, storeBroken,
                 finalized, flock, local, calls>>

\* The run exists, the chain is locked, the validator refuses, or a write
\* fails and is rolled back.
PersistFails(p) ==
  pc[p] = "completed" /\ (Faults \/ ~CanPersist(work[p])) /\ Fail(p)

Terminal(p) ==
  LET e == Event("terminal", {}, receipt)
  IN  /\ Goto(p, "persisted", "ended")
      /\ ~Conflicts(e)
      /\ AppendOnce(e)
      /\ UNCHANGED <<run, fresh, pending, evidence, capsuleFiles, receipt, storeBroken,
                     finalized, flock, local, calls>>

WriteFinalized(p) ==
  /\ pc[p] = "ended"
  /\ finalized' = receipt
  /\ Finish(p)
  /\ UNCHANGED <<run, fresh, pending, evidence, capsuleFiles, journal, receipt, storeBroken, calls>>
-----------------------------------------------------------------------------
(* Faults and the rest of the world *)

\* The process is killed, or an append or a write raises.
Crash(p) ==
  /\ Faults
  /\ pc[p] # "idle"
  /\ Finish(p)
  /\ UNCHANGED <<run, fresh, disk, calls>>

\* Killed inside persist: the chain lock stays, with or without the receipt.
CrashInPersist(p) ==
  /\ Faults
  /\ pc[p] = "completed"
  /\ CanPersist(work[p])
  /\ receipt' \in {NoValue, Receipt(work[p])}
  /\ storeBroken' = TRUE
  /\ Finish(p)
  /\ UNCHANGED <<run, fresh, pending, evidence, capsuleFiles, journal, finalized, calls>>

\* Somebody edits the repository, or restores it.
EditTree ==
  /\ fresh' = ~fresh
  /\ UNCHANGED <<run, disk, flock, pc, local, calls>>

Step(p) ==
  \/ TakeLock(p) \/ LockBusy(p) \/ Load(p) \/ LoadFails(p)
  \/ WriteCapsule(p) \/ RecordCapsule(p) \/ Start(p) \/ Reconcile(p) \/ ReconcileFails(p) \/ SignOff(p)
  \/ Complete(p) \/ CompleteFails(p) \/ Persist(p) \/ PersistFails(p)
  \/ Terminal(p) \/ WriteFinalized(p)

Prepare == WritePending \/ BindPending \/ Announce

Next ==
  \/ Prepare
  \/ \E p \in Caller :
       \/ \E in \in Input : Call(p, in)
       \/ Step(p)
       \/ Crash(p)
       \/ CrashInPersist(p)
  \/ EditTree

Spec == Init /\ [][Next]_vars

\* Python runs each process; nothing in finalize waits for another process.
FairSpec == Spec /\ WF_vars(Prepare) /\ \A p \in Caller : WF_vars(Step(p))

-----------------------------------------------------------------------------
(* Properties *)

\* The four records of a run agree, although its signoff may stem from an
\* attempt that crashed: a receipt has a signoff record in the run's own ledger
\* that signs the very analysis of the receipt, and the journal completed the
\* reconciliation with that analysis and that signoff; a finalized run rests on
\* one terminal event, and its journal, receipt and finalized.json are equal.
RecordsAgree ==
  /\ receipt # NoValue =>
       /\ receipt.signoff \in DOMAIN evidence
       /\ evidence[receipt.signoff].kind = "signoff"
       /\ evidence[receipt.signoff].of.analysis = receipt.analysis
       /\ Journalled(Event("completed", {}, [analysis |-> receipt.analysis, signoff |-> receipt.signoff]))
  /\ finalized # NoValue =>
       /\ finalized = receipt
       /\ {journal[i].payload : i \in {n \in DOMAIN journal : journal[n].key[1] = "terminal"}} = {receipt}

\* Whatever attempts crashed between a capsule's file and its record, and
\* whatever a later call supplied: every accepted capsule is authentic, and no
\* proof id stands for two of them; none of them is missing from a finalized
\* run's receipt; and a confirmed one keeps its finding from being dismissed.
AcceptedProofsCount ==
  /\ Accepted \subseteq Valid /\ OneCapsulePerProof(Accepted)
  /\ finalized # NoValue =>
       /\ receipt.analysis.capsules = Accepted
       /\ \A f \in Confirmed(Accepted) : receipt.analysis.status[f] \notin {"rejected", "waived"}

\* An undisturbed call with these arguments would finalize the run.
Succeeds(in) ==
  LET caps == Accepted \cup in.capsules
      payload == Signoff(in, caps, Dispositions(in, caps))
      known == SignoffIndexes(payload)
      w == [NoWork EXCEPT !.payload = payload, !.degraded = Degraded]
  IN  /\ Acceptable(in)
      /\ Judgeable(in, caps)
      /\ \A i \in DOMAIN journal :
           journal[i].key[1] = "completed" =>
             \E n \in known : journal[i] = Completion(payload, n)
      /\ CanPersist(w)

CanFinish == \E in \in Input \cup {AutomaticInput} : Succeeds(in)

\* The runs that the automatic reconciliation can finalize with these capsules,
\* said of the run and not of a receipt: its call records are ones a receipt may
\* hold, and it is degraded; or two families of models answered; or one family
\* did and the context is incomplete, so that nothing is fused; or it was an
\* advisor whose advice leaves the run blocked.
Recordable(caps, degraded) ==
  /\ run.recordable
  /\ \/ degraded
     \/ run.panel = "cross-model"
     \/ run.panel = "one-family" /\ ~run.context
     \/ run.panel = "advisor" /\ Verdict(Status(caps, Automatic(caps)), FALSE) = "blocked"

\* However many attempts failed or crashed, whatever they accepted and whoever
\* edits the tree: until an attempt journals its completion, the automatic
\* reconciliation still finalizes a bound run, unless the receipt store refuses
\* runs of its kind; these it can never finalize.
RecoverableUntilCompleted ==
  (Has("pending-state") /\ \A i \in DOMAIN journal : journal[i].key[1] # "completed")
     => (Succeeds(AutomaticInput) <=> Recordable(Accepted, Degraded))

\* The receipt is written once, and a finalized run accepts nothing more.
FinalizedIsFinal ==
  [][ /\ receipt # NoValue => receipt' = receipt
      /\ finalized # NoValue => UNCHANGED <<finalized, evidence, capsuleFiles>> ]_vars

\* Without faults and competitors, run() leaves a degraded or external-only
\* run finalized, whatever findings it holds and whoever edits the tree, if the
\* receipt store accepts runs of its kind.  Of the others, an undegraded advisor
\* that ships or asks for revision is refused after its completion is journalled.
AutomaticRunRecorded ==
  (~RequiresSelf /\ Recordable({}, run.degraded)) ~> finalized # NoValue

\* status() reports can_resume_reconciliation for a run that some call of
\* finalize can still finalize.
ResumableCanFinish ==
  (pending /\ finalized = NoValue /\ \A p \in Caller : pc[p] = "idle") => CanFinish
=============================================================================
