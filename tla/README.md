# A TLA+ verification project for autofusion

autofusion runs several model providers over one frozen artifact, reconciles what
they found, and leaves behind a receipt of what really happened. This directory
models the parts of it that must not go wrong when processes crash, race, retry, run
out of budget or return something unexpected: the preparation of a run, its calls
under a budget, an ACP session and a command with their child processes, a proof run,
what becomes of the answers on their way to the receipt, the finalization of a run,
the evidence ledger and the receipt store. TLC checks the models on small instances;
TLAPS proves, for every instance, all the invariants and action properties that the passing runs
check, some of them under a condition that [Proofs](#proofs) names, and one refinement; liveness stays with TLC.

Source paths below are relative to the repository's `src/autofusion/`.

- [The system](#the-system)
- [Modules and code](#modules-and-code)
- [Runs](#runs)
- [Fairness](#fairness)
- [Proofs](#proofs)
- [Findings](#findings)
- [Behaviour a reader should know](#behaviour-a-reader-should-know)
- [What is not modelled](#what-is-not-modelled)
- [Where to go on](#where-to-go-on)

## The system

One run goes through `engine.py` like this. `run()` reads the configuration and
chooses a route (`router.py`, `policy.py`), freezes the artifact (`snapshot.py`)
and compiles a packet (`packet.py`, `dlp.py`); a topology (`topologies.py`)
dispatches requests to providers (`providers/*`) under a budget (`budget.py`);
their answers become an analysis (`analysis.py`) that trusted commands may confirm
(`grounding.py`). The engine writes `pending.json`, binds it to the run's evidence
ledger (`evidence.py`, `journal.py`), and, if no *self* participant (the agent that
drives the tool) must judge the findings, finalizes the run. Otherwise an operator
calls `finalize` later, from another process, perhaps several times, perhaps with
signed proof capsules (`proof.py`). Finalization reconciles (`reconcile.py`), signs
off, journals, and adds a receipt (`contracts.py`) to the chain of receipts of the
repository (`receipt.py`).

| component | state it keeps | operations | talks to | what is hard | what makes it correct |
|---|---|---|---|---|---|
| evidence ledger `evidence.py` | JSONL file, lock file, process mutex | `append`, `verify` | journal, finalization, precedent memory | threads of several processes, killed holders, cut lines, full disks | one hash chain; an acknowledged record stays |
| run journal `journal.py` | an evidence ledger with idempotency keys | `record`, `summary` | engine, finalization | retries, lookups and appends in two steps | one event per key; the terminal event is the last |
| receipt store `receipt.py` | run directories, `chain-head.json`, `.chain.lock` | `persist`, `verify_chain` | finalization of all runs of a repository | rollback, kills between three writes, two finalizers, a reader without the lock | one unforked chain whose head is current, and verified as such beside its writers |
| finalization `engine.py` | `pending.json`, capsule files, `finalized.json`, `finalization.lock` | `run`, `finalize`, `status` | all of the above | crashes and retries with other arguments, rival operators, edits of the tree | proofs are never dropped, files agree, a run that can be finished gets finished |
| reconciliation `reconcile.py`, `analysis.py` | none (pure) | `build_analysis`, `attach_grounding`, `attach_proof_capsules`, `reconcile_analysis`, `automatic_external_dispositions` | preparation, finalization | every combination of answers, severity, disposition and proof | no dissent is lost; confirmed findings are not dismissed; ship is earned |
| receipt contract `contracts.py` | none (pure) | `validate_analysis`, `validate_receipt`, `validate_linked` | preparation, receipt store | written apart from the engine; a refusal comes after the calls were paid | it accepts what the engine produces and nothing false |
| repository validators `scripts/validate_*.py` | none (pure) | the same checks, written again | continuous integration | a second hand-written contract | agreement with the first |
| budget ledger `budget.py` | calls, cost, active reservations | `reserve_call`, `settle_call` | dispatch | concurrent calls, unknown costs | reservations settled once, costs charged |
| blind first passes `topologies.py` | one coroutine per request, a semaphore | `dispatch_blind_first_passes` | budget ledger, providers | deadlines racing answers | one result per request, in time, charged |
| panel rank `topologies.py` | judgments | `run_panel_rank` | dispatch | position bias, failed judges | a winner that both orders support |
| run preparation `engine.py`, `state.py` | `RunState` | `_prepare` | everything before `pending.json` | failures at every stage | monotone states, a journal that tells the truth |
| ACP provider `providers/acp.py` | a child process, bounded queues, a session | `dispatch` | command protocol over pipes | both sides blocked, cancellation, deadline | ends in time, nothing said is lost |
| command runner `providers/process.py`, `_job.py` | a child process in a group, reader threads, sinks | `CommandRunner.run` | providers, grounding | grandchildren that hold pipes, output limits, an exit between poll and kill | the output is whole or marked, nothing escapes the kill but what that exit leaves |
| other providers | none | `dispatch` | command runner, HTTP | parsing | identity of the answering model |
| proof execution `proof.py`, `sandbox.py` | staged trees, observations | `run_proof`, `classify` | finalization | roots edited while they are read, broken runs that look like failures | a capsule says what was executed, and where |
| precedent memory `precedent.py` | an evidence ledger | `record_decision`, `record_outcome`, `query` | engine | outcomes that contradict each other | latest outcome wins |
| snapshot `snapshot.py` | frozen tree hashes | `build_snapshot`, `assert_snapshot_fresh` | preparation, finalization | edits during a run | staleness is noticed |
| grounding `grounding.py` | none | `run_grounding` | preparation, command runner | commands that fail, hang or run late | only a failure in time that shows what was expected confirms |
| routing and policy | configuration | `route`, `apply_policy` | preparation | hard gates against adaptive choices | gates cannot be bypassed |
| packet, DLP, identity, CLI, evaluation, reporting, plugin | none of the run's | | | text and formatting | |

`PROJECT.json` lists every component with its status, and under `hazards` every
place where this code can go wrong in a way a unit test hardly reaches.

## Modules and code

**EvidenceLedger** is `EvidenceLedger.append` statement by statement. A thread is at
one of `mutex`, `wait` (polling the lock file), `locked`, `verified`, `written`,
`synced`; its locals are `job` (the entry) and `base` (the length and tail hash that
`verify()` returned). `file` is the sequence of lines on disk, `synced` how many of
them an fsync covers, `lockFile` and `mutex` the two locks. `Crash(p)` kills one
process and leaves its lock file; `PowerLoss` also drops or cuts what no fsync
covered. `RemoveLeakedLock` is the operator, because no code breaks a leaked lock.
`TailForms` says how a line may be cut: `torn` lines do not decode, a `bare` line
lacks only its newline, decodes, and is continued by the next append. `ShortWrites`
lets `os.write` return early. SHA-256 is taken to be injective: a hash *is* the list
of what it covers.

**AppendOnlyLog** says what callers of the ledger rely on: entries are only added at
the end, a confirmed prefix stays, a damaged log refuses appends. `ImplementsLog` in
EvidenceLedger is the refinement: `log` is the entries of the intact lines,
`confirmed` is `synced`, `sealed` is "does not decode".

**ReceiptChain** is `ReceiptStore.persist` from the first check to the unlink of
`.chain.lock`, one action per file operation (`atomic_write_bytes` is one step: it
writes a temporary file and replaces). `RollBack` is the `except BaseException` block.
`LateInterrupts` decides whether an exception may arrive after the head has been
replaced. `Verifies` is what `verify_chain` demands of a set of receipts, and `Stored` the set that
the store holds at a moment. A receipt is named by its run, since its digest covers the run id.

**ChainReader** is `verify_chain` at work, without the lock, while others persist: it lists the
directories (`List`), looks for a receipt in each (`Look`), reads those it found one by one (`Read`,
or `ReadFails` if a rollback has taken one away meanwhile) and judges what it has read
(`Conclude`). The listing is one step, as one `getdents` call is; a store whose directory takes several
could be listed with a gap. `known` and `disturbed` are history: what had been returned when the call
began, and whether a rollback, or an operator, came in between.

**Finalization** is the engine from `pending.json` to `finalized.json`. The engine's own
steps are `WritePending`, `BindPending` and `Announce`; each caller of `finalize` takes the
flock (`TakeLock`, or `LockBusy`), checks everything `_finalize_locked` checks before it
writes (`Load`), stores and records each new capsule, journals the start, compares the
snapshot and reconciles, signs off (reusing an equal signoff of an earlier attempt),
journals the completion, persists, journals the terminal event and writes
`finalized.json`. A raised exception, a kill and a failed append all end in `Finish`: the
operating system frees a flock. Ledger and journal appends are one step each, which is
what the proofs about EvidenceLedger license; the receipt store is one step that
succeeds, fails cleanly, or (`CrashInPersist`) dies inside and leaves the chain lock.
An analysis is named by what tells two of them apart, the attached capsules and the
status of each finding; the rationale of a disposition is part of the judgement.
Idempotency keys are those of `journal.record`. `fresh` is what the snapshot check would
say now, and `EditTree` may change it at any time. `run` holds what preparation decided;
`run.recordable` says whether the run's call records satisfy the receipt contract on
their own, and `run.panel` what else its receipt depends on: a run of an advisor is never fused, a fused
run must not be of one family of models, and one that ships or asks for revision must be fused
(`ReceiptSchema`).

**BudgetDispatch** is `dispatch_blind_first_passes` over a `BudgetLedger`; `task` says of each request
whether it waits, runs or is done. What the event loop does between two awaits is one action: `Admit` (semaphore, `reserve_call`), `Answer`,
`Mismatch`, `AnswerTooLate`, `ProviderRaises`, `DispatchTimeout`, and the outer deadline as
`QueueTimeout` and `Cancel`. The clock is a tick counter; timers may fire late by any
amount. Costs are small naturals. No caller in the engine passes an estimated cost, so a
reservation reserves one call and no money.

**AcpSession** is `AcpProvider.invoke` with its three threads. The calling thread sends a
request, receives, answers what the child asks, cancels with a grace period and closes; a
reader publishes what the child writes into a bounded queue, waiting while it is full and
giving up only when the connection is closed, and a writer takes from another queue. The child
writes up to `MaxMessages` messages of its choice, stops reading, exits, or leaves a
descendant that keeps the pipes open. `owed`, `said`, `written` and `final` are history.

**Routing** holds the pure part of a run's start: `Baseline` is `adaptive_preset`,
`PanelRank` is `panel_rank`, `Resolve` is `resolve_route`, `Routes` is `_resolve_route` with
its packs. A panel is its structure; a preset is its strength and its panel.

**RunPreparation** is `_prepare`, in the order of the code: route, self identity, snapshot,
secret scan, packet, dispatch, attestation of the calls, analysis, grounding,
degradation, and the three files and two records that end it. `build_snapshot` and
`assert_snapshot_fresh` are walks (`scan`) that list one directory or read one file per
step, so that `Edit` comes in between; every edit writes a content that the file never had,
because a hash cannot tell an edit that was undone from no edit. A dispatch is one step
with any statuses (BudgetDispatch has its inside, where a delivered result is final), except that
nothing completes once the deadline has passed; `JudgePair` is one pair of `run_panel_rank` in both orders. `reasons` is
the list `degradation`. `MustRaise` lists the conditions under which the code raises by
itself, `MayRaise` is a prompt that does not fit. `Kill` may come anywhere.

**ProofExecution** is one proof run, `run_proof` and what it calls: the checks of intent,
policy and runner, the hash of the overlay and of every declared revision, and then for
each revision the staging, file by file, the overlay, the command and its
classification. A file is listed before it is read, a hash *is* the tree it was computed from, and
`Edit` may change any root between two reads. What the runner reports is a record of
exit code, deadline, truncation, declared class and the features of the text that the
classification looks for; `Classify` is the order in which it looks. `Publish` ends
the run with a capsule, or throws it away for a key or an intent found wanting so late.

**CommandRunner** is `CommandRunner.run`: the calling thread (`poll`, `late`, `kill`, `wait`, `kill
again`, `wait again`, `join`, `text`, `flags`), which polls the child once more before it kills the
group (`CheckChild`, `KillGroup`), a reader per pipe over a sink that keeps the tail, the
feeder of stdin, and a child that writes, exits and spawns as it likes; `kin` are its living
descendants, in the process group or `escaped` from it, and `doomed` is what `killpg`
reached. `SlowThreads` lets a join time out on a thread that no process keeps waiting.
`survivors` and `wrote` are history. **Grounding** is `run_grounding` on top of it: what policy
refuses, what is left of the run's budget, and the verdict.

**ReviewAnalysis** holds the pure part between the answers and the receipt: `Participant`,
the findings with their contradictions and consensus, `AttachGrounding`, `AttachProofs`,
`Automatic`, `CanReconcile` and `Reconcile`. Participants, findings, candidates and results are
sets: a participant is named by its handle and a finding by its source and its number there, which also
give the order of the lists in the code. **ArtifactContracts** holds the two contracts,
`contracts.py` with the packaged schemas (`ValidAnalysis`, `Linked`) and the scripts of the repository
(`ScriptsAccept`). **RunArtifacts** composes them as the engine does: calls, analysis, grounding with
its cache, validation, dispositions, receipt. Each step happens once there, over every
kind of data; that several processes attempt them and crash is Finalization's part.

The `MC...` modules only give constants their values. `MCRunPreparation` takes handles,
panels, presets and packs from `default_config.json` and adds panels a user may write: two
handles of one model, one handle twice, a dual review of one, a second reviewer that `review` never calls, a
disabled panel, an advisor, a council of three. `MCRunArtifacts` lists eleven routes, sixteen
reviews and five outcomes of a verification; `MCProofExecution` and `MCGrounding` list the
requests they start from.

## Runs

| run | instance | what it shows |
|---|---|---|
| `EvidenceLedger` | three threads in two processes, two entries, calls while the file has fewer than two lines, cut lines are torn | `OneChain`, `AckedDurable`, `ImplementsLog`, and under fairness `AppendEnds` |
| `ReceiptChain` | two processes, three runs, calls of `verify_chain` one after the other | `HeadIsCurrent` and `VerifiedWhilePersisting` until an operator deletes a leaked lock, `ReturnedStays` always, `PersistEnds` |
| `Finalization` | a cross-model panel or an advisor, engine and operator, two calls of `finalize`, crashes and faults, three capsules of two proofs, one confirms | `RecordsAgree`, `AcceptedProofsCount`, `RecoverableUntilCompleted`, `FinalizedIsFinal` |
| `FinalizationAutomatic` | every kind of run (192), every judgement of two findings, a valid and an invalid capsule, no faults | `AutomaticRunRecorded` |
| `FinalizationRejectedMajor` | a self-driven run with one major finding, every judgement | **violated**: `ResumableCanFinish` |
| `RunPreparation` | 25 requests over eleven panels; two files, edits during one of the requests, three candidates with two verifications | `FrozenExisted`, `NotStale`, `UndegradedIsEarned`, `SensitiveReviewedTwice` |
| `RunPreparationCouncil` | the default external council | **violated**: `FailureIsRecorded` |
| `BudgetDispatch` | three requests, two slots, two calls, cost limit 3, costs 1, 2 or unknown, wallclock 2 | `ReservationsSettled`, `CostsAddUp`, `CompletedInTime`, `DispatchEnds` |
| `AcpSession` | queues of one, four messages of the child, descendants may escape | `OutputComplete`, `RequestsAnswered`, `CallEnds` |
| `ProofExecution` | 25 requests, two files, an overlay of one, every report of a runner, two edits during two of the requests | `ObservedTreeIsDeclared`, `VerdictIsEarned`, `ObservationsAccepted` |
| `Grounding` | eight candidates, one pipe of one chunk, a sink of one, two chunks, exit codes 0, 1 and -9 | `OutputIsWhole`, `KilledTreeIsGone`, `ConfirmedIsShown`, `GroundingEnds` |
| `RunArtifacts` | eleven routes, sixteen reviews, five outcomes of a verification, four sets of capsules, every disposition | `RefusedOnlyFor`, `DissentIsKept`, `ShipIsEarned`, `ScriptsAgree` |

EvidenceLedger, ReceiptChain, RunPreparation, BudgetDispatch and ProofExecution check their
type invariant too.

Why the bounds suffice. In the ledger two threads share a process (they meet at the
mutex) and a third meets them at the lock file; two records give a predecessor, a tail
and a write on top of damage. The bound guards calls and not writes, so threads already
inside still write: the file reaches three and more lines. Proofs remove the bound
altogether. In the receipt store two processes suffice for every conflict over a lock of
two states, and three runs give a chain with an inner link. In Finalization the engine
and an operator are the two rivals for the flock, and with `MaxCalls = 2` every crash
point of one attempt is followed by a complete retry with other arguments; `capsule1` and
`capsule1b` carry one proof id and `capsule2` another, so reuse, union and conflict all
occur. In BudgetDispatch three requests over two slots leave one in the queue, over two
calls leave one refused, and two answers in flight overrun the cost limit. In AcpSession
queues of one are full as soon as anything waits, and four messages are the three
responses of a call and one more, wherever the child puts it. In RunPreparation two files
in two directories are what a torn read needs (one read before an edit, one after), and
the edits reach a file that is created, changed and deleted again; edits disturb one
request (`Edited`), because the walks do not look at the panel. `SensitiveReviewedTwice`
gets every way to name a panel: preset, explicit panel, and pack. Two candidates share a
verification, which is what the cache of results needs.

In ProofExecution an overlay that replaces one of two files leaves one that it must not
touch; a third content does not decode as text; the runner's report is free (every exit
code the code tells apart, every set of text features), because the classification is where a
wrong order of its branches would hide. Edits disturb two requests, as they meet the reads
and not the classification. In Grounding a sink of one chunk cuts the second, a pipe of one blocks
the writer, and the two chunks may be the expected text and a complaint in either order. In
RunArtifacts the routes are the default panels and those a user may write that change what the
contract sees: one family, two models of one family, an advisor, a named panel, a
cost limit, a call budget below the panel, and a second reviewer that nobody asks.

`CHECK_DEADLOCK FALSE` appears only where the modelled work really ends (all results
delivered, all bounded calls made, the run recorded).

## Fairness

The operating system runs every thread, so each model assumes weak fairness of a
process's own steps as one action, and nothing about which of several outcomes it gets.
The polls of both lock files end at a deadline, which the models show as a timeout
that is enabled while the lock is held; hence `AppendEnds` and `PersistEnds` hold although a
leaked lock is never broken. `AppendEnds` also needs strong fairness of `TakeMutex`: the
`threading.Lock` is taken without a timeout and released infinitely often, and a waiting
thread is assumed to get it sometimes. BudgetDispatch assumes that time passes and
that the event loop runs; providers owe nothing. AcpSession assumes that its three threads
run and that the deadline comes; a read or a write that waits for the child is not fair,
since the child owes nothing. Grounding assumes that the calling thread goes on, that the deadline
comes, and that a thread goes on once no process keeps it waiting; nothing is fair about the child
and its descendants, which may write, hang or hold the pipes for ever. `AutomaticRunRecorded`
is checked without faults, rivals or crashes: it is about the data, and a crashed attempt
ends. RunPreparation, ProofExecution and RunArtifacts state no liveness, and nobody waits for `verify_chain`. Calls, crashes, operators and
edits are never assumed to happen.

## Proofs

Each proof module holds for any value of the constants that satisfies the named ASSUMEs of its
module, which TLC evaluates in the runs. None of the bounds on the state is used in a proof,
except where a variable's type names it.

**The evidence ledger** (`EvidenceLedgerProofs`), for any set of threads, processes and entries:

- `LedgerType`, `LedgerOneChain`: type correctness, and the file is one chain. `OneChain`
  alone is not inductive: it needs that at most one thread is past the lock file
  (`LockInv`), that a thread inside holds its process's mutex and has an entry (`JobInv`),
  and that the base a thread verified is still the file's length and tail (`BaseInv`).
  These hold even with short writes and bare lines.
- `LedgerDurable`, `LedgerSyncedNeverChanges`: under `CleanCuts` (cut lines are torn and writes
  are complete) acknowledged records stay, and synced lines never change. `CleanCuts` is
  needed: with `ShortWrites = TRUE` TLC finds an acknowledged record that is not whole in the
  file, and a bare line is continued by the next append.
- `LedgerImplementsLog`: under `CleanCuts` the initial state maps to the initial state of
  AppendOnlyLog, and every step to one of its steps or a stutter.

**The receipt store** (`ReceiptChainProofs`), for any set of processes and runs:

- `ReceiptChainType`: type correctness, late interrupts included.
- `ChainAlwaysVerifies`: what the store holds passes the checks of `verify_chain` at every moment
  (`ChainVerifies`), where `LateInterrupts = FALSE`. `verify_chain` follows
  predecessors from the head and compares what it meets with what is there. The invariant
  (`ChainInv`) names that walk before anybody makes it: the receipts are an injective
  sequence in which each names the one before it and the first names nothing (`IsChain`). A persist
  appends a receipt (`ChainGrows`), a rollback takes the last one off (`ChainShrinks`), and
  `AncestorsOfHead` shows that the recursive function of the model, for which there is no
  induction here, returns just that sequence: there is no least number of steps at which the
  two differ.
- `ReaderSeesOneChain`: `VerifiedWhilePersisting`, under the same hypothesis. What a call of `verify_chain`
  reads was not the store's content at any one moment: a receipt may be written after its directory was
  looked into, and be missing, while a later one is found. The invariant (`SoundInv`) says that, as long as
  no rollback disturbs the call, what it took and what it will still find leave out no predecessor, the one
  that a process inside is about to write included. At the end that is all it has read, and receipts
  of the chain that leave out no predecessor are an earlier state of it (`ClosedIsVerified`).
- `ReturnedReceiptsStay`, `HeadStaysCurrent`, `ReturnedReceiptsKeepTheirLink`: no returned receipt
  is taken away, `HeadIsCurrent`, and `ReturnedStays`, where `LateInterrupts = FALSE`.
  The hypothesis is needed: with `LateInterrupts = TRUE` TLC finds a chain whose head was
  rolled back. The invariant `IInv` adds that the lock's holder
  is the only process inside (`LockInv`); that whatever the chain mentions has a
  directory, so that `mkdir` refuses to use it again (`FilesInv`); that a process inside
  works on a run that the chain does not mention yet, linked to the present head
  (`WorkInv`); that no returned receipt is already a successor of the head (`ReturnedInv`); and that the
  receipts but the one about to become the head have exactly the head as their end, until
  somebody deletes a leaked lock (`HeadInv`).

**Finalization** (`FinalizationProofs`), for any number of processes, calls, findings and capsules,
with crashes and failures anywhere; `ValueAssumption` says that the value for "no receipt" or "no
dispositions" is neither a receipt nor the dispositions of all findings:

- `FinalizationRecords`, `FinalizationProofsCount`, `FinalizationFinal`: `RecordsAgree`,
  `AcceptedProofsCount` and `FinalizedIsFinal`. The invariant says of every attempt (`AttemptInv`)
  that it holds the flock and found a bound run that is not finalized (`Locked`); that the
  capsules it attaches are the accepted ones and those it still has to record, all authentic and
  one per proof id (`Attaches`); and that the signoff, the completion, the receipt and the
  terminal event it has come past are there and about its own analysis (`Recorded`). That analysis
  has exactly those capsules and dismisses no confirmed finding (`PayloadInv`). `BindInv` keeps
  the engine from binding a run that is finalized already. A step of one process leaves the
  claims of all others (`Frame`, `OthersKeep`), because ledger and journal only grow, a receipt
  stays, and only the holder of the flock accepts capsules or finalizes.
- `FinalizationRecovers`: `RecoverableUntilCompleted`, both ways: until a completion is journalled the
  automatic reconciliation finalizes a bound run exactly if `Recordable` says that the receipt store
  accepts runs of its kind. `Recordable` names the panel, the context and the degradation, and no receipt;
  an undegraded advisor run is `Recordable` only if it ends blocked. It needs that whatever a crash leaves can be
  taken up again (`RecoverInv`): a bound run has its pending state, an accepted capsule
  has its file, an attempt about to record a capsule has stored it, and only an attempt that
  journalled its completion can leave the chain lock behind.

**The dispatch** (the last part of `RunPreparationProofs`, about BudgetDispatch), for any finite set of
requests, any limits and any lateness of the timers:

- `DispatchType`, `DispatchSettles`, `DispatchInTime`: type correctness, `ReservationsSettled` and
  `CompletedInTime`. Every step is a refusal, a return or an entry of one request, or a tick of the
  clock (`StepIs`); the invariant adds that a request which waits for the semaphore has reserved
  nothing, and that only reservations are settled (`WaitingInv`).
- `DispatchCosts`: `CostsAddUp`. A sum over a set is a fold, which chooses the order; `TotalIs`
  shows that it is the number of units of cost (`Units`, the pairs of a request and a number
  below its cost), whatever the order, and cardinality gives what a return adds to it. `CostInv` adds
  that whoever has not returned has reported nothing.
- `DispatchDelivers`, `DispatchIsFinal`: a request is done with exactly when it has its one result, and no
  late answer changes a result or its charge. Therefore RunPreparation may show a whole dispatch as one step.

**The ACP session** (`AcpSessionProofs`), for queues of any size and any number of messages of a
child that writes what it likes; `NoneAssumption` says that no status is the value for none:

- `SessionType`: type correctness, in which both queues keep their bound.
- `SessionOutput`: `OutputComplete`. The parts that the call kept, the messages in the queue and the
  one a waiting reader holds are one stream without a gap: the updates before a message, and
  before what the child writes next, are counted along it (`StreamInv`). A failure that the
  queue holds ends the claim, as it ends the call; no status is set before the call stops (`StatusInv`).
- `SessionAnswers`: `RequestsAnswered`, because a call that listens on, or stops without an
  error, owes no answer, and only a call that stops says that it cancels (`AnswerInv`).

**Run preparation** (`RunPreparationProofs`), for any configuration, request, tree, number of edits
and answers. `RoutingAssumption` and `RequestAssumption` say what a configuration and a request are
made of; the handles are finitely many:

- `PreparationType`: type correctness. `RecordInv` says which keys are journalled at which stage and in
  which state of the run, so that no key is journalled twice.
- `SnapshotExisted`: `FrozenExisted`, although the walks read file by file. A version that is overwritten
  or deleted never comes back. So a tree that holds whatever of the manifest the last walk has seen
  or could still see (`Matches`) keeps doing so with every step of the walk and every edit, and at its end
  holds all of the manifest. For each file that the manifest lacks there is such a tree without it,
  once the walk has come past its directory (`Passed`, `RecheckInv`).
- `UndegradedIsFresh`: `NotStale`, from the same invariant for the last walk.
- `UndegradedEarned`: `UndegradedIsEarned`. `PlanInv` follows the plan from the route to the calls,
  `OutcomeInv` the judgements of the pairs, and `ReasonInv` says what an empty list of
  reasons means at each stage. That the winner is beaten by nobody follows from the order in
  which the pairs are compared (`WinsAreBeaten`).
- `SensitiveReviewed`: `SensitiveReviewedTwice`, by going through every way a route is resolved
  (`ResolveIs`, `RoutesAre`, `TwoModels`).
- `PreparationRecords`: `RecordsTell`, about a preparation that raised or was killed anywhere: no call
  without its journalled start, no file before the dispatch ended and was analysed, no `pending-state`
  record before `pending.json`, and no announcement before that record, in the order in which
  Finalization starts from them. `PlaceTells` says the same of each stage.

**The proof run** (`ProofExecutionProofs`), for any files, roots, edits and reports of a runner:

- `ProofRunAccepted`, `ProofRunVerdict`: `ClassifySound` follows every branch of the classification
  in its order (`FirstBranch`, `BranchesApply`, `BranchesSay`) and shows that whatever
  a runner reports becomes a record that its own constructor accepts and that shows only what
  the branch stands for; the decision over those records is then `VerdictIsEarned`.
- `ProofRunType`, `ProofRunTree`: type correctness and `ObservedTreeIsDeclared`. The
  invariant adds that a revision is left while one is staged (`LeftInv`), that nothing is observed before the manifest is
  frozen (`FreshInv`), that what has been laid over a workspace is what the manifest lists, so far
  (`OverlayInv`), that the workspace under it is the tree that was hashed (`StageInv`), and that an
  observation says `pass` or `fail` exactly if the output shows it (`ShownInv`).

**The command runner and grounding** (`GroundingProofs`), for any pipes, chunks, limits, exit codes
and candidates:

- `GroundingKills`: `KilledTreeIsGone`, because only the deadline kills, always the whole group, and
  nothing is left unkilled after it but by a child that ended by itself between two polls (`TimeoutInv`).
- `GroundingOutput`: `OutputIsWhole`, from three invariants: what was written to a stream is what
  the sink dropped, what it keeps and what is still unread, in this order (`StreamInv`); what
  was returned stays a piece of it (`PieceInv`); and if nobody outlived the wait, every reader has read to the
  end by the time its sink is taken, and nothing is written after (`WholeInv`).
- `GroundingConfirms`: `ConfirmedIsShown`, from the former and the order of the judgement.
  This and `GroundingOutput` assume `SlowThreads = FALSE`: with `SlowThreads = TRUE` TLC finds a join
  that times out on a reader with work to do, and an output that is short but not marked.
- `GroundingVerdicts`, `GroundingIsFinal`, without that assumption: what a verdict says of the returned outcome
  (`VerdictSays`), which is what RunArtifacts assumes of the exit codes and times of its verdicts; and no verdict
  is taken back.

**The artifacts of a run** (`RunArtifactsProofs`), for any routes, answers, outcomes of a verification and
capsules. The assumptions are what the code has checked before: `RouteAssumption` what the loading of a panel and
`context_quorum` guarantee, `ReviewAssumption` the reviewer-output schema, `VerdictAssumption` how `run_grounding`
judges an outcome, `CapsuleAssumption` the constructor and the checks of `attach_proof_capsules`; `NoneAssumption`
says that the value for none is no text and no id.

- `ArtifactsRefused`: `RefusedOnlyFor`, both ways: `ValidIff` and `LinkedIff` reduce each contract, applied
  to what the engine built, to the reasons listed in `Unusable` and `Unrecordable`.
- `ArtifactsDissent`: `DissentIsKept`. The findings of an analysis are those of the answers that completed
  (`AllIsSaid`), although a participant with several calls is represented by one; so the sources and stances
  that are compared there are those of the reviewers (`ConsensusIs`, `ContradictionIs`).
- `ArtifactsShip`: `ShipIsEarned`, from what is recorded backwards: the verdict names the effect
  (`StateIs`), the effect an analysis with a complete context and settled recommendations (`EffectIs`), and
  the contract the findings it counted (`CountIs`).
- `ArtifactsScripts`: `ScriptsAgree`. `UndisputedIs` says what a run outside `Disputed` is like; under it each
  condition of the scripts follows from the contract that the receipt has already met (the
  `ScriptsAccept...` lemmas).

None of the four is inductive. `IInv` follows the data: a result is a call as it may have ended, and only a judge
has several (`CallInv`); an analysis keeps what it was built of, in whatever order it is grounded, proved and
disposed of (`BuiltInv`); its findings are those that were said, each once, grounded exactly if an
execution confirmed them and then not dismissed (`FindingInv`); each result belongs to one candidate and
says what its execution says (`ResultInv`); and the effect is what the findings make of it (`EffectInv`). `OutcomeInv`
keeps what a contract decided.

Only model-checked is every liveness property (`AppendEnds`, `PersistEnds`, `FinalizationAutomatic`'s
`AutomaticRunRecorded`, `DispatchEnds`, `CallEnds`, `GroundingEnds`), because the prover does not reach
liveness under fairness. Two further properties, `ResumableCanFinish` and `FailureIsRecorded`, are false of the code (see
[Findings](#findings)).

## Findings

1. `engine.py:451` journals the completion before the receipt is accepted. A rejected or
   waived major finding gives verdict `ship`, which the contract refuses, and the
   journalled completion conflicts with every other judgement
   (`FinalizationRejectedMajor`).
2. `engine.py:768`: a panel-rank run with a failed proposer never calls its judge, the analysis
   then holds an empty call id, and validation raises: the paid calls leave no pending
   state and no receipt (`RunPreparationCouncil`).

## Behaviour a reader should know

The models contain what the code does in the following places, where no document or test of the
repository speaks against it clearly enough to call it a finding.

Before a receipt:

- The reviewer-output schema admits an empty `evidence.summary`, `stance_key` and `verification_id`,
  which the analysis schema refuses: such an answer loses the run after its calls were paid. So does a
  `review` panel with two reviewers, of which only the first is asked. Both are `Unusable` in RunArtifacts.
- Any cost limit makes every call fail, because no provider reports costs and `budget.py:90` takes an unknown
  cost for a breach.
- A call that breaks its cost or output bound fails but keeps its effective model; a call that the
  budget refused counts as used. The receipt contract refuses both, as it refuses an undegraded advisor run that
  ships or asks for revision (`Unrecordable`; `Recordable` in Finalization).
- Runs count as cross-model by families (`engine.py:1399`), while `docs/architecture.md:83` speaks of
  canonical model identities; the engine fuses one family, the contract refuses it.
- A finding that an execution confirmed ships when it is minor and its disposition is `deadlock`. Two
  participants that are both `uncertain` form a corroborated consensus.
- A grounding that policy refuses leaves no reason of degradation (`README.md:16` mentions groundings
  that could not execute), and a truncated output can confirm one. The `ProviderError` of a command that cannot start
  leaves `_ground` and `run_proof` uncaught.
- The receipt contract speaks only after `engine.py:451` has journalled the completion, so that no
  later call finishes a run it refuses. An undegraded, external-only advisor run that ships meets this
  inside `run` itself.
- `verify_chain` may raise although the store is sound: a persist that is rolled back after
  `receipt.py:119` has found its receipt and before `receipt.py:120` reads it takes the file away; and if the
  run is persisted again before its directory is looked into, its receipt may name one whose directory
  was not listed. The command line calls `verify_chain` at any time (`cli.py:427`); no document says what it may answer then.
- A child that ends by itself between the poll that finds it running at its deadline and the poll of
  `_terminate_tree` leaves its descendants alive (`process.py:202`); the command counts as a timeout, and
  its output is not called truncated, although they may go on writing.
- A crash between the receipt and the terminal event (`engine.py:499`) leaves a fused receipt to which no retry can add the
  event.

Between the program and the scripts of the repository (`Disputed` in RunArtifacts): the scripts refuse failed
participants, candidates outside the registry, results without an integer exit code, findings grounded by a
proof, one source twice in a contradiction, a wallclock other than finish minus start, the advisor among the expected
participants, a self model that has no profile, and named panels; they count results where the
program counts findings, and call a run cross-model by models.

Two faults need a switch that the passing runs leave off: `evidence.py:133` ignores the count
`os.write` returns, so that a short write is acknowledged (`ShortWrites`); and `receipt.py:101` rolls back a
receipt that the head may already name, after which `verify_chain` fails for good
(`LateInterrupts`).

## What is not modelled

Text (packets, prompts, redaction, parsing of model output), argument building of the
providers, HTTP, the inside of sandboxes, offline statistics, reports, and the check that the files of the
repository are there and mention each other: their correctness is about strings or about other
programs. Inside the modelled parts: file limits, exclusions and links of a snapshot, the loading
and signing of configurations, the preflight of ACP configuration files, the Windows job object, the advisor and the
prompt sizes of a dispatch, the step names and the summary of the journal, and the fields that an
analysis and a receipt both copy from one profile. Precedent memory is a ledger of its own that no decision
of a run depends on. `PROJECT.json` gives the reason for each component.

## Where to go on

1. The journal as its readers see it: `record` called by processes the flock does not
   serialize, and `summary`, which must not report a finalized run as waiting.
2. `Precedent`: the latest outcome wins, whatever is recorded again.
3. The links between the modules, which are made by hand: that a ledger or journal append is one step of
   Finalization, a dispatch one step of RunPreparation, and the verdicts and capsules of RunArtifacts those that Grounding
   and ProofExecution end with. The theorems that license each are there; refinement mappings would state them.
