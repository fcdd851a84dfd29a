------------------------- MODULE FinalizationProofs -------------------------
(***************************************************************************)
(* Proofs about Finalization, for any number of processes, calls, findings *)
(* and capsules, with crashes and failures anywhere: the records of a run  *)
(* agree, no accepted proof is lost, and a finalized run stays as it is.   *)
(***************************************************************************)
EXTENDS Finalization, WellFoundedInduction, TLAPS

-----------------------------------------------------------------------------
(* Types *)

Places == {"analysed", "unbound", "bound", "idle", "called", "locked", "accepting", "written",
           "started", "reconciled", "signed", "completed", "persisted", "ended"}

Payloads == [analysis : Analyses, automatic : BOOLEAN, count : {Cardinality(F) : F \in SUBSET Finding}]

Records == [kind : {"pending-state"}, of : {NoValue}]
           \cup [kind : {"proof-capsule"}, of : Capsule]
           \cup [kind : {"signoff"}, of : Payloads]

Events == [key : {"waiting", "automatic", "started", "completed", "terminal"} \X SUBSET Capsule,
           payload : {NoValue} \cup [analysis : Analyses, signoff : Nat] \cup Receipts]

Works == [capsules : SUBSET Capsule, payload : Payloads \cup {NoValue}, degraded : BOOLEAN, signoff : Nat]

Types ==
  /\ run \in Runs /\ fresh \in BOOLEAN
  /\ pc \in [Caller -> Places]
  /\ input \in [Caller -> Input] /\ todo \in [Caller -> SUBSET Capsule] /\ work \in [Caller -> Works]
  /\ evidence \in Seq(Records) /\ journal \in Seq(Events)
  /\ receipt \in Receipts \cup {NoValue}
  /\ \A p \in Caller : pc[p] = "written" => todo[p] # {}

Judged == {"reconciled", "signed", "completed", "persisted", "ended"}

\* Whoever has judged works on what the judgement came to.
PayloadInv ==
  \A p \in Caller : pc[p] \in Judged =>
    LET payload == work[p].payload
    IN  /\ payload \in Payloads /\ payload.analysis.capsules = work[p].capsules
        /\ \A f \in Confirmed(work[p].capsules) : payload.analysis.status[f] \notin {"rejected", "waived"}

-----------------------------------------------------------------------------
(* Data *)

\* The analysis of a judgement that reconcile_analysis takes keeps what was proved.
LEMMA JudgedPayload ==
  ASSUME NEW in \in Input, NEW caps \in SUBSET Capsule, Judgeable(in, caps)
  PROVE  LET payload == Signoff(in, caps, Dispositions(in, caps))
         IN  /\ payload \in Payloads /\ payload.analysis.capsules = caps
             /\ \A f \in Confirmed(caps) : payload.analysis.status[f] \notin {"rejected", "waived"}
<1> DEFINE d == Dispositions(in, caps)
           status == Status(caps, d)
<1>1. d # NoValue /\ CanReconcile(caps, d, Degraded)
  BY DEF Judgeable
<1>2. DOMAIN d \subseteq Finding /\ \A f \in DOMAIN d : d[f] \in Disposition
  <2>1. CASE in.judgement # NoValue
    <3>1. d \in Judgement
      BY <2>1 DEF Dispositions, Input
    <3> QED
      BY <3>1, FindingAssumption
  <2>2. CASE in.judgement = NoValue
    <3>1. d = Automatic(caps)
      BY <1>1, <2>2 DEF Dispositions
    <3> QED
      BY <3>1 DEF Automatic, Disposition
  <2> QED
    BY <2>1, <2>2
<1>3. \A f \in Confirmed(caps) \cap DOMAIN d : d[f] \notin {"rejected", "waived"}
  BY <1>1 DEF CanReconcile
<1> HIDE DEF d
<1>4. status \in [Finding -> Disposition \cup {"grounded", "open"}]
  BY <1>2 DEF Status
<1>5. \A f \in Confirmed(caps) : status[f] \notin {"rejected", "waived"}
  <2>1. Confirmed(caps) \subseteq Finding
    BY FindingAssumption, CapsuleAssumption DEF Confirmed
  <2> QED
    BY <1>3, <2>1 DEF Status
<1> HIDE DEF status
<1>6. Analysis(caps, d) = [capsules |-> caps, status |-> status]
  BY DEF Analysis, status
<1>7. Signoff(in, caps, d) = [analysis |-> [capsules |-> caps, status |-> status],
                             automatic |-> in.automatic, count |-> Cardinality(DOMAIN d)]
  BY <1>6 DEF Signoff
<1>8. /\ in.automatic \in BOOLEAN
      /\ Cardinality(DOMAIN d) \in {Cardinality(F) : F \in SUBSET Finding}
  BY <1>2 DEF Input
<1> QED
  BY <1>4, <1>5, <1>7, <1>8 DEF d, Payloads, Analyses

\* A receipt of a judged analysis is one.
LEMMA ReceiptIs ==
  ASSUME NEW w \in Works, w.payload \in Payloads, run \in Runs
  PROVE  /\ Receipt(w) \in Receipts
         /\ Receipt(w).analysis = w.payload.analysis /\ Receipt(w).signoff = w.signoff
<1>1. Verdict(w.payload.analysis.status, w.degraded) \in {"degraded", "blocked", "revise", "ship"}
  BY DEF Verdict
<1>2. run.context \in BOOLEAN /\ (run.panel # "advisor") \in BOOLEAN /\ w.degraded \in BOOLEAN
  BY RunAssumption DEF Works
<1>3. (~w.degraded /\ run.context /\ run.panel # "advisor") \in BOOLEAN
  BY <1>2
<1>4. w.payload.analysis \in Analyses /\ w.signoff \in Nat
  BY DEF Payloads, Works
<1> QED
  BY <1>1, <1>3, <1>4 DEF Receipt, Receipts

\* The journal only grows, and holds the event that was to be recorded.
LEMMA AppendOnceIs ==
  ASSUME journal \in Seq(Events), NEW e \in Events, AppendOnce(e)
  PROVE  /\ journal' \in Seq(Events)
         /\ \A i \in DOMAIN journal : i \in DOMAIN journal' /\ journal'[i] = journal[i]
         /\ \A i \in DOMAIN journal' : journal'[i] = e \/ (i \in DOMAIN journal /\ journal'[i] = journal[i])
         /\ \E i \in DOMAIN journal' : journal'[i] = e
<1>1. CASE Journalled(e)
  BY <1>1 DEF AppendOnce, Journalled
<1>2. CASE ~Journalled(e)
  <2>1. journal' = Append(journal, e)
    BY <1>2 DEF AppendOnce
  <2>2. Len(journal') = Len(journal) + 1 /\ journal'[Len(journal) + 1] = e
    BY <2>1
  <2> QED
    BY <2>1, <2>2
<1> QED
  BY <1>1, <1>2

\* The ledger only grows.
LEMMA AppendIs ==
  ASSUME evidence \in Seq(Records), NEW r \in Records, evidence' = Append(evidence, r)
  PROVE  /\ evidence' \in Seq(Records)
         /\ \A i \in DOMAIN evidence : i \in DOMAIN evidence' /\ evidence'[i] = evidence[i]
         /\ \A i \in DOMAIN evidence' : evidence'[i] = r \/ (i \in DOMAIN evidence /\ evidence'[i] = evidence[i])
         /\ Len(evidence) + 1 \in DOMAIN evidence' /\ evidence'[Len(evidence) + 1] = r
<1>1. Len(evidence') = Len(evidence) + 1 /\ evidence'[Len(evidence) + 1] = r
  OBVIOUS
<1> QED
  BY <1>1

LEMMA LeastIs ==
  ASSUME NEW S \in SUBSET Nat, S # {}
  PROVE  \E i \in S : \A j \in S : i <= j
<1>1. PICK i \in S : \A j \in S : ~(<<j, i>> \in OpToRel(<, Nat))
  BY NatLessThanWellFounded, WFMin
<1>2. \A j \in S : ~(j < i)
  BY <1>1 DEF OpToRel
<1> QED
  BY <1>2

\* The signoff of an attempt is in the ledger: an earlier one, or a new one.
LEMMA SignOffIs ==
  ASSUME Types, NEW p \in Caller, SignOff(p), work[p].payload \in Payloads
  PROVE  /\ evidence' = evidence \/ evidence' = Append(evidence, Record("signoff", work[p].payload))
         /\ \E n \in Nat : /\ work' = [work EXCEPT ![p].signoff = n]
                           /\ n \in DOMAIN evidence' /\ evidence'[n] = Record("signoff", work[p].payload)
<1> DEFINE I == SignoffIndexes(work[p].payload)
<1>0. \A i \in I : i \in DOMAIN evidence /\ i \in Nat /\ evidence[i] = Record("signoff", work[p].payload)
  <2> TAKE i \in I
  <2>1. i \in DOMAIN evidence /\ evidence[i].kind = "signoff" /\ evidence[i].of = work[p].payload
    BY DEF SignoffIndexes
  <2>2. i \in Nat /\ evidence[i] \in Records
    BY <2>1 DEF Types
  <2>3. evidence[i] = [kind |-> evidence[i].kind, of |-> evidence[i].of]
    BY <2>2 DEF Records
  <2> QED
    BY <2>1, <2>2, <2>3 DEF Record
<1>1. CASE I # {}
  <2> DEFINE first == CHOOSE i \in I : \A j \in I : i <= j
  <2>1. first \in I
    <3>1. \E i \in I : \A j \in I : i <= j
      BY <1>0, <1>1, LeastIs
    <3> QED
      BY <3>1
  <2>2. evidence' = evidence /\ work' = [work EXCEPT ![p].signoff = first]
    BY <1>1 DEF SignOff
  <2> HIDE DEF first
  <2> QED
    BY <1>0, <2>1, <2>2
<1>2. CASE I = {}
  <2> DEFINE n == Len(evidence) + 1
             r == Record("signoff", work[p].payload)
  <2>1. evidence' = Append(evidence, r) /\ work' = [work EXCEPT ![p].signoff = n]
    BY <1>2 DEF SignOff
  <2>2. r \in Records /\ n \in Nat
    BY DEF Types, Record, Records
  <2>3. n \in DOMAIN evidence' /\ evidence'[n] = r
    BY <2>1, <2>2, AppendIs DEF Types
  <2> QED
    BY <2>1, <2>2, <2>3
<1> QED
  BY <1>1, <1>2

-----------------------------------------------------------------------------
(* What a step changes *)

\* A process that leaves a call.
Leaves(p) ==
  /\ pc' = [pc EXCEPT ![p] = "idle"] /\ flock' = IF flock = p THEN NoValue ELSE flock
  /\ input' = [input EXCEPT ![p] = NoInput] /\ todo' = [todo EXCEPT ![p] = {}]
  /\ work' = [work EXCEPT ![p] = NoWork]
  /\ UNCHANGED <<run, evidence, journal>>

\* It fails, it dies while its receipt is stored, or its run is finalized.
Quits(p) == UNCHANGED <<fresh, receipt, capsuleFiles, finalized>>
Stores(p) ==
  /\ pc[p] = "completed" /\ receipt = NoValue /\ receipt' \in {NoValue, Receipt(work[p])}
  /\ UNCHANGED <<fresh, capsuleFiles, finalized>>
Finalizes(p) == pc[p] = "ended" /\ finalized' = receipt /\ UNCHANGED <<fresh, receipt, capsuleFiles>>

LEMMA StepIs ==
  ASSUME [Next]_vars
  PROVE  \/ UNCHANGED <<run, pc, local, flock, evidence, journal, receipt, capsuleFiles, finalized>> /\ (fresh' = fresh \/ fresh' = ~fresh)
         \/ WritePending \/ BindPending \/ Announce
         \/ \E p \in Caller :
              \/ Leaves(p) /\ (Quits(p) \/ Stores(p) \/ Finalizes(p))
              \/ \E in \in Input : Call(p, in)
              \/ TakeLock(p) \/ Load(p) \/ WriteCapsule(p) \/ RecordCapsule(p) \/ Start(p)
              \/ Reconcile(p) \/ SignOff(p) \/ Complete(p) \/ Persist(p) \/ Terminal(p)
<1>1. ASSUME NEW p \in Caller, LockBusy(p) \/ LoadFails(p) \/ ReconcileFails(p) \/ CompleteFails(p) \/ PersistFails(p) \/ Crash(p)
      PROVE  Leaves(p) /\ Quits(p)
  BY <1>1 DEF LockBusy, LoadFails, ReconcileFails, CompleteFails, PersistFails, Crash, Fail, Finish, disk, Leaves, Quits
<1>2. ASSUME NEW p \in Caller, CrashInPersist(p)
      PROVE  Leaves(p) /\ Stores(p)
  BY <1>2 DEF CrashInPersist, CanPersist, Finish, Leaves, Stores
<1>3. ASSUME NEW p \in Caller, WriteFinalized(p)
      PROVE  Leaves(p) /\ Finalizes(p)
  BY <1>3 DEF WriteFinalized, Finish, Leaves, Finalizes
<1>4. CASE EditTree \/ UNCHANGED vars
  BY <1>4 DEF EditTree, vars, disk
<1> QED
  BY <1>1, <1>2, <1>3, <1>4 DEF Next, Prepare, Step

LEMMA InitTypes ==
  ASSUME Init
  PROVE  Types /\ PayloadInv
<1>1. NoInput \in Input /\ NoWork \in Works
  BY DEF NoInput, Input, NoWork, Works
<1> QED
  BY <1>1 DEF Init, Types, PayloadInv, Places, Judged

\* A step keeps the types, and a judgement is made of the work it came to.
LEMMA NextTypes ==
  ASSUME Types, PayloadInv, [Next]_vars
  PROVE  Types' /\ PayloadInv'
<1> USE DEF Goto, Places, Judged
<1>1. CASE UNCHANGED <<run, pc, local, flock, evidence, journal, receipt, capsuleFiles, finalized>> /\ (fresh' = fresh \/ fresh' = ~fresh)
  BY <1>1 DEF Types, PayloadInv, local
<1>2. CASE WritePending
  BY <1>2 DEF WritePending, Types, PayloadInv, local
<1>3. CASE BindPending
  <2>1. Record("pending-state", NoValue) \in Records
    BY DEF Record, Records
  <2>2. evidence' \in Seq(Records)
    BY <1>3, <2>1, AppendIs DEF BindPending, Types
  <2> QED
    BY <1>3, <2>2 DEF BindPending, Types, PayloadInv, local
<1>4. CASE Announce
  <2>1. Event(IF RequiresSelf THEN "waiting" ELSE "automatic", {}, NoValue) \in Events
    BY DEF Event, Events
  <2>2. journal' \in Seq(Events)
    BY <1>4, <2>1, AppendOnceIs DEF Announce, Types
  <2>3. NoInput \in Input /\ AutomaticInput \in Input
    BY DEF NoInput, AutomaticInput, Input
  <2>4. input' \in [Caller -> Input] /\ pc' \in [Caller -> Places]
    BY <1>4, <2>3, CallerAssumption DEF Announce, Types
  <2> QED
    BY <1>4, <2>2, <2>4, CallerAssumption DEF Announce, Types, PayloadInv
<1>5. ASSUME NEW p \in Caller, Leaves(p), Quits(p) \/ Stores(p) \/ Finalizes(p)
      PROVE  Types' /\ PayloadInv'
  <2>1. NoInput \in Input /\ NoWork \in Works
    BY DEF NoInput, Input, NoWork, Works
  <2>2. receipt' \in Receipts \cup {NoValue}
    <3>1. CASE Stores(p)
      <4>1. work[p] \in Works /\ work[p].payload \in Payloads /\ run \in Runs
        BY <3>1 DEF Stores, Types, PayloadInv
      <4> QED
        BY <3>1, <4>1, ReceiptIs DEF Stores
    <3> QED
      BY <1>5, <3>1 DEF Quits, Finalizes, Types
  <2> QED
    BY <1>5, <2>1, <2>2 DEF Leaves, Quits, Stores, Finalizes, Types, PayloadInv
<1>6. ASSUME NEW p \in Caller, NEW in \in Input, Call(p, in)
      PROVE  Types' /\ PayloadInv'
  BY <1>6 DEF Call, disk, Types, PayloadInv
<1>7. ASSUME NEW p \in Caller, TakeLock(p)
      PROVE  Types' /\ PayloadInv'
  BY <1>7 DEF TakeLock, disk, local, Types, PayloadInv
<1>8. ASSUME NEW p \in Caller, Load(p)
      PROVE  Types' /\ PayloadInv'
  <2>1. input[p].capsules \subseteq Capsule /\ Accepted \cup input[p].capsules \subseteq Capsule
    BY <1>8, CapsuleAssumption DEF Load, Acceptable
  <2>2. todo' \in [Caller -> SUBSET Capsule] /\ work' \in [Caller -> Works]
    BY <1>8, <2>1 DEF Load, Types, Works
  <2> QED
    BY <1>8, <2>2 DEF Load, disk, Types, PayloadInv
<1>9. ASSUME NEW p \in Caller, WriteCapsule(p)
      PROVE  Types' /\ PayloadInv'
  BY <1>9 DEF WriteCapsule, local, Types, PayloadInv
<1>10. ASSUME NEW p \in Caller, RecordCapsule(p)
       PROVE  Types' /\ PayloadInv'
  <2>1. NextCapsule(p) \in Capsule
    BY <1>10 DEF RecordCapsule, NextCapsule, Types
  <2>2. Record("proof-capsule", NextCapsule(p)) \in Records
    BY <2>1 DEF Record, Records
  <2>3. evidence' \in Seq(Records)
    BY <1>10, <2>2, AppendIs DEF RecordCapsule, Types
  <2> QED
    BY <1>10, <2>3 DEF RecordCapsule, Types, PayloadInv
<1>11. ASSUME NEW p \in Caller, Start(p)
       PROVE  Types' /\ PayloadInv'
  <2>1. Event("started", work[p].capsules, NoValue) \in Events
    BY DEF Event, Events, Types, Works
  <2>2. journal' \in Seq(Events)
    BY <1>11, <2>1, AppendOnceIs DEF Start, Types
  <2> QED
    BY <1>11, <2>2 DEF Start, local, Types, PayloadInv
<1>12. ASSUME NEW p \in Caller, Reconcile(p)
       PROVE  Types' /\ PayloadInv'
  <2> DEFINE caps == work[p].capsules
             payload == Signoff(input[p], caps, Dispositions(input[p], caps))
  <2>1. caps \in SUBSET Capsule /\ input[p] \in Input /\ Judgeable(input[p], caps)
    BY <1>12 DEF Reconcile, Types, Works
  <2>2. /\ payload \in Payloads /\ payload.analysis.capsules = caps
        /\ \A f \in Confirmed(caps) : payload.analysis.status[f] \notin {"rejected", "waived"}
    BY <2>1, JudgedPayload
  <2>3. Degraded \in BOOLEAN
    BY RunAssumption DEF Degraded, Types
  <2>4. work' = [work EXCEPT ![p].payload = payload, ![p].degraded = Degraded]
    BY <1>12 DEF Reconcile
  <2> HIDE DEF payload
  <2>5. /\ work' \in [Caller -> Works]
        /\ work'[p].payload = payload /\ work'[p].capsules = caps
        /\ \A q \in Caller \ {p} : work'[q] = work[q]
    BY <2>2, <2>3, <2>4 DEF Types, Works
  <2>6. pc' = [pc EXCEPT ![p] = "reconciled"] /\ UNCHANGED <<run, fresh, disk, input, todo>>
    BY <1>12 DEF Reconcile
  <2>7. Types'
    BY <2>5, <2>6 DEF disk, Types
  <2>8. ASSUME NEW q \in Caller, pc'[q] \in Judged
        PROVE  /\ work'[q].payload \in Payloads /\ work'[q].payload.analysis.capsules = work'[q].capsules
               /\ \A f \in Confirmed(work'[q].capsules) :
                    work'[q].payload.analysis.status[f] \notin {"rejected", "waived"}
    <3>1. CASE q = p
      BY <2>2, <2>5, <3>1
    <3>2. CASE q # p
      <4>1. pc[q] \in Judged /\ work'[q] = work[q]
        BY <2>5, <2>6, <2>8, <3>2 DEF Types
      <4> QED
        BY <4>1 DEF PayloadInv
    <3> QED
      BY <3>1, <3>2
  <2> QED
    BY <2>7, <2>8 DEF PayloadInv, Confirmed
<1>13. ASSUME NEW p \in Caller, SignOff(p)
       PROVE  Types' /\ PayloadInv'
  <2>1. work[p].payload \in Payloads
    BY <1>13 DEF SignOff, PayloadInv
  <2>2. evidence' \in Seq(Records)
    <3>1. Record("signoff", work[p].payload) \in Records
      BY <2>1 DEF Record, Records
    <3> QED
      BY <1>13, <3>1, AppendIs DEF SignOff, Types
  <2>3. PICK n \in Nat : work' = [work EXCEPT ![p].signoff = n]
    BY <1>13, <2>1, SignOffIs
  <2>4. /\ work' \in [Caller -> Works]
        /\ \A q \in Caller : work'[q].payload = work[q].payload /\ work'[q].capsules = work[q].capsules
    BY <2>3 DEF Types, Works
  <2> QED
    BY <1>13, <2>2, <2>4 DEF SignOff, Types, PayloadInv, Confirmed
<1>14. ASSUME NEW p \in Caller, Complete(p)
       PROVE  Types' /\ PayloadInv'
  <2>1. Completion(work[p].payload, work[p].signoff) \in Events
    BY <1>14 DEF Complete, Completion, Event, Events, PayloadInv, Payloads, Types, Works
  <2>2. journal' \in Seq(Events)
    BY <1>14, <2>1, AppendOnceIs DEF Complete, Types
  <2> QED
    BY <1>14, <2>2 DEF Complete, local, Types, PayloadInv
<1>15. ASSUME NEW p \in Caller, Persist(p)
       PROVE  Types' /\ PayloadInv'
  <2>1. work[p] \in Works /\ work[p].payload \in Payloads /\ run \in Runs
    BY <1>15 DEF Persist, Types, PayloadInv
  <2>2. receipt' \in Receipts
    BY <1>15, <2>1, ReceiptIs DEF Persist
  <2> QED
    BY <1>15, <2>2 DEF Persist, local, Types, PayloadInv
<1>16. ASSUME NEW p \in Caller, Terminal(p)
       PROVE  Types' /\ PayloadInv'
  <2>1. Event("terminal", {}, receipt) \in Events
    BY DEF Event, Events, Types
  <2>2. journal' \in Seq(Events)
    BY <1>16, <2>1, AppendOnceIs DEF Terminal, Types
  <2> QED
    BY <1>16, <2>2 DEF Terminal, local, Types, PayloadInv
<1> QED
  BY <1>1, <1>2, <1>3, <1>4, <1>5, <1>6, <1>7, <1>8, <1>9, <1>10, <1>11, <1>12, <1>13, <1>14, <1>15, <1>16, StepIs

-----------------------------------------------------------------------------
(* The inductive invariant *)

Signed == {"signed", "completed", "persisted", "ended"}
Completed == {"completed", "persisted", "ended"}
Persisted == {"persisted", "ended"}
Started == {"started"} \cup Judged
Working == {"accepting", "written"} \cup Started
Inside == {"locked"} \cup Working

\* Who is inside holds the flock; who works found a bound run that is not finalized.
Locked(p) ==
  /\ pc[p] \in Inside => flock = p
  /\ pc[p] \in Working => Has("pending-state") /\ finalized = NoValue

\* The capsules an attempt attaches are those that are accepted and those it still has
\* to record.
Attaches(p) ==
  pc[p] \in Working =>
    /\ Accepted \cup todo[p] = work[p].capsules
    /\ work[p].capsules \subseteq Valid /\ OneCapsulePerProof(work[p].capsules)
    /\ pc[p] \in Started => todo[p] = {}

\* What an attempt has recorded so far is there.
Recorded(p) ==
  /\ pc[p] \in Signed => /\ work[p].signoff \in DOMAIN evidence
                         /\ evidence[work[p].signoff] = Record("signoff", work[p].payload)
  /\ pc[p] \in Completed => Journalled(Completion(work[p].payload, work[p].signoff))
  /\ pc[p] \in Persisted => receipt # NoValue /\ receipt.analysis = work[p].payload.analysis
  /\ pc[p] = "ended" => Journalled(Event("terminal", {}, receipt))

Attempt(p) == Locked(p) /\ Attaches(p) /\ Recorded(p)

AttemptInv == \A p \in Caller : Attempt(p)

BindInv == pc[Engine] \in {"analysed", "unbound"} => ~Has("pending-state")

AcceptInv == Accepted \subseteq Valid /\ OneCapsulePerProof(Accepted)

ReceiptInv ==
  receipt # NoValue =>
    /\ receipt.signoff \in DOMAIN evidence
    /\ evidence[receipt.signoff].kind = "signoff"
    /\ evidence[receipt.signoff].of.analysis = receipt.analysis
    /\ Journalled(Event("completed", {}, [analysis |-> receipt.analysis, signoff |-> receipt.signoff]))

TerminalInv ==
  \A i \in DOMAIN journal :
    journal[i].key[1] = "terminal" => receipt # NoValue /\ journal[i].payload = receipt

FinalInv ==
  finalized # NoValue =>
    /\ Has("pending-state") /\ finalized = receipt
    /\ \E i \in DOMAIN journal : journal[i].key[1] = "terminal"
    /\ receipt.analysis.capsules = Accepted
    /\ \A f \in Confirmed(Accepted) : receipt.analysis.status[f] \notin {"rejected", "waived"}

IInv ==
  /\ Types /\ PayloadInv /\ AttemptInv /\ BindInv
  /\ AcceptInv /\ ReceiptInv /\ TerminalInv /\ FinalInv

-----------------------------------------------------------------------------
(* What one process does to the others *)

\* One more record in the ledger.
LEMMA AppendedIs ==
  ASSUME evidence \in Seq(Records), NEW r \in Records, evidence' = Append(evidence, r)
  PROVE  /\ Accepted' = IF r.kind = "proof-capsule" THEN Accepted \cup {r.of} ELSE Accepted
         /\ Has("pending-state")' <=> (Has("pending-state") \/ r.kind = "pending-state")
<1>1. /\ \A i \in DOMAIN evidence : i \in DOMAIN evidence' /\ evidence'[i] = evidence[i]
      /\ \A i \in DOMAIN evidence' : evidence'[i] = r \/ (i \in DOMAIN evidence /\ evidence'[i] = evidence[i])
      /\ \E i \in DOMAIN evidence' : evidence'[i] = r
  BY AppendIs
<1>2. Accepted' = {evidence'[i].of : i \in {n \in DOMAIN evidence' : evidence'[n].kind = "proof-capsule"}}
  BY DEF Accepted
<1>3. Accepted = {evidence[i].of : i \in {n \in DOMAIN evidence : evidence[n].kind = "proof-capsule"}}
  BY DEF Accepted
<1>4. Accepted' \subseteq IF r.kind = "proof-capsule" THEN Accepted \cup {r.of} ELSE Accepted
  BY <1>1, <1>2, <1>3
<1>5. (IF r.kind = "proof-capsule" THEN Accepted \cup {r.of} ELSE Accepted) \subseteq Accepted'
  BY <1>1, <1>2, <1>3
<1>6. Has("pending-state")' <=> (Has("pending-state") \/ r.kind = "pending-state")
  BY <1>1 DEF Has
<1> QED
  BY <1>4, <1>5, <1>6

EvidenceGrows == \A i \in DOMAIN evidence : i \in DOMAIN evidence' /\ evidence'[i] = evidence[i]
JournalGrows == \A i \in DOMAIN journal : i \in DOMAIN journal' /\ journal'[i] = journal[i]

\* A step of p leaves the others where they are; what they recorded stays; and only
\* the holder of the flock accepts capsules or finalizes.
Frame(p) ==
  /\ \A q \in Caller \ {p} : /\ pc'[q] = pc[q] /\ work'[q] = work[q] /\ todo'[q] = todo[q]
                             /\ flock = q => flock' = q
  /\ EvidenceGrows /\ JournalGrows
  /\ receipt # NoValue => receipt' = receipt
  /\ Has("pending-state") => Has("pending-state")'
  /\ Accepted' = Accepted \/ flock = p
  /\ finalized' = finalized \/ flock = p

LEMMA OthersKeep ==
  ASSUME IInv, NEW p \in Caller, NEW q \in Caller \ {p}, Frame(p)
  PROVE  Attempt(q)'
<1>1. /\ pc'[q] = pc[q] /\ work'[q] = work[q] /\ todo'[q] = todo[q]
      /\ flock = q => flock' = q
  BY DEF Frame
<1>2. Attempt(q)
  BY DEF IInv, AttemptInv
<1>3. Locked(q)' /\ (pc[q] \in Working => Accepted' = Accepted)
  <2>1. pc[q] \in Working => flock = q
    BY <1>2 DEF Attempt, Locked, Inside
  <2>2. pc[q] \in Working => Accepted' = Accepted /\ finalized' = finalized
    BY <2>1 DEF Frame
  <2> QED
    BY <1>1, <1>2, <2>1, <2>2 DEF Attempt, Locked, Frame
<1>4. Attaches(q)'
  <2>1. /\ pc[q] \in Working => Accepted' = Accepted
        /\ Attaches(q)
    BY <1>2, <1>3 DEF Attempt
  <2> QED
    BY <1>1, <2>1 DEF Attaches, OneCapsulePerProof
<1>5. Recorded(q)'
  <2>2. pc[q] \in Persisted => receipt' = receipt
    BY <1>2 DEF Attempt, Recorded, Frame
  <2>3. pc[q] \in Signed => /\ work[q].signoff \in DOMAIN evidence'
                           /\ evidence'[work[q].signoff] = Record("signoff", work[q].payload)
    BY <1>2 DEF Attempt, Recorded, Frame, EvidenceGrows
  <2>4. pc[q] \in Completed =>
          \E i \in DOMAIN journal' : journal'[i] = Completion(work[q].payload, work[q].signoff)
    <3>1. pc[q] \in Completed => Journalled(Completion(work[q].payload, work[q].signoff))
      BY <1>2 DEF Attempt, Recorded
    <3> QED
      BY <3>1 DEF Frame, JournalGrows, Journalled
  <2>5. pc[q] = "ended" => Journalled(Event("terminal", {}, receipt))'
    <3>1. pc[q] = "ended" => Journalled(Event("terminal", {}, receipt)) /\ receipt' = receipt
      BY <1>2, <2>2 DEF Attempt, Recorded, Persisted
    <3> QED
      BY <3>1 DEF Frame, JournalGrows, Journalled, Event
  <2>6. pc[q] \in Persisted => receipt # NoValue /\ receipt.analysis = work[q].payload.analysis
    BY <1>2 DEF Attempt, Recorded
  <2> QED
    BY <1>1, <2>2, <2>3, <2>4, <2>5, <2>6 DEF Recorded, Completion, Event, Journalled
<1> QED
  BY <1>3, <1>4, <1>5 DEF Attempt

\* Steps that record nothing.
LEMMA QuietSteps ==
  ASSUME IInv, NEW p \in Caller,
         \/ p = Engine /\ WritePending
         \/ \E in \in Input : Call(p, in)
         \/ TakeLock(p) \/ Load(p) \/ WriteCapsule(p) \/ Reconcile(p)
  PROVE  Frame(p) /\ Attempt(p)'
<1> USE DEF Goto, Inside, Working, Started, Judged, Signed, Completed, Persisted
<1>1. Types /\ Attempt(p)
  BY DEF IInv, AttemptInv
<1>2. /\ UNCHANGED <<evidence, journal, receipt, finalized>>
      /\ flock' = flock \/ (flock = NoValue /\ flock' = p)
      /\ \A q \in Caller \ {p} : pc'[q] = pc[q] /\ work'[q] = work[q] /\ todo'[q] = todo[q]
  BY <1>1 DEF WritePending, Call, TakeLock, Load, WriteCapsule, Reconcile, disk, local, Types
<1>3. Accepted' = Accepted /\ Has("pending-state")' = Has("pending-state")
  BY <1>2 DEF Accepted, Has
<1>4. Frame(p)
  BY <1>2, <1>3, CallerAssumption DEF Frame, EvidenceGrows, JournalGrows
<1>5. CASE (p = Engine /\ WritePending) \/ (\E in \in Input : Call(p, in)) \/ TakeLock(p)
  <2>1. /\ pc'[p] \in {"unbound", "called", "locked"}
        /\ pc'[p] = "locked" => flock' = p
    BY <1>1, <1>5 DEF WritePending, Call, TakeLock, Types
  <2>2. Locked(p)'
    BY <2>1 DEF Locked
  <2>3. Attaches(p)' /\ Recorded(p)'
    BY <2>1 DEF Attaches, Recorded
  <2> QED
    BY <1>4, <2>2, <2>3 DEF Attempt
<1>6. CASE Load(p)
  <2>1. /\ pc'[p] = "accepting" /\ flock' = p
        /\ todo'[p] = input[p].capsules \ Accepted
        /\ work'[p].capsules = Accepted \cup input[p].capsules
    BY <1>1, <1>6 DEF Load, Types, Works, Attempt, Locked
  <2>2. Acceptable(input[p])
    BY <1>6 DEF Load
  <2>3. Locked(p)'
    BY <1>2, <1>3, <2>1, <2>2 DEF Locked, Acceptable
  <2>4. Attaches(p)'
    BY <1>3, <2>1, <2>2 DEF Attaches, Acceptable, OneCapsulePerProof
  <2>5. Recorded(p)'
    BY <2>1 DEF Recorded
  <2> QED
    BY <1>4, <2>3, <2>4, <2>5 DEF Attempt
<1>7. CASE WriteCapsule(p)
  <2>1. pc'[p] = "written" /\ flock' = flock /\ todo' = todo /\ work' = work /\ pc[p] = "accepting"
    BY <1>1, <1>7 DEF WriteCapsule, Types, local
  <2>2. Locked(p)'
    BY <1>1, <1>2, <1>3, <2>1 DEF Attempt, Locked
  <2>3. Attaches(p)'
    BY <1>1, <1>3, <2>1 DEF Attempt, Attaches, OneCapsulePerProof
  <2>4. Recorded(p)'
    BY <2>1 DEF Recorded
  <2> QED
    BY <1>4, <2>2, <2>3, <2>4 DEF Attempt
<1>8. CASE Reconcile(p)
  <2>1. /\ pc'[p] = "reconciled" /\ flock' = flock /\ todo' = todo /\ pc[p] = "started"
        /\ work'[p].capsules = work[p].capsules
    BY <1>1, <1>8 DEF Reconcile, Types, Works
  <2>2. Locked(p)'
    BY <1>1, <1>2, <1>3, <2>1 DEF Attempt, Locked
  <2>3. Attaches(p)'
    BY <1>1, <1>3, <2>1 DEF Attempt, Attaches, OneCapsulePerProof
  <2>4. Recorded(p)'
    BY <2>1 DEF Recorded
  <2> QED
    BY <1>4, <2>2, <2>3, <2>4 DEF Attempt
<1> QED
  BY <1>5, <1>6, <1>7, <1>8

\* Who leaves has nothing left to claim.
LEMMA LeavingSteps ==
  ASSUME IInv, NEW p \in Caller, Leaves(p), Quits(p) \/ Stores(p) \/ Finalizes(p)
  PROVE  Frame(p) /\ Attempt(p)'
<1>1. Types /\ Attempt(p)
  BY DEF IInv, AttemptInv
<1>2. /\ UNCHANGED <<evidence, journal>> /\ pc'[p] = "idle"
      /\ \A q \in Caller \ {p} : pc'[q] = pc[q] /\ work'[q] = work[q] /\ todo'[q] = todo[q]
                                 /\ (flock = q => flock' = q)
  BY <1>1 DEF Leaves, Types
<1>3. Accepted' = Accepted /\ Has("pending-state")' = Has("pending-state")
  BY <1>2 DEF Accepted, Has
<1>4. receipt # NoValue => receipt' = receipt
  BY DEF Quits, Stores, Finalizes
<1>5. finalized' = finalized \/ flock = p
  BY <1>1 DEF Quits, Stores, Finalizes, Attempt, Locked, Inside, Working, Started, Judged
<1>6. Frame(p)
  BY <1>2, <1>3, <1>4, <1>5 DEF Frame, EvidenceGrows, JournalGrows
<1>7. Locked(p)'
  BY <1>2 DEF Locked, Inside, Working, Started, Judged
<1>8. Attaches(p)' /\ Recorded(p)'
  BY <1>2 DEF Attaches, Recorded, Working, Started, Judged, Signed, Completed, Persisted
<1> QED
  BY <1>6, <1>7, <1>8 DEF Attempt

\* Steps that append to the ledger.
LEMMA BindStep ==
  ASSUME IInv, BindPending
  PROVE  Frame(Engine) /\ Attempt(Engine)'
<1>1. Types /\ Engine \in Caller
  BY CallerAssumption DEF IInv
<1> DEFINE r == Record("pending-state", NoValue)
<1>2. r \in Records /\ evidence' = Append(evidence, r) /\ r.kind = "pending-state"
  BY DEF BindPending, Record, Records
<1> HIDE DEF r
<1>3. EvidenceGrows /\ Accepted' = Accepted /\ Has("pending-state")'
  BY <1>1, <1>2, AppendIs, AppendedIs DEF Types, EvidenceGrows
<1>4. /\ UNCHANGED <<flock, journal, receipt, finalized, work, todo>>
      /\ pc'[Engine] = "bound" /\ \A q \in Caller \ {Engine} : pc'[q] = pc[q]
  BY <1>1 DEF BindPending, Goto, local, Types
<1>5. Frame(Engine)
  BY <1>3, <1>4 DEF Frame, JournalGrows
<1>6. Locked(Engine)'
  BY <1>4 DEF Locked, Inside, Working, Started, Judged
<1>7. Attaches(Engine)' /\ Recorded(Engine)'
  BY <1>4 DEF Attaches, Recorded, Working, Started, Judged, Signed, Completed, Persisted
<1> QED
  BY <1>5, <1>6, <1>7 DEF Attempt

LEMMA RecordStep ==
  ASSUME IInv, NEW p \in Caller, RecordCapsule(p)
  PROVE  /\ Frame(p) /\ Attempt(p)'
         /\ Accepted' \subseteq Valid /\ OneCapsulePerProof(Accepted')
         /\ finalized = NoValue
<1>1. Types /\ Attempt(p)
  BY DEF IInv, AttemptInv
<1> DEFINE c == NextCapsule(p)
           r == Record("proof-capsule", c)
<1>2. c \in todo[p] /\ c \in Capsule
  BY <1>1 DEF RecordCapsule, Goto, NextCapsule, Types
<1>3. /\ pc[p] = "written" /\ pc'[p] = "accepting" /\ \A q \in Caller \ {p} : pc'[q] = pc[q]
      /\ todo'[p] = todo[p] \ {c} /\ \A q \in Caller \ {p} : todo'[q] = todo[q]
      /\ UNCHANGED <<flock, journal, receipt, finalized, work>>
      /\ evidence' = Append(evidence, r)
  BY <1>1 DEF RecordCapsule, Goto, Types
<1> HIDE DEF c
<1>4. r \in Records /\ r.kind = "proof-capsule" /\ r.of = c
  BY <1>2 DEF Record, Records
<1> HIDE DEF r
<1>5. /\ EvidenceGrows /\ Accepted' = Accepted \cup {c}
      /\ Has("pending-state")' <=> Has("pending-state")
  BY <1>1, <1>3, <1>4, AppendIs, AppendedIs DEF Types, EvidenceGrows
<1>6. Locked(p) /\ Attaches(p) /\ pc[p] \in Working /\ pc[p] \in Inside
  BY <1>1, <1>3 DEF Attempt, Working, Inside
<1>7. flock = p /\ Has("pending-state") /\ finalized = NoValue
  BY <1>6 DEF Locked
<1>8. /\ Accepted \cup todo[p] = work[p].capsules
      /\ work[p].capsules \subseteq Valid /\ OneCapsulePerProof(work[p].capsules)
  BY <1>6 DEF Attaches
<1>9. Frame(p)
  BY <1>3, <1>5, <1>7 DEF Frame, JournalGrows
<1>10. Locked(p)'
  BY <1>3, <1>5, <1>7 DEF Locked
<1>11. Attaches(p)'
  <2>1. Accepted' \cup todo'[p] = work[p].capsules
    BY <1>2, <1>3, <1>5, <1>8
  <2> QED
    BY <1>3, <1>8, <2>1 DEF Attaches, Started, Judged, OneCapsulePerProof
<1>12. Recorded(p)'
  BY <1>3 DEF Recorded, Signed, Completed, Persisted
<1>13. Accepted' \subseteq Valid /\ OneCapsulePerProof(Accepted')
  BY <1>2, <1>5, <1>8 DEF OneCapsulePerProof
<1> QED
  BY <1>7, <1>9, <1>10, <1>11, <1>12, <1>13 DEF Attempt

LEMMA SignStep ==
  ASSUME IInv, NEW p \in Caller, SignOff(p)
  PROVE  Frame(p) /\ Attempt(p)' /\ Accepted' = Accepted /\ (Has("pending-state")' <=> Has("pending-state"))
<1>1. Types /\ PayloadInv /\ Attempt(p)
  BY DEF IInv, AttemptInv
<1>2. /\ pc[p] = "reconciled" /\ pc'[p] = "signed" /\ \A q \in Caller \ {p} : pc'[q] = pc[q]
      /\ UNCHANGED <<flock, journal, receipt, finalized, todo>>
  BY <1>1 DEF SignOff, Goto, Types
<1>3. work[p].payload \in Payloads
  BY <1>1, <1>2 DEF PayloadInv, Judged
<1> DEFINE r == Record("signoff", work[p].payload)
<1>4. r \in Records /\ r.kind = "signoff"
  BY <1>3 DEF Record, Records
<1>5. PICK n \in Nat : /\ work' = [work EXCEPT ![p].signoff = n]
                       /\ n \in DOMAIN evidence' /\ evidence'[n] = r
  BY <1>1, <1>3, SignOffIs
<1>6. evidence' = evidence \/ evidence' = Append(evidence, r)
  BY <1>1, <1>3, SignOffIs
<1>7. /\ work'[p].signoff = n /\ work'[p].payload = work[p].payload /\ work'[p].capsules = work[p].capsules
      /\ \A q \in Caller \ {p} : work'[q] = work[q]
  BY <1>1, <1>5 DEF Types, Works
<1> HIDE DEF r
<1>8. EvidenceGrows /\ Accepted' = Accepted /\ (Has("pending-state")' <=> Has("pending-state"))
  <2>1. CASE evidence' = evidence
    BY <2>1 DEF EvidenceGrows, Accepted, Has
  <2>2. CASE evidence' = Append(evidence, r)
    BY <1>1, <1>4, <2>2, AppendIs, AppendedIs DEF Types, EvidenceGrows
  <2> QED
    BY <1>6, <2>1, <2>2
<1>9. Frame(p)
  BY <1>2, <1>7, <1>8 DEF Frame, JournalGrows
<1>10. Locked(p)'
  BY <1>1, <1>2, <1>8 DEF Attempt, Locked, Inside, Working, Started, Judged
<1>11. Attaches(p)'
  BY <1>1, <1>2, <1>7, <1>8 DEF Attempt, Attaches, OneCapsulePerProof, Working, Started, Judged
<1>12. Recorded(p)'
  BY <1>2, <1>5, <1>7 DEF r, Recorded, Signed, Completed, Persisted
<1> QED
  BY <1>8, <1>9, <1>10, <1>11, <1>12 DEF Attempt

\* Steps that append to the journal: what they record, and that it is recorded.
JournalStep(p, e) ==
  /\ e \in Events /\ AppendOnce(e)
  /\ \/ /\ p = Engine /\ e.key[1] \in {"waiting", "automatic"}
        /\ pc[p] = "bound" /\ pc'[p] \in {"idle", "called"}
     \/ /\ pc[p] = "accepting" /\ pc'[p] = "started" /\ todo[p] = {}
        /\ e.key[1] = "started"
     \/ /\ pc[p] = "signed" /\ pc'[p] = "completed"
        /\ e = Completion(work[p].payload, work[p].signoff) /\ e.key[1] = "completed"
     \/ /\ pc[p] = "persisted" /\ pc'[p] = "ended"
        /\ e = Event("terminal", {}, receipt) /\ e.key[1] = "terminal" /\ e.payload = receipt
  /\ \A q \in Caller \ {p} : pc'[q] = pc[q]
  /\ UNCHANGED <<flock, evidence, receipt, finalized, todo, work>>

LEMMA JournalStepIs ==
  ASSUME IInv
  PROVE  /\ Announce => \E e : JournalStep(Engine, e)
         /\ \A p \in Caller : Start(p) \/ Complete(p) \/ Terminal(p) => \E e : JournalStep(p, e)
<1> USE DEF Goto
<1>1. Types /\ PayloadInv
  BY DEF IInv
<1>2. ASSUME Announce
      PROVE  \E e : JournalStep(Engine, e)
  <2> DEFINE e == Event(IF RequiresSelf THEN "waiting" ELSE "automatic", {}, NoValue)
  <2>1. e \in Events /\ e.key[1] \in {"waiting", "automatic"}
    BY DEF Event, Events
  <2>2. AppendOnce(e)
    BY <1>2 DEF Announce
  <2> HIDE DEF e
  <2>3. /\ pc[Engine] = "bound" /\ pc'[Engine] \in {"idle", "called"}
        /\ \A q \in Caller \ {Engine} : pc'[q] = pc[q]
        /\ UNCHANGED <<flock, evidence, receipt, finalized, todo, work>>
    BY <1>1, <1>2, CallerAssumption DEF Announce, Types
  <2> QED
    BY <2>1, <2>2, <2>3 DEF JournalStep
<1>3. ASSUME NEW p \in Caller, Start(p)
      PROVE  \E e : JournalStep(p, e)
  <2> DEFINE e == Event("started", work[p].capsules, NoValue)
  <2>1. e \in Events /\ e.key[1] = "started"
    BY <1>1 DEF Event, Events, Types, Works
  <2>2. AppendOnce(e)
    BY <1>3 DEF Start
  <2> HIDE DEF e
  <2>3. /\ pc[p] = "accepting" /\ pc'[p] = "started" /\ todo[p] = {}
        /\ \A q \in Caller \ {p} : pc'[q] = pc[q]
        /\ UNCHANGED <<flock, evidence, receipt, finalized, todo, work>>
    BY <1>1, <1>3 DEF Start, Types, local
  <2> QED
    BY <2>1, <2>2, <2>3 DEF JournalStep
<1>4. ASSUME NEW p \in Caller, Complete(p)
      PROVE  \E e : JournalStep(p, e)
  <2> DEFINE e == Completion(work[p].payload, work[p].signoff)
  <2>1. e \in Events /\ e.key[1] = "completed"
    BY <1>1, <1>4 DEF Complete, Completion, Event, Events, PayloadInv, Judged, Payloads, Types, Works
  <2>2. AppendOnce(e)
    BY <1>4 DEF Complete
  <2>3. /\ pc[p] = "signed" /\ pc'[p] = "completed"
        /\ \A q \in Caller \ {p} : pc'[q] = pc[q]
        /\ UNCHANGED <<flock, evidence, receipt, finalized, todo, work>>
    BY <1>1, <1>4 DEF Complete, Types, local
  <2> QED
    BY <2>1, <2>2, <2>3 DEF JournalStep
<1>5. ASSUME NEW p \in Caller, Terminal(p)
      PROVE  \E e : JournalStep(p, e)
  <2> DEFINE e == Event("terminal", {}, receipt)
  <2>1. e \in Events /\ e.key[1] = "terminal" /\ e.payload = receipt
    BY <1>1 DEF Event, Events, Types
  <2>2. AppendOnce(e)
    BY <1>5 DEF Terminal
  <2>3. /\ pc[p] = "persisted" /\ pc'[p] = "ended"
        /\ \A q \in Caller \ {p} : pc'[q] = pc[q]
        /\ UNCHANGED <<flock, evidence, receipt, finalized, todo, work>>
    BY <1>1, <1>5 DEF Terminal, Types, local
  <2> QED
    BY <2>1, <2>2, <2>3 DEF JournalStep
<1> QED
  BY <1>2, <1>3, <1>4, <1>5

LEMMA JournalSteps ==
  ASSUME IInv, NEW p \in Caller, NEW e, JournalStep(p, e)
  PROVE  Frame(p) /\ Attempt(p)' /\ Accepted' = Accepted /\ (Has("pending-state")' <=> Has("pending-state"))
<1>1. Types /\ Attempt(p)
  BY DEF IInv, AttemptInv
<1>2. JournalGrows /\ \E i \in DOMAIN journal' : journal'[i] = e
  BY <1>1, AppendOnceIs DEF JournalStep, Types, JournalGrows
<1>3. UNCHANGED <<flock, evidence, receipt, finalized, todo, work>>
  BY DEF JournalStep
<1>4. Accepted' = Accepted /\ (Has("pending-state")' <=> Has("pending-state")) /\ EvidenceGrows
  BY <1>3 DEF Accepted, Has, EvidenceGrows
<1>5. Frame(p)
  BY <1>2, <1>3, <1>4 DEF Frame, JournalStep
<1>6. pc'[p] \in Inside => pc[p] \in Working /\ pc'[p] \in Working
  BY DEF JournalStep, Inside, Working, Started, Judged
<1>7. Locked(p)'
  BY <1>1, <1>3, <1>4, <1>6 DEF Attempt, Locked, Inside
<1>8. Attaches(p)'
  <2>1. pc'[p] \in Working => pc[p] \in Working
    BY <1>6 DEF Inside
  <2>2. pc'[p] \in Started => pc[p] \in Started \/ todo[p] = {}
    BY DEF JournalStep, Started, Judged
  <2> QED
    BY <1>1, <1>3, <1>4, <2>1, <2>2 DEF Attempt, Attaches, OneCapsulePerProof
<1>9. Recorded(p)'
  <2> USE DEF Signed, Completed, Persisted
  <2>1. Recorded(p)
    BY <1>1 DEF Attempt
  <2>2. CASE pc'[p] \in {"idle", "called", "started"}
    BY <2>2 DEF Recorded
  <2>3. CASE pc'[p] = "completed"
    <3>1. pc[p] = "signed" /\ e = Completion(work[p].payload, work[p].signoff)
      BY <2>3 DEF JournalStep
    <3>2. Journalled(Completion(work[p].payload, work[p].signoff))'
      BY <1>2, <1>3, <3>1 DEF Journalled, Completion, Event
    <3> QED
      BY <1>3, <2>1, <2>3, <3>1, <3>2 DEF Recorded
  <2>4. CASE pc'[p] = "ended"
    <3>1. pc[p] = "persisted" /\ e = Event("terminal", {}, receipt)
      BY <2>4 DEF JournalStep
    <3>2. Journalled(Event("terminal", {}, receipt))'
      BY <1>2, <1>3, <3>1 DEF Journalled, Event
    <3>3. Journalled(Completion(work[p].payload, work[p].signoff))'
      <4>1. Journalled(Completion(work[p].payload, work[p].signoff))
        BY <2>1, <3>1 DEF Recorded
      <4> QED
        BY <1>2, <1>3, <4>1 DEF Journalled, JournalGrows, Completion, Event
    <3> QED
      BY <1>3, <2>1, <2>4, <3>1, <3>2, <3>3 DEF Recorded
  <2> QED
    BY <2>2, <2>3, <2>4 DEF JournalStep
<1> QED
  BY <1>4, <1>5, <1>7, <1>8, <1>9 DEF Attempt

LEMMA PersistStep ==
  ASSUME IInv, NEW p \in Caller, Persist(p)
  PROVE  Frame(p) /\ Attempt(p)' /\ Accepted' = Accepted /\ (Has("pending-state")' <=> Has("pending-state"))
<1>1. Types /\ PayloadInv /\ Attempt(p)
  BY DEF IInv, AttemptInv
<1>2. /\ pc[p] = "completed" /\ pc'[p] = "persisted" /\ \A q \in Caller \ {p} : pc'[q] = pc[q]
      /\ receipt = NoValue /\ receipt' = Receipt(work[p])
      /\ UNCHANGED <<flock, evidence, journal, finalized, todo, work>>
  BY <1>1 DEF Persist, Goto, CanPersist, Types, local
<1>3. work[p] \in Works /\ work[p].payload \in Payloads /\ run \in Runs
  BY <1>1, <1>2 DEF Types, PayloadInv, Judged
<1>4. receipt' \in Receipts /\ receipt'.analysis = work[p].payload.analysis
  BY <1>2, <1>3, ReceiptIs
<1>5. receipt' # NoValue
  BY <1>4, ValueAssumption
<1>6. Accepted' = Accepted /\ (Has("pending-state")' <=> Has("pending-state")) /\ EvidenceGrows /\ JournalGrows
  BY <1>2 DEF Accepted, Has, EvidenceGrows, JournalGrows
<1>7. Frame(p)
  BY <1>2, <1>6 DEF Frame
<1>8. Locked(p)'
  BY <1>1, <1>2, <1>6 DEF Attempt, Locked, Inside, Working, Started, Judged
<1>9. Attaches(p)'
  BY <1>1, <1>2, <1>6 DEF Attempt, Attaches, OneCapsulePerProof, Working, Started, Judged
<1>10. Recorded(p)'
  <2>1. Recorded(p)
    BY <1>1 DEF Attempt
  <2>2. Journalled(Completion(work[p].payload, work[p].signoff))'
    BY <1>2, <2>1 DEF Recorded, Completed, Journalled, Completion, Event
  <2> QED
    BY <1>2, <1>4, <1>5, <2>1, <2>2 DEF Recorded, Signed, Completed, Persisted
<1> QED
  BY <1>6, <1>7, <1>8, <1>9, <1>10 DEF Attempt

-----------------------------------------------------------------------------
(* What a step does to the records *)

Early == {"analysed", "unbound"}

\* The ledger and the files of a finalized run are left alone; capsules are accepted
\* by whoever checked them; the first receipt stays, and is that of a completed
\* attempt; the run is finalized by an attempt that ended; and a terminal event tells
\* the receipt.
Moves ==
  /\ EvidenceGrows /\ JournalGrows
  /\ UNCHANGED <<evidence, capsuleFiles>> \/ finalized = NoValue
  /\ Accepted' = Accepted \/ (Accepted' \subseteq Valid /\ OneCapsulePerProof(Accepted') /\ finalized = NoValue)
  /\ Has("pending-state") => Has("pending-state")'
  /\ pc'[Engine] \in Early => pc[Engine] \in Early /\ (Has("pending-state")' <=> Has("pending-state"))
  /\ \/ receipt' = receipt
     \/ \E p \in Caller : pc[p] = "completed" /\ receipt = NoValue /\ receipt' = Receipt(work[p])
  /\ \/ finalized' = finalized
     \/ \E p \in Caller : pc[p] = "ended" /\ finalized' = receipt /\ receipt' = receipt
                          /\ UNCHANGED <<evidence, journal>>
  /\ \A i \in DOMAIN journal' :
       \/ journal'[i].key[1] # "terminal"
       \/ i \in DOMAIN journal /\ journal'[i] = journal[i]
       \/ receipt # NoValue /\ receipt' = receipt /\ journal'[i].payload = receipt

LEMMA QuietMoves ==
  ASSUME IInv,
         \/ WritePending
         \/ \E p \in Caller :
              \/ Leaves(p) /\ (Quits(p) \/ Stores(p) \/ Finalizes(p))
              \/ \E in \in Input : Call(p, in)
              \/ TakeLock(p) \/ Load(p) \/ WriteCapsule(p) \/ Reconcile(p) \/ Persist(p)
  PROVE  Moves
<1> USE DEF Goto
<1>1. Types /\ AttemptInv
  BY DEF IInv
<1>2. UNCHANGED <<evidence, journal>>
  BY DEF WritePending, Leaves, Call, TakeLock, Load, WriteCapsule, Reconcile, Persist, disk
<1>3. pc'[Engine] \in Early => pc[Engine] \in Early
  BY <1>1, CallerAssumption DEF WritePending, Leaves, Call, TakeLock, Load, WriteCapsule, Reconcile, Persist, Types, Early
<1>4. capsuleFiles' = capsuleFiles \/ finalized = NoValue
  <2>1. ASSUME NEW p \in Caller, WriteCapsule(p)
        PROVE  finalized = NoValue
    BY <1>1, <2>1 DEF WriteCapsule, AttemptInv, Attempt, Locked, Working
  <2> QED
    BY <2>1 DEF WritePending, Quits, Stores, Finalizes, Call, TakeLock, Load, Reconcile, Persist, disk
<1>5. \/ receipt' = receipt
      \/ \E p \in Caller : pc[p] = "completed" /\ receipt = NoValue /\ receipt' = Receipt(work[p])
  BY DEF WritePending, Quits, Stores, Finalizes, Call, TakeLock, Load, WriteCapsule, Reconcile, Persist, CanPersist, disk
<1>6. \/ finalized' = finalized
      \/ \E p \in Caller : pc[p] = "ended" /\ finalized' = receipt /\ receipt' = receipt
  BY DEF WritePending, Quits, Stores, Finalizes, Call, TakeLock, Load, WriteCapsule, Reconcile, Persist, disk
<1>7. Accepted' = Accepted /\ (Has("pending-state")' <=> Has("pending-state")) /\ EvidenceGrows /\ JournalGrows
  BY <1>2 DEF Accepted, Has, EvidenceGrows, JournalGrows
<1> QED
  BY <1>2, <1>3, <1>4, <1>5, <1>6, <1>7 DEF Moves

LEMMA RecordingMoves ==
  ASSUME IInv,
         \/ BindPending \/ Announce
         \/ \E p \in Caller : RecordCapsule(p) \/ SignOff(p) \/ Start(p) \/ Complete(p) \/ Terminal(p)
  PROVE  Moves
<1>1. Types /\ AttemptInv /\ BindInv /\ FinalInv /\ Engine \in Caller
  BY CallerAssumption DEF IInv
<1>2. CASE BindPending
  <2>1. pc[Engine] = "unbound" /\ pc'[Engine] = "bound" /\ UNCHANGED <<capsuleFiles, journal, receipt, finalized>>
    BY <1>1, <1>2 DEF BindPending, Goto, Types
  <2>2. finalized = NoValue
    BY <1>1, <2>1 DEF BindInv, FinalInv
  <2>3. Frame(Engine)
    BY <1>2, BindStep
  <2>4. Accepted' = Accepted
    <3>1. Record("pending-state", NoValue) \in Records /\ Record("pending-state", NoValue).kind = "pending-state"
      BY DEF Record, Records
    <3>2. evidence' = Append(evidence, Record("pending-state", NoValue))
      BY <1>2 DEF BindPending
    <3> QED
      BY <1>1, <3>1, <3>2, AppendedIs DEF Types
  <2> QED
    BY <2>1, <2>2, <2>3, <2>4 DEF Frame, Moves, Early
<1>3. ASSUME NEW p \in Caller, NEW e, JournalStep(p, e)
      PROVE  /\ EvidenceGrows /\ JournalGrows /\ UNCHANGED <<evidence, receipt, finalized>>
             /\ Accepted' = Accepted /\ (Has("pending-state")' <=> Has("pending-state"))
             /\ pc'[Engine] \in Early => pc[Engine] \in Early
             /\ \A i \in DOMAIN journal' :
                  \/ journal'[i].key[1] # "terminal"
                  \/ i \in DOMAIN journal /\ journal'[i] = journal[i]
                  \/ receipt # NoValue /\ receipt' = receipt /\ journal'[i].payload = receipt
  <2>1. Frame(p) /\ Accepted' = Accepted /\ (Has("pending-state")' <=> Has("pending-state"))
    BY <1>3, JournalSteps
  <2>2. UNCHANGED <<evidence, receipt, finalized>>
    BY <1>3 DEF JournalStep
  <2>3. pc'[Engine] \in Early => pc[Engine] \in Early
    BY <1>1, <1>3 DEF JournalStep, Early
  <2>4. e.key[1] = "terminal" => pc[p] = "persisted" /\ e.payload = receipt
    BY <1>3 DEF JournalStep
  <2>5. e.key[1] = "terminal" => receipt # NoValue
    BY <1>1, <2>4 DEF AttemptInv, Attempt, Recorded, Persisted
  <2>6. \A i \in DOMAIN journal' : journal'[i] = e \/ (i \in DOMAIN journal /\ journal'[i] = journal[i])
    BY <1>1, <1>3, AppendOnceIs DEF JournalStep, Types
  <2> QED
    BY <2>1, <2>2, <2>3, <2>4, <2>5, <2>6 DEF Frame
<1>4. CASE Announce
  <2>1. PICK e : JournalStep(Engine, e)
    BY <1>4, JournalStepIs
  <2>2. UNCHANGED capsuleFiles
    BY <1>4 DEF Announce
  <2> QED
    BY <1>1, <1>3, <2>1, <2>2 DEF Moves
<1>5. ASSUME NEW p \in Caller, Start(p) \/ Complete(p) \/ Terminal(p)
      PROVE  Moves
  <2>1. PICK e : JournalStep(p, e)
    BY <1>5, JournalStepIs
  <2>2. UNCHANGED capsuleFiles
    BY <1>5 DEF Start, Complete, Terminal
  <2> QED
    BY <1>3, <2>1, <2>2 DEF Moves
<1>6. ASSUME NEW p \in Caller, RecordCapsule(p)
      PROVE  Moves
  <2>1. Frame(p) /\ Accepted' \subseteq Valid /\ OneCapsulePerProof(Accepted') /\ finalized = NoValue
    BY <1>6, RecordStep
  <2>2. UNCHANGED <<journal, receipt, finalized>> /\ pc' = [pc EXCEPT ![p] = "accepting"]
    BY <1>6 DEF RecordCapsule, Goto
  <2>3. Has("pending-state")
    BY <1>1, <1>6 DEF RecordCapsule, Goto, AttemptInv, Attempt, Locked, Working
  <2>4. pc'[Engine] \in Early => pc[Engine] \in Early
    BY <1>1, <2>2 DEF Types, Early
  <2>5. Has("pending-state")'
    BY <2>1, <2>3 DEF Frame
  <2> QED
    BY <2>1, <2>2, <2>3, <2>4, <2>5 DEF Frame, Moves
<1>7. ASSUME NEW p \in Caller, SignOff(p)
      PROVE  Moves
  <2>1. Frame(p) /\ Accepted' = Accepted /\ (Has("pending-state")' <=> Has("pending-state"))
    BY <1>7, SignStep
  <2>2. UNCHANGED <<journal, receipt, finalized, capsuleFiles>> /\ pc' = [pc EXCEPT ![p] = "signed"]
    BY <1>7 DEF SignOff, Goto
  <2>3. finalized = NoValue
    BY <1>1, <1>7 DEF SignOff, Goto, AttemptInv, Attempt, Locked, Working, Started, Judged
  <2>4. pc'[Engine] \in Early => pc[Engine] \in Early
    BY <1>1, <2>2 DEF Types, Early
  <2> QED
    BY <2>1, <2>2, <2>3, <2>4 DEF Frame, Moves
<1> QED
  BY <1>2, <1>4, <1>5, <1>6, <1>7

LEMMA NextMoves ==
  ASSUME IInv, [Next]_vars
  PROVE  Moves /\ AttemptInv'
<1>1. CASE UNCHANGED <<run, pc, local, flock, evidence, journal, receipt, capsuleFiles, finalized>> /\ (fresh' = fresh \/ fresh' = ~fresh)
  <2>1. Moves
    BY <1>1 DEF Moves, EvidenceGrows, JournalGrows, Accepted, Has
  <2>2. AttemptInv'
    BY <1>1 DEF IInv, AttemptInv, Attempt, Locked, Attaches, Recorded, Accepted, Has, Journalled, Completion,
                Event, OneCapsulePerProof, local
  <2> QED
    BY <2>1, <2>2
<1>2. ASSUME NEW p \in Caller, Frame(p), Attempt(p)'
      PROVE  AttemptInv'
  <2> SUFFICES ASSUME NEW q \in Caller
               PROVE  Attempt(q)'
    BY DEF AttemptInv
  <2>1. CASE q # p
    BY <1>2, <2>1, OthersKeep
  <2> QED
    BY <1>2, <2>1
<1>3. CASE WritePending
  BY <1>2, <1>3, QuietSteps, QuietMoves, CallerAssumption
<1>4. CASE BindPending
  BY <1>2, <1>4, BindStep, RecordingMoves, CallerAssumption
<1>5. CASE Announce
  BY <1>2, <1>5, JournalStepIs, JournalSteps, RecordingMoves, CallerAssumption
<1>6. ASSUME NEW p \in Caller,
             \/ \E in \in Input : Call(p, in)
             \/ TakeLock(p) \/ Load(p) \/ WriteCapsule(p) \/ Reconcile(p)
      PROVE  Moves /\ AttemptInv'
  <2>1. Frame(p) /\ Attempt(p)'
    BY <1>6, QuietSteps
  <2>2. Moves
    BY <1>6, QuietMoves
  <2> QED
    BY <1>2, <2>1, <2>2
<1>7. ASSUME NEW p \in Caller, Leaves(p), Quits(p) \/ Stores(p) \/ Finalizes(p)
      PROVE  Moves /\ AttemptInv'
  BY <1>2, <1>7, LeavingSteps, QuietMoves
<1>8. ASSUME NEW p \in Caller, Persist(p)
      PROVE  Moves /\ AttemptInv'
  BY <1>2, <1>8, PersistStep, QuietMoves
<1>9. ASSUME NEW p \in Caller, RecordCapsule(p)
      PROVE  Moves /\ AttemptInv'
  BY <1>2, <1>9, RecordStep, RecordingMoves
<1>10. ASSUME NEW p \in Caller, SignOff(p)
       PROVE  Moves /\ AttemptInv'
  BY <1>2, <1>10, SignStep, RecordingMoves
<1>11. ASSUME NEW p \in Caller, Start(p) \/ Complete(p) \/ Terminal(p)
       PROVE  Moves /\ AttemptInv'
  BY <1>2, <1>11, JournalStepIs, JournalSteps, RecordingMoves
<1> QED
  BY <1>1, <1>3, <1>4, <1>5, <1>6, <1>7, <1>8, <1>9, <1>10, <1>11, StepIs

LEMMA InitIInv ==
  ASSUME Init
  PROVE  IInv
<1>1. Types /\ PayloadInv
  BY InitTypes
<1>2. ~Has("pending-state") /\ Accepted = {}
  BY DEF Init, Has, Accepted
<1>3. AttemptInv
  BY DEF Init, AttemptInv, Attempt, Locked, Attaches, Recorded, Inside, Working, Started, Judged, Signed, Completed, Persisted
<1>4. AcceptInv
  BY <1>2 DEF AcceptInv, OneCapsulePerProof
<1>5. BindInv /\ ReceiptInv /\ TerminalInv /\ FinalInv
  BY <1>2 DEF Init, BindInv, ReceiptInv, TerminalInv, FinalInv
<1> QED
  BY <1>1, <1>3, <1>4, <1>5 DEF IInv

LEMMA NextIInv ==
  ASSUME IInv, [Next]_vars
  PROVE  IInv'
<1>1. Types /\ PayloadInv /\ AttemptInv /\ BindInv /\ AcceptInv /\ ReceiptInv /\ TerminalInv /\ FinalInv
  BY DEF IInv
<1>2. Moves /\ AttemptInv' /\ Types' /\ PayloadInv'
  BY <1>1, NextMoves, NextTypes
<1>3. BindInv'
  BY <1>1, <1>2 DEF Moves, BindInv, Early
<1>4. AcceptInv'
  BY <1>1, <1>2 DEF Moves, AcceptInv, OneCapsulePerProof
<1>5. ReceiptInv'
  <2>1. CASE receipt' = receipt
    BY <1>1, <1>2, <2>1 DEF Moves, EvidenceGrows, JournalGrows, ReceiptInv, Journalled
  <2>2. ASSUME NEW p \in Caller, pc[p] = "completed", receipt' = Receipt(work[p])
        PROVE  ReceiptInv'
    <3>1. work[p] \in Works /\ work[p].payload \in Payloads /\ run \in Runs
      BY <1>1, <2>2 DEF Types, PayloadInv, Judged
    <3>2. receipt'.analysis = work[p].payload.analysis /\ receipt'.signoff = work[p].signoff
      BY <2>2, <3>1, ReceiptIs
    <3>3. Recorded(p)
      BY <1>1 DEF AttemptInv, Attempt
    <3>4. /\ work[p].signoff \in DOMAIN evidence'
          /\ evidence'[work[p].signoff] = Record("signoff", work[p].payload)
      BY <1>2, <2>2, <3>3 DEF Recorded, Signed, Moves, EvidenceGrows
    <3>5. \E i \in DOMAIN journal' : journal'[i] = Completion(work[p].payload, work[p].signoff)
      BY <1>2, <2>2, <3>3 DEF Recorded, Completed, Moves, JournalGrows, Journalled
    <3> QED
      BY <3>2, <3>4, <3>5 DEF ReceiptInv, Record, Completion, Journalled, Event
  <2> QED
    BY <1>2, <2>1, <2>2 DEF Moves
<1>6. TerminalInv'
  BY <1>1, <1>2 DEF Moves, TerminalInv
<1>7. FinalInv'
  <2>1. CASE finalized' = finalized
    <3> SUFFICES ASSUME finalized # NoValue
                 PROVE  FinalInv'
      BY <2>1 DEF FinalInv
    <3>1. evidence' = evidence /\ receipt # NoValue /\ receipt' = receipt
      BY <1>1, <1>2 DEF FinalInv, Moves
    <3>2. Accepted' = Accepted /\ Has("pending-state")'
      BY <1>1, <3>1 DEF FinalInv, Accepted, Has
    <3>3. \E i \in DOMAIN journal' : journal'[i].key[1] = "terminal"
      BY <1>1, <1>2 DEF FinalInv, Moves, JournalGrows
    <3> QED
      BY <1>1, <2>1, <3>1, <3>2, <3>3 DEF FinalInv, Confirmed
  <2>2. ASSUME NEW p \in Caller, pc[p] = "ended", finalized' = receipt, receipt' = receipt,
               UNCHANGED <<evidence, journal>>
        PROVE  FinalInv'
    <3>1. /\ Has("pending-state")
          /\ Accepted = work[p].capsules
          /\ receipt # NoValue /\ receipt.analysis = work[p].payload.analysis
          /\ Journalled(Event("terminal", {}, receipt))
      BY <1>1, <2>2 DEF AttemptInv, Attempt, Locked, Attaches, Recorded, Working, Started, Judged, Persisted
    <3>2. /\ work[p].payload.analysis.capsules = work[p].capsules
          /\ \A f \in Confirmed(work[p].capsules) : work[p].payload.analysis.status[f] \notin {"rejected", "waived"}
      BY <1>1, <2>2 DEF PayloadInv, Judged
    <3>3. \E i \in DOMAIN journal : journal[i].key[1] = "terminal"
      BY <3>1 DEF Journalled, Event
    <3>4. Accepted' = Accepted /\ Has("pending-state")'
      BY <2>2, <3>1 DEF Accepted, Has
    <3> QED
      BY <2>2, <3>1, <3>2, <3>3, <3>4 DEF FinalInv, Confirmed
  <2> QED
    BY <1>2, <2>1, <2>2 DEF Moves
<1> QED
  BY <1>2, <1>3, <1>4, <1>5, <1>6, <1>7 DEF IInv

LEMMA SpecIInv == Spec => []IInv
<1>1. Init => IInv
  BY InitIInv
<1>2. IInv /\ [Next]_vars => IInv'
  BY NextIInv
<1> QED
  BY <1>1, <1>2, PTL DEF Spec

-----------------------------------------------------------------------------
(* Until a completion is journalled the run can be finalized *)

\* A bound run has its pending state, an accepted capsule its file, and only
\* an attempt that journalled its completion breaks the store.
RecoverInv ==
  /\ Has("pending-state") \/ pc[Engine] = "unbound" => pending
  /\ Accepted \subseteq capsuleFiles
  /\ \A p \in Caller : pc[p] = "written" => NextCapsule(p) \in capsuleFiles
  /\ storeBroken => \E i \in DOMAIN journal : journal[i].key[1] = "completed"

\* What a step makes of those files.
FileMoves ==
  /\ pending => pending'
  /\ capsuleFiles \subseteq capsuleFiles'
  /\ storeBroken' => storeBroken \/ \E p \in Caller : pc[p] = "completed"
  /\ pc'[Engine] = "unbound" => pc[Engine] = "unbound" \/ pending'
  /\ Has("pending-state")' => Has("pending-state") \/ pc[Engine] = "unbound"
  /\ \/ Accepted' = Accepted
     \/ \E p \in Caller : pc[p] = "written" /\ Accepted' = Accepted \cup {NextCapsule(p)}
  /\ \A p \in Caller : pc'[p] = "written" =>
       /\ todo'[p] = todo[p]
       /\ pc[p] = "written" \/ NextCapsule(p) \in capsuleFiles'

LEMMA StepFileMoves ==
  ASSUME IInv, [Next]_vars
  PROVE  FileMoves
<1>1. Types /\ PayloadInv /\ Engine \in Caller
  BY CallerAssumption DEF IInv
<1> USE DEF Goto
<1>2. ASSUME UNCHANGED evidence
      PROVE  Accepted' = Accepted /\ (Has("pending-state")' <=> Has("pending-state"))
  BY <1>2 DEF Accepted, Has
<1>3. CASE EditTree \/ UNCHANGED vars
  BY <1>2, <1>3 DEF EditTree, vars, disk, local, FileMoves
<1>4. CASE WritePending \/ Announce
  BY <1>1, <1>2, <1>4 DEF WritePending, Announce, local, Types, FileMoves
<1>5. CASE BindPending
  <2>1. Record("pending-state", NoValue) \in Records /\ Record("pending-state", NoValue).kind # "proof-capsule"
    BY DEF Record, Records
  <2>2. Accepted' = Accepted
    BY <1>1, <1>5, <2>1, AppendedIs DEF BindPending, Types
  <2> QED
    BY <1>1, <1>5, <2>2 DEF BindPending, local, Types, FileMoves
<1>6. ASSUME NEW p \in Caller, Finish(p), UNCHANGED <<pending, evidence, capsuleFiles>>,
             storeBroken' = storeBroken \/ pc[p] = "completed"
      PROVE  FileMoves
  BY <1>1, <1>2, <1>6 DEF Finish, Types, FileMoves
<1>7. ASSUME NEW p \in Caller,
             \/ LockBusy(p) \/ LoadFails(p) \/ ReconcileFails(p) \/ CompleteFails(p) \/ PersistFails(p)
             \/ Crash(p) \/ CrashInPersist(p) \/ WriteFinalized(p)
      PROVE  FileMoves
  <2>1. Finish(p) /\ UNCHANGED <<pending, evidence, capsuleFiles>>
    BY <1>7 DEF LockBusy, LoadFails, ReconcileFails, CompleteFails, PersistFails, Crash, CrashInPersist,
                WriteFinalized, Fail, disk
  <2>2. storeBroken' = storeBroken \/ pc[p] = "completed"
    BY <1>7 DEF LockBusy, LoadFails, ReconcileFails, CompleteFails, PersistFails, Crash, CrashInPersist,
                WriteFinalized, Fail, disk
  <2> QED
    BY <1>6, <2>1, <2>2
<1>8. ASSUME NEW p \in Caller,
             \/ \E in \in Input : Call(p, in)
             \/ TakeLock(p) \/ Load(p) \/ Start(p) \/ Reconcile(p) \/ Complete(p) \/ Persist(p)
             \/ Terminal(p)
      PROVE  FileMoves
  <2>1. UNCHANGED <<pending, evidence, capsuleFiles, storeBroken>>
    BY <1>8 DEF Call, TakeLock, Load, Start, Reconcile, Complete, Persist, Terminal, disk
  <2>2. /\ \A q \in Caller \ {p} : pc'[q] = pc[q] /\ todo'[q] = todo[q]
        /\ pc'[p] \notin {"written", "unbound"}
    BY <1>1, <1>8 DEF Call, TakeLock, Load, Start, Reconcile, Complete, Persist, Terminal, local, Types
  <2> QED
    BY <1>1, <1>2, <2>1, <2>2 DEF FileMoves
<1>9. ASSUME NEW p \in Caller, WriteCapsule(p)
      PROVE  FileMoves
  BY <1>1, <1>2, <1>9 DEF WriteCapsule, local, Types, FileMoves
<1>10. ASSUME NEW p \in Caller, RecordCapsule(p)
       PROVE  FileMoves
  <2> DEFINE r == Record("proof-capsule", NextCapsule(p))
  <2>1. NextCapsule(p) \in Capsule
    BY <1>1, <1>10 DEF RecordCapsule, NextCapsule, Types
  <2>2. r \in Records /\ r.kind = "proof-capsule" /\ r.of = NextCapsule(p) /\ evidence' = Append(evidence, r)
    BY <1>10, <2>1 DEF RecordCapsule, Record, Records
  <2> HIDE DEF r
  <2>3. Accepted' = Accepted \cup {NextCapsule(p)} /\ (Has("pending-state")' <=> Has("pending-state"))
    BY <1>1, <2>2, AppendedIs DEF Types
  <2>4. /\ UNCHANGED <<pending, capsuleFiles, storeBroken>>
        /\ pc[p] = "written" /\ pc'[p] = "accepting"
        /\ \A q \in Caller \ {p} : pc'[q] = pc[q] /\ todo'[q] = todo[q]
    BY <1>1, <1>10 DEF RecordCapsule, Types
  <2> QED
    BY <1>1, <2>3, <2>4 DEF FileMoves
<1>11. ASSUME NEW p \in Caller, SignOff(p)
       PROVE  FileMoves
  <2>1. Accepted' = Accepted /\ (Has("pending-state")' <=> Has("pending-state"))
    BY <1>11, SignStep
  <2>2. /\ UNCHANGED <<pending, capsuleFiles, storeBroken, todo>> /\ pc'[p] = "signed"
        /\ \A q \in Caller \ {p} : pc'[q] = pc[q]
    BY <1>1, <1>11 DEF SignOff, Types
  <2> QED
    BY <1>1, <2>1, <2>2 DEF FileMoves
<1> QED
  BY <1>3, <1>4, <1>5, <1>7, <1>8, <1>9, <1>10, <1>11 DEF Next, Prepare, Step

LEMMA NextRecoverInv ==
  ASSUME IInv, RecoverInv, [Next]_vars
  PROVE  RecoverInv'
<1>1. FileMoves /\ Moves
  BY StepFileMoves, NextMoves DEF IInv
<1>2. (Has("pending-state") \/ pc[Engine] = "unbound" => pending)'
  BY <1>1 DEF FileMoves, RecoverInv
<1>3. Accepted' \subseteq capsuleFiles'
  BY <1>1 DEF FileMoves, RecoverInv
<1>4. ASSUME NEW p \in Caller, pc'[p] = "written"
      PROVE  NextCapsule(p)' \in capsuleFiles'
  <2>1. todo'[p] = todo[p]
    BY <1>1, <1>4 DEF FileMoves
  <2>2. NextCapsule(p)' = NextCapsule(p)
    BY <2>1 DEF NextCapsule
  <2> QED
    BY <1>1, <1>4, <2>2 DEF FileMoves, RecoverInv
<1>5. ASSUME storeBroken'
      PROVE  \E i \in DOMAIN journal' : journal'[i].key[1] = "completed"
  <2>1. \E i \in DOMAIN journal : journal[i].key[1] = "completed"
    <3>1. ASSUME NEW p \in Caller, pc[p] = "completed"
          PROVE  Journalled(Completion(work[p].payload, work[p].signoff))
      BY <3>1 DEF IInv, AttemptInv, Attempt, Recorded, Completed
    <3> QED
      BY <1>1, <1>5, <3>1 DEF FileMoves, RecoverInv, Journalled, Completion, Event
  <2> QED
    BY <1>1, <2>1 DEF Moves, JournalGrows
<1> QED
  BY <1>2, <1>3, <1>4, <1>5 DEF RecoverInv

\* The automatic dispositions are ones that reconcile_analysis takes.
LEMMA AutomaticJudgeable ==
  ASSUME NEW caps \in SUBSET Capsule
  PROVE  /\ Judgeable(AutomaticInput, caps)
         /\ Dispositions(AutomaticInput, caps) = Automatic(caps)
<1>1. AutomaticInput.judgement = NoValue /\ AutomaticInput.automatic = TRUE
  BY DEF AutomaticInput, NoInput
<1>2. Dispositions(AutomaticInput, caps) = Automatic(caps)
  BY <1>1 DEF Dispositions
<1>3. Automatic(caps) \in [Finding -> Disposition]
  BY DEF Automatic, Disposition
<1>4. \A f \in Confirmed(caps) \cap DOMAIN Automatic(caps) : Automatic(caps)[f] \notin {"rejected", "waived"}
  BY DEF Automatic
<1>5. CanReconcile(caps, Automatic(caps), Degraded)
  BY <1>3, <1>4 DEF CanReconcile
<1> QED
  BY <1>2, <1>3, <1>5, ValueAssumption DEF Judgeable

\* What they lead to is a verdict that validate_linked takes.
LEMMA AutomaticVerdict ==
  ASSUME Types, NEW caps \in SUBSET Capsule, NEW degraded \in BOOLEAN, NEW f \in Finding,
         run.severity[f] # "minor"
  PROVE  Verdict(Status(caps, Automatic(caps)), degraded) # "ship"
<1> DEFINE status == Status(caps, Automatic(caps))
<1>1. run.severity[f] \in {"blocker", "major"}
  BY RunAssumption DEF Types
<1>2. status[f] \in {"accepted", "deadlock"}
  BY <1>1 DEF Status, Automatic
<1> HIDE DEF status
<1>3. Effect(status) # "clarified"
  BY <1>1, <1>2 DEF Effect
<1>4. Effect(status) \in {"human-required", "blocked", "revised"}
  BY <1>3 DEF Effect
<1> QED
  BY <1>4 DEF Verdict, status

LEMMA Recovers ==
  ASSUME IInv, RecoverInv
  PROVE  RecoverableUntilCompleted
<1> SUFFICES ASSUME Has("pending-state"),
                    \A i \in DOMAIN journal : journal[i].key[1] # "completed"
             PROVE  Succeeds(AutomaticInput) <=> Recordable(Accepted, Degraded)
  BY DEF RecoverableUntilCompleted
<1> DEFINE in == AutomaticInput
           caps == Accepted \cup in.capsules
           payload == Signoff(in, caps, Dispositions(in, caps))
           w == [NoWork EXCEPT !.payload = payload, !.degraded = Degraded]
<1>1. Types /\ AcceptInv /\ ReceiptInv /\ FinalInv
  BY DEF IInv
<1>2. in.capsules = {} /\ caps = Accepted
  BY DEF AutomaticInput, NoInput
<1>3. receipt = NoValue
  BY <1>1 DEF ReceiptInv, Journalled, Event
<1>4. finalized = NoValue
  BY <1>1, <1>3 DEF FinalInv
<1>5. Acceptable(in)
  BY <1>1, <1>2, <1>4 DEF Acceptable, RecoverInv, AcceptInv
<1>6. caps \in SUBSET Capsule
  BY <1>1, <1>2, CapsuleAssumption DEF AcceptInv
<1>7. Judgeable(in, caps) /\ Dispositions(in, caps) = Automatic(caps)
  BY <1>6, AutomaticJudgeable
<1>8. payload.analysis.status = Status(caps, Automatic(caps))
  BY <1>7 DEF Signoff, Analysis
<1> HIDE DEF payload
<1>9. w.payload = payload /\ w.degraded = Degraded
  BY DEF NoWork
<1> HIDE DEF w, caps
<1>10. CanPersist(w) <=> Recordable(caps, Degraded)
  <2> DEFINE verdict == Verdict(Status(caps, Automatic(caps)), Degraded)
  <2>1. Degraded \in BOOLEAN /\ run.panel \in Panels /\ run.context \in BOOLEAN
    BY <1>1, RunAssumption DEF Degraded, Types
  <2>2. /\ Receipt(w).verdict = verdict
        /\ Receipt(w).fused <=> (~Degraded /\ run.context /\ run.panel # "advisor")
    BY <1>8, <1>9 DEF Receipt
  <2>3. \A f \in Finding : run.severity[f] # "minor" => verdict # "ship"
    BY <1>1, <1>6, <2>1, AutomaticVerdict
  <2>4. receipt = NoValue /\ ~storeBroken
    BY <1>3 DEF RecoverInv
  <2>5. Degraded => verdict = "degraded"
    BY DEF Verdict
  <2>6. ~Degraded => verdict = Verdict(Status(caps, Automatic(caps)), FALSE)
    BY <2>1
  <2>7. ~Degraded => verdict \in {"blocked", "revise", "ship"}
    BY DEF Verdict
  <2>8. ~Degraded /\ ~run.context => verdict = "blocked"
    BY DEF Verdict, Effect
  <2>9. CanPersist(w) <=>
          /\ run.recordable
          /\ ~Degraded /\ run.context /\ run.panel # "advisor" => run.panel # "one-family"
          /\ verdict \in {"ship", "revise"} => ~Degraded /\ run.context /\ run.panel # "advisor"
    BY <2>2, <2>3, <2>4 DEF CanPersist, ReceiptValid, ReceiptSchema
  <2> HIDE DEF verdict
  <2> QED
    BY <2>1, <2>5, <2>6, <2>7, <2>8, <2>9 DEF Recordable, Panels
<1>11. \A i \in DOMAIN journal :
         journal[i].key[1] = "completed" =>
           \E n \in SignoffIndexes(payload) : journal[i] = Completion(payload, n)
  OBVIOUS
<1> QED
  BY <1>2, <1>5, <1>7, <1>10, <1>11 DEF Succeeds, w, payload, caps

LEMMA SpecRecoverInv == Spec => [](IInv /\ RecoverInv)
<1>1. Init => RecoverInv
  <2> SUFFICES ASSUME Init PROVE RecoverInv
    OBVIOUS
  <2>1. ~Has("pending-state") /\ Accepted = {}
    BY DEF Init, Has, Accepted
  <2>2. \A p \in Caller : pc[p] \in {"analysed", "idle"}
    BY DEF Init
  <2>3. ~storeBroken
    BY DEF Init
  <2> QED
    BY <2>1, <2>2, <2>3, CallerAssumption DEF RecoverInv
<1>2. IInv /\ RecoverInv /\ [Next]_vars => RecoverInv'
  BY NextRecoverInv
<1> QED
  BY <1>1, <1>2, SpecIInv, PTL DEF Spec

-----------------------------------------------------------------------------
(* The theorems *)

\* However many attempts crash or fail, and wherever: the receipt of a run rests on a
\* signoff in its ledger and on the completion its journal tells, and a finalized run's
\* journal, receipt and finalized.json are equal.
THEOREM FinalizationRecords == Spec => []RecordsAgree
<1>1. ASSUME IInv
      PROVE  RecordsAgree
  <2>1. ReceiptInv /\ TerminalInv /\ FinalInv
    BY <1>1 DEF IInv
  <2>2. ASSUME finalized # NoValue
        PROVE  {journal[i].payload : i \in {n \in DOMAIN journal : journal[n].key[1] = "terminal"}} = {receipt}
    BY <2>1, <2>2 DEF TerminalInv, FinalInv
  <2> QED
    BY <2>1, <2>2 DEF ReceiptInv, FinalInv, RecordsAgree
<1> QED
  BY <1>1, SpecIInv, PTL

\* Every proof capsule that an attempt accepted is authentic, and all of them are in a
\* finalized run's receipt, where a confirmed one keeps its finding from being
\* dismissed.
THEOREM FinalizationProofsCount == Spec => []AcceptedProofsCount
<1>1. ASSUME IInv
      PROVE  AcceptedProofsCount
  BY <1>1 DEF IInv, AcceptInv, FinalInv, AcceptedProofsCount
<1> QED
  BY <1>1, SpecIInv, PTL

\* No later attempt, competitor or crash changes a receipt, or the ledger and the proof
\* capsules of a finalized run.
THEOREM FinalizationFinal == Spec => FinalizedIsFinal
<1>1. ASSUME IInv, [Next]_vars
      PROVE  [ /\ receipt # NoValue => receipt' = receipt
               /\ finalized # NoValue => UNCHANGED <<finalized, evidence, capsuleFiles>> ]_vars
  <2>1. Moves /\ FinalInv /\ AttemptInv
    BY <1>1, NextMoves DEF IInv
  <2>2. receipt # NoValue => receipt' = receipt
    BY <2>1 DEF Moves
  <2>3. ASSUME finalized # NoValue
        PROVE  UNCHANGED <<finalized, evidence, capsuleFiles>>
    <3>1. finalized = receipt
      BY <2>1, <2>3 DEF FinalInv
    <3> QED
      BY <2>1, <2>3, <3>1 DEF Moves
  <2> QED
    BY <2>2, <2>3
<1> QED
  BY <1>1, SpecIInv, PTL DEF Spec, FinalizedIsFinal

\* However many attempts failed or crashed, wherever, and whatever they accepted: until
\* one of them journals its completion, an undisturbed automatic reconciliation
\* finalizes exactly the runs whose kind the receipt store accepts.
THEOREM FinalizationRecovers == Spec => []RecoverableUntilCompleted
<1>1. IInv /\ RecoverInv => RecoverableUntilCompleted
  BY Recovers
<1> QED
  BY <1>1, SpecRecoverInv, PTL
=============================================================================
