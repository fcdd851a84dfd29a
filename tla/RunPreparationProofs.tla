------------------------- MODULE RunPreparationProofs -------------------------
(***************************************************************************)
(* Proofs about RunPreparation, for any request, configuration, tree and   *)
(* number of edits: what is frozen was there, an undegraded run is fresh,  *)
(* and it earned the reviews that its route demands.  The dispatch is one  *)
(* step of it; what that step promises of budgets and deadlines is proved  *)
(* of BudgetDispatch, at the end.                                          *)
(***************************************************************************)
EXTENDS RunPreparation, BudgetDispatch, FiniteSetTheorems, WellFoundedInduction, SequenceTheorems, TLAPS

-----------------------------------------------------------------------------
(* The inductive invariant *)

\* Where the last check of the tree has been made, the calls, the packet.
Post == {"validate", "analysis", "result", "pending", "bound", "ended"}
Dispatched == {"judge", "attest", "dispatched", "analyzed", "ground", "measure", "final"} \cup Post
Compiled == {"compiled", "dispatch"} \cup Dispatched
Early == {"prepared", "routed", "manifest", "copy", "recheck", "frozen", "packet", "compiled", "dispatch"}
Places == Early \cup Dispatched \cup Ends

Checked == pc \in Post \/ written # {}

\* What the tree has held of the manifest, as far as this walk has seen it and
\* the rest is still there, it held in t.
Matches(t) ==
  \A f \in DOMAIN manifest :
    /\ tree[f] = manifest[f] => t[f] = manifest[f]
    /\ f \in DOMAIN scan.seen /\ scan.seen[f] = manifest[f] => t[f] = manifest[f]

\* A version that is overwritten or deleted never comes back.
TreeTypes ==
  /\ edits \in 1..MaxEdits /\ tree \in [File -> 0..edits]
  /\ scan = [list |-> scan.list, read |-> scan.read, seen |-> scan.seen]
  /\ scan.list \subseteq File /\ scan.read \subseteq File
  /\ \A m \in {manifest, scan.seen} :
       DOMAIN m \subseteq File /\ \A f \in DOMAIN m : m[f] \in 1..edits
  /\ trees \subseteq Trees
  /\ scan.list # {} => DOMAIN scan.seen = {}
  /\ pc \in Building => tree \in trees

\* Passed(g): the walk has come past the directory of g and saw no file there.
Passed(g) == g \notin scan.list \cup scan.read \cup DOMAIN scan.seen

RecheckInv ==
  pc = "recheck" => \A g \in File : \E t \in trees : Matches(t) /\ (Passed(g) => t[g] = 0)

FinalInv == pc = "final" => Matches(atCheck)

TreeInv == TreeTypes /\ RecheckInv /\ FrozenExisted /\ FinalInv

\* A key is journalled on the way to its stage.
Stage == [
  prepared |-> 1, routed |-> 2, manifest |-> 2, copy |-> 2, recheck |-> 2, frozen |-> 3,
  packet |-> 3, compiled |-> 3, dispatch |-> 4, judge |-> 4, attest |-> 4, dispatched |-> 5,
  analyzed |-> 6, ground |-> 6, measure |-> 7, final |-> 7, validate |-> 7, analysis |-> 7,
  result |-> 7, pending |-> 7, bound |-> 7, ended |-> 8, raised |-> 9, killed |-> 9]

StageOf(key) ==
  CASE key = "state:prepared" -> 1
    [] key = "state:routed" -> 2
    [] key = "state:frozen" -> 3
    [] key = "dispatch:started" -> 4
    [] key = "dispatch:completed" -> 5
    [] key = "state:analyzed" -> 6
    [] key = "state:grounded" -> 7
    [] OTHER -> 8

Kinds == {"self-identity", "dlp-block", "route", "provider-routing", "grounding", "pending-state"}

RecordInv ==
  /\ journal \in Seq(Keys) /\ IsInjective(journal)
  /\ \A i \in DOMAIN journal : StageOf(journal[i]) <= Stage[pc]
  /\ ledger \in Seq(Kinds)
  /\ state \in DOMAIN NextStates

Calls == [handle : Handle, status : Status \cup {"policy-blocked"}]

Outcome == [left : Nat, right : Nat, winner : Nat]

\* Every pair is judged once, by calls that completed if somebody won.
OutcomeInv ==
  /\ outcomes \subseteq Outcome
  /\ \A o \in outcomes : <<o.left, o.right>> \in Pairs /\ o.winner \in {o.left, o.right, Nobody}
  /\ \A o, q \in outcomes : o.left = q.left /\ o.right = q.right => o = q
  /\ outcomes # {} \/ pc = "judge" =>
       ((\A o \in outcomes : o.winner # Nobody) => AllCompleted(results))
  /\ pc = "judge" => Ranked /\ Pairs \ Judged # {} /\ \A o \in outcomes : o.winner # Nobody

PlanInv ==
  /\ pc \in Places /\ request \in Requests /\ late \in BOOLEAN
  /\ panel \in Panel \cup {None}
  /\ written # {} => pc \in Post \cup {"raised", "killed"}
  /\ pc \notin {"prepared", "raised", "killed"} \/ written # {} => panel \in Routes(request)
  /\ results \in Seq(Calls)
  /\ pc \in Early => results = << >> /\ outcomes = {}
  /\ pc \in {"dispatch", "judge"} => ~RepoBlocked
  /\ pc \in Dispatched \/ Checked => RepoBlocked \/ Dispatchable
  /\ candidates \subseteq Candidate
  /\ \A id \in DOMAIN verdicts : verdicts[id] \in GroundingVerdict

\* What no reason of degradation means.
ReasonInv ==
  /\ reasons \subseteq {"content", "topology", "stale", "wallclock"}
  /\ written \subseteq {"analysis.json", "result.json", "pending.json"}
  /\ written # {} \/ pc \in Post \ {"validate"} => AnalysisValid
  /\ pc \in Compiled \/ Checked => ("packet" \in request.secrets => "content" \in reasons)
  /\ pc = "final" \/ Checked => ("topology" \notin reasons => ~TopologyDegraded)
  /\ Checked => ("stale" \notin reasons => \A f \in DOMAIN manifest : atCheck[f] = manifest[f])

IInv == TreeInv /\ RecordInv /\ PlanInv /\ OutcomeInv /\ ReasonInv

-----------------------------------------------------------------------------
(* Data *)

LEMMA LeastIs ==
  ASSUME NEW S \in SUBSET Nat, S # {}
  PROVE  \E i \in S : \A j \in S : i <= j
<1>1. PICK i \in S : \A j \in S : ~(<<j, i>> \in OpToRel(<, Nat))
  BY NatLessThanWellFounded, WFMin
<1>2. \A j \in S : ~(j < i)
  BY <1>1 DEF OpToRel
<1> QED
  BY <1>2

LEMMA MinIn ==
  ASSUME NEW S \in SUBSET File, S # {}
  PROVE  Min(S) \in S
<1>1. S \in SUBSET Nat
  BY PreparationAssumption DEF File
<1>2. \E i \in S : \A j \in S : i <= j
  BY <1>1, LeastIs
<1> QED
  BY <1>2 DEF Min

\* The last file is the first one, counted from the end.
LEMMA MaxIn ==
  ASSUME NEW S \in SUBSET File, S # {}
  PROVE  Max(S) \in S
<1> DEFINE T == {Files - i : i \in S}
<1>1. S \in SUBSET (1..Files) /\ Files \in Nat
  BY PreparationAssumption DEF File
<1>2. T \in SUBSET Nat /\ T # {}
  BY <1>1
<1>3. PICK d \in T : \A e \in T : d <= e
  BY <1>2, LeastIs
<1>4. PICK i \in S : d = Files - i
  BY <1>3
<1>5. \A j \in S : i >= j
  <2> TAKE j \in S
  <2>1. d <= Files - j
    BY <1>3
  <2> QED
    BY <1>1, <1>4, <2>1
<1> QED
  BY <1>5 DEF Max

-----------------------------------------------------------------------------
(* The tree and the walks *)

LEMMA TreesSoFar ==
  ASSUME NEW n \in 1..MaxEdits, NEW t \in [File -> 0..n]
  PROVE  t \in Trees
<1>1. 0..n \subseteq 0..MaxEdits
  BY PreparationAssumption
<1> QED
  BY <1>1 DEF Trees

tree_vars == <<tree, edits, scan, manifest, trees, atCheck>>

\* Steps that look at no tree.
LEMMA KeepTree ==
  ASSUME TreeInv, UNCHANGED tree_vars,
         pc' = pc \/ pc' \notin {"manifest", "copy", "recheck", "frozen", "final"}
  PROVE  TreeInv'
<1> USE DEF tree_vars, TreeInv
<1>1. TreeTypes'
  BY DEF TreeTypes, Building
<1>2. RecheckInv'
  BY DEF RecheckInv, Matches, Passed
<1>3. FrozenExisted'
  BY DEF FrozenExisted
<1>4. FinalInv'
  BY DEF FinalInv, Matches
<1> QED
  BY <1>1, <1>2, <1>3, <1>4

LEMMA ListKeepsTree ==
  ASSUME TreeInv, ListDirectory
  PROVE  TreeInv'
<1> DEFINE f == Max(scan.list)
           r == IF tree[f] = 0 THEN scan.read ELSE scan.read \cup {f}
<1>1. TreeTypes /\ RecheckInv /\ FinalInv
  BY DEF TreeInv
<1>2. /\ f \in scan.list /\ f \in File
      /\ scan' = [list |-> scan.list \ {f}, read |-> r, seen |-> scan.seen]
      /\ UNCHANGED <<tree, edits, pc, manifest, trees, atCheck>>
      /\ DOMAIN scan.seen = {} /\ pc \in Walking
  BY <1>1, MaxIn DEF ListDirectory, TreeTypes, environment, history
<1> HIDE DEF f
<1>3. TreeTypes'
  <2>1. r \subseteq File
    BY <1>1, <1>2 DEF TreeTypes
  <2>2. /\ scan'.list = scan.list \ {f} /\ scan'.read = r /\ scan'.seen = scan.seen
    BY <1>2
  <2> HIDE DEF r
  <2> QED
    BY <1>1, <1>2, <2>1, <2>2 DEF TreeTypes, Building
<1>4. RecheckInv'
  <2> SUFFICES ASSUME pc = "recheck", NEW g \in File
               PROVE  \E t \in trees : Matches(t)' /\ (Passed(g)' => t[g] = 0)
    BY <1>2 DEF RecheckInv
  <2>1. \A t : Matches(t)' <=> Matches(t)
    BY <1>2 DEF Matches
  <2>2. CASE Passed(g)' /\ ~Passed(g)
    <3>1. tree[g] = 0
      BY <1>2, <2>2 DEF Passed
    <3>2. Matches(tree)
      BY <1>2 DEF Matches
    <3>3. tree \in trees
      BY <1>1 DEF TreeTypes, Building
    <3> QED
      BY <2>1, <3>1, <3>2, <3>3
  <2>3. CASE Passed(g)' => Passed(g)
    BY <1>1, <2>1, <2>3 DEF RecheckInv
  <2> QED
    BY <2>2, <2>3
<1>5. FinalInv'
  BY <1>1, <1>2 DEF FinalInv, Matches
<1>6. FrozenExisted'
  BY <1>2 DEF FrozenExisted, Walking
<1> QED
  BY <1>3, <1>4, <1>5, <1>6 DEF TreeInv

LEMMA ReadKeepsTree ==
  ASSUME TreeInv, ReadFile
  PROVE  TreeInv'
<1> DEFINE f == Min(scan.read)
           seen == Put(scan.seen, f, tree[f])
<1>1. TreeTypes /\ RecheckInv /\ FinalInv
  BY DEF TreeInv
<1>2. /\ f \in scan.read /\ f \in File /\ tree[f] # 0
      /\ scan.list = {}
      /\ scan' = [list |-> scan.list, read |-> scan.read \ {f}, seen |-> seen]
      /\ UNCHANGED <<tree, edits, pc, manifest, trees, atCheck>>
      /\ pc \in Walking
  BY <1>1, MinIn DEF ReadFile, Readable, TreeTypes, environment, history
<1>3. /\ DOMAIN seen = {f} \cup DOMAIN scan.seen
      /\ seen[f] = tree[f]
      /\ \A g \in DOMAIN scan.seen \ {f} : seen[g] = scan.seen[g]
  BY DEF Put
<1> HIDE DEF f, seen
<1>4. scan'.list = scan.list /\ scan'.read = scan.read \ {f} /\ scan'.seen = seen
  BY <1>2
<1>5. TreeTypes'
  <2>1. tree[f] \in 1..edits
    BY <1>1, <1>2 DEF TreeTypes
  <2>2. DOMAIN seen \subseteq File /\ \A g \in DOMAIN seen : seen[g] \in 1..edits
    BY <1>1, <1>2, <1>3, <2>1 DEF TreeTypes
  <2> QED
    BY <1>1, <1>2, <1>4, <2>2 DEF TreeTypes, Building
<1>6. \A t : Matches(t) => Matches(t)'
  BY <1>2, <1>3, <1>4 DEF Matches
<1>7. \A g : Passed(g)' => Passed(g)
  BY <1>2, <1>3, <1>4 DEF Passed
<1>8. RecheckInv'
  BY <1>1, <1>2, <1>6, <1>7 DEF RecheckInv
<1>9. FinalInv'
  BY <1>1, <1>2, <1>6 DEF FinalInv
<1>10. FrozenExisted'
  BY <1>2 DEF FrozenExisted, Walking
<1> QED
  BY <1>5, <1>8, <1>9, <1>10 DEF TreeInv

\* The steps that begin or end a walk.
LEMMA WalksKeepTree ==
  ASSUME TreeInv,
         \/ AttestSelf \/ TakeManifest \/ CopyTree \/ Freeze \/ ScanSecrets \/ CompilePacket
         \/ MeasureDegradation
  PROVE  TreeInv'
<1>1. TreeTypes /\ RecheckInv
  BY DEF TreeInv
<1>2. UNCHANGED <<tree, edits>> /\ DOMAIN << >> = {}
  BY DEF AttestSelf, TakeManifest, CopyTree, Freeze, ScanSecrets, CompilePacket, MeasureDegradation,
         environment
<1>3. \A d, r : /\ Walk(d, r).list = d /\ Walk(d, r).read = r /\ Walk(d, r).seen = << >>
                /\ Walk(d, r) = [list |-> d, read |-> r, seen |-> << >>]
  BY DEF Walk
<1>4. tree \in Trees
  BY <1>1, TreesSoFar DEF TreeTypes
<1> USE DEF Goto, Building, Idle
<1>5. TreeTypes'
  <2>1. CASE AttestSelf
    BY <1>1, <1>2, <1>3, <1>4, <2>1 DEF AttestSelf, TreeTypes
  <2>2. CASE TakeManifest
    <3>1. manifest' = scan.seen /\ scan' = Walk({}, DOMAIN scan.seen) /\ UNCHANGED <<trees, atCheck>>
          /\ pc = "manifest" /\ pc' = "copy"
      BY <2>2 DEF TakeManifest, history
    <3> QED
      BY <1>1, <1>2, <1>3, <3>1 DEF TreeTypes
  <2>3. CASE CopyTree \/ Freeze \/ CompilePacket
    <3>1. /\ UNCHANGED <<trees, atCheck, manifest>>
          /\ scan' = Walk(File, {}) \/ scan' = Walk({}, {})
          /\ pc' \in Building => pc \in Building
      BY <2>3 DEF CopyTree, Freeze, CompilePacket, history
    <3> QED
      BY <1>1, <1>2, <1>3, <3>1 DEF TreeTypes
  <2>4. CASE ScanSecrets \/ MeasureDegradation
    <3>1. /\ trees' \in {trees, {}} /\ manifest' = manifest /\ scan' = Walk(File, {})
          /\ pc' \notin Building
      BY <2>4 DEF ScanSecrets, MeasureDegradation
    <3> QED
      BY <1>1, <1>2, <1>3, <3>1 DEF TreeTypes
  <2> QED
    BY <2>1, <2>2, <2>3, <2>4
<1>6. RecheckInv'
  <2>1. CASE CopyTree
    <3>1. /\ scan' = Walk(File, {}) /\ UNCHANGED <<trees, manifest>> /\ tree \in trees
      BY <1>1, <2>1 DEF CopyTree, history, TreeTypes
    <3>2. Matches(tree)'
      BY <1>2, <1>3, <3>1 DEF Matches
    <3>3. \A g \in File : ~Passed(g)'
      BY <1>3, <3>1 DEF Passed
    <3> QED
      BY <1>2, <3>1, <3>2, <3>3 DEF RecheckInv, Matches
  <2>2. CASE pc' # "recheck"
    BY <2>2 DEF RecheckInv
  <2> QED
    BY <2>1, <2>2 DEF AttestSelf, TakeManifest, CopyTree, Freeze, ScanSecrets, CompilePacket,
                      MeasureDegradation
<1>7. FrozenExisted'
  <2>1. CASE Freeze
    <3>1. /\ pc = "recheck" /\ UNCHANGED <<trees, manifest>>
          /\ scan.list = {} /\ scan.read = {} /\ scan.seen = manifest
      BY <2>1 DEF Freeze, Fresh, Scanned, history
    <3>2. ASSUME NEW g \in File
          PROVE  \E t \in trees : /\ \A f \in DOMAIN manifest : t[f] = manifest[f]
                                  /\ g \notin DOMAIN manifest => t[g] = 0
      BY <1>1, <3>1 DEF RecheckInv, Matches, Passed
    <3> QED
      BY <3>1, <3>2 DEF FrozenExisted
  <2>2. CASE pc' # "frozen"
    BY <2>2 DEF FrozenExisted
  <2> QED
    BY <2>1, <2>2 DEF AttestSelf, TakeManifest, CopyTree, Freeze, ScanSecrets, CompilePacket,
                      MeasureDegradation
<1>8. FinalInv'
  <2>1. CASE MeasureDegradation
    BY <1>2, <1>3, <2>1 DEF MeasureDegradation, FinalInv, Matches
  <2>2. CASE pc' # "final"
    BY <2>2 DEF FinalInv
  <2> QED
    BY <2>1, <2>2 DEF AttestSelf, TakeManifest, CopyTree, Freeze, ScanSecrets, CompilePacket,
                      MeasureDegradation
<1> QED
  BY <1>5, <1>6, <1>7, <1>8 DEF TreeInv

\* An edit brings a version that no manifest has.
LEMMA EditKeepsTree ==
  ASSUME TreeInv, Edit
  PROVE  TreeInv'
<1>1. TreeTypes /\ RecheckInv /\ FinalInv /\ FrozenExisted
  BY DEF TreeInv
<1>2. PICK f \in File, version \in {0, edits + 1} : tree' = [tree EXCEPT ![f] = version]
  BY DEF Edit
<1>3. /\ edits' = edits + 1 /\ edits' \in 1..MaxEdits /\ edits \in 1..MaxEdits
      /\ UNCHANGED <<pc, scan, manifest, atCheck>>
      /\ trees' = IF pc \in Building THEN trees \cup {tree'} ELSE trees
  BY <1>1, PreparationAssumption DEF Edit, TreeTypes
<1>4. tree' \in [File -> 0..edits'] /\ tree' \in Trees
  <2>1. 0..edits \subseteq 0..edits' /\ version \in 0..edits'
    BY <1>2, <1>3
  <2>2. tree' \in [File -> 0..edits']
    BY <1>1, <1>2, <2>1 DEF TreeTypes
  <2> QED
    BY <1>3, <2>2, TreesSoFar
<1>5. TreeTypes'
  <2>1. 1..edits \subseteq 1..edits'
    BY <1>3
  <2>2. \A m \in {manifest, scan.seen} : \A g \in DOMAIN m : m[g] \in 1..edits'
    BY <1>1, <2>1 DEF TreeTypes
  <2> QED
    BY <1>1, <1>3, <1>4, <2>2 DEF TreeTypes
<1>6. \A t : Matches(t) => Matches(t)'
  <2> SUFFICES ASSUME NEW t, Matches(t), NEW g \in DOMAIN manifest, tree'[g] = manifest[g]
               PROVE  tree[g] = manifest[g]
    BY <1>3 DEF Matches
  <2>1. manifest[g] \in 1..edits /\ g \in File
    BY <1>1 DEF TreeTypes
  <2> QED
    BY <1>1, <1>2, <1>3, <2>1 DEF TreeTypes
<1>7. RecheckInv'
  BY <1>1, <1>3, <1>6 DEF RecheckInv, Passed
<1>8. FinalInv'
  BY <1>1, <1>3, <1>6 DEF FinalInv
<1>9. FrozenExisted'
  BY <1>1, <1>3 DEF FrozenExisted, Building
<1> QED
  BY <1>5, <1>7, <1>8, <1>9 DEF TreeInv

LEMMA TreeStep ==
  ASSUME TreeInv, [Next]_vars
  PROVE  TreeInv'
<1> USE DEF environment, snapshot, history
<1>1. CASE ListDirectory \/ ReadFile
  BY <1>1, ListKeepsTree, ReadKeepsTree
<1>2. CASE \/ AttestSelf \/ TakeManifest \/ CopyTree \/ Freeze \/ ScanSecrets \/ CompilePacket
           \/ MeasureDegradation
  BY <1>2, WalksKeepTree
<1>3. CASE Edit
  BY <1>3, EditKeepsTree
<1>4. CASE ChooseRoute \/ BlockDispatch \/ StartDispatch \/ DispatchFirstPasses \/ JudgePair
  BY <1>4, KeepTree DEF tree_vars, Goto, ChooseRoute, BlockDispatch, StartDispatch, DispatchFirstPasses,
                        JudgePair
<1>5. CASE AttestCall \/ FinishDispatch \/ Analyze \/ StartGrounding \/ GroundCandidate
  BY <1>5, KeepTree DEF tree_vars, Goto, AttestCall, FinishDispatch, Analyze, StartGrounding,
                        GroundCandidate
<1>6. CASE FinishGrounding \/ SkipGrounding \/ CheckTree
  BY <1>6, KeepTree DEF tree_vars, Goto, FinishGrounding, SkipGrounding, CheckTree
<1>7. CASE WriteAnalysis \/ WriteResult \/ WritePending \/ BindPending \/ Announce
  BY <1>7, KeepTree DEF tree_vars, Goto, WriteAnalysis, WriteResult, WritePending, Write, BindPending,
                        Announce
<1>8. CASE Raise \/ Kill \/ DeadlinePasses \/ UNCHANGED vars
  BY <1>8, KeepTree DEF tree_vars, Raise, Kill, DeadlinePasses, vars
<1> QED
  BY <1>1, <1>2, <1>3, <1>4, <1>5, <1>6, <1>7, <1>8 DEF Next, Step, Done

-----------------------------------------------------------------------------
(* The records *)

\* A key that belongs to a later stage than any so far is new.
LEMMA RecordNew ==
  ASSUME RecordInv, NEW key \in Keys, Record(key),
         Stage[pc] < StageOf(key), StageOf(key) <= Stage[pc'], pc \in Places, pc' \in Places
  PROVE  /\ journal' \in Seq(Keys) /\ IsInjective(journal')
         /\ \A i \in DOMAIN journal' : StageOf(journal'[i]) <= Stage[pc']
<1>1. /\ journal \in Seq(Keys) /\ IsInjective(journal)
      /\ \A i \in DOMAIN journal : StageOf(journal[i]) <= Stage[pc]
      /\ journal' = Append(journal, key)
  BY DEF RecordInv, Record
<1>2. /\ journal' \in Seq(Keys) /\ Len(journal') = Len(journal) + 1
      /\ \A i \in 1..Len(journal) : journal'[i] = journal[i]
      /\ journal'[Len(journal) + 1] = key
      /\ DOMAIN journal = 1..Len(journal) /\ DOMAIN journal' = 1..Len(journal')
      /\ Len(journal) \in Nat
  BY <1>1, AppendProperties
<1>3. \A i \in 1..Len(journal) : StageOf(journal[i]) \in Nat /\ journal[i] # key
  <2> TAKE i \in 1..Len(journal)
  <2>1. StageOf(journal[i]) \in Nat
    BY DEF StageOf
  <2>2. Stage[pc] \in Nat /\ StageOf(key) \in Nat
    BY DEF Places, Early, Dispatched, Post, Ends, Stage, StageOf
  <2> QED
    BY <1>1, <1>2, <2>1, <2>2
<1>4. \A i \in DOMAIN journal' : i \in 1..Len(journal) \/ i = Len(journal) + 1
  BY <1>2
<1>5. IsInjective(journal')
  BY <1>1, <1>2, <1>3, <1>4 DEF IsInjective
<1>6. Stage[pc] \in Nat /\ Stage[pc'] \in Nat /\ StageOf(key) \in Nat
  BY DEF Places, Early, Dispatched, Post, Ends, Stage, StageOf
<1>7. \A i \in DOMAIN journal' : StageOf(journal'[i]) <= Stage[pc']
  <2> TAKE i \in DOMAIN journal'
  <2>1. CASE i = Len(journal) + 1
    BY <1>2, <2>1
  <2>2. CASE i \in 1..Len(journal)
    BY <1>1, <1>2, <1>3, <1>6, <2>2
  <2> QED
    BY <1>4, <2>1, <2>2
<1> QED
  BY <1>2, <1>5, <1>7

\* Steps that journal nothing.
LEMMA RecordNothing ==
  ASSUME RecordInv, UNCHANGED journal, pc \in Places, pc' \in Places, Stage[pc] <= Stage[pc']
  PROVE  /\ journal' \in Seq(Keys) /\ IsInjective(journal')
         /\ \A i \in DOMAIN journal' : StageOf(journal'[i]) <= Stage[pc']
<1>1. Stage[pc] \in Nat /\ Stage[pc'] \in Nat
  BY DEF Places, Early, Dispatched, Post, Ends, Stage
<1>2. \A i \in DOMAIN journal : StageOf(journal[i]) \in Nat
  BY DEF StageOf
<1> QED
  BY <1>1, <1>2 DEF RecordInv

LEMMA LedgerStep ==
  ASSUME RecordInv, UNCHANGED ledger \/ \E kind \in Kinds : Attest(kind)
  PROVE  ledger' \in Seq(Kinds)
BY AppendProperties DEF RecordInv, Attest

LEMMA StateStep ==
  ASSUME RecordInv,
         UNCHANGED state \/ \E target \in DOMAIN NextStates : Transition(target)
  PROVE  state' \in DOMAIN NextStates
BY DEF RecordInv, Transition

LEMMA RecordStep ==
  ASSUME RecordInv, pc \in Places, pc' \in Places, [Next]_vars
  PROVE  RecordInv'
<1> USE DEF records, Goto, Keys, Kinds
<1>1. DOMAIN NextStates = {"prepared", "routed", "frozen", "dispatched", "analyzed", "grounded"}
  BY DEF NextStates
<1>2. CASE \/ ChooseRoute \/ Freeze \/ BlockDispatch \/ StartDispatch \/ FinishDispatch \/ Analyze
           \/ FinishGrounding \/ Announce
  <2>1. PICK key \in Keys : /\ Record(key)
                            /\ Stage[pc] < StageOf(key) /\ StageOf(key) <= Stage[pc']
    <3>1. CASE ChooseRoute \/ Freeze
      BY <3>1 DEF ChooseRoute, Freeze, Stage, StageOf
    <3>2. CASE BlockDispatch \/ StartDispatch \/ FinishDispatch
      BY <3>2 DEF BlockDispatch, StartDispatch, FinishDispatch, Stage, StageOf
    <3>3. CASE Analyze \/ FinishGrounding
      BY <3>3 DEF Analyze, FinishGrounding, Stage, StageOf
    <3>4. CASE Announce
      BY <3>4 DEF Announce, Stage, StageOf
    <3> QED
      BY <1>2, <3>1, <3>2, <3>3, <3>4
  <2>2. /\ journal' \in Seq(Keys) /\ IsInjective(journal')
        /\ \A i \in DOMAIN journal' : StageOf(journal'[i]) <= Stage[pc']
    BY <2>1, RecordNew
  <2>3. UNCHANGED ledger
    BY <1>2 DEF ChooseRoute, Freeze, BlockDispatch, StartDispatch, FinishDispatch, Analyze,
                FinishGrounding, Announce
  <2>4. UNCHANGED state \/ \E target \in DOMAIN NextStates : Transition(target)
    BY <1>1, <1>2 DEF ChooseRoute, Freeze, BlockDispatch, StartDispatch, FinishDispatch, Analyze,
                      FinishGrounding, Announce
  <2> QED
    BY <2>2, <2>3, <2>4, LedgerStep, StateStep DEF RecordInv
<1>3. CASE \/ AttestSelf \/ ScanSecrets \/ CompilePacket \/ AttestCall \/ GroundCandidate \/ BindPending
  <2>1. UNCHANGED <<state, journal>> /\ Stage[pc] <= Stage[pc']
    <3>1. CASE AttestSelf \/ ScanSecrets \/ CompilePacket \/ BindPending
      BY <3>1 DEF AttestSelf, ScanSecrets, CompilePacket, BindPending, Stage
    <3>2. CASE AttestCall \/ GroundCandidate
      BY <3>2 DEF AttestCall, GroundCandidate, Stage
    <3> QED
      BY <1>3, <3>1, <3>2
  <2>2. UNCHANGED ledger \/ \E kind \in Kinds : Attest(kind)
    BY <1>3 DEF AttestSelf, ScanSecrets, CompilePacket, AttestCall, GroundCandidate, BindPending
  <2> QED
    BY <2>1, <2>2, LedgerStep, RecordNothing DEF RecordInv
<1>4. CASE \/ ListDirectory \/ ReadFile \/ TakeManifest \/ CopyTree \/ DispatchFirstPasses \/ JudgePair
           \/ StartGrounding \/ SkipGrounding \/ MeasureDegradation \/ CheckTree
  <2>1. UNCHANGED records /\ Stage[pc] <= Stage[pc']
    <3>1. CASE ListDirectory \/ ReadFile
      BY <3>1 DEF ListDirectory, ReadFile, Walking, Stage
    <3>2. CASE TakeManifest \/ CopyTree
      BY <3>2 DEF TakeManifest, CopyTree, Stage
    <3>4. CASE DispatchFirstPasses \/ JudgePair
      <4>1. pc \in {"dispatch", "judge"} /\ pc' \in {"judge", "attest"} /\ UNCHANGED records
        BY <3>4 DEF DispatchFirstPasses, JudgePair
      <4> QED
        BY <4>1 DEF Stage
    <3>3. CASE StartGrounding \/ SkipGrounding \/ MeasureDegradation \/ CheckTree
      BY <3>3 DEF StartGrounding, SkipGrounding, MeasureDegradation, CheckTree, Stage
    <3> QED
      BY <1>4, <3>1, <3>2, <3>3, <3>4
  <2> QED
    BY <2>1, RecordNothing DEF RecordInv
<1>5. CASE WriteAnalysis \/ WriteResult \/ WritePending \/ Raise \/ Kill
  <2>1. UNCHANGED records /\ Stage[pc] <= Stage[pc']
    BY <1>5 DEF WriteAnalysis, WriteResult, WritePending, Write, Raise, Kill, Stage, Places, Early,
                Dispatched, Post, Ends
  <2> QED
    BY <2>1, RecordNothing DEF RecordInv
<1>6. CASE Edit \/ DeadlinePasses \/ UNCHANGED vars
  <2>1. UNCHANGED <<records, pc>>
    BY <1>6 DEF Edit, DeadlinePasses, vars
  <2> QED
    BY <2>1 DEF RecordInv
<1> QED
  BY <1>2, <1>3, <1>4, <1>5, <1>6 DEF Next, Step, Done

-----------------------------------------------------------------------------
(* The route *)

LEMMA ResolveIs ==
  ASSUME NEW asked \in Requests, NEW preset \in Preset, NEW explicit \in Panel \cup {None}
  PROVE  /\ Resolve(asked, preset, explicit) \subseteq Panel
         /\ \A p \in Resolve(asked, preset, explicit) :
              asked.sensitive => AtLeast(p, HardMinimum)
<1> DEFINE minimum == IF asked.sensitive THEN HardMinimum ELSE "fast"
           selected == IF Strength[preset] < Strength[minimum] THEN minimum ELSE preset
           chosen == IF explicit = None THEN PanelOf[selected] ELSE explicit
<1>1. Resolve(asked, preset, explicit) =
        {p \in {chosen} : /\ p.enabled
                          /\ asked.sensitive => AtLeast(p, minimum)
                          /\ asked.external => Self \notin Participants(p)
                          /\ Cardinality(Participants(p)) <= MaxPanelSize}
  BY DEF Resolve
<1>2. minimum \in Preset
  BY RoutingAssumption DEF Preset
<1>3. selected \in Preset
  BY <1>2
<1>4. chosen \in Panel
  BY <1>3, RoutingAssumption
<1> HIDE DEF chosen
<1> QED
  BY <1>1, <1>4

LEMMA RoutesAre ==
  ASSUME NEW asked \in Requests
  PROVE  /\ Routes(asked) \subseteq Panel
         /\ \A p \in Routes(asked) : asked.sensitive => AtLeast(p, HardMinimum)
<1> DEFINE first == Resolve(asked, Baseline(asked), asked.panel)
           second == Resolve(asked, asked.pack.minimum, None)
<1>1. /\ asked.panel \in Panel \cup {None} /\ asked.pack \in Pack \cup {None}
      /\ asked.preset \in Preset \cup {"adaptive"}
  BY RequestAssumption
<1>2. Baseline(asked) \in Preset
  BY <1>1 DEF Baseline, Preset
<1>3. /\ first \subseteq Panel
      /\ \A p \in first : asked.sensitive => AtLeast(p, HardMinimum)
  BY <1>1, <1>2, ResolveIs
<1>4. CASE asked.pack = None
  BY <1>3, <1>4 DEF Routes
<1>5. CASE asked.pack # None
  <2>1. asked.pack.minimum \in Preset
    BY <1>1, <1>5, RoutingAssumption
  <2>2. /\ second \subseteq Panel
        /\ \A p \in second : asked.sensitive => AtLeast(p, HardMinimum)
    BY <2>1, ResolveIs
  <2>3. Routes(asked) \subseteq first \cup second
    BY <1>5 DEF Routes
  <2> QED
    BY <1>3, <2>2, <2>3
<1> QED
  BY <1>4, <1>5

LEMMA ExternalIsFinite ==
  ASSUME NEW p \in Panel
  PROVE  /\ External(p) \subseteq Handle /\ IsFiniteSet(External(p))
         /\ Cardinality(External(p)) \in Nat
<1>1. p \in PanelType
  BY RoutingAssumption
<1>2. External(p) \subseteq Handle
  BY <1>1 DEF PanelType, External, Range
<1> QED
  BY <1>2, FS_Subset, FS_CardinalityType, RoutingAssumption

-----------------------------------------------------------------------------
(* The calls *)

LEMMA FirstPassesType ==
  ASSUME panel \in Panel
  PROVE  FirstPasses \in Seq(Handle)
<1> DEFINE advised == [i \in 1..Cardinality(panel.advisor) |-> CHOOSE h \in panel.advisor : TRUE]
           reviewers == IF panel.reviewers # << >> THEN panel.reviewers ELSE advised
<1>1. /\ panel.reviewers \in Seq(Handle) /\ panel.proposers \in Seq(Handle)
      /\ panel.advisor \in SUBSET Handle
  BY RoutingAssumption DEF PanelType
<1>2. advised \in Seq(Handle)
  <2>1. IsFiniteSet(panel.advisor) /\ Cardinality(panel.advisor) \in Nat
    BY <1>1, FS_Subset, FS_CardinalityType, RoutingAssumption
  <2>2. panel.advisor = {} => Cardinality(panel.advisor) = 0
    BY FS_EmptySet
  <2>3. \A i \in 1..Cardinality(panel.advisor) : (CHOOSE h \in panel.advisor : TRUE) \in Handle
    BY <1>1, <2>1, <2>2
  <2> QED
    BY <2>1, <2>3
<1>3. reviewers \in Seq(Handle)
  BY <1>1, <1>2
<1> HIDE DEF advised, reviewers
<1>4. reviewers # << >> => <<Head(reviewers)>> \in Seq(Handle)
  BY <1>3
<1>5. FirstPasses = CASE Ranked -> panel.proposers
                      [] panel.topology \in {"review", "advisor"} /\ reviewers # << >>
                           -> <<Head(reviewers)>>
                      [] OTHER -> reviewers
  BY DEF FirstPasses, reviewers, advised
<1> QED
  BY <1>1, <1>3, <1>4, <1>5 DEF Ranked

LEMMA SetToSeqIs ==
  ASSUME NEW S, IsFiniteSet(S)
  PROVE  SetToSeq(S) \in [1..Cardinality(S) -> S]
<1>1. PICK f \in [1..Cardinality(S) -> S] : f \in Bijection(1..Cardinality(S), S)
  BY FS_CardinalityType DEF ExistsBijection, Bijection, Injection
<1>2. IsInjective(f)
  BY <1>1 DEF Bijection, Injection, IsInjective
<1> QED
  BY <1>2 DEF SetToSeq

\* A dispatch that is blocked, and one that calls somebody.
LEMMA BlockedCalls ==
  ASSUME panel \in Panel
  PROVE  [i \in 1..Cardinality(External(panel)) |->
            Call(SetToSeq(External(panel))[i], "policy-blocked")] \in Seq(Calls)
<1>1. /\ External(panel) \subseteq Handle /\ IsFiniteSet(External(panel))
      /\ Cardinality(External(panel)) \in Nat
  BY ExternalIsFinite
<1>2. \A i \in 1..Cardinality(External(panel)) : SetToSeq(External(panel))[i] \in Handle
  BY <1>1, SetToSeqIs
<1>3. \A i \in 1..Cardinality(External(panel)) :
        Call(SetToSeq(External(panel))[i], "policy-blocked") \in Calls
  BY <1>2 DEF Call, Calls
<1> QED
  BY <1>1, <1>3

LEMMA FirstCalls ==
  ASSUME panel \in Panel, NEW status \in [1..Len(FirstPasses) -> Status]
  PROVE  /\ [i \in DOMAIN status |-> Call(FirstPasses[i], status[i])] \in Seq(Calls)
         /\ << >> \in Seq(Calls)
<1>1. FirstPasses \in Seq(Handle) /\ Len(FirstPasses) \in Nat
  BY FirstPassesType
<1>2. \A i \in 1..Len(FirstPasses) : FirstPasses[i] \in Handle
  BY <1>1
<1>3. \A i \in 1..Len(FirstPasses) : Call(FirstPasses[i], status[i]) \in Calls
  BY <1>2 DEF Call, Calls
<1>4. [i \in 1..Len(FirstPasses) |-> Call(FirstPasses[i], status[i])] \in Seq(Calls)
  BY <1>1, <1>3
<1> QED
  BY <1>4

-----------------------------------------------------------------------------
(* The comparisons *)

\* Of some pairs one is the earliest.
LEMMA EarliestPair ==
  ASSUME NEW S \in SUBSET (Nat \X Nat), S # {}
  PROVE  \E p \in S : \A q \in S : q = p \/ Earlier(p, q)
<1> DEFINE lefts == {p[1] : p \in S}
<1>1. lefts \in SUBSET Nat /\ lefts # {}
  OBVIOUS
<1>2. PICK l \in lefts : \A j \in lefts : l <= j
  BY <1>1, LeastIs
<1> DEFINE rights == {p[2] : p \in {q \in S : q[1] = l}}
<1>3. rights \in SUBSET Nat /\ rights # {}
  BY <1>2
<1>4. PICK r \in rights : \A j \in rights : r <= j
  BY <1>3, LeastIs
<1>5. PICK p \in S : p[1] = l /\ p[2] = r
  BY <1>4
<1>6. ASSUME NEW q \in S
      PROVE  q = p \/ Earlier(p, q)
  <2>1. q[1] \in Nat /\ q[2] \in Nat /\ l \in Nat /\ r \in Nat
    BY <1>1, <1>2, <1>3, <1>4
  <2>2. l <= q[1]
    BY <1>2
  <2>3. q[1] = l => r <= q[2]
    BY <1>4
  <2>4. q = <<q[1], q[2]>> /\ p = <<p[1], p[2]>>
    OBVIOUS
  <2> QED
    BY <1>5, <2>1, <2>2, <2>3, <2>4 DEF Earlier
<1> QED
  BY <1>6

LEMMA PairsType ==
  ASSUME panel \in Panel
  PROVE  /\ panel.proposers \in Seq(Handle) /\ Len(panel.proposers) \in Nat
         /\ DOMAIN panel.proposers = 1..Len(panel.proposers)
         /\ Pairs \subseteq Nat \X Nat
<1>1. panel.proposers \in Seq(Handle)
  BY RoutingAssumption DEF PanelType
<1>2. DOMAIN panel.proposers = 1..Len(panel.proposers) /\ Len(panel.proposers) \in Nat
  BY <1>1
<1> QED
  BY <1>1, <1>2 DEF Pairs

\* Two proposals make a pair.
LEMMA PairsThereAre ==
  ASSUME panel \in Panel, Ranked, Dispatchable
  PROVE  Pairs # {}
<1>1. Len(panel.proposers) >= 2
  BY DEF Dispatchable, FirstPasses, Ranked
<1>2. <<1, 2>> \in Pairs
  BY <1>1, PairsType DEF Pairs
<1> QED
  BY <1>2

\* What one comparison is made of.
LEMMA Comparison ==
  ASSUME PlanInv, OutcomeInv, JudgePair
  PROVE  \E pair \in Pairs \ Judged, winner \in Nat, calls \in Seq(Calls) :
           /\ winner \in {pair[1], pair[2], Nobody}
           /\ outcomes' = outcomes \cup {[left |-> pair[1], right |-> pair[2], winner |-> winner]}
           /\ results' = results \o calls
           /\ winner # Nobody => AllCompleted(calls)
           /\ pc' = IF winner = Nobody \/ Judged \cup {pair} = Pairs THEN "attest" ELSE "judge"
           /\ UNCHANGED <<panel, request, written, late, candidates, verdicts>>
<1> DEFINE pair == CHOOSE p \in Pairs \ Judged : \A q \in Pairs \ Judged : q = p \/ Earlier(p, q)
           votes == {pair[1], pair[2], Nobody}
           judge == CHOOSE h \in panel.judge : TRUE
<1>0. PICK forward, reverse \in votes, status, status2 \in {"completed", "failed"} :
        /\ forward # Nobody => status = "completed"
        /\ reverse # Nobody => status2 = "completed"
        /\ late => status = "failed" /\ status2 = "failed"
        /\ LET winner == IF forward = reverse THEN forward ELSE Nobody
           IN  /\ outcomes' = outcomes \cup
                                {[left |-> pair[1], right |-> pair[2], winner |-> winner]}
               /\ pc' = IF winner = Nobody \/ Judged \cup {pair} = Pairs
                          THEN "attest" ELSE "judge"
        /\ results' = results \o <<Call(judge, status), Call(judge, status2)>>
  BY DEF JudgePair
<1>1. /\ pc = "judge" /\ panel \in Panel /\ Ranked /\ Pairs \ Judged # {} /\ Dispatchable
  BY RoutesAre DEF JudgePair, PlanInv, OutcomeInv, Dispatched
<1>2. \E p \in Pairs \ Judged : \A q \in Pairs \ Judged : q = p \/ Earlier(p, q)
  <2>1. Pairs \ Judged \in SUBSET (Nat \X Nat)
    BY <1>1, PairsType
  <2> QED
    BY <1>1, <2>1, EarliestPair
<1>3. pair \in Pairs \ Judged
  BY <1>2
<1>4. judge \in Handle
  BY <1>1, RoutingAssumption DEF Dispatchable, PanelType
<1> HIDE DEF pair, judge
<1> DEFINE winner == IF forward = reverse THEN forward ELSE Nobody
           calls == <<Call(judge, status), Call(judge, status2)>>
<1>6. Call(judge, status) \in Calls /\ Call(judge, status2) \in Calls
  BY <1>4 DEF Call, Calls, Status
<1>7. calls \in Seq(Calls)
  BY <1>6
<1>8. winner # Nobody => AllCompleted(calls)
  BY <1>0 DEF AllCompleted, Call
<1>9. UNCHANGED <<panel, request, written, late, candidates, verdicts>>
  BY DEF JudgePair, plan, outputs, environment, grounding
<1>10. winner \in votes /\ winner \in Nat
  BY <1>1, <1>3, <1>0, PairsType DEF Nobody
<1> HIDE DEF winner, calls
<1>11. /\ outcomes' = outcomes \cup {[left |-> pair[1], right |-> pair[2], winner |-> winner]}
       /\ results' = results \o calls
       /\ pc' = IF winner = Nobody \/ Judged \cup {pair} = Pairs THEN "attest" ELSE "judge"
  BY <1>0 DEF winner, calls
<1> QED
  BY <1>3, <1>7, <1>8, <1>9, <1>10, <1>11

LEMMA CallsJoined ==
  ASSUME NEW a \in Seq(Calls), NEW b \in Seq(Calls)
  PROVE  /\ a \o b \in Seq(Calls)
         /\ AllCompleted(a) /\ AllCompleted(b) => AllCompleted(a \o b)
<1>1. /\ a \o b \in Seq(Calls) /\ Len(a \o b) = Len(a) + Len(b)
      /\ Len(a) \in Nat /\ Len(b) \in Nat
      /\ \A i \in 1..Len(a) : (a \o b)[i] = a[i]
      /\ \A i \in 1..Len(b) : (a \o b)[Len(a) + i] = b[i]
  BY ConcatProperties
<1>2. ASSUME AllCompleted(a), AllCompleted(b), NEW i \in 1..Len(a \o b)
      PROVE  (a \o b)[i].status = "completed"
  <2>1. CASE i \in 1..Len(a)
    BY <1>1, <1>2, <2>1 DEF AllCompleted
  <2>2. CASE i \notin 1..Len(a)
    <3>1. i - Len(a) \in 1..Len(b) /\ i = Len(a) + (i - Len(a))
      BY <1>1, <2>2
    <3> QED
      BY <1>1, <1>2, <3>1 DEF AllCompleted
  <2> QED
    BY <2>1, <2>2
<1> QED
  BY <1>1, <1>2 DEF AllCompleted

LEMMA CompareStep ==
  ASSUME PlanInv, OutcomeInv, JudgePair
  PROVE  OutcomeInv'
<1>1. PICK pair \in Pairs \ Judged, winner \in Nat, calls \in Seq(Calls) :
        /\ winner \in {pair[1], pair[2], Nobody}
        /\ outcomes' = outcomes \cup {[left |-> pair[1], right |-> pair[2], winner |-> winner]}
        /\ results' = results \o calls
        /\ winner # Nobody => AllCompleted(calls)
        /\ pc' = IF winner = Nobody \/ Judged \cup {pair} = Pairs THEN "attest" ELSE "judge"
        /\ UNCHANGED <<panel, request, written, late, candidates, verdicts>>
  BY Comparison
<1> DEFINE new == [left |-> pair[1], right |-> pair[2], winner |-> winner]
<1>2. /\ pc = "judge" /\ panel \in Panel /\ Ranked /\ results \in Seq(Calls)
      /\ \A o \in outcomes : o.winner # Nobody
  BY RoutesAre DEF JudgePair, PlanInv, OutcomeInv
<1>3. pair \in Nat \X Nat /\ pair = <<pair[1], pair[2]>>
  BY <1>1, <1>2, PairsType
<1>4. new \in Outcome
  BY <1>1, <1>3 DEF Outcome, Nobody
<1>5. /\ new.left = pair[1] /\ new.right = pair[2] /\ new.winner = winner
      /\ <<new.left, new.right>> = pair
  BY <1>3
<1> HIDE DEF new
<1>6. outcomes' = outcomes \cup {new} /\ Pairs' = Pairs
  BY <1>1 DEF new, Pairs
<1>7. Judged' = Judged \cup {pair}
  BY <1>5, <1>6 DEF Judged
<1>8. Judged \subseteq Pairs
  BY DEF Judged, OutcomeInv
<1>9. \A o \in outcomes : ~(o.left = new.left /\ o.right = new.right)
  BY <1>1, <1>5 DEF Judged
<1>10. \A o, q \in outcomes' : o.left = q.left /\ o.right = q.right => o = q
  BY <1>6, <1>9 DEF OutcomeInv
<1>11. (\A o \in outcomes' : o.winner # Nobody) => AllCompleted(results')
  BY <1>1, <1>2, <1>5, <1>6, CallsJoined DEF OutcomeInv
<1>12. pc' = "judge" => Pairs' \ Judged' # {} /\ \A o \in outcomes' : o.winner # Nobody
  BY <1>1, <1>2, <1>5, <1>6, <1>7, <1>8
<1>13. \A o \in outcomes' : o \in Outcome /\ <<o.left, o.right>> \in Pairs'
                             /\ o.winner \in {o.left, o.right, Nobody}
  BY <1>1, <1>4, <1>5, <1>6 DEF OutcomeInv
<1>14. Ranked'
  BY <1>1, <1>2 DEF Ranked
<1> QED
  BY <1>10, <1>11, <1>12, <1>13, <1>14 DEF OutcomeInv

\* Steps that neither choose, call nor compare.
LEMMA KeepOutcomes ==
  ASSUME OutcomeInv, UNCHANGED <<panel, results, outcomes>>, pc' = "judge" => pc = "judge"
  PROVE  OutcomeInv'
BY DEF OutcomeInv, Pairs, Judged, Ranked

LEMMA OutcomeStep ==
  ASSUME PlanInv, OutcomeInv, [Next]_vars
  PROVE  OutcomeInv'
<1> USE DEF plan, review, Goto
<1>1. CASE JudgePair
  BY <1>1, CompareStep
<1>2. CASE ChooseRoute \/ BlockDispatch
  <2>1. outcomes' = {} /\ pc' # "judge"
    BY <1>2 DEF ChooseRoute, BlockDispatch, PlanInv, Early
  <2> QED
    BY <2>1 DEF OutcomeInv
<1>3. CASE DispatchFirstPasses
  <2>1. /\ outcomes' = {} /\ panel' = panel /\ panel \in Panel /\ Dispatchable
        /\ pc' = "judge" => Ranked /\ AllCompleted(results')
    BY <1>3, RoutesAre DEF DispatchFirstPasses, PlanInv, Early
  <2>2. Ranked => Pairs # {}
    BY <2>1, PairsThereAre
  <2>3. Judged' = {} /\ Pairs' = Pairs /\ Ranked' = Ranked
    BY <2>1 DEF Judged, Pairs, Ranked
  <2> QED
    BY <2>1, <2>2, <2>3 DEF OutcomeInv
<1>4. CASE ListDirectory \/ ReadFile \/ AttestSelf \/ TakeManifest \/ CopyTree \/ Freeze
  BY <1>4, KeepOutcomes DEF ListDirectory, ReadFile, AttestSelf, TakeManifest, CopyTree, Freeze
<1>5. CASE ScanSecrets \/ CompilePacket \/ StartDispatch \/ AttestCall \/ FinishDispatch \/ Analyze
  BY <1>5, KeepOutcomes DEF ScanSecrets, CompilePacket, StartDispatch, AttestCall, FinishDispatch, Analyze
<1>6. CASE StartGrounding \/ GroundCandidate \/ FinishGrounding \/ SkipGrounding \/ MeasureDegradation
  BY <1>6, KeepOutcomes DEF StartGrounding, GroundCandidate, FinishGrounding, SkipGrounding,
                            MeasureDegradation
<1>7. CASE CheckTree \/ WriteAnalysis \/ WriteResult \/ WritePending \/ BindPending \/ Announce
  BY <1>7, KeepOutcomes DEF CheckTree, WriteAnalysis, WriteResult, WritePending, Write, BindPending,
                            Announce
<1>8. CASE Raise \/ Kill \/ Edit \/ DeadlinePasses \/ UNCHANGED vars
  BY <1>8, KeepOutcomes DEF Raise, Kill, Edit, DeadlinePasses, vars
<1> QED
  BY <1>1, <1>2, <1>3, <1>4, <1>5, <1>6, <1>7, <1>8 DEF Next, Step, Done

-----------------------------------------------------------------------------
(* The plan and what it has come to *)

LEMMA SamePlan ==
  ASSUME UNCHANGED <<request, panel>>
  PROVE  RepoBlocked' = RepoBlocked /\ Dispatchable' = Dispatchable /\ Routes(request)' = Routes(request)
BY DEF RepoBlocked, Dispatchable, FirstPasses, Ranked

LEMMA KeepPlan ==
  ASSUME PlanInv, UNCHANGED <<request, panel, results, outcomes>>,
         written' # {} => written # {} \/ pc \in Post,
         late' \in BOOLEAN, pc' \in Places,
         pc' \in {"prepared", "raised", "killed"} \/ pc \notin {"prepared", "raised", "killed"},
         pc' \in {"dispatch", "judge"} => pc = pc' \/ ~RepoBlocked,
         pc \in Post \cup {"raised", "killed"} => pc' \in Post \cup {"raised", "killed"},
         pc' \in Early => pc \in Early,
         pc' \in Dispatched => pc \in Dispatched,
         candidates' \subseteq Candidate,
         \A id \in DOMAIN verdicts' : verdicts'[id] \in GroundingVerdict
  PROVE  PlanInv'
<1>1. RepoBlocked' = RepoBlocked /\ Dispatchable' = Dispatchable /\ Routes(request)' = Routes(request)
  BY SamePlan
<1>2. Checked' => Checked \/ pc' \in Post
  BY DEF Checked
<1>3. Post \subseteq Dispatched /\ {"prepared", "raised", "killed"} \cap Post = {}
  BY DEF Dispatched, Post
<1>4. /\ pc' \notin {"prepared", "raised", "killed"} \/ written' # {} => panel \in Routes(request)
      /\ pc' \in Dispatched \/ Checked' => RepoBlocked \/ Dispatchable
  BY <1>2, <1>3 DEF PlanInv
<1> QED
  BY <1>1, <1>4 DEF PlanInv

LEMMA PlanStep ==
  ASSUME PlanInv, OutcomeInv, [Next]_vars
  PROVE  PlanInv'
<1> USE DEF plan, review, grounding, environment, outputs, Goto, Places, Early, Dispatched, Post, Ends
<1>1. CASE ChooseRoute
  <2>1. /\ panel' \in Routes(request) /\ pc' = "routed" /\ pc = "prepared"
        /\ UNCHANGED <<request, late, results, outcomes, candidates, verdicts, written, reasons>>
    BY <1>1 DEF ChooseRoute
  <2>2. panel' \in Panel
    BY <2>1, RoutesAre DEF PlanInv
  <2>3. written = {}
    BY <2>1 DEF PlanInv
  <2> QED
    BY <2>1, <2>2, <2>3 DEF PlanInv, Checked
<1>2. CASE BlockDispatch
  <2>1. /\ RepoBlocked /\ panel \in Panel /\ pc' = "attest" /\ results' \in Seq(Calls)
        /\ UNCHANGED <<request, panel, late, outcomes, candidates, verdicts, written>>
    BY <1>2, RoutesAre, BlockedCalls DEF BlockDispatch, PlanInv
  <2>2. RepoBlocked'
    BY <2>1 DEF RepoBlocked
  <2> QED
    BY <1>2, <2>1, <2>2 DEF PlanInv, BlockDispatch
<1>3. CASE DispatchFirstPasses
  <2>1. /\ ~RepoBlocked /\ Dispatchable /\ panel \in Panel /\ pc' \in {"judge", "attest"}
        /\ UNCHANGED <<request, panel, late, outcomes, candidates, verdicts, written>>
    BY <1>3, RoutesAre DEF DispatchFirstPasses, PlanInv
  <2>2. results' \in Seq(Calls)
    BY <1>3, <2>1, FirstCalls DEF DispatchFirstPasses
  <2>3. ~RepoBlocked' /\ Dispatchable'
    BY <2>1, SamePlan
  <2> QED
    BY <1>3, <2>1, <2>2, <2>3 DEF PlanInv, DispatchFirstPasses
<1>4. CASE JudgePair
  <2>1. PICK calls \in Seq(Calls) :
          /\ results' = results \o calls
          /\ pc' \in {"judge", "attest"}
          /\ UNCHANGED <<panel, request, written, late, candidates, verdicts>>
    BY <1>4, Comparison
  <2>2. pc = "judge" /\ results \in Seq(Calls) /\ ~RepoBlocked /\ Dispatchable
    BY <1>4 DEF JudgePair, PlanInv
  <2>3. results' \in Seq(Calls)
    BY <2>1, <2>2, CallsJoined
  <2>4. ~RepoBlocked' /\ Dispatchable'
    BY <2>1, <2>2, SamePlan
  <2> QED
    BY <2>1, <2>2, <2>3, <2>4 DEF PlanInv
<1>5. CASE Analyze
  <2>1. candidates' \subseteq Candidate
    BY <1>5 DEF Analyze
  <2>2. /\ pc = "dispatched" /\ pc' = "analyzed"
        /\ UNCHANGED <<request, panel, late, results, outcomes, verdicts, written>>
    BY <1>5 DEF Analyze
  <2> QED
    BY <2>1, <2>2, KeepPlan DEF PlanInv
<1>6. CASE GroundCandidate
  <2>1. candidates' \subseteq Candidate
    BY <1>6 DEF GroundCandidate, PlanInv
  <2>2. /\ pc = "ground" /\ pc' = pc
        /\ UNCHANGED <<request, panel, late, results, outcomes, written>>
    BY <1>6 DEF GroundCandidate
  <2>3. \A id \in DOMAIN verdicts' : verdicts'[id] \in GroundingVerdict
    BY <1>6 DEF GroundCandidate, PlanInv, Put
  <2> QED
    BY <2>1, <2>2, <2>3, KeepPlan DEF PlanInv
<1>7. CASE ListDirectory \/ ReadFile \/ AttestSelf \/ TakeManifest \/ CopyTree \/ Freeze
  <2>1. /\ UNCHANGED <<request, panel, late, results, outcomes, candidates, verdicts, written>>
        /\ pc \in Walking \cup {"routed"}
        /\ \/ pc' = pc
           \/ pc \in Early \ {"prepared"} /\ pc' \in {"manifest", "copy", "recheck", "frozen"}
    BY <1>7 DEF ListDirectory, ReadFile, AttestSelf, TakeManifest, CopyTree, Freeze, Walking
  <2> QED
    BY <2>1, KeepPlan DEF PlanInv, Walking
<1>8. CASE ScanSecrets \/ CompilePacket \/ StartDispatch
  <2>1. /\ UNCHANGED <<request, panel, late, results, outcomes, candidates, verdicts, written>>
        /\ pc \in {"frozen", "packet", "compiled"}
        /\ pc' \in {"packet", "compiled", "dispatch"}
        /\ pc' = "dispatch" => ~RepoBlocked
    BY <1>8 DEF ScanSecrets, CompilePacket, StartDispatch
  <2> QED
    BY <2>1, KeepPlan DEF PlanInv
<1>9. CASE \/ AttestCall \/ FinishDispatch \/ StartGrounding \/ FinishGrounding \/ SkipGrounding
           \/ MeasureDegradation \/ CheckTree
  <2>1. /\ UNCHANGED <<request, panel, late, results, outcomes, candidates, verdicts, written>>
        /\ pc \in {"attest", "dispatched", "analyzed", "ground", "measure", "final"}
        /\ pc' \in {"attest", "dispatched", "ground", "measure", "final", "validate"}
    BY <1>9 DEF AttestCall, FinishDispatch, StartGrounding, FinishGrounding, SkipGrounding,
                MeasureDegradation, CheckTree
  <2> QED
    BY <2>1, KeepPlan DEF PlanInv
<1>10. CASE WriteAnalysis \/ WriteResult \/ WritePending \/ BindPending \/ Announce
  <2>1. /\ UNCHANGED <<request, panel, late, results, outcomes, candidates, verdicts>>
        /\ pc \in Post /\ pc' \in Post
    BY <1>10 DEF WriteAnalysis, WriteResult, WritePending, Write, BindPending, Announce
  <2> QED
    BY <2>1, KeepPlan DEF PlanInv
<1>11. CASE Raise \/ Kill
  <2>1. /\ UNCHANGED <<request, panel, late, results, outcomes, candidates, verdicts, written>>
        /\ pc' \in {"raised", "killed"}
    BY <1>11 DEF Raise, Kill
  <2> QED
    BY <2>1, KeepPlan DEF PlanInv
<1>12. CASE Edit \/ DeadlinePasses \/ UNCHANGED vars
  <2>1. /\ UNCHANGED <<request, panel, results, outcomes, candidates, verdicts, written, pc>>
        /\ late' \in BOOLEAN
    BY <1>12 DEF Edit, DeadlinePasses, vars, PlanInv
  <2> QED
    BY <2>1, KeepPlan DEF PlanInv
<1> QED
  BY <1>1, <1>2, <1>3, <1>4, <1>5, <1>6, <1>7, <1>8, <1>9, <1>10, <1>11, <1>12 DEF Next, Step, Done

-----------------------------------------------------------------------------
(* The reasons of degradation *)

LEMMA SameReview ==
  ASSUME UNCHANGED <<request, panel, results, outcomes>>
  PROVE  /\ TopologyDegraded' = TopologyDegraded
         /\ AnalysisValid' = AnalysisValid
<1>1. RepoBlocked' = RepoBlocked /\ Ranked' = Ranked
  BY DEF RepoBlocked, Ranked
<1>2. Winners' = Winners
  BY DEF Winners, Wins, Judged, Pairs
<1>3. AllCompleted(results)' = AllCompleted(results)
  BY DEF AllCompleted
<1> QED
  BY <1>1, <1>2, <1>3 DEF TopologyDegraded, AnalysisValid, CalledHandles

\* Steps that change neither the review, nor the snapshot, nor the reasons.
LEMMA KeepReasons ==
  ASSUME ReasonInv, UNCHANGED <<request, panel, results, outcomes, reasons, written, manifest, atCheck>>,
         pc' \in Compiled => pc \in Compiled,
         pc' = "final" => pc = "final",
         pc' \in Post => pc' = pc \/ pc \in Post \ {"validate"}
  PROVE  ReasonInv'
<1>1. Checked' => Checked
  BY DEF Checked
<1> QED
  BY <1>1, SameReview DEF ReasonInv

\* Steps before the last check, while no file is written.
LEMMA ReasonsEarly ==
  ASSUME PlanInv, ReasonInv, UNCHANGED <<reasons, written>>,
         pc \notin Post \cup {"raised", "killed"}, pc' \notin Post \cup {"final"},
         pc' \in Compiled => pc \in Compiled /\ UNCHANGED request
  PROVE  ReasonInv'
<1>1. written = {} /\ written' = {} /\ ~Checked /\ ~Checked'
  BY DEF PlanInv, Checked
<1> QED
  BY <1>1 DEF ReasonInv

LEMMA ReasonStep ==
  ASSUME TreeInv, PlanInv, OutcomeInv, ReasonInv, [Next]_vars
  PROVE  ReasonInv'
<1> USE DEF plan, snapshot, history, review, environment, outputs, Goto, Early, Compiled, Dispatched, Post
<1>1. CASE ChooseRoute \/ AttestSelf \/ TakeManifest \/ CopyTree \/ Freeze \/ ScanSecrets
  <2>1. /\ pc \in {"prepared", "routed", "manifest", "copy", "recheck", "frozen"}
        /\ pc' \in {"routed", "manifest", "copy", "recheck", "frozen", "packet"}
        /\ UNCHANGED <<reasons, written>>
    BY <1>1 DEF ChooseRoute, AttestSelf, TakeManifest, CopyTree, Freeze, ScanSecrets
  <2> QED
    BY <2>1, ReasonsEarly
<1>2. CASE CompilePacket
  <2>1. /\ pc = "packet" /\ pc' = "compiled" /\ UNCHANGED <<request, written>>
        /\ reasons' = IF "packet" \in request.secrets THEN {"content"} ELSE {}
    BY <1>2 DEF CompilePacket
  <2>2. written' = {} /\ ~Checked'
    BY <2>1 DEF PlanInv, Checked
  <2> QED
    BY <2>1, <2>2 DEF ReasonInv
<1>3. CASE BlockDispatch \/ StartDispatch \/ DispatchFirstPasses \/ JudgePair
  <2>1. /\ pc \in {"compiled", "dispatch", "judge"} /\ pc' \in {"dispatch", "judge", "attest"}
        /\ UNCHANGED <<request, reasons, written>>
    BY <1>3 DEF BlockDispatch, StartDispatch, DispatchFirstPasses, JudgePair
  <2> QED
    BY <2>1, ReasonsEarly
<1>4. CASE \/ AttestCall \/ FinishDispatch \/ Analyze \/ StartGrounding \/ GroundCandidate
           \/ FinishGrounding \/ SkipGrounding
  <2>1. /\ pc \in {"attest", "dispatched", "analyzed", "ground"}
        /\ pc' \in {"attest", "dispatched", "analyzed", "ground", "measure"}
        /\ UNCHANGED <<request, reasons, written>>
    BY <1>4 DEF AttestCall, FinishDispatch, Analyze, StartGrounding, GroundCandidate, FinishGrounding,
                SkipGrounding
  <2> QED
    BY <2>1, ReasonsEarly
<1>5. CASE MeasureDegradation
  <2>1. /\ pc = "measure" /\ pc' = "final" /\ UNCHANGED <<request, panel, results, outcomes, written>>
        /\ reasons' = reasons \cup (IF TopologyDegraded THEN {"topology"} ELSE {})
    BY <1>5 DEF MeasureDegradation
  <2>2. written' = {} /\ ~Checked'
    BY <2>1 DEF PlanInv, Checked
  <2>3. TopologyDegraded' = TopologyDegraded
    BY <2>1, SameReview
  <2> QED
    BY <2>1, <2>2, <2>3 DEF ReasonInv
<1>6. CASE CheckTree
  <2>1. /\ pc = "final" /\ pc' = "validate"
        /\ UNCHANGED <<request, panel, results, outcomes, written, manifest, atCheck>>
        /\ reasons' = reasons \cup (IF Fresh THEN {} ELSE {"stale"})
                               \cup (IF late THEN {"wallclock"} ELSE {})
    BY <1>6 DEF CheckTree
  <2>2. written' = {}
    BY <2>1 DEF PlanInv
  <2>3. TopologyDegraded' = TopologyDegraded
    BY <2>1, SameReview
  <2>4. Fresh => \A f \in DOMAIN manifest : atCheck[f] = manifest[f]
    BY <2>1 DEF TreeInv, FinalInv, Matches, Fresh
  <2> QED
    BY <2>1, <2>2, <2>3, <2>4 DEF ReasonInv
<1>7. CASE WriteAnalysis \/ WriteResult \/ WritePending
  <2>1. /\ pc \in Post /\ pc' \in Post
        /\ UNCHANGED <<request, panel, results, outcomes, reasons, manifest, atCheck>>
        /\ \E file \in {"analysis.json", "result.json", "pending.json"} :
              written' = written \cup {file}
        /\ pc = "validate" => AnalysisValid
    BY <1>7 DEF WriteAnalysis, WriteResult, WritePending, Write
  <2>2. AnalysisValid
    BY <2>1 DEF ReasonInv
  <2> QED
    BY <2>1, <2>2, SameReview DEF ReasonInv, Checked
<1>8. CASE ListDirectory \/ ReadFile \/ BindPending \/ Announce
  <2>1. /\ UNCHANGED <<request, panel, results, outcomes, reasons, written, manifest, atCheck>>
    BY <1>8 DEF ListDirectory, ReadFile, BindPending, Announce
  <2>2. pc' # pc => pc \in Post \ {"validate"} /\ pc' \in Post
    BY <1>8 DEF ListDirectory, ReadFile, BindPending, Announce
  <2> QED
    BY <2>1, <2>2, KeepReasons
<1>9. CASE Raise \/ Kill \/ Edit \/ DeadlinePasses \/ UNCHANGED vars
  <2>1. /\ UNCHANGED <<request, panel, results, outcomes, reasons, written, manifest, atCheck>>
        /\ pc' \in {pc, "raised", "killed"}
    BY <1>9 DEF Raise, Kill, Edit, DeadlinePasses, vars
  <2> QED
    BY <2>1, KeepReasons
<1> QED
  BY <1>1, <1>2, <1>3, <1>4, <1>5, <1>6, <1>7, <1>8, <1>9 DEF Next, Step, Done

-----------------------------------------------------------------------------
(* The invariant *)

LEMMA InitInv ==
  ASSUME Init
  PROVE  IInv
<1>1. /\ DOMAIN << >> = {} /\ Len(<< >>) = 0 /\ << >> \in Seq(Calls) /\ << >> \in Seq(Kinds)
  BY EmptySeq
<1>2. /\ scan = Walk({}, {}) /\ scan.list = {} /\ scan.read = {} /\ scan.seen = << >>
  BY DEF Init, Idle, Walk
<1>3. TreeInv
  <2>1. edits \in 1..MaxEdits /\ tree \in [File -> 0..edits]
    <3>1. edits = 1 /\ {0, 1} \subseteq 0..1 /\ 1 \in 1..MaxEdits
      BY PreparationAssumption DEF Init
    <3>2. tree \in [File -> 0..1]
      BY <3>1 DEF Init
    <3> QED
      BY <3>1, <3>2
  <2>2. TreeTypes
    BY <1>1, <1>2, <2>1 DEF Init, TreeTypes, Walk, Building
  <2> QED
    BY <2>2 DEF Init, TreeInv, RecheckInv, FrozenExisted, FinalInv
<1>4. RecordInv
  <2>1. /\ <<"state:prepared">> \in Seq(Keys) /\ DOMAIN <<"state:prepared">> = {1}
        /\ <<"state:prepared">>[1] = "state:prepared"
    BY DEF Keys
  <2>2. Stage["prepared"] = 1 /\ StageOf("state:prepared") = 1
    BY DEF Stage, StageOf
  <2> QED
    BY <1>1, <2>1, <2>2 DEF Init, RecordInv, IsInjective, NextStates
<1>5. PlanInv
  BY <1>1 DEF Init, PlanInv, Places, Early, Dispatched, Post, Ends, Checked
<1>6. OutcomeInv
  BY DEF Init, OutcomeInv
<1>7. ReasonInv
  BY DEF Init, ReasonInv, Compiled, Dispatched, Post, Checked
<1> QED
  BY <1>3, <1>4, <1>5, <1>6, <1>7 DEF IInv

LEMMA StepInv ==
  ASSUME IInv, [Next]_vars
  PROVE  IInv'
<1>1. TreeInv' /\ PlanInv' /\ OutcomeInv' /\ ReasonInv'
  BY TreeStep, PlanStep, OutcomeStep, ReasonStep DEF IInv
<1>2. RecordInv'
  BY <1>1, RecordStep DEF IInv, PlanInv
<1> QED
  BY <1>1, <1>2 DEF IInv

LEMMA Invariance == Spec => []IInv
BY InitInv, StepInv, PTL DEF Spec

-----------------------------------------------------------------------------
(* Types, the snapshot and freshness *)

LEMMA TypesHold ==
  ASSUME IInv
  PROVE  TypeOK
<1>1. /\ TreeTypes /\ RecordInv /\ PlanInv /\ OutcomeInv /\ ReasonInv
  BY DEF IInv, TreeInv
<1>2. tree \in Trees
  BY <1>1, TreesSoFar DEF TreeTypes
<1>3. Range(journal) \subseteq Keys /\ Range(ledger) \subseteq Kinds
  BY <1>1 DEF RecordInv, Range
<1>4. \A i \in DOMAIN results : results[i] \in Calls
  BY <1>1 DEF PlanInv
<1>5. \A o \in outcomes : o.left < o.right /\ o.winner \in {o.left, o.right, Nobody}
  BY <1>1 DEF OutcomeInv, Pairs
<1> QED
  BY <1>1, <1>2, <1>3, <1>4, <1>5
  DEF TypeOK, TreeTypes, RecordInv, PlanInv, ReasonInv, Calls, Kinds

\* The types of the preparation, and that no key is journalled twice, that a
\* manifest names files that exist, and that a comparison is won by one of its
\* two proposals.
THEOREM PreparationType == Spec => []TypeOK
BY Invariance, TypesHold, PTL

\* However the tree is edited while it is read, what a run freezes was there
\* at one moment (build_snapshot).
THEOREM SnapshotExisted == Spec => []FrozenExisted
<1>1. IInv => FrozenExisted
  BY DEF IInv, TreeInv
<1> QED
  BY <1>1, Invariance, PTL

\* An undegraded run reviewed what the tree held when its last check began.
THEOREM UndegradedIsFresh == Spec => []NotStale
<1>1. IInv => NotStale
  BY DEF IInv, ReasonInv, NotStale, Undegraded, Checked
<1> QED
  BY <1>1, Invariance, PTL

-----------------------------------------------------------------------------
(* What an undegraded run earned *)

Beaten(i) == {k \in DOMAIN panel.proposers : Beats(i, k)}

\* The comparisons a proposal won are as many as the proposals it beats.
LEMMA WinsAreBeaten ==
  ASSUME OutcomeInv, panel \in Panel, NEW i \in DOMAIN panel.proposers
  PROVE  Wins(i) = Cardinality(Beaten(i))
<1> DEFINE won == {o \in outcomes : o.winner = i}
           f == [o \in won |-> IF o.left = i THEN o.right ELSE o.left]
<1>1. /\ DOMAIN panel.proposers = 1..Len(panel.proposers) /\ Len(panel.proposers) \in Nat
      /\ Pairs \subseteq Nat \X Nat
  BY PairsType
<1>2. IsFiniteSet(Beaten(i))
  <2>1. IsFiniteSet(DOMAIN panel.proposers)
    BY <1>1, FS_Interval
  <2> QED
    BY <2>1, FS_Subset DEF Beaten
<1>3. \A o \in outcomes : /\ o.left \in Nat /\ o.right \in Nat /\ o.left < o.right
                          /\ o.left \in DOMAIN panel.proposers /\ o.right \in DOMAIN panel.proposers
  BY <1>1 DEF OutcomeInv, Pairs
<1>4. \A o \in won : o.left = i \/ o.right = i
  <2>1. i # Nobody
    BY <1>1 DEF Nobody
  <2> QED
    BY <2>1 DEF OutcomeInv
<1>5. f \in [won -> Beaten(i)]
  <2> SUFFICES ASSUME NEW o \in won
               PROVE  (IF o.left = i THEN o.right ELSE o.left) \in Beaten(i)
    OBVIOUS
  <2> QED
    BY <1>3, <1>4 DEF Beaten, Beats
<1>6. \A o, q \in won : f[o] = f[q] => o = q
  <2> SUFFICES ASSUME NEW o \in won, NEW q \in won, f[o] = f[q]
               PROVE  o.left = q.left /\ o.right = q.right
    BY DEF OutcomeInv
  <2>1. (IF o.left = i THEN o.right ELSE o.left) = (IF q.left = i THEN q.right ELSE q.left)
    OBVIOUS
  <2> QED
    BY <1>3, <1>4, <2>1
<1>7. \A k \in Beaten(i) : \E o \in won : f[o] = k
  <2> SUFFICES ASSUME NEW k \in Beaten(i)
               PROVE  \E o \in won : (IF o.left = i THEN o.right ELSE o.left) = k
    OBVIOUS
  <2>1. PICK o \in outcomes : {o.left, o.right} = {i, k} /\ o.winner = i
    BY DEF Beaten, Beats
  <2>2. o.left \in {i, k} /\ o.right \in {i, k} /\ o.left # o.right
    BY <1>3, <2>1
  <2> QED
    BY <2>1, <2>2
<1> HIDE DEF f
<1>8. f \in Injection(won, Beaten(i)) /\ f \in Surjection(won, Beaten(i))
  BY <1>5, <1>6, <1>7 DEF Injection, Surjection, IsInjective
<1> QED
  BY <1>2, <1>8, FS_Injection DEF Wins

\* What the invariant knows of an undegraded run.
LEMMA UndegradedRun ==
  ASSUME IInv, Undegraded
  PROVE  /\ panel \in Routes(request) /\ panel \in Panel
         /\ External(panel) \subseteq CalledHandles /\ AllCompleted(results)
         /\ "packet" \notin request.secrets /\ ~RepoBlocked
         /\ Ranked => Judged = Pairs /\ Winners # {}
<1>1. Checked /\ written # {}
  BY DEF Undegraded, Checked
<1>2. /\ panel \in Routes(request) /\ panel \in Panel /\ AnalysisValid
      /\ "packet" \notin request.secrets /\ ~TopologyDegraded
  BY <1>1, RoutesAre DEF IInv, PlanInv, ReasonInv, Undegraded
<1>3. ~RepoBlocked /\ Dispatchable
  BY <1>1, <1>2 DEF TopologyDegraded, IInv, PlanInv
<1>4. Ranked => Judged = Pairs /\ Winners # {} /\ \A o \in outcomes : o.winner # Nobody
  BY <1>2 DEF TopologyDegraded, Winners
<1>5. AllCompleted(results)
  <2>1. CASE Ranked
    <3>1. Judged # {}
      BY <1>2, <1>3, <1>4, <2>1, PairsThereAre
    <3>2. outcomes # {}
      BY <3>1 DEF Judged
    <3> QED
      BY <1>4, <2>1, <3>2 DEF IInv, OutcomeInv
  <2>2. CASE ~Ranked
    BY <1>2, <2>2 DEF TopologyDegraded
  <2> QED
    BY <2>1, <2>2
<1> QED
  BY <1>2, <1>3, <1>4, <1>5 DEF AnalysisValid

LEMMA Earned ==
  ASSUME IInv
  PROVE  UndegradedIsEarned
<1> SUFFICES ASSUME Undegraded
             PROVE  /\ External(panel) \subseteq CalledHandles /\ AllCompleted(results)
                    /\ "packet" \notin request.secrets /\ ~RepoBlocked
                    /\ Ranked =>
                         LET proposals == DOMAIN panel.proposers
                             beaten(i) == {k \in proposals : Beats(i, k)}
                         IN  /\ \E i \in proposals : \A j \in proposals \ {i} :
                                  Cardinality(beaten(j)) < Cardinality(beaten(i))
                             /\ \A j, k \in proposals : j # k => Beats(j, k) \/ Beats(k, j)
  BY DEF UndegradedIsEarned
<1>1. /\ panel \in Panel /\ OutcomeInv
      /\ Ranked => Judged = Pairs /\ Winners # {}
  BY UndegradedRun DEF IInv
<1> DEFINE proposals == DOMAIN panel.proposers
<1>2. ASSUME Ranked
      PROVE  \E i \in proposals : \A j \in proposals \ {i} :
               Cardinality(Beaten(j)) < Cardinality(Beaten(i))
  <2>1. PICK i \in proposals : \A j \in proposals \ {i} : Wins(j) < Wins(i)
    BY <1>1, <1>2 DEF Winners
  <2>2. \A j \in proposals : Wins(j) = Cardinality(Beaten(j))
    BY <1>1, WinsAreBeaten
  <2> QED
    BY <2>1, <2>2
<1>3. ASSUME Ranked, NEW j \in proposals, NEW k \in proposals, j # k
      PROVE  Beats(j, k) \/ Beats(k, j)
  <2>1. \A o \in outcomes : o.winner # Nobody
    BY <1>1, <1>3 DEF Winners
  <2>2. ASSUME NEW l \in proposals, NEW r \in proposals, l < r
        PROVE  Beats(l, r) \/ Beats(r, l)
    <3>1. <<l, r>> \in Judged
      BY <1>1, <1>3, <2>2 DEF Pairs
    <3>2. PICK o \in outcomes : <<l, r>> = <<o.left, o.right>>
      BY <3>1 DEF Judged
    <3>3. o.left = l /\ o.right = r /\ o.winner \in {l, r}
      BY <1>1, <2>1, <3>2 DEF OutcomeInv
    <3> QED
      BY <3>3 DEF Beats
  <2>3. j \in Nat /\ k \in Nat
    BY <1>1, PairsType
  <2>4. j < k \/ k < j
    BY <1>3, <2>3
  <2> QED
    BY <2>2, <2>4
<1> QED
  BY <1>2, <1>3, UndegradedRun DEF Beaten

\* An undegraded run has a completed call of each external participant and no
\* failed one; of ranked proposals exactly one won more comparisons than every
\* other (_topology_degraded, run_panel_rank).
THEOREM UndegradedEarned == Spec => []UndegradedIsEarned
BY Invariance, Earned, PTL

LEMMA TwoModels ==
  ASSUME IInv
  PROVE  SensitiveReviewedTwice
<1> SUFFICES ASSUME Undegraded, request.sensitive, Strength[HardMinimum] >= 2
             PROVE  Cardinality({ModelOf[h] : h \in CalledHandles \ Incomplete}) >= 2
  BY DEF SensitiveReviewedTwice
<1> DEFINE answered == CalledHandles \ Incomplete
           models == {ModelOf[h] : h \in answered}
<1>1. /\ panel \in Routes(request) /\ panel \in Panel /\ request \in Requests
      /\ External(panel) \subseteq CalledHandles /\ AllCompleted(results) /\ results \in Seq(Calls)
  BY UndegradedRun DEF IInv, PlanInv
<1>2. AtLeast(panel, HardMinimum)
  BY <1>1, RoutesAre
<1>3. Cardinality(Models(panel)) >= 2
  <2>1. PanelRank(panel) >= 2
    <3>1. Strength[HardMinimum] \in 0..3
      BY RoutingAssumption DEF Strength
    <3>2. PanelRank(panel) \in 0..3
      BY DEF PanelRank
    <3> QED
      BY <1>2, <3>1, <3>2 DEF AtLeast
  <2> QED
    BY <2>1 DEF PanelRank
<1>4. answered = CalledHandles
  BY <1>1 DEF Incomplete, CalledHandles, AllCompleted
<1>5. Models(panel) \subseteq models
  <2>1. Range(panel.reviewers) \cup Range(panel.proposers) \subseteq answered
    BY <1>1, <1>4 DEF External
  <2> QED
    BY <2>1 DEF Models
<1>6. IsFiniteSet(models)
  <2>1. answered \subseteq Handle
    <3>1. \A i \in DOMAIN results : results[i] \in Calls
      BY <1>1
    <3> QED
      BY <3>1 DEF CalledHandles, Calls
  <2>2. IsFiniteSet(answered)
    BY <2>1, FS_Subset, RoutingAssumption
  <2>3. [h \in answered |-> ModelOf[h]] \in Surjection(answered, models)
    BY DEF Surjection
  <2> QED
    BY <2>2, <2>3, FS_Surjection
<1>7. Cardinality(Models(panel)) <= Cardinality(models) /\ Cardinality(models) \in Nat
      /\ Cardinality(Models(panel)) \in Nat
  BY <1>5, <1>6, FS_Subset, FS_CardinalityType
<1> QED
  BY <1>3, <1>7

\* A request on sensitive paths that comes out undegraded was answered by two
\* models at least, where the configured minimum is balanced or higher
\* (panel_rank, resolve_route).
THEOREM SensitiveReviewed == Spec => []SensitiveReviewedTwice
BY Invariance, TwoModels, PTL

-----------------------------------------------------------------------------
(* What the records tell of a run that ended anywhere *)

Journalled(key) == key \in Range(journal)
Attested(kind) == kind \in Range(ledger)
Announced == Journalled("reconcile:waiting") \/ Journalled("reconcile:automatic")

\* Every call was announced before it was made; a file of the run directory tells
\* of a dispatch that ended and was analysed, and of the files before it; a pending
\* state is attested only when it is there, and reconciliation is announced only
\* when it is attested.
RecordsTell ==
  /\ results # << >> => Journalled("dispatch:started")
  /\ written # {} => Journalled("dispatch:started") /\ Journalled("dispatch:completed")
                       /\ Journalled("state:analyzed")
  /\ "result.json" \in written => "analysis.json" \in written
  /\ "pending.json" \in written => "result.json" \in written
  /\ Attested("pending-state") => "pending.json" \in written
  /\ Announced => Attested("pending-state")

\* So it does at each stage, and nothing tells of what is still to come.
PlaceTells ==
  /\ pc \in {"dispatch"} \cup Dispatched => Journalled("dispatch:started")
  /\ pc \in {"dispatched", "analyzed", "ground", "measure", "final"} \cup Post =>
       Journalled("dispatch:completed")
  /\ pc \in {"analyzed", "ground", "measure", "final"} \cup Post => Journalled("state:analyzed")
  /\ pc \in {"analysis", "result", "pending", "bound", "ended"} => "analysis.json" \in written
  /\ pc \in {"result", "pending", "bound", "ended"} => "result.json" \in written
  /\ pc \in {"pending", "bound", "ended"} => "pending.json" \in written
  /\ pc \in {"bound", "ended"} => Attested("pending-state")

LEMMA RecordAdds ==
  ASSUME RecordInv, NEW key \in Keys, Record(key)
  PROVE  Range(journal') = Range(journal) \cup {key}
<1>1. /\ Len(journal') = Len(journal) + 1 /\ Len(journal) \in Nat
      /\ \A i \in 1..Len(journal) : journal'[i] = journal[i]
      /\ journal'[Len(journal) + 1] = key
      /\ DOMAIN journal = 1..Len(journal) /\ DOMAIN journal' = 1..Len(journal')
  BY AppendProperties DEF Record, RecordInv
<1>2. DOMAIN journal' = DOMAIN journal \cup {Len(journal) + 1}
  BY <1>1
<1> QED
  BY <1>1, <1>2 DEF Range

LEMMA AttestAdds ==
  ASSUME RecordInv, NEW kind \in Kinds, Attest(kind)
  PROVE  Range(ledger') = Range(ledger) \cup {kind}
<1>1. /\ Len(ledger') = Len(ledger) + 1 /\ Len(ledger) \in Nat
      /\ \A i \in 1..Len(ledger) : ledger'[i] = ledger[i]
      /\ ledger'[Len(ledger) + 1] = kind
      /\ DOMAIN ledger = 1..Len(ledger) /\ DOMAIN ledger' = 1..Len(ledger')
  BY AppendProperties DEF Attest, RecordInv
<1>2. DOMAIN ledger' = DOMAIN ledger \cup {Len(ledger) + 1}
  BY <1>1
<1> QED
  BY <1>1, <1>2 DEF Range

LEMMA TellStep ==
  ASSUME RecordInv, RecordsTell, PlaceTells, pc \in Places, [Next]_vars
  PROVE  RecordsTell' /\ PlaceTells'
<1> USE DEF RecordsTell, PlaceTells, Goto, records, review, outputs, Dispatched, Post
<1>1. ASSUME NEW key \in Keys, Record(key), UNCHANGED <<ledger, written>>,
             key \in {"reconcile:waiting", "reconcile:automatic"} => Attested("pending-state"),
             results' = results \/ key = "dispatch:started"
      PROVE  RecordsTell' /\ \A k \in Keys : Journalled(k)' <=> Journalled(k) \/ k = key
  <2>1. Range(journal') = Range(journal) \cup {key}
    BY <1>1, RecordAdds
  <2>2. Attested("pending-state")' = Attested("pending-state")
    BY <1>1 DEF Attested
  <2> QED
    BY <1>1, <2>1, <2>2 DEF Journalled, Announced, Keys
<1>2. ASSUME NEW kind \in Kinds, Attest(kind), UNCHANGED <<journal, written, results>>,
             kind = "pending-state" => "pending.json" \in written
      PROVE  /\ RecordsTell' /\ \A k \in Keys : Journalled(k)' <=> Journalled(k)
             /\ Attested("pending-state")' <=> Attested("pending-state") \/ kind = "pending-state"
  <2>1. Range(ledger') = Range(ledger) \cup {kind}
    BY <1>2, AttestAdds
  <2> QED
    BY <1>2, <2>1 DEF Journalled, Attested, Announced
<1>3. ASSUME UNCHANGED <<journal, ledger>>
      PROVE  /\ \A k \in Keys : Journalled(k)' <=> Journalled(k)
             /\ Attested("pending-state")' <=> Attested("pending-state")
             /\ Announced' <=> Announced
  BY <1>3 DEF Journalled, Attested, Announced
<1>4. CASE ChooseRoute \/ Freeze \/ BlockDispatch \/ StartDispatch \/ FinishDispatch
           \/ Analyze \/ FinishGrounding
  <2>1. PICK key \in Keys \ {"reconcile:waiting", "reconcile:automatic"} :
          /\ Record(key) /\ UNCHANGED <<ledger, written>>
          /\ results' = results \/ key = "dispatch:started"
          /\ \/ key \in {"state:routed", "state:frozen"} /\ pc' \in {"routed", "frozen"}
             \/ key = "dispatch:started" /\ pc' \in {"dispatch", "attest"}
             \/ key = "dispatch:completed" /\ pc = "attest" /\ pc' = "dispatched"
             \/ key = "state:analyzed" /\ pc = "dispatched" /\ pc' = "analyzed"
             \/ key = "state:grounded" /\ pc = "ground" /\ pc' = "measure"
    <3>1. CASE ChooseRoute \/ Freeze
      BY <3>1 DEF ChooseRoute, Freeze, Keys
    <3>2. CASE BlockDispatch \/ StartDispatch \/ FinishDispatch
      BY <3>2 DEF BlockDispatch, StartDispatch, FinishDispatch, Keys
    <3>3. CASE Analyze \/ FinishGrounding
      BY <3>3 DEF Analyze, FinishGrounding, Keys
    <3> QED
      BY <1>4, <3>1, <3>2, <3>3
  <2>2. RecordsTell' /\ \A k \in Keys : Journalled(k)' <=> Journalled(k) \/ k = key
    BY <1>1, <2>1
  <2> QED
    BY <2>1, <2>2 DEF Keys
<1>5. CASE Announce
  <2>1. PICK key \in {"reconcile:waiting", "reconcile:automatic"} :
          Record(key) /\ pc = "bound" /\ pc' = "ended" /\ UNCHANGED <<ledger, written, results>>
    BY <1>5 DEF Announce
  <2>2. key \in Keys
    BY DEF Keys
  <2>3. RecordsTell' /\ \A k \in Keys : Journalled(k)' <=> Journalled(k) \/ k = key
    BY <1>1, <2>1, <2>2
  <2>4. Attested("pending-state")' <=> Attested("pending-state")
    BY <2>1 DEF Attested
  <2> QED
    BY <2>1, <2>3, <2>4 DEF Keys
<1>6. CASE AttestSelf \/ ScanSecrets \/ CompilePacket \/ AttestCall \/ GroundCandidate
  <2>1. /\ UNCHANGED <<journal, written, results>>
        /\ UNCHANGED ledger \/ \E kind \in Kinds \ {"pending-state"} : Attest(kind)
        /\ pc' = pc \/ pc' \in {"manifest", "packet", "compiled"}
    BY <1>6 DEF AttestSelf, ScanSecrets, CompilePacket, AttestCall, GroundCandidate, Kinds
  <2> QED
    BY <1>2, <1>3, <2>1 DEF Keys
<1>7. CASE BindPending
  <2>1. /\ Attest("pending-state") /\ UNCHANGED <<journal, written, results>>
        /\ pc = "pending" /\ pc' = "bound" /\ "pending-state" \in Kinds
    BY <1>7 DEF BindPending, Kinds
  <2> QED
    BY <1>2, <2>1 DEF Keys
<1>8. CASE WriteAnalysis \/ WriteResult \/ WritePending
  <2>1. /\ UNCHANGED <<journal, ledger, results>>
        /\ \/ pc = "validate" /\ pc' = "analysis" /\ written' = written \cup {"analysis.json"}
           \/ pc = "analysis" /\ pc' = "result" /\ written' = written \cup {"result.json"}
           \/ pc = "result" /\ pc' = "pending" /\ written' = written \cup {"pending.json"}
    BY <1>8 DEF WriteAnalysis, WriteResult, WritePending, Write
  <2> QED
    BY <1>3, <2>1 DEF Keys
<1>9. CASE DispatchFirstPasses \/ JudgePair
  <2>1. /\ UNCHANGED <<journal, ledger, written>>
        /\ pc \in {"dispatch", "judge"} /\ pc' \in {"judge", "attest"}
    BY <1>9 DEF DispatchFirstPasses, JudgePair
  <2> QED
    BY <1>3, <2>1 DEF Keys
<1>10. CASE ListDirectory \/ ReadFile \/ TakeManifest \/ CopyTree \/ StartGrounding \/ SkipGrounding
            \/ MeasureDegradation \/ CheckTree \/ Raise \/ Kill \/ Edit \/ DeadlinePasses
            \/ UNCHANGED vars
  <2>1. /\ UNCHANGED <<journal, ledger, results, written>>
        /\ \/ pc' \in {pc, "copy", "recheck", "raised", "killed"}
           \/ pc = "analyzed" /\ pc' \in {"ground", "measure"}
           \/ pc = "measure" /\ pc' = "final"
           \/ pc = "final" /\ pc' = "validate"
    <3>1. CASE ListDirectory \/ ReadFile \/ TakeManifest \/ CopyTree
      BY <3>1 DEF ListDirectory, ReadFile, TakeManifest, CopyTree
    <3>2. CASE StartGrounding \/ SkipGrounding \/ MeasureDegradation \/ CheckTree
      BY <3>2 DEF StartGrounding, SkipGrounding, MeasureDegradation, CheckTree
    <3>3. CASE Raise \/ Kill \/ Edit \/ DeadlinePasses \/ UNCHANGED vars
      BY <3>3 DEF Raise, Kill, Edit, DeadlinePasses, vars
    <3> QED
      BY <1>10, <3>1, <3>2, <3>3
  <2> QED
    BY <1>3, <2>1 DEF Keys
<1> QED
  BY <1>4, <1>5, <1>6, <1>7, <1>8, <1>9, <1>10 DEF Next, Step, Done

\* Wherever a preparation raises or is killed, what it leaves behind tells what
\* happened: no call without its start, no pending state without the files and
\* records that it rests on.
THEOREM PreparationRecords == Spec => []RecordsTell
<1>1. Init => RecordsTell /\ PlaceTells
  <2> SUFFICES ASSUME Init PROVE RecordsTell /\ PlaceTells
    OBVIOUS
  <2>1. ~Announced /\ ~Attested("pending-state")
    <3>1. \A i \in DOMAIN journal : journal[i] = "state:prepared"
      BY DEF Init
    <3>2. DOMAIN ledger = {}
      BY DEF Init
    <3> QED
      BY <3>1, <3>2 DEF Announced, Journalled, Attested, Range
  <2> QED
    BY <2>1 DEF Init, RecordsTell, PlaceTells, Dispatched, Post
<1>2. IInv /\ RecordsTell /\ PlaceTells /\ [Next]_vars => RecordsTell' /\ PlaceTells'
  BY TellStep DEF IInv, PlanInv
<1> QED
  BY Invariance, <1>1, <1>2, PTL DEF Spec

-----------------------------------------------------------------------------
(***************************************************************************)
(* The inside of one dispatch (BudgetDispatch), for any number of          *)
(* requests, any limits and any costs.  An action moves at most one        *)
(* request, so what each of them does is stated once per kind of move: it  *)
(* enters, it abandons or answers its call, or it ends without one.        *)
(***************************************************************************)

\* A request that waits has reserved nothing, and only reservations are settled.
WaitingInv ==
  /\ \A r \in Request : task[r] = "queued" => r \notin reserved
  /\ settled \subseteq reserved

DispatchIInv == DispatchTypeOK /\ WaitingInv /\ ReservationsSettled /\ CompletedInTime

-----------------------------------------------------------------------------
(* Sums of costs: as many as there are units of cost *)

Units(v, S) == UNION {{x} \X (1..v[x]) : x \in S}

LEMMA UnitsAre ==
  ASSUME NEW S, IsFiniteSet(S), NEW v, \A x \in S : v[x] \in Nat
  PROVE  /\ IsFiniteSet(Units(v, S)) /\ Cardinality(Units(v, S)) \in Nat
         /\ \A x \in S : Cardinality(Units(v, S)) = v[x] + Cardinality(Units(v, S \ {x}))
<1>1. ASSUME NEW x \in S
      PROVE  IsFiniteSet({x} \X (1..v[x])) /\ Cardinality({x} \X (1..v[x])) = v[x]
  <2>1. v[x] \in Nat /\ IsFiniteSet({x}) /\ Cardinality({x}) = 1
    BY FS_Singleton
  <2>2. IsFiniteSet(1..v[x]) /\ Cardinality(1..v[x]) = v[x]
    BY <2>1, FS_Interval
  <2>3. /\ IsFiniteSet({x} \X (1..v[x]))
        /\ Cardinality({x} \X (1..v[x])) = Cardinality({x}) * Cardinality(1..v[x])
    BY <2>1, <2>2, FS_Product
  <2>4. Cardinality({x}) * Cardinality(1..v[x]) = 1 * v[x]
    BY <2>1, <2>2
  <2> QED
    BY <2>1, <2>3, <2>4
<1>2. ASSUME NEW T \in SUBSET S
      PROVE  IsFiniteSet(Units(v, T))
  <2> DEFINE parts == {{x} \X (1..v[x]) : x \in T}
             f == [x \in T |-> {x} \X (1..v[x])]
  <2>1. f \in Surjection(T, parts)
    BY DEF Surjection
  <2>2. IsFiniteSet(T)
    BY FS_Subset
  <2>3. IsFiniteSet(parts)
    <3> HIDE DEF f, parts
    <3> QED
      BY <2>1, <2>2, FS_Surjection
  <2>4. \A part \in parts : IsFiniteSet(part)
    BY <1>1
  <2> HIDE DEF parts
  <2>5. IsFiniteSet(UNION parts)
    BY <2>3, <2>4, FS_UNION
  <2> QED
    BY <2>5 DEF Units, parts
<1>3. ASSUME NEW x \in S
      PROVE  Cardinality(Units(v, S)) = v[x] + Cardinality(Units(v, S \ {x}))
  <2> DEFINE mine == {x} \X (1..v[x])
             rest == Units(v, S \ {x})
  <2>1. Units(v, S) = mine \cup rest
    BY DEF Units
  <2>2. mine \cap rest = {}
    BY DEF Units
  <2>3. IsFiniteSet(mine) /\ IsFiniteSet(rest) /\ Cardinality(mine) = v[x]
    BY <1>1, <1>2
  <2> HIDE DEF mine, rest
  <2>4. Cardinality(mine \cup rest) = Cardinality(mine) + Cardinality(rest) - Cardinality({})
    BY <2>2, <2>3, FS_Union
  <2>5. Cardinality({}) = 0 /\ Cardinality(rest) \in Nat /\ v[x] \in Nat
    BY <2>3, FS_EmptySet, FS_CardinalityType
  <2>6. Cardinality(Units(v, S)) = v[x] + Cardinality(rest)
    BY <2>1, <2>3, <2>4, <2>5
  <2> QED
    BY <2>6 DEF rest
<1> QED
  BY <1>2, <1>3, FS_CardinalityType

LEMMA TotalIs ==
  ASSUME NEW S, IsFiniteSet(S), NEW v, \A x \in S : v[x] \in Nat
  PROVE  Total(v, S) = Cardinality(Units(v, S))
<1> DEFINE pick(s) == CHOOSE x \in s : TRUE
           Iter(it) == [s \in SUBSET S |->
                          IF s = {} THEN 0 ELSE v[pick(s)] + it[s \ {pick(s)}]]
           iter == CHOOSE it : it = Iter(it)
           g == [s \in SUBSET S |-> Cardinality(Units(v, s))]
<1>1. Total(v, S) = iter[S]
  BY DEF Total, MapThenSumSet, MapThenFoldSet
<1>2. ASSUME NEW s \in SUBSET S
      PROVE  g[s] = IF s = {} THEN 0 ELSE v[pick(s)] + g[s \ {pick(s)}]
  <2>1. CASE s = {}
    <3>1. Units(v, {}) = {}
      BY DEF Units
    <3> QED
      BY <2>1, <3>1, FS_EmptySet
  <2>2. CASE s # {}
    <3>1. pick(s) \in s
      BY <2>2
    <3> HIDE DEF pick
    <3>2. IsFiniteSet(s)
      BY FS_Subset
    <3>3. Cardinality(Units(v, s)) = v[pick(s)] + Cardinality(Units(v, s \ {pick(s)}))
      BY <3>1, <3>2, UnitsAre
    <3> QED
      BY <2>2, <3>3
  <2> QED
    BY <2>1, <2>2
<1> HIDE DEF pick
<1>3. g = Iter(g)
  <2>1. g = [s \in SUBSET S |-> g[s]]
    OBVIOUS
  <2> HIDE DEF g
  <2> QED
    BY <1>2, <2>1
<1>4. iter = Iter(iter)
  BY <1>3
<1> HIDE DEF iter
<1>5. \A s \in SUBSET S : iter[s] = IF s = {} THEN 0 ELSE v[pick(s)] + iter[s \ {pick(s)}]
  BY <1>4
<1>6. \A s \in SUBSET S : iter[s] = g[s]
  <2> DEFINE Wrong == {s \in SUBSET S : iter[s] # g[s]}
  <2> SUFFICES ASSUME Wrong # {} PROVE FALSE
    BY DEF Wrong
  <2>1. Wrong \in SUBSET FiniteSubsetsOf(S)
    BY FS_Subset DEF FiniteSubsetsOf
  <2>2. PICK s \in Wrong : \A t \in Wrong : ~(<<t, s>> \in StrictSubsetOrdering(S))
    <3> HIDE DEF Wrong
    <3> QED
      BY <2>1, FS_StrictSubsetOrderingWellFounded, WFMin
  <2>3. s \in SUBSET S /\ iter[s] # g[s]
    BY <2>2
  <2>4. s # {}
    BY <1>2, <1>5, <2>3
  <2>5. pick(s) \in s
    BY <2>4 DEF pick
  <2>6. s \ {pick(s)} \notin Wrong
    <3>1. s \ {pick(s)} \in SUBSET S /\ s \ {pick(s)} \subseteq s /\ s \ {pick(s)} # s
      BY <2>3, <2>5
    <3>2. <<s \ {pick(s)}, s>> \in StrictSubsetOrdering(S)
      BY <2>3, <3>1 DEF StrictSubsetOrdering
    <3> HIDE DEF Wrong
    <3> QED
      BY <2>2, <3>2
  <2>7. iter[s \ {pick(s)}] = g[s \ {pick(s)}]
    BY <2>3, <2>6
  <2> HIDE DEF g
  <2> QED
    BY <1>2, <1>5, <2>3, <2>4, <2>7
<1>7. iter[S] = g[S]
  BY <1>6
<1> QED
  BY <1>1, <1>7

-----------------------------------------------------------------------------
(* What the actions do to a request *)

\* It reserves a call and starts to run.
Enters(r) ==
  /\ task[r] = "queued" /\ callsUsed < MaxCalls /\ Cardinality(Running) < MaxConcurrency
  /\ task' = [task EXCEPT ![r] = "running"]
  /\ callsUsed' = callsUsed + 1 /\ reserved' = reserved \cup {r}
  /\ UNCHANGED <<clock, result, reported, answeredAt, costUsed, settled>>

\* Its call ends with a result that is settled; one that completes is in time.
Returns(r) ==
  \E status \in Statuses, cost \in Costs \cup {Unknown} :
    /\ task[r] = "running"
    /\ Deliver(r, status) /\ Settle(r, cost)
    /\ \/ reported' = [reported EXCEPT ![r] = cost]
       \/ cost = Unknown /\ reported' = reported
    /\ answeredAt' \in {answeredAt, [answeredAt EXCEPT ![r] = clock]}
    /\ status = "completed" => clock < Wallclock /\ answeredAt' = [answeredAt EXCEPT ![r] = clock]
    /\ status = "completed" => ~SettleRaises(cost)
    /\ UNCHANGED <<clock, deadline, callsUsed, reserved>>

\* It ends in the queue.
Refused(r) ==
  \E status \in Statuses \ {"completed"} :
    /\ task[r] = "queued" /\ Deliver(r, status)
    /\ UNCHANGED <<clock, deadline, reported, answeredAt, callsUsed, costUsed, reserved, settled>>

\* Every step is one of these, or the clock's.
LEMMA StepIs ==
  ASSUME DispatchTypeOK, DispatchNext
  PROVE  \/ \E r \in Request : Refused(r) \/ Returns(r)
         \/ \E r \in Request : Enters(r) /\ deadline' \in [Request -> 0..Wallclock]
         \/ /\ clock' \in 0..Wallclock + Late
            /\ UNCHANGED <<task, deadline, result, reported, answeredAt, callsUsed, costUsed, reserved, settled>>
<1>1. ASSUME NEW r \in Request, Refuse(r) \/ QueueTimeout(r)
      PROVE  Refused(r)
  BY <1>1 DEF Refuse, QueueTimeout, IsNext, Refused, Statuses
<1>2. ASSUME NEW r \in Request, NEW status \in {"failed", "timed-out"}, Abandon(r, status)
      PROVE  Returns(r)
  BY <1>2 DEF Abandon, Returns, Statuses
<1>3. ASSUME NEW r \in Request, ProviderRaises(r) \/ DispatchTimeout(r) \/ AnswerTooLate(r) \/ Cancel(r)
      PROVE  Returns(r)
  BY <1>2, <1>3 DEF ProviderRaises, DispatchTimeout, AnswerTooLate, Cancel
<1>4. ASSUME NEW r \in Request, NEW cost \in Costs \cup {Unknown}, Mismatch(r, cost)
      PROVE  Returns(r)
  BY <1>4 DEF Mismatch, Returns, Statuses
<1>5. ASSUME NEW r \in Request, NEW cost \in Costs \cup {Unknown}, NEW status \in Statuses,
             NEW tooLong \in BOOLEAN, Answer(r, status, cost, tooLong)
      PROVE  Returns(r)
  <2> DEFINE s == IF SettleRaises(cost) \/ tooLong THEN "failed" ELSE status
  <2>1. s \in Statuses
    BY DEF Statuses
  <2>2. clock < Wallclock
    BY <1>5, LimitAssumption DEF Answer, Exhausted, DispatchTypeOK
  <2>3. Deliver(r, s) /\ (s = "completed" => ~SettleRaises(cost))
    BY <1>5 DEF Answer
  <2> HIDE DEF s
  <2> QED
    BY <1>5, <2>1, <2>2, <2>3 DEF Answer, Returns
<1>6. ASSUME NEW r \in Request, Admit(r)
      PROVE  Enters(r) /\ deadline' \in [Request -> 0..Wallclock]
  <2> DEFINE d == clock + Timeout[r]
             m == Min({Wallclock, d})
  <2>1. d \in Nat /\ Wallclock \in Nat
    BY LimitAssumption DEF DispatchTypeOK
  <2> HIDE DEF d
  <2>2. \E x \in {Wallclock, d} : \A y \in {Wallclock, d} : x <= y
    BY <2>1
  <2>3. m \in {Wallclock, d} /\ m <= Wallclock
    BY <2>2 DEF Min
  <2>4. deadline' = [deadline EXCEPT ![r] = m]
    BY <1>6 DEF Admit, d
  <2> HIDE DEF m
  <2>5. m \in 0..Wallclock
    BY <2>1, <2>3
  <2>6. deadline' \in [Request -> 0..Wallclock]
    BY <2>4, <2>5 DEF DispatchTypeOK
  <2> QED
    BY <1>6, <2>6 DEF Admit, IsNext, MayReserve, Enters
<1>7. ASSUME Tick
      PROVE  clock' \in 0..Wallclock + Late
  BY <1>7, LimitAssumption DEF Tick, DispatchTypeOK
<1> QED
  BY <1>1, <1>3, <1>4, <1>5, <1>6, <1>7 DEF DispatchNext, Loop, Provider, Tick

-----------------------------------------------------------------------------
(* Every step of the dispatch keeps its invariant *)

LEMMA InitDispatch ==
  ASSUME DispatchInit
  PROVE  DispatchIInv
<1> USE DEF DispatchInit
<1>1. DispatchTypeOK
  BY LimitAssumption DEF DispatchTypeOK, NoResult
<1>2. Running = {} /\ Completed = {}
  BY DEF Running, Completed, NoResult
<1>3. ReservationsSettled /\ CompletedInTime
  BY <1>2, FS_EmptySet, LimitAssumption DEF ReservationsSettled, CompletedInTime
<1> QED
  BY <1>1, <1>3 DEF DispatchIInv, WaitingInv

LEMMA RefusedIInv ==
  ASSUME DispatchIInv, NEW r \in Request, Refused(r)
  PROVE  DispatchIInv'
<1> USE DEF DispatchIInv
<1>1. PICK status \in Statuses \ {"completed"} : Deliver(r, status)
  BY DEF Refused
<1>2. /\ task[r] = "queued"
      /\ UNCHANGED <<clock, deadline, reported, answeredAt, callsUsed, costUsed, reserved, settled>>
  BY DEF Refused
<1>3. /\ task' = [task EXCEPT ![r] = "done"] /\ result' = [result EXCEPT ![r] = status]
  BY <1>1 DEF Deliver
<1>4. DispatchTypeOK'
  BY <1>1, <1>2, <1>3 DEF DispatchTypeOK
<1>5. Running' = Running
  BY <1>2, <1>3 DEF Running, DispatchTypeOK
<1>6. Completed' \subseteq Completed
  BY <1>1, <1>3 DEF Completed, DispatchTypeOK
<1>7. WaitingInv'
  BY <1>2, <1>3 DEF WaitingInv, DispatchTypeOK
<1>8. ReservationsSettled' /\ CompletedInTime'
  BY <1>2, <1>5, <1>6 DEF ReservationsSettled, CompletedInTime
<1> QED
  BY <1>4, <1>7, <1>8

LEMMA ReturnsIInv ==
  ASSUME DispatchIInv, NEW r \in Request, Returns(r)
  PROVE  DispatchIInv'
<1> USE DEF DispatchIInv
<1>1. PICK status \in Statuses, cost \in Costs \cup {Unknown} :
        /\ Deliver(r, status) /\ Settle(r, cost)
        /\ reported' \in {reported, [reported EXCEPT ![r] = cost]}
        /\ answeredAt' \in {answeredAt, [answeredAt EXCEPT ![r] = clock]}
        /\ status = "completed" => clock < Wallclock /\ answeredAt' = [answeredAt EXCEPT ![r] = clock]
  BY DEF Returns
<1>2. /\ task[r] = "running"
      /\ UNCHANGED <<clock, deadline, callsUsed, reserved>>
  BY DEF Returns
<1>3. /\ task' = [task EXCEPT ![r] = "done"] /\ result' = [result EXCEPT ![r] = status]
      /\ settled' = settled \cup {r}
  BY <1>1 DEF Deliver, Settle
<1>4. clock \in Nat
  BY LimitAssumption DEF DispatchTypeOK
<1>5. costUsed' \in Nat
  BY <1>1, LimitAssumption DEF Settle, DispatchTypeOK
<1>6. r \in reserved
  BY <1>2 DEF ReservationsSettled, Running
<1>7. DispatchTypeOK'
  BY <1>1, <1>2, <1>3, <1>4, <1>5 DEF DispatchTypeOK
<1>8. Running' = Running \ {r}
  BY <1>2, <1>3 DEF Running, DispatchTypeOK
<1>9. WaitingInv'
  BY <1>2, <1>3, <1>6 DEF WaitingInv, DispatchTypeOK
<1>10. ReservationsSettled'
  BY <1>2, <1>3, <1>8 DEF ReservationsSettled
<1>11. \A q \in Completed' : answeredAt'[q] < Wallclock
  <2>1. \A q \in Request \ {r} : result'[q] = result[q] /\ answeredAt'[q] = answeredAt[q]
    BY <1>1, <1>3 DEF DispatchTypeOK
  <2>2. result'[r] = "completed" => answeredAt'[r] < Wallclock
    BY <1>1, <1>3 DEF DispatchTypeOK
  <2> QED
    BY <2>1, <2>2 DEF Completed, CompletedInTime
<1>12. Cardinality(Running') <= MaxConcurrency
  <2>1. IsFiniteSet(Running)
    BY NumberAssumption, FS_Subset DEF Running
  <2>2. Cardinality(Running') <= Cardinality(Running) /\ Cardinality(Running') \in Nat
    BY <1>8, <2>1, FS_Subset, FS_CardinalityType
  <2>3. Cardinality(Running) \in Nat /\ Cardinality(Running) <= MaxConcurrency
    BY <2>1, FS_CardinalityType DEF CompletedInTime
  <2> QED
    BY <2>2, <2>3, LimitAssumption
<1> QED
  BY <1>7, <1>9, <1>10, <1>11, <1>12 DEF CompletedInTime

LEMMA EntersIInv ==
  ASSUME DispatchIInv, NEW r \in Request, Enters(r), deadline' \in [Request -> 0..Wallclock]
  PROVE  DispatchIInv'
<1> USE DEF DispatchIInv, Enters
<1>1. r \notin reserved /\ r \notin settled /\ r \notin Running
  BY DEF WaitingInv, Running
<1>2. Running' = Running \cup {r}
  BY DEF Running, DispatchTypeOK
<1>3. IsFiniteSet(Running) /\ IsFiniteSet(reserved)
  BY NumberAssumption, FS_Subset DEF Running, DispatchTypeOK
<1>4. Cardinality(reserved') = callsUsed' /\ Cardinality(Running') = Cardinality(Running) + 1
  BY <1>1, <1>2, <1>3, FS_AddElement DEF ReservationsSettled
<1>5. Cardinality(Running) \in Nat
  BY <1>3, FS_CardinalityType
<1>6. DispatchTypeOK'
  <2>1. callsUsed' \in 0..MaxCalls
    BY LimitAssumption DEF DispatchTypeOK
  <2>2. task' \in [Request -> {"queued", "running", "done"}]
    BY DEF DispatchTypeOK
  <2> QED
    BY <2>1, <2>2 DEF DispatchTypeOK
<1>7. WaitingInv'
  BY DEF WaitingInv, DispatchTypeOK
<1>8. ReservationsSettled'
  BY <1>1, <1>2, <1>4 DEF ReservationsSettled
<1>9. CompletedInTime'
  BY <1>4, <1>5, LimitAssumption DEF CompletedInTime, Completed
<1> QED
  BY <1>6, <1>7, <1>8, <1>9

LEMMA SpecDispatch == DispatchSpec => []DispatchIInv
<1>1. DispatchInit => DispatchIInv
  BY InitDispatch
<1>2. DispatchIInv /\ [DispatchNext]_dispatchVars => DispatchIInv'
  <2> SUFFICES ASSUME DispatchIInv, [DispatchNext]_dispatchVars
               PROVE  DispatchIInv'
    OBVIOUS
  <2>1. CASE \E r \in Request : Refused(r) \/ Returns(r)
    BY <2>1, RefusedIInv, ReturnsIInv
  <2>2. CASE \E r \in Request : Enters(r) /\ deadline' \in [Request -> 0..Wallclock]
    BY <2>2, EntersIInv
  <2>3. CASE /\ clock' \in 0..Wallclock + Late
             /\ UNCHANGED <<task, deadline, result, reported, answeredAt, callsUsed, costUsed, reserved, settled>>
    BY <2>3 DEF DispatchIInv, DispatchTypeOK, WaitingInv, ReservationsSettled, CompletedInTime, Completed, Running
  <2>4. CASE UNCHANGED dispatchVars
    BY <2>4 DEF dispatchVars, DispatchIInv, DispatchTypeOK, WaitingInv, ReservationsSettled, CompletedInTime, Completed, Running
  <2> QED
    BY <2>1, <2>2, <2>3, <2>4, StepIs DEF DispatchIInv
<1> QED
  BY <1>1, <1>2, PTL DEF DispatchSpec

-----------------------------------------------------------------------------
(* Every step of the dispatch keeps the costs *)

LEMMA TotalSame ==
  ASSUME NEW S, IsFiniteSet(S), NEW v, NEW w, \A x \in S : v[x] \in Nat /\ w[x] = v[x]
  PROVE  Total(w, S) = Total(v, S)
<1>1. Units(w, S) = Units(v, S)
  BY DEF Units
<1> QED
  BY <1>1, TotalIs

LEMMA TotalAdds ==
  ASSUME NEW S, IsFiniteSet(S), NEW x, x \notin S, NEW v, \A y \in S \cup {x} : v[y] \in Nat
  PROVE  Total(v, S \cup {x}) = Total(v, S) + v[x]
<1>1. IsFiniteSet(S \cup {x}) /\ (S \cup {x}) \ {x} = S
  BY FS_AddElement
<1>2. Cardinality(Units(v, S \cup {x})) = v[x] + Cardinality(Units(v, S))
  <2> DEFINE T == S \cup {x}
  <2>1. IsFiniteSet(T) /\ x \in T /\ (\A y \in T : v[y] \in Nat) /\ T \ {x} = S
    BY <1>1
  <2> HIDE DEF T
  <2>2. Cardinality(Units(v, T)) = v[x] + Cardinality(Units(v, T \ {x}))
    BY <2>1, UnitsAre
  <2> QED
    BY <2>1, <2>2 DEF T
<1>3. v[x] \in Nat /\ Cardinality(Units(v, S)) \in Nat
  BY UnitsAre
<1>4. Total(v, S \cup {x}) = Cardinality(Units(v, S \cup {x})) /\ Total(v, S) = Cardinality(Units(v, S))
  BY <1>1, TotalIs
<1> QED
  BY <1>2, <1>3, <1>4

LEMMA TotalLess ==
  ASSUME NEW S, IsFiniteSet(S), NEW T \in SUBSET S, NEW v, \A x \in S : v[x] \in Nat
  PROVE  Total(v, T) <= Total(v, S) /\ Total(v, T) \in Nat /\ Total(v, S) \in Nat
<1>1. IsFiniteSet(T)
  BY FS_Subset
<1>2. Units(v, T) \in SUBSET Units(v, S)
  BY DEF Units
<1>3. IsFiniteSet(Units(v, S)) /\ Cardinality(Units(v, S)) \in Nat /\ Cardinality(Units(v, T)) \in Nat
  BY <1>1, UnitsAre
<1>4. Cardinality(Units(v, T)) <= Cardinality(Units(v, S))
  BY <1>2, <1>3, FS_Subset
<1> QED
  BY <1>1, <1>3, <1>4, TotalIs

\* What is charged or completed has its result.
CostInv == CostsAddUp /\ \A r \in Charged \cup Completed : task[r] = "done"

\* Steps that report nothing and complete nothing.
LEMMA KeepCosts ==
  ASSUME CostInv, UNCHANGED <<reported, costUsed>>, Completed' = Completed,
         \A r \in Request : task[r] = "done" => task'[r] = "done"
  PROVE  CostInv'
<1>1. Charged' = Charged /\ Charged \subseteq Request /\ Completed \subseteq Request
  BY DEF Charged, Completed
<1> QED
  BY <1>1 DEF CostInv, CostsAddUp

LEMMA ReturnsCosts ==
  ASSUME DispatchIInv, CostInv, NEW r \in Request, Returns(r)
  PROVE  CostInv'
<1> USE DEF DispatchIInv
<1>1. PICK status \in Statuses, cost \in Costs \cup {Unknown} :
        /\ task[r] = "running" /\ Deliver(r, status) /\ Settle(r, cost)
        /\ \/ reported' = [reported EXCEPT ![r] = cost]
           \/ cost = Unknown /\ reported' = reported
        /\ status = "completed" => ~SettleRaises(cost)
  BY DEF Returns
<1>2. r \notin Charged /\ r \notin Completed /\ reported[r] = Unknown
  BY <1>1 DEF CostInv, Charged
<1>3. reported' = [reported EXCEPT ![r] = cost]
  BY <1>1, <1>2 DEF DispatchTypeOK
<1>4. Charged' = IF cost = Unknown THEN Charged ELSE Charged \cup {r}
  BY <1>1, <1>2, <1>3 DEF Charged, DispatchTypeOK
<1>5. Completed' = IF status = "completed" THEN Completed \cup {r} ELSE Completed
  BY <1>1, <1>2 DEF Completed, Deliver, DispatchTypeOK
<1>6. /\ IsFiniteSet(Charged) /\ IsFiniteSet(Charged') /\ IsFiniteSet(Completed)
      /\ Completed \subseteq Request /\ Charged \subseteq Request
  BY NumberAssumption, FS_Subset DEF Charged, Completed
<1>7. /\ \A q \in Charged : reported[q] \in Nat /\ reported'[q] = reported[q] /\ q # r
      /\ \A q \in Charged' : reported'[q] \in Nat
      /\ \A q \in Completed : reported'[q] = reported[q] /\ q # r
      /\ cost # Unknown => cost \in Nat /\ reported'[r] = cost
  BY <1>2, <1>3, LimitAssumption DEF DispatchTypeOK, Charged, Completed
<1>8. costUsed = Total(reported, Charged) /\ costUsed \in Nat
  BY DEF CostInv, CostsAddUp, DispatchTypeOK
<1>9. Total(reported', Charged) = costUsed
  BY <1>6, <1>7, <1>8, TotalSame
<1>10. costUsed' = Total(reported', Charged')
  <2>1. CASE cost = Unknown
    BY <1>1, <1>4, <1>8, <1>9, <2>1 DEF Settle
  <2>2. CASE cost # Unknown
    <3>1. Total(reported', Charged \cup {r}) = Total(reported', Charged) + reported'[r]
      BY <1>2, <1>4, <1>6, <1>7, <2>2, TotalAdds
    <3> QED
      BY <1>1, <1>4, <1>7, <1>9, <2>2, <3>1 DEF Settle
  <2> QED
    BY <2>1, <2>2
<1>11. ASSUME MaxCost # NoLimit
       PROVE  (\A q \in Completed' : reported'[q] # Unknown) /\ Total(reported', Completed') <= MaxCost
  <2>1. (\A q \in Completed : reported[q] # Unknown) /\ Total(reported, Completed) <= MaxCost
    BY <1>11 DEF CostInv, CostsAddUp
  <2>2. Completed \subseteq Charged
    BY <1>6, <2>1 DEF Charged
  <2>3. CASE status = "completed"
    <3>1. cost # Unknown /\ costUsed + cost <= MaxCost
      BY <1>1, <1>7, <1>8, <1>11, <2>3, LimitAssumption DEF SettleRaises, OverCost
    <3>2. Completed' \in SUBSET Charged'
      BY <1>4, <1>5, <2>2, <2>3, <3>1
    <3>3. Total(reported', Completed') <= Total(reported', Charged')
      BY <1>6, <1>7, <3>2, TotalLess
    <3>4. Total(reported', Charged') <= MaxCost
      BY <1>1, <1>10, <3>1 DEF Settle
    <3>5. Total(reported', Completed') \in Nat /\ Total(reported', Charged') \in Nat /\ MaxCost \in Nat
      BY <1>6, <1>7, <1>11, <3>2, TotalLess, LimitAssumption
    <3>6. \A q \in Charged' : reported'[q] # Unknown
      BY DEF Charged
    <3> QED
      BY <3>2, <3>3, <3>4, <3>5, <3>6
  <2>4. CASE status # "completed"
    <3>1. Completed' = Completed
      BY <1>5, <2>4
    <3>2. Total(reported', Completed) = Total(reported, Completed)
      BY <1>6, <1>7, <2>2, TotalSame
    <3> QED
      BY <1>7, <2>1, <3>1, <3>2
  <2> QED
    BY <2>3, <2>4
<1>12. \A q \in Charged' \cup Completed' : task'[q] = "done"
  <2>1. \A q \in Charged \cup Completed : task[q] = "done" /\ q \in Request
    BY <1>6 DEF CostInv
  <2> QED
    BY <1>1, <1>4, <1>5, <2>1 DEF Deliver, DispatchTypeOK
<1> QED
  BY <1>10, <1>11, <1>12 DEF CostInv, CostsAddUp

LEMMA CostStep ==
  ASSUME DispatchIInv, CostInv, [DispatchNext]_dispatchVars
  PROVE  CostInv'
<1> USE DEF DispatchIInv
<1>1. ASSUME NEW r \in Request, Returns(r) PROVE CostInv'
  BY <1>1, ReturnsCosts
<1>2. ASSUME NEW r \in Request, Refused(r) PROVE CostInv'
  <2>1. UNCHANGED <<reported, costUsed>> /\ task[r] = "queued"
    BY <1>2 DEF Refused
  <2>2. PICK status \in Statuses \ {"completed"} : Deliver(r, status)
    BY <1>2 DEF Refused
  <2>3. r \notin Completed
    BY <2>1 DEF CostInv
  <2>4. Completed' = Completed
    BY <2>2, <2>3 DEF Completed, Deliver, DispatchTypeOK
  <2> QED
    BY <2>1, <2>2, <2>4, KeepCosts DEF Deliver, DispatchTypeOK
<1>3. ASSUME NEW r \in Request, Enters(r) PROVE CostInv'
  BY <1>3, KeepCosts DEF Enters, Completed, DispatchTypeOK
<1>4. ASSUME UNCHANGED <<task, result, reported, costUsed>> PROVE CostInv'
  BY <1>4, KeepCosts DEF Completed
<1>5. UNCHANGED dispatchVars => UNCHANGED <<task, result, reported, costUsed>>
  BY DEF dispatchVars
<1> QED
  BY <1>1, <1>2, <1>3, <1>4, <1>5, StepIs

LEMMA InitCost ==
  ASSUME DispatchInit
  PROVE  CostInv
<1>1. Charged = {} /\ Completed = {}
  BY DEF DispatchInit, Charged, Completed, NoResult
<1>2. Total(reported, {}) = 0
  <2>1. Units(reported, {}) = {}
    BY DEF Units
  <2> QED
    BY <2>1, TotalIs, FS_EmptySet
<1>3. MaxCost # NoLimit => 0 <= MaxCost
  BY LimitAssumption
<1> QED
  BY <1>1, <1>2, <1>3 DEF DispatchInit, CostInv, CostsAddUp

-----------------------------------------------------------------------------
(* The theorems about the dispatch *)

\* Type correctness of the dispatch; the ledger never counts more calls than it
\* allows.
THEOREM DispatchType == DispatchSpec => []DispatchTypeOK
BY SpecDispatch, PTL DEF DispatchIInv

\* Whatever comes first of an answer, an error and a deadline, every reservation is
\* settled once, and exactly the calls that run hold one.
THEOREM DispatchSettles == DispatchSpec => []ReservationsSettled
BY SpecDispatch, PTL DEF DispatchIInv

\* No result completes after the wallclock budget, and the semaphore's bound holds.
THEOREM DispatchInTime == DispatchSpec => []CompletedInTime
BY SpecDispatch, PTL DEF DispatchIInv

\* Of a limited run the completed results have known costs, which fit the limit
\* although calls overlap; and the ledger charges exactly what providers reported
\* in time.
THEOREM DispatchCosts == DispatchSpec => []CostsAddUp
<1>1. DispatchInit => DispatchIInv /\ CostInv
  BY InitDispatch, InitCost
<1>2. DispatchIInv /\ CostInv /\ [DispatchNext]_dispatchVars => CostInv'
  BY CostStep
<1>3. CostInv => CostsAddUp
  BY DEF CostInv
<1> QED
  BY SpecDispatch, <1>1, <1>2, <1>3, PTL DEF DispatchSpec

-----------------------------------------------------------------------------
(* One result for each request *)

\* A request has its result exactly when it is done with.
OneResult == \A r \in Request : task[r] = "done" <=> result[r] # NoResult

\* What a request was answered, and what was charged for it, never changes.
FinalStep ==
  /\ \A r \in Request : result[r] # NoResult =>
       /\ result'[r] = result[r] /\ reported'[r] = reported[r]
       /\ task'[r] = "done"
  /\ callsUsed <= callsUsed' /\ costUsed <= costUsed'
  /\ reserved \subseteq reserved' /\ settled \subseteq settled'

LEMMA OneResultStep ==
  ASSUME DispatchTypeOK, OneResult, [DispatchNext]_dispatchVars
  PROVE  OneResult' /\ FinalStep
<1> USE DEF DispatchTypeOK, OneResult, FinalStep
<1>1. NoResult \notin Statuses
  BY DEF NoResult, Statuses
<1>2. callsUsed \in Nat /\ costUsed \in Nat
  BY LimitAssumption
<1>3. ASSUME NEW r \in Request, Refused(r) PROVE OneResult' /\ FinalStep
  <2>1. PICK status \in Statuses \ {"completed"} :
          /\ task[r] = "queued" /\ Deliver(r, status)
          /\ UNCHANGED <<clock, deadline, reported, answeredAt, callsUsed, costUsed, reserved, settled>>
    BY <1>3 DEF Refused
  <2>2. task' = [task EXCEPT ![r] = "done"] /\ result' = [result EXCEPT ![r] = status]
    BY <2>1 DEF Deliver
  <2> QED
    BY <1>1, <1>2, <2>1, <2>2
<1>4. ASSUME NEW r \in Request, Returns(r) PROVE OneResult' /\ FinalStep
  <2>1. PICK status \in Statuses, cost \in Costs \cup {Unknown} :
          /\ task[r] = "running" /\ Deliver(r, status) /\ Settle(r, cost)
          /\ \/ reported' = [reported EXCEPT ![r] = cost]
             \/ cost = Unknown /\ reported' = reported
          /\ UNCHANGED <<callsUsed, reserved>>
    BY <1>4 DEF Returns
  <2>2. task' = [task EXCEPT ![r] = "done"] /\ result' = [result EXCEPT ![r] = status]
    BY <2>1 DEF Deliver
  <2>3. settled \subseteq settled' /\ costUsed <= costUsed'
    <3>1. cost = Unknown \/ cost \in Nat
      BY LimitAssumption
    <3> QED
      BY <1>2, <2>1, <3>1 DEF Settle
  <2>4. \A q \in Request : q # r => reported'[q] = reported[q]
    BY <2>1
  <2>5. result[r] = NoResult
    BY <2>1
  <2> QED
    BY <1>1, <1>2, <2>1, <2>2, <2>3, <2>4, <2>5
<1>5. ASSUME NEW r \in Request, Enters(r) PROVE OneResult' /\ FinalStep
  <2>1. /\ task[r] = "queued" /\ task' = [task EXCEPT ![r] = "running"]
        /\ callsUsed' = callsUsed + 1 /\ reserved' = reserved \cup {r}
        /\ UNCHANGED <<result, reported, costUsed, settled>>
    BY <1>5 DEF Enters
  <2> QED
    BY <1>2, <2>1
<1>6. ASSUME UNCHANGED <<task, result, reported, callsUsed, costUsed, reserved, settled>>
      PROVE  OneResult' /\ FinalStep
  BY <1>2, <1>6
<1>7. CASE UNCHANGED dispatchVars
  BY <1>6, <1>7 DEF dispatchVars
<1>8. CASE DispatchNext
  BY <1>3, <1>4, <1>5, <1>6, <1>8, StepIs
<1> QED
  BY <1>7, <1>8

\* Every request that is done with has exactly one result, and no other one has.
THEOREM DispatchDelivers == DispatchSpec => []OneResult
<1>1. DispatchInit => OneResult
  BY DEF DispatchInit, OneResult
<1>2. DispatchIInv /\ OneResult /\ [DispatchNext]_dispatchVars => OneResult'
  BY OneResultStep DEF DispatchIInv
<1> QED
  BY SpecDispatch, <1>1, <1>2, PTL DEF DispatchSpec

\* A late answer changes neither a result that was delivered nor what was charged for
\* it, and the budget ledger only grows.
THEOREM DispatchIsFinal == DispatchSpec => [][FinalStep]_dispatchVars
<1>1. DispatchTypeOK /\ OneResult /\ [DispatchNext]_dispatchVars => [FinalStep]_dispatchVars
  BY OneResultStep
<1> QED
  BY DispatchType, DispatchDelivers, <1>1, PTL DEF DispatchSpec

=============================================================================
