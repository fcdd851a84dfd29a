------------------------- MODULE ReceiptChainProofs -------------------------
(***************************************************************************)
(* Proofs about ReceiptChain and ChainReader, for any number of processes  *)
(* and runs, as long as no exception follows the replacement of            *)
(* chain-head.json (with such exceptions the chain breaks).  A receipt     *)
(* that persist returned stays complete and keeps its place for ever;      *)
(* until an operator deletes a leaked lock file, the receipts of the store *)
(* are one chain at every moment, chain-head.json names its only head, and *)
(* verify_chain, reading beside the writers, raises only if one of them    *)
(* rolls back meanwhile.                                                   *)
(***************************************************************************)
EXTENDS ChainReader, Functions, FiniteSetTheorems, WellFoundedInduction, TLAPS

-----------------------------------------------------------------------------
(* The inductive invariant *)

\* A process in persist has a run.
RunInv == \A p \in Persister : pc[p] # "idle" => run[p] \in Run

\* .chain.lock excludes: its holder is the only process inside.
LockInv == \A p \in Persister : pc[p] \in Holding => lock = p

\* Runs that the chain mentions: its head and the predecessors.
Named == {head} \cup {previous[s] : s \in receipt}

\* What the chain mentions has a directory, so that nobody may use it again.
FilesInv ==
  /\ receipt \subseteq directory
  /\ Named \subseteq directory \cup {NoRun}

\* What a process inside has made so far belongs to its run, which neither
\* persist nor the chain has mentioned before the head names it.
WorkInv == \A p \in Persister :
  /\ pc[p] \in {"linked", "made", "analysed", "receipted"} => link[p] = head
  /\ pc[p] \in {"made", "analysed", "receipted", "headed"} => run[p] \in directory \ returned
  /\ pc[p] \in {"made", "analysed"} => run[p] \notin receipt
  /\ pc[p] \in {"made", "analysed", "receipted"} => run[p] \notin Named
  /\ pc[p] \in {"analysed", "receipted", "headed"} => run[p] \in analysis
  /\ pc[p] \in {"receipted", "headed"} =>
       run[p] \in receipt /\ previous[run[p]] = link[p]
  /\ pc[p] = "headed" =>
       /\ head = run[p]
       /\ link[p] # head
       /\ \A s \in returned : previous[s] # link[p]

\* What persist returned is complete, and the next link will not name a
\* predecessor of any of it.
ReturnedInv ==
  /\ ReturnedComplete
  /\ \A s \in returned : previous[s] # head

\* Receipts that the head covers: not the one about to be named by it.
Covered == receipt \ {run[p] : p \in {q \in Persister : pc[q] = "receipted"}}

HeadInv ==
  (~forced /\ lock # Leaked) =>
    Covered \ {previous[r] : r \in Covered} = {head} \ {NoRun}

LockedType == TypeOK /\ RunInv /\ LockInv

KeptInv == FilesInv /\ WorkInv /\ ReturnedInv

IInv == LockedType /\ KeptInv /\ HeadInv

-----------------------------------------------------------------------------
(* Types and the lock, with late interrupts or without *)

\* The lock is free and nobody is inside.
LEMMA InitLocked == Init => LockedType
BY DEF Init, LockedType, TypeOK, RunInv, LockInv, Holding

\* Every step keeps the types, the run of each caller and the exclusion.
LEMMA StepLocked == LockedType /\ [Next]_vars => LockedType'
<1> SUFFICES ASSUME LockedType, [Next]_vars PROVE LockedType'
  OBVIOUS
<1> USE LockAssumption, RunAssumption
        DEF LockedType, TypeOK, RunInv, LockInv, Holding, Goto, Finish, disk
<1>1. ASSUME NEW p \in Persister, NEW r \in Run, Begin(p, r) PROVE LockedType'
  BY <1>1 DEF Begin
<1>2. ASSUME NEW p \in Persister, TakeLock(p) PROVE LockedType'
  BY <1>2 DEF TakeLock
<1>3. ASSUME NEW p \in Persister, LockTimeout(p) PROVE LockedType'
  BY <1>3 DEF LockTimeout
<1>4. ASSUME NEW p \in Persister, LinkReceipt(p) PROVE LockedType'
  BY <1>4 DEF LinkReceipt
<1>5. ASSUME NEW p \in Persister, Reject(p) PROVE LockedType'
  BY <1>5 DEF Reject
<1>6. ASSUME NEW p \in Persister, MakeDirectory(p) PROVE LockedType'
  BY <1>6 DEF MakeDirectory
<1>7. ASSUME NEW p \in Persister, WriteAnalysis(p) PROVE LockedType'
  BY <1>7 DEF WriteAnalysis
<1>8. ASSUME NEW p \in Persister, WriteReceipt(p) PROVE LockedType'
  BY <1>8 DEF WriteReceipt
<1>9. ASSUME NEW p \in Persister, WriteHead(p) PROVE LockedType'
  BY <1>9 DEF WriteHead
<1>10. ASSUME NEW p \in Persister, WriteFails(p) PROVE LockedType'
  BY <1>10 DEF WriteFails, InterruptedAt, RollBack
<1>11. ASSUME NEW p \in Persister, Return(p) PROVE LockedType'
  BY <1>11 DEF Return
<1>12. ASSUME NEW p \in Persister, Crash(p) PROVE LockedType'
  BY <1>12 DEF Crash
<1>13. ASSUME RemoveLeakedLock PROVE LockedType'
  BY <1>13 DEF RemoveLeakedLock
<1>14. ASSUME UNCHANGED vars PROVE LockedType'
  BY <1>14 DEF vars
<1> QED
  BY <1>1, <1>2, <1>3, <1>4, <1>5, <1>6, <1>7, <1>8, <1>9, <1>10, <1>11, <1>12, <1>13, <1>14
  DEF Next, Step

-----------------------------------------------------------------------------
(* What persist returned *)

\* An inside process is alone inside.
LEMMA Alone ==
  ASSUME LockInv, NEW p \in Persister, pc[p] \in Holding, NEW q \in Persister, q # p
  PROVE  pc[q] \notin Holding
BY DEF LockInv

\* Nothing has been persisted.
LEMMA InitKept == Init => KeptInv
BY RunAssumption DEF Init, KeptInv, FilesInv, Named, WorkInv, ReturnedInv, ReturnedComplete

\* Without late interrupts every step keeps it.
LEMMA StepKept ==
  LateInterrupts = FALSE /\ LockedType /\ KeptInv /\ [Next]_vars => KeptInv'
<1> SUFFICES ASSUME LateInterrupts = FALSE, LockedType, KeptInv, [Next]_vars PROVE KeptInv'
  OBVIOUS
<1> USE LockAssumption, RunAssumption DEF LockedType, TypeOK, RunInv, Goto, Finish, disk
<1>0. LockInv /\ FilesInv /\ WorkInv /\ ReturnedInv
  BY DEF KeptInv
<1>1. ASSUME NEW p \in Persister, NEW r \in Run, Begin(p, r) PROVE KeptInv'
  <2>1. FilesInv'
    BY <1>0, <1>1 DEF Begin, FilesInv, Named
  <2>2. WorkInv'
    BY <1>0, <1>1 DEF Begin, WorkInv, Named
  <2>3. ReturnedInv'
    BY <1>0, <1>1 DEF Begin, ReturnedInv, ReturnedComplete
  <2> QED
    BY <2>1, <2>2, <2>3 DEF KeptInv
<1>2. ASSUME NEW p \in Persister, TakeLock(p) PROVE KeptInv'
  <2>1. FilesInv'
    BY <1>0, <1>2 DEF TakeLock, FilesInv, Named
  <2>2. WorkInv'
    BY <1>0, <1>2 DEF TakeLock, WorkInv, Named
  <2>3. ReturnedInv'
    BY <1>0, <1>2 DEF TakeLock, ReturnedInv, ReturnedComplete
  <2> QED
    BY <2>1, <2>2, <2>3 DEF KeptInv
<1>3. ASSUME NEW p \in Persister, LockTimeout(p) PROVE KeptInv'
  <2>1. FilesInv'
    BY <1>0, <1>3 DEF LockTimeout, FilesInv, Named
  <2>2. WorkInv'
    BY <1>0, <1>3 DEF LockTimeout, WorkInv, Named
  <2>3. ReturnedInv'
    BY <1>0, <1>3 DEF LockTimeout, ReturnedInv, ReturnedComplete
  <2> QED
    BY <2>1, <2>2, <2>3 DEF KeptInv
<1>4. ASSUME NEW p \in Persister, LinkReceipt(p) PROVE KeptInv'
  <2>1. FilesInv'
    BY <1>0, <1>4 DEF LinkReceipt, FilesInv, Named
  <2>2. WorkInv'
    BY <1>0, <1>4 DEF LinkReceipt, WorkInv, Named
  <2>3. ReturnedInv'
    BY <1>0, <1>4 DEF LinkReceipt, ReturnedInv, ReturnedComplete
  <2> QED
    BY <2>1, <2>2, <2>3 DEF KeptInv
<1>5. ASSUME NEW p \in Persister, Reject(p) PROVE KeptInv'
  <2>1. FilesInv'
    BY <1>0, <1>5 DEF Reject, FilesInv, Named
  <2>2. WorkInv'
    BY <1>0, <1>5 DEF Reject, WorkInv, Named
  <2>3. ReturnedInv'
    BY <1>0, <1>5 DEF Reject, ReturnedInv, ReturnedComplete
  <2> QED
    BY <2>1, <2>2, <2>3 DEF KeptInv
<1>6. ASSUME NEW p \in Persister, MakeDirectory(p) PROVE KeptInv'
  <2>1. \A q \in Persister \ {p} : pc'[q] = pc[q] /\ pc[q] \notin Holding
    BY <1>0, <1>6, Alone DEF MakeDirectory, Holding
  <2>2. FilesInv'
    BY <1>0, <1>6 DEF MakeDirectory, FilesInv, WorkInv, Named
  <2>3. WorkInv'
    BY <1>0, <1>6, <2>1 DEF MakeDirectory, WorkInv, FilesInv, ReturnedInv, ReturnedComplete, Named, Holding
  <2>4. ReturnedInv'
    BY <1>0, <1>6 DEF MakeDirectory, WorkInv, FilesInv, ReturnedInv, ReturnedComplete, Named
  <2> QED
    BY <2>2, <2>3, <2>4 DEF KeptInv
<1>7. ASSUME NEW p \in Persister, WriteAnalysis(p) PROVE KeptInv'
  <2>1. \A q \in Persister \ {p} : pc'[q] = pc[q] /\ pc[q] \notin Holding
    BY <1>0, <1>7, Alone DEF WriteAnalysis, Holding
  <2>2. FilesInv'
    BY <1>0, <1>7 DEF WriteAnalysis, FilesInv, WorkInv, Named
  <2>3. WorkInv'
    BY <1>0, <1>7, <2>1 DEF WriteAnalysis, WorkInv, FilesInv, ReturnedInv, ReturnedComplete, Named, Holding
  <2>4. ReturnedInv'
    BY <1>0, <1>7 DEF WriteAnalysis, WorkInv, FilesInv, ReturnedInv, ReturnedComplete, Named
  <2> QED
    BY <2>2, <2>3, <2>4 DEF KeptInv
<1>8. ASSUME NEW p \in Persister, WriteReceipt(p) PROVE KeptInv'
  <2>1. \A q \in Persister \ {p} : pc'[q] = pc[q] /\ pc[q] \notin Holding
    BY <1>0, <1>8, Alone DEF WriteReceipt, Holding
  <2>2. FilesInv'
    BY <1>0, <1>8 DEF WriteReceipt, FilesInv, WorkInv, Named
  <2>3. WorkInv'
    BY <1>0, <1>8, <2>1 DEF WriteReceipt, WorkInv, FilesInv, ReturnedInv, ReturnedComplete, Named, Holding
  <2>4. ReturnedInv'
    BY <1>0, <1>8 DEF WriteReceipt, WorkInv, FilesInv, ReturnedInv, ReturnedComplete, Named
  <2> QED
    BY <2>2, <2>3, <2>4 DEF KeptInv
<1>9. ASSUME NEW p \in Persister, WriteHead(p) PROVE KeptInv'
  <2>1. \A q \in Persister \ {p} : pc'[q] = pc[q] /\ pc[q] \notin Holding
    BY <1>0, <1>9, Alone DEF WriteHead, Holding
  <2>2. FilesInv'
    BY <1>0, <1>9 DEF WriteHead, FilesInv, WorkInv, Named
  <2>3. WorkInv'
    BY <1>0, <1>9, <2>1 DEF WriteHead, WorkInv, FilesInv, ReturnedInv, ReturnedComplete, Named, Holding
  <2>4. ReturnedInv'
    BY <1>0, <1>9 DEF WriteHead, WorkInv, FilesInv, ReturnedInv, ReturnedComplete, Named
  <2> QED
    BY <2>2, <2>3, <2>4 DEF KeptInv
<1>10. ASSUME NEW p \in Persister, WriteFails(p) PROVE KeptInv'
  <2>1. \A q \in Persister \ {p} : pc'[q] = pc[q] /\ pc[q] \notin Holding
    BY <1>0, <1>10, Alone DEF WriteFails, InterruptedAt, RollBack, Holding
  <2>2. FilesInv'
    BY <1>0, <1>10 DEF WriteFails, InterruptedAt, RollBack, FilesInv, WorkInv, Named
  <2>3. WorkInv'
    BY <1>0, <1>10, <2>1 DEF WriteFails, InterruptedAt, RollBack, WorkInv, FilesInv, ReturnedInv, ReturnedComplete, Named, Holding
  <2>4. ReturnedInv'
    BY <1>0, <1>10 DEF WriteFails, InterruptedAt, RollBack, WorkInv, FilesInv, ReturnedInv, ReturnedComplete, Named
  <2> QED
    BY <2>2, <2>3, <2>4 DEF KeptInv
<1>11. ASSUME NEW p \in Persister, Return(p) PROVE KeptInv'
  <2>1. \A q \in Persister \ {p} : pc'[q] = pc[q] /\ pc[q] \notin Holding
    BY <1>0, <1>11, Alone DEF Return, Holding
  <2>2. FilesInv'
    BY <1>0, <1>11 DEF Return, FilesInv, WorkInv, Named
  <2>3. WorkInv'
    BY <1>0, <1>11, <2>1 DEF Return, WorkInv, FilesInv, ReturnedInv, ReturnedComplete, Named, Holding
  <2>4. ReturnedInv'
    BY <1>0, <1>11 DEF Return, WorkInv, FilesInv, ReturnedInv, ReturnedComplete, Named
  <2> QED
    BY <2>2, <2>3, <2>4 DEF KeptInv
<1>12. ASSUME NEW p \in Persister, Crash(p) PROVE KeptInv'
  <2>1. FilesInv'
    BY <1>0, <1>12 DEF Crash, FilesInv, Named
  <2>2. WorkInv'
    BY <1>0, <1>12 DEF Crash, WorkInv, Named
  <2>3. ReturnedInv'
    BY <1>0, <1>12 DEF Crash, ReturnedInv, ReturnedComplete
  <2> QED
    BY <2>1, <2>2, <2>3 DEF KeptInv
<1>13. ASSUME RemoveLeakedLock PROVE KeptInv'
  BY <1>0, <1>13 DEF RemoveLeakedLock, KeptInv, FilesInv, Named, WorkInv, ReturnedInv, ReturnedComplete
<1>14. ASSUME UNCHANGED vars PROVE KeptInv'
  BY <1>0, <1>14 DEF vars, KeptInv, FilesInv, Named, WorkInv, ReturnedInv, ReturnedComplete
<1> QED
  BY <1>1, <1>2, <1>3, <1>4, <1>5, <1>6, <1>7, <1>8, <1>9, <1>10, <1>11, <1>12, <1>13, <1>14
  DEF Next, Step

-----------------------------------------------------------------------------
(* The head *)

\* What the head covers keeps its shape when the same receipts are covered
\* and none of them is relinked.
LEMMA HeadFrame ==
  ASSUME HeadInv, Covered' = Covered, \A r \in Covered : previous'[r] = previous[r],
         head' = head, forced' = forced, lock = Leaked => lock' = Leaked \/ forced'
  PROVE  HeadInv'
BY DEF HeadInv

\* An empty chain has no head.
LEMMA InitHead == Init => HeadInv
BY DEF Init, HeadInv, Covered

\* Without late interrupts every step keeps it.
LEMMA StepHead ==
  LateInterrupts = FALSE /\ IInv /\ [Next]_vars => HeadInv'
<1> SUFFICES ASSUME LateInterrupts = FALSE, IInv, [Next]_vars PROVE HeadInv'
  OBVIOUS
<1> USE LockAssumption, RunAssumption DEF IInv, LockedType, TypeOK, RunInv, Goto, Finish, disk
<1>0. LockInv /\ FilesInv /\ WorkInv /\ HeadInv
  BY DEF KeptInv
<1>1. ASSUME NEW p \in Persister, NEW r \in Run, Begin(p, r) PROVE HeadInv'
  <2>1. Covered' = Covered
    BY <1>0, <1>1 DEF Begin, Covered
  <2> QED
    BY <1>0, <1>1, <2>1, HeadFrame DEF Begin, LockInv, Holding, Covered
<1>2. ASSUME NEW p \in Persister, TakeLock(p) PROVE HeadInv'
  <2>1. Covered' = Covered
    BY <1>0, <1>2 DEF TakeLock, Covered
  <2> QED
    BY <1>0, <1>2, <2>1, HeadFrame DEF TakeLock, LockInv, Holding, Covered
<1>3. ASSUME NEW p \in Persister, LockTimeout(p) PROVE HeadInv'
  <2>1. Covered' = Covered
    BY <1>0, <1>3 DEF LockTimeout, Covered
  <2> QED
    BY <1>0, <1>3, <2>1, HeadFrame DEF LockTimeout, LockInv, Holding, Covered
<1>4. ASSUME NEW p \in Persister, LinkReceipt(p) PROVE HeadInv'
  <2>1. Covered' = Covered
    BY <1>0, <1>4 DEF LinkReceipt, Covered
  <2> QED
    BY <1>0, <1>4, <2>1, HeadFrame DEF LinkReceipt, LockInv, Holding, Covered
<1>5. ASSUME NEW p \in Persister, Reject(p) PROVE HeadInv'
  <2>1. Covered' = Covered
    BY <1>0, <1>5 DEF Reject, Covered
  <2> QED
    BY <1>0, <1>5, <2>1, HeadFrame DEF Reject, LockInv, Holding, Covered
<1>6. ASSUME NEW p \in Persister, MakeDirectory(p) PROVE HeadInv'
  <2>1. Covered' = Covered
    BY <1>0, <1>6 DEF MakeDirectory, Covered
  <2> QED
    BY <1>0, <1>6, <2>1, HeadFrame DEF MakeDirectory, LockInv, Holding, Covered
<1>7. ASSUME NEW p \in Persister, WriteAnalysis(p) PROVE HeadInv'
  <2>1. Covered' = Covered
    BY <1>0, <1>7 DEF WriteAnalysis, Covered
  <2> QED
    BY <1>0, <1>7, <2>1, HeadFrame DEF WriteAnalysis, LockInv, Holding, Covered
<1>8. ASSUME NEW p \in Persister, WriteReceipt(p) PROVE HeadInv'
  <2>1. \A q \in Persister \ {p} : pc'[q] = pc[q] /\ pc[q] # "receipted"
    BY <1>0, <1>8, Alone DEF WriteReceipt, Holding
  <2>2. Covered = receipt /\ Covered' = receipt
    BY <1>0, <1>8, <2>1 DEF WriteReceipt, Covered, WorkInv
  <2>3. \A r \in Covered : previous'[r] = previous[r]
    BY <1>0, <1>8, <2>2 DEF WriteReceipt, WorkInv
  <2> QED
    BY <1>0, <1>8, <2>2, <2>3, HeadFrame DEF WriteReceipt
<1>9. ASSUME NEW p \in Persister, WriteHead(p) PROVE HeadInv'
  <2>1. \A q \in Persister \ {p} : pc'[q] = pc[q] /\ pc[q] # "receipted"
    BY <1>0, <1>9, Alone DEF WriteHead, Holding
  <2>2. Covered = receipt \ {run[p]} /\ Covered' = Covered \cup {run[p]}
    BY <1>0, <1>9, <2>1 DEF WriteHead, Covered, WorkInv
  <2>3. previous[run[p]] = head /\ run[p] \notin Named /\ run[p] \in Run
    BY <1>0, <1>9 DEF WriteHead, WorkInv
  <2>4. lock # Leaked
    BY <1>0, <1>9 DEF WriteHead, LockInv, Holding
  <2>5. \A r \in Covered' : previous[r] # run[p] /\ (r # run[p] => r \in Covered)
    BY <1>0, <2>2, <2>3 DEF Named
  <2>6. ASSUME ~forced PROVE Covered' \ {previous[r] : r \in Covered'} = {run[p]}
    <3>1. Covered \ {previous[r] : r \in Covered} = {head} \ {NoRun}
      BY <1>0, <2>4, <2>6 DEF HeadInv
    <3>2. ASSUME NEW s \in Covered', s # run[p] PROVE \E r \in Covered' : previous[r] = s
      <4>1. CASE s = head
        BY <2>2, <2>3, <4>1
      <4>2. CASE s # head
        <5>1. s \in Covered
          BY <2>5, <3>2
        <5>2. s \in {previous[r] : r \in Covered}
          BY <3>1, <4>2, <5>1
        <5> QED
          BY <2>2, <5>2
      <4> QED
        BY <4>1, <4>2
    <3> QED
      BY <2>2, <2>5, <3>2
  <2> QED
    BY <1>9, <2>3, <2>6 DEF WriteHead, HeadInv
<1>10. ASSUME NEW p \in Persister, WriteFails(p) PROVE HeadInv'
  <2>1. \A q \in Persister \ {p} : pc'[q] = pc[q] /\ pc[q] # "receipted"
    BY <1>0, <1>10, Alone DEF WriteFails, InterruptedAt, Holding
  <2>2. Covered = receipt \ {run[p]} /\ Covered' = receipt \ {run[p]}
    BY <1>0, <1>10, <2>1 DEF WriteFails, InterruptedAt, RollBack, Covered, WorkInv
  <2>3. \A r \in Covered : previous'[r] = previous[r]
    BY <1>10, <2>2 DEF WriteFails, InterruptedAt, RollBack
  <2>4. lock # Leaked
    BY <1>0, <1>10 DEF WriteFails, InterruptedAt, LockInv, Holding
  <2> QED
    BY <1>0, <1>10, <2>2, <2>3, <2>4, HeadFrame DEF WriteFails, InterruptedAt, RollBack
<1>11. ASSUME NEW p \in Persister, Return(p) PROVE HeadInv'
  <2>1. Covered' = Covered
    BY <1>0, <1>11 DEF Return, Covered
  <2> QED
    BY <1>0, <1>11, <2>1, HeadFrame DEF Return, LockInv, Holding, Covered
<1>12. ASSUME NEW p \in Persister, Crash(p) PROVE HeadInv'
  <2>1. CASE pc[p] \in Holding
    BY <1>0, <1>12, <2>1 DEF Crash, LockInv, HeadInv
  <2>2. CASE pc[p] \notin Holding
    <3>1. Covered' = Covered
      BY <1>12, <2>2 DEF Crash, Covered, Holding
    <3> QED
      BY <1>0, <1>12, <3>1, HeadFrame DEF Crash, Covered
  <2> QED
    BY <2>1, <2>2
<1>13. ASSUME RemoveLeakedLock PROVE HeadInv'
  BY <1>13 DEF RemoveLeakedLock, HeadInv
<1>14. ASSUME UNCHANGED vars PROVE HeadInv'
  BY <1>0, <1>14 DEF vars, HeadInv, Covered
<1> QED
  BY <1>1, <1>2, <1>3, <1>4, <1>5, <1>6, <1>7, <1>8, <1>9, <1>10, <1>11, <1>12, <1>13, <1>14
  DEF Next, Step

-----------------------------------------------------------------------------
(* The chain *)

\* Receipts, oldest first, each of which names the one before it.
IsChain(f, n, s) ==
  /\ s \in [1..n -> DOMAIN f] /\ IsInjective(s)
  /\ \A r \in DOMAIN f : \E i \in 1..n : s[i] = r
  /\ \A i \in 1..n : f[s[i]] = IF i = 1 THEN NoRun ELSE s[i - 1]

\* The receipts of the store, likewise.
StoredChain(n, s) ==
  /\ s \in [1..n -> receipt] /\ IsInjective(s)
  /\ \A r \in receipt : \E i \in 1..n : s[i] = r
  /\ \A i \in 1..n : previous[s[i]] = IF i = 1 THEN NoRun ELSE s[i - 1]

ChainInv == ~forced => \E n \in Nat : \E s : StoredChain(n, s)

LEMMA StoredIs ==
  ASSUME TypeOK
  PROVE  /\ DOMAIN Stored = receipt /\ NoRun \notin DOMAIN Stored
         /\ \A r \in receipt : Stored[r] = previous[r]
         /\ \A n \in Nat : \A s : StoredChain(n, s) => IsChain(Stored, n, s)
<1>1. DOMAIN Stored = receipt /\ \A r \in receipt : Stored[r] = previous[r]
  BY DEF Stored
<1>2. NoRun \notin receipt
  BY RunAssumption DEF TypeOK
<1>3. ASSUME NEW n \in Nat, NEW s, StoredChain(n, s) PROVE IsChain(Stored, n, s)
  <2>1. \A i \in 1..n : s[i] \in receipt
    BY <1>3 DEF StoredChain
  <2> QED
    BY <1>1, <1>3, <2>1 DEF StoredChain, IsChain
<1> QED
  BY <1>1, <1>2, <1>3

\* A receipt that no other one names is the last one.
LEMMA LastIsUnnamed ==
  ASSUME NEW f, NEW n \in Nat, NEW s, IsChain(f, n, s), NEW r \in DOMAIN f,
         \A q \in DOMAIN f : f[q] # r
  PROVE  n > 0 /\ s[n] = r
<1>1. PICK i \in 1..n : s[i] = r
  BY DEF IsChain
<1>2. i < n => i + 1 \in 1..n /\ f[s[i + 1]] = s[i]
  BY DEF IsChain
<1>3. i < n => s[i + 1] \in DOMAIN f
  BY <1>2 DEF IsChain
<1> QED
  BY <1>1, <1>2, <1>3

\* The last receipt is the only one that no other names.
LEMMA OnlyHead ==
  ASSUME NEW f, NoRun \notin DOMAIN f, NEW n \in Nat, NEW s, IsChain(f, n, s)
  PROVE  Heads(f) = IF n = 0 THEN {} ELSE {s[n]}
<1>1. n = 0 => DOMAIN f = {}
  <2>1. ASSUME n = 0, NEW r \in DOMAIN f PROVE FALSE
    BY <2>1 DEF IsChain
  <2> QED
    BY <2>1
<1>2. ASSUME NEW r \in Heads(f) PROVE n > 0 /\ r = s[n]
  BY <1>2, LastIsUnnamed DEF Heads
<1>3. ASSUME n > 0 PROVE s[n] \in Heads(f)
  <2>1. s[n] \in DOMAIN f /\ n \in 1..n /\ DOMAIN s = 1..n
    BY <1>3 DEF IsChain
  <2>2. ASSUME NEW q \in DOMAIN f, f[q] = s[n] PROVE FALSE
    <3>1. PICK i \in 1..n : s[i] = q
      BY <2>2 DEF IsChain
    <3>2. i # 1
      BY <2>1, <2>2, <3>1 DEF IsChain
    <3>3. s[n] = s[i - 1] /\ i - 1 \in 1..n
      BY <2>2, <3>1, <3>2 DEF IsChain
    <3>4. i - 1 = n
      BY <2>1, <3>3 DEF IsChain, IsInjective
    <3> QED
      BY <3>1, <3>4
  <2> QED
    BY <2>1, <2>2 DEF Heads
<1> QED
  BY <1>1, <1>2, <1>3 DEF Heads

\* A persist links its receipt to the end of the chain.
LEMMA ChainGrows ==
  ASSUME LateInterrupts = FALSE, IInv, ChainInv, NEW p \in Persister, WriteReceipt(p)
  PROVE  ChainInv'
<1> USE DEF IInv, LockedType, KeptInv
<1> SUFFICES ASSUME ~forced
             PROVE  \E n \in Nat : \E s : StoredChain(n, s)'
  BY DEF WriteReceipt, ChainInv
<1>n. PICK n \in Nat : \E s : StoredChain(n, s)
  BY DEF ChainInv
<1>1. PICK s : StoredChain(n, s)
  BY <1>n
<1>2. \A q \in Persister : pc[q] # "receipted"
  BY Alone DEF WriteReceipt, Goto, Holding
<1>3. Heads(Stored) = {head} \ {NoRun}
  <2>1. Covered = receipt
    BY <1>2 DEF Covered
  <2>2. lock # Leaked
    BY LockAssumption DEF WriteReceipt, Goto, LockInv, Holding
  <2> QED
    BY <2>1, <2>2, StoredIs DEF HeadInv, Heads
<1>4. head = IF n = 0 THEN NoRun ELSE s[n]
  <2>1. n > 0 => s[n] \in Run
    BY <1>1 DEF StoredChain, TypeOK
  <2> QED
    BY <1>1, <1>3, <2>1, StoredIs, OnlyHead, RunAssumption DEF TypeOK
<1>5. /\ run[p] \in Run \ receipt /\ link[p] = head
      /\ receipt' = receipt \cup {run[p]}
      /\ previous' = [previous EXCEPT ![run[p]] = link[p]]
  BY DEF WriteReceipt, Goto, WorkInv, RunInv
<1>0. PICK t : t = [i \in 1..(n + 1) |-> IF i = n + 1 THEN run[p] ELSE s[i]]
  OBVIOUS
<1>6. /\ t \in [1..(n + 1) -> receipt'] /\ t[n + 1] = run[p]
      /\ \A i \in 1..n : t[i] = s[i] /\ s[i] \in receipt
      /\ n + 1 \in Nat /\ \A i \in 1..(n + 1) : i \in 1..n \/ i = n + 1
      /\ DOMAIN t = 1..(n + 1) /\ DOMAIN s = 1..n
  BY <1>0, <1>1, <1>5 DEF StoredChain
<1>7. IsInjective(t)
  <2> SUFFICES ASSUME NEW a \in 1..(n + 1), NEW b \in 1..(n + 1), t[a] = t[b]
               PROVE  a = b
    BY <1>6 DEF IsInjective
  <2>1. a = n + 1 <=> b = n + 1
    BY <1>5, <1>6
  <2>2. CASE a \in 1..n /\ b \in 1..n
    BY <1>1, <1>6, <2>2 DEF StoredChain, IsInjective
  <2> QED
    BY <1>6, <2>1, <2>2
<1>8. \A r \in receipt' : \E i \in 1..(n + 1) : t[i] = r
  BY <1>1, <1>5, <1>6 DEF StoredChain
<1>9. ASSUME NEW i \in 1..(n + 1)
      PROVE  previous'[t[i]] = IF i = 1 THEN NoRun ELSE t[i - 1]
  <2>1. CASE i = n + 1
    <3>1. previous'[t[i]] = head
      BY <1>5, <1>6, <2>1 DEF TypeOK
    <3>2. n > 0 => t[n] = s[n] /\ i - 1 = n /\ i # 1
      BY <1>6, <2>1
    <3> QED
      BY <1>4, <2>1, <3>1, <3>2
  <2>2. CASE i \in 1..n
    <3>1. t[i] = s[i] /\ previous'[s[i]] = previous[s[i]]
      BY <1>5, <1>6, <2>2 DEF TypeOK
    <3>2. i # 1 => i - 1 \in 1..n /\ t[i - 1] = s[i - 1]
      BY <1>6, <2>2
    <3> QED
      BY <1>1, <2>2, <3>1, <3>2 DEF StoredChain
  <2> QED
    BY <1>6, <2>1, <2>2
<1>10. StoredChain(n + 1, t)'
  BY <1>6, <1>7, <1>8, <1>9 DEF StoredChain
<1> QED
  BY <1>6, <1>10

\* A persist that fails takes back its own receipt, the last one, or none.
LEMMA ChainShrinks ==
  ASSUME LateInterrupts = FALSE, IInv, ChainInv, NEW p \in Persister, WriteFails(p)
  PROVE  ChainInv'
<1> USE DEF IInv, LockedType, KeptInv
<1> SUFFICES ASSUME ~forced
             PROVE  \E n \in Nat : \E s : StoredChain(n, s)'
  BY DEF WriteFails, ChainInv
<1>n. PICK n \in Nat : \E s : StoredChain(n, s)
  BY DEF ChainInv
<1>1. PICK s : StoredChain(n, s)
  BY <1>n
<1>2. /\ receipt' = receipt \ {run[p]}
      /\ \A r \in receipt' : previous'[r] = previous[r]
  BY DEF WriteFails, RollBack, TypeOK
<1>3. CASE run[p] \notin receipt
  <2>1. StoredChain(n, s)'
    BY <1>1, <1>2, <1>3 DEF StoredChain
  <2> QED
    BY <2>1
<1>4. CASE run[p] \in receipt
  <2>1. \A q \in receipt : previous[q] # run[p]
    BY <1>4 DEF WriteFails, InterruptedAt, WorkInv, Named
  <2>2. n > 0 /\ s[n] = run[p]
    BY <1>1, <1>4, <2>1, StoredIs, LastIsUnnamed
  <2> DEFINE t == [i \in 1..(n - 1) |-> s[i]]
  <2>3. /\ DOMAIN s = 1..n /\ DOMAIN t = 1..(n - 1)
        /\ \A i \in 1..(n - 1) : t[i] = s[i] /\ i \in 1..n /\ i # n
        /\ \A i \in 1..n : i # n => i \in 1..(n - 1)
        /\ n - 1 \in Nat /\ n \in 1..n
    BY <1>1, <2>2 DEF StoredChain
  <2> HIDE DEF t
  <2>4. t \in [1..(n - 1) -> receipt']
    <3>1. \A i \in 1..(n - 1) : s[i] \in receipt /\ s[i] # s[n]
      BY <1>1, <2>3 DEF StoredChain, IsInjective
    <3>2. t = [i \in 1..(n - 1) |-> s[i]]
      BY DEF t
    <3> QED
      BY <1>2, <2>2, <3>1, <3>2
  <2>5. IsInjective(t)
    BY <1>1, <2>3 DEF StoredChain, IsInjective
  <2>6. \A r \in receipt' : \E i \in 1..(n - 1) : t[i] = r
    BY <1>1, <1>2, <2>2, <2>3 DEF StoredChain
  <2>7. ASSUME NEW i \in 1..(n - 1)
        PROVE  previous'[t[i]] = IF i = 1 THEN NoRun ELSE t[i - 1]
    <3>1. i # 1 => i - 1 \in 1..(n - 1)
      BY <2>3
    <3>2. t[i] \in receipt'
      BY <2>4
    <3> QED
      BY <1>1, <1>2, <2>3, <3>1, <3>2 DEF StoredChain
  <2>8. StoredChain(n - 1, t)'
    BY <2>4, <2>5, <2>6, <2>7 DEF StoredChain
  <2> QED
    BY <2>3, <2>8
<1> QED
  BY <1>3, <1>4

LEMMA StepChain ==
  ASSUME LateInterrupts = FALSE, IInv, ChainInv, [Next]_vars
  PROVE  ChainInv'
<1>1. ASSUME NEW p \in Persister, WriteReceipt(p) \/ WriteFails(p) PROVE ChainInv'
  BY <1>1, ChainGrows, ChainShrinks
<1>2. ASSUME UNCHANGED <<receipt, previous>>, forced => forced' PROVE ChainInv'
  <2>1. \A n \in Nat : \A s : StoredChain(n, s) => StoredChain(n, s)'
    BY <1>2 DEF StoredChain
  <2> HIDE DEF StoredChain
  <2>2. ASSUME ~forced' PROVE \E n \in Nat : \E s : StoredChain(n, s)'
    BY <1>2, <2>1, <2>2 DEF ChainInv
  <2> QED
    BY <2>2 DEF ChainInv
<1>3. ASSUME NEW p \in Persister,
             \/ \E r \in Run : Begin(p, r)
             \/ TakeLock(p) \/ LockTimeout(p) \/ LinkReceipt(p) \/ Reject(p)
             \/ MakeDirectory(p) \/ WriteAnalysis(p) \/ WriteHead(p) \/ Return(p) \/ Crash(p)
      PROVE  UNCHANGED <<receipt, previous, forced>>
  <2>1. ASSUME \/ \E r \in Run : Begin(p, r)
               \/ TakeLock(p) \/ LockTimeout(p) \/ LinkReceipt(p) \/ Reject(p)
        PROVE  UNCHANGED <<receipt, previous, forced>>
    BY <2>1 DEF Begin, TakeLock, LockTimeout, LinkReceipt, Reject, disk
  <2>2. ASSUME MakeDirectory(p) \/ WriteAnalysis(p) \/ WriteHead(p) \/ Return(p) \/ Crash(p)
        PROVE  UNCHANGED <<receipt, previous, forced>>
    BY <2>2 DEF MakeDirectory, WriteAnalysis, WriteHead, Return, Crash, disk
  <2> QED
    BY <1>3, <2>1, <2>2
<1>4. ASSUME RemoveLeakedLock \/ UNCHANGED vars
      PROVE  UNCHANGED <<receipt, previous>> /\ (forced => forced')
  BY <1>4 DEF RemoveLeakedLock, disk, vars
<1> QED
  BY <1>1, <1>2, <1>3, <1>4 DEF Next, Step

-----------------------------------------------------------------------------
(* Theorems *)

\* Every variable has its type, with late interrupts or without.
THEOREM ReceiptChainType == Spec => []TypeOK
<1>1. LockedType /\ [Next]_vars => LockedType'
  BY StepLocked
<1>2. LockedType => TypeOK
  BY DEF LockedType
<1> QED
  BY InitLocked, <1>1, <1>2, PTL DEF Spec

\* Without late interrupts the inductive invariant holds throughout.
LEMMA Invariance == LateInterrupts = FALSE /\ Spec => []IInv
<1>1. Init => IInv
  BY InitLocked, InitKept, InitHead DEF IInv
<1>2. LateInterrupts = FALSE /\ IInv /\ [Next]_vars => IInv'
  BY StepLocked, StepKept, StepHead DEF IInv
<1>3. LateInterrupts = FALSE => [](LateInterrupts = FALSE)
  OBVIOUS
<1> QED
  BY <1>1, <1>2, <1>3, PTL DEF Spec

\* The receipts that precede one of the chain, and itself: the back steps of
\* verify_chain come to one more with each.
LEMMA AncestorsOfHead ==
  ASSUME NEW f, NoRun \notin DOMAIN f, NEW n \in Nat \ {0}, NEW s, IsChain(f, n, s)
  PROVE  Ancestors(f, s[n]) = DOMAIN f
<1> DEFINE Latest(m) == {s[i] : i \in {j \in 1..n : j >= n - m}}
           Back(b) == [m \in 0..n |->
             IF m = 0 THEN {s[n]}
             ELSE b[m - 1] \cup ({f[r] : r \in b[m - 1]} \ {NoRun})]
           back == CHOOSE b : b = Back(b)
           g == [m \in 0..n |-> Latest(m)]
<1>1. /\ s \in [1..n -> DOMAIN f] /\ DOMAIN s = 1..n /\ IsInjective(s)
      /\ \A r \in DOMAIN f : \E i \in 1..n : s[i] = r
      /\ \A i \in 1..n : f[s[i]] = IF i = 1 THEN NoRun ELSE s[i - 1]
      /\ \A i \in 1..n : s[i] \in DOMAIN f /\ s[i] # NoRun
  BY DEF IsChain
<1>2. Cardinality(DOMAIN f) = n
  <2>1. s \in Bijection(1..n, DOMAIN f)
    BY <1>1 DEF Bijection, Injection, Surjection
  <2>2. IsFiniteSet(1..n) /\ Cardinality(1..n) = n
    BY FS_Interval
  <2> QED
    BY <2>1, <2>2, FS_Bijection DEF ExistsBijection
<1>3. Latest(0) = {s[n]}
  <2>1. {j \in 1..n : j >= n - 0} = {n}
    OBVIOUS
  <2> QED
    BY <2>1
<1>4. Latest(n) = DOMAIN f
  <2>1. {j \in 1..n : j >= n - n} = 1..n
    OBVIOUS
  <2>2. Latest(n) = {s[i] : i \in 1..n}
    BY <2>1
  <2> HIDE DEF Latest
  <2>3. ASSUME NEW r \in DOMAIN f PROVE r \in Latest(n)
    BY <1>1, <2>2
  <2>4. ASSUME NEW r \in Latest(n) PROVE r \in DOMAIN f
    BY <1>1, <2>2
  <2> QED
    BY <2>3, <2>4
<1>5. ASSUME NEW m \in 1..n
      PROVE  Latest(m) = Latest(m - 1) \cup ({f[r] : r \in Latest(m - 1)} \ {NoRun})
  <2>1. ASSUME NEW r \in Latest(m)
        PROVE  r \in Latest(m - 1) \/ (r # NoRun /\ \E q \in Latest(m - 1) : r = f[q])
    <3>1. PICK i \in 1..n : i >= n - m /\ r = s[i]
      BY <2>1
    <3>2. CASE i >= n - (m - 1)
      BY <3>1, <3>2
    <3>3. CASE i = n - m
      <4>1. i + 1 \in 1..n /\ i + 1 >= n - (m - 1) /\ i + 1 # 1 /\ (i + 1) - 1 = i
        BY <3>3
      <4>2. f[s[i + 1]] = s[i] /\ s[i + 1] \in Latest(m - 1) /\ s[i] # NoRun
        BY <1>1, <4>1
      <4> QED
        BY <3>1, <4>2
    <3> QED
      BY <3>1, <3>2, <3>3
  <2>2. Latest(m - 1) \subseteq Latest(m)
    OBVIOUS
  <2>3. ASSUME NEW q \in Latest(m - 1), f[q] # NoRun
        PROVE  f[q] \in Latest(m)
    <3>1. PICK i \in 1..n : i >= n - (m - 1) /\ q = s[i]
      BY <2>3
    <3>2. i # 1 /\ f[q] = s[i - 1]
      BY <1>1, <2>3, <3>1
    <3>3. i - 1 \in 1..n /\ i - 1 >= n - m
      BY <3>1, <3>2
    <3> QED
      BY <3>2, <3>3
  <2> HIDE DEF Latest
  <2> QED
    BY <2>1, <2>2, <2>3
<1> HIDE DEF Latest
<1>6. g = Back(g)
  <2>1. ASSUME NEW m \in 0..n
        PROVE  g[m] = IF m = 0 THEN {s[n]}
                      ELSE g[m - 1] \cup ({f[r] : r \in g[m - 1]} \ {NoRun})
    <3>1. CASE m = 0
      BY <1>3, <3>1
    <3>2. CASE m # 0
      <4>1. m \in 1..n /\ m - 1 \in 0..n
        BY <3>2
      <4> QED
        BY <1>5, <3>2, <4>1
    <3> QED
      BY <3>1, <3>2
  <2>2. g = [m \in 0..n |-> g[m]]
    OBVIOUS
  <2> HIDE DEF g
  <2> QED
    BY <2>1, <2>2
<1>7. back = Back(back)
  BY <1>6
<1>8. Ancestors(f, s[n]) = back[n]
  BY <1>2 DEF Ancestors
<1> HIDE DEF back
<1>9. /\ back[0] = {s[n]}
      /\ \A m \in 1..n :
           back[m] = back[m - 1] \cup ({f[r] : r \in back[m - 1]} \ {NoRun})
  BY <1>7
<1>10. \A m \in 0..n : back[m] = Latest(m)
  <2> DEFINE Wrong == {m \in 0..n : back[m] # Latest(m)}
  <2> SUFFICES ASSUME Wrong # {} PROVE FALSE
    OBVIOUS
  <2>0. Wrong \in SUBSET Nat
    OBVIOUS
  <2>1. PICK m \in Wrong : \A j \in Wrong : ~(<<j, m>> \in OpToRel(<, Nat))
    <3> HIDE DEF Wrong
    <3> QED
      BY <2>0, NatLessThanWellFounded, WFMin
  <2>2. m # 0
    <3>1. back[m] # Latest(m)
      BY <2>1
    <3> QED
      BY <1>3, <1>9, <3>1
  <2>3. m \in 1..n /\ m - 1 \in 0..n /\ m - 1 < m /\ m - 1 \in Nat /\ m \in Nat
    <3>1. m \in 0..n
      BY <2>1
    <3> QED
      BY <2>2, <3>1
  <2>4. m - 1 \notin Wrong
    BY <2>1, <2>3 DEF OpToRel
  <2>5. back[m - 1] = Latest(m - 1)
    BY <2>3, <2>4
  <2> QED
    BY <1>5, <1>9, <2>1, <2>3, <2>5
<1> QED
  BY <1>4, <1>8, <1>10

\* verify_chain accepts receipts that are one chain.
LEMMA ChainIsVerified ==
  ASSUME NEW f, NoRun \notin DOMAIN f, NEW n \in Nat, NEW s, IsChain(f, n, s)
  PROVE  Verifies(f)
<1> SUFFICES ASSUME DOMAIN f # {}
             PROVE  /\ \A r \in DOMAIN f : f[r] \in DOMAIN f \cup {NoRun}
                    /\ Cardinality(Heads(f)) = 1
                    /\ \A r \in Heads(f) : Ancestors(f, r) = DOMAIN f
  BY DEF Verifies
<1>1. n # 0
  BY DEF IsChain
<1>2. Heads(f) = {s[n]}
  BY <1>1, OnlyHead
<1>3. Cardinality(Heads(f)) = 1
  BY <1>2, FS_Singleton
<1>4. Ancestors(f, s[n]) = DOMAIN f
  BY <1>1, AncestorsOfHead
<1>5. ASSUME NEW r \in DOMAIN f PROVE f[r] \in DOMAIN f \cup {NoRun}
  <2>1. PICK i \in 1..n : s[i] = r
    BY DEF IsChain
  <2>2. i # 1 => i - 1 \in 1..n
    BY <2>1
  <2> QED
    BY <2>1, <2>2 DEF IsChain
<1> QED
  BY <1>2, <1>3, <1>4, <1>5

\* The store is one chain throughout.
LEMMA ChainInvariance == LateInterrupts = FALSE /\ Spec => [](IInv /\ ChainInv)
<1>1. Init => IInv /\ ChainInv
  <2>1. ASSUME Init PROVE ChainInv
    <3>1. receipt = {}
      BY <2>1 DEF Init
    <3>2. StoredChain(0, [i \in 1..0 |-> NoRun])
      BY <3>1 DEF StoredChain, IsInjective
    <3> QED
      BY <3>2 DEF ChainInv
  <2> QED
    BY <2>1, InitLocked, InitKept, InitHead DEF IInv
<1>2. LateInterrupts = FALSE /\ IInv /\ ChainInv /\ [Next]_vars => IInv' /\ ChainInv'
  BY StepLocked, StepKept, StepHead, StepChain DEF IInv
<1>3. LateInterrupts = FALSE => [](LateInterrupts = FALSE)
  OBVIOUS
<1> QED
  BY <1>1, <1>2, <1>3, PTL DEF Spec

\* Until an operator deletes a leaked lock file, the receipts of the store are one
\* chain that passes the checks of verify_chain, between any two steps of a persist
\* and after any failure.
THEOREM ChainAlwaysVerifies == LateInterrupts = FALSE /\ Spec => []ChainVerifies
<1>1. IInv /\ ChainInv => ChainVerifies
  <2> SUFFICES ASSUME IInv, ChainInv, ~forced PROVE Verifies(Stored)
    BY DEF ChainVerifies
  <2>1. TypeOK
    BY DEF IInv, LockedType
  <2>2. PICK n \in Nat : \E s : StoredChain(n, s)
    BY DEF ChainInv
  <2> QED
    BY <2>1, <2>2, StoredIs, ChainIsVerified
<1> QED
  BY ChainInvariance, <1>1, PTL

\* A receipt that persist returned stays with its analysis and directory, and
\* no other returned receipt names its predecessor, whatever crashes or is
\* rolled back and whoever deletes a leaked lock file.
THEOREM ReturnedReceiptsStay == LateInterrupts = FALSE /\ Spec => []ReturnedComplete
<1>1. IInv => ReturnedComplete
  BY DEF IInv, KeptInv, ReturnedInv
<1> QED
  BY Invariance, <1>1, PTL

\* chain-head.json names the only head of the chain to whoever may take the
\* lock, until an operator deletes a leaked lock file.
THEOREM HeadStaysCurrent == LateInterrupts = FALSE /\ Spec => []HeadIsCurrent
<1>1. IInv => HeadIsCurrent
  <2> SUFFICES ASSUME IInv, ~forced, lock = Free PROVE Heads(Stored) = {head} \ {NoRun}
    BY DEF HeadIsCurrent
  <2>1. \A p \in Persister : pc[p] # "receipted"
    BY LockAssumption DEF IInv, LockedType, LockInv, Holding
  <2>2. Covered = receipt
    BY <2>1 DEF Covered
  <2> QED
    BY <2>2, LockAssumption, StoredIs DEF IInv, LockedType, HeadInv, Heads
<1> QED
  BY Invariance, <1>1, PTL

\* No step withdraws or relinks a receipt that persist has returned, or leaves one
\* incomplete or replaced.
THEOREM ReturnedReceiptsKeepTheirLink ==
  LateInterrupts = FALSE /\ Spec => ReturnedStays
<1> DEFINE Kept == \A r \in returned : r \in returned' /\ previous'[r] = previous[r]
<1>1. LateInterrupts = FALSE /\ IInv /\ [Next]_vars => [Kept]_vars
  <2> SUFFICES ASSUME LateInterrupts = FALSE, IInv, Next PROVE Kept
    OBVIOUS
  <2> USE DEF disk
  <2>0. TypeOK /\ WorkInv
    BY DEF IInv, LockedType, KeptInv
  <2>1. ASSUME NEW p \in Persister, WriteReceipt(p) PROVE Kept
    BY <2>0, <2>1 DEF WriteReceipt, Goto, WorkInv, TypeOK
  <2>2. ASSUME NEW p \in Persister, WriteFails(p) PROVE Kept
    BY <2>0, <2>2 DEF WriteFails, InterruptedAt, RollBack, WorkInv, TypeOK
  <2>3. ASSUME NEW p \in Persister, Return(p) PROVE Kept
    BY <2>3 DEF Return
  <2>4. ASSUME NEW p \in Persister,
               \/ \E r \in Run : Begin(p, r)
               \/ TakeLock(p) \/ LockTimeout(p) \/ LinkReceipt(p) \/ Reject(p)
               \/ MakeDirectory(p) \/ WriteAnalysis(p) \/ WriteHead(p) \/ Crash(p)
        PROVE  Kept
    BY <2>4 DEF Begin, TakeLock, LockTimeout, LinkReceipt, Reject, MakeDirectory,
                WriteAnalysis, WriteHead, Crash
  <2>5. ASSUME RemoveLeakedLock PROVE Kept
    BY <2>5 DEF RemoveLeakedLock
  <2> QED
    BY <2>1, <2>2, <2>3, <2>4, <2>5 DEF Next, Step
<1>2. LateInterrupts = FALSE /\ IInv /\ [Next]_vars => IInv'
  BY StepLocked, StepKept, StepHead DEF IInv
<1>3. IInv' => ReturnedComplete'
  BY DEF IInv, KeptInv, ReturnedInv
<1>4. LateInterrupts = FALSE => [](LateInterrupts = FALSE)
  OBVIOUS
<1>5. LateInterrupts = FALSE /\ IInv /\ [Next]_vars => [ReturnedComplete' /\ Kept]_vars
  BY <1>1, <1>2, <1>3
<1> QED
  BY Invariance, <1>4, <1>5, PTL DEF Spec, ReturnedStays

-----------------------------------------------------------------------------
(* verify_chain while others persist *)

\* The receipts a call has found, read or not, and those it is going to find.
Taken == found \cup DOMAIN receipts

Reach == Taken \cup (unseen \cap receipt)

\* A call that is over has left nothing; a call at work has everything before it,
\* or has it, that was returned when it began.
CallInv ==
  /\ reading \in {"idle", "looking", "raised"}
  /\ reading # "looking" => unseen = {} /\ found = {} /\ DOMAIN receipts = {}
  /\ known \subseteq returned
  /\ known \subseteq unseen \cup Taken

\* What an undisturbed call has taken is still there, and what it will have taken
\* leaves out no predecessor of it, although some of it is not yet written.
SoundInv ==
  reading = "looking" /\ ~disturbed =>
    /\ ~forced
    /\ unseen \subseteq directory /\ Taken \subseteq receipt
    /\ \A r \in DOMAIN receipts : receipts[r] = previous[r]
    /\ \A r \in Reach : previous[r] \in Reach \cup {NoRun}
    /\ \A p \in Persister :
         pc[p] \in {"made", "analysed"} /\ run[p] \in unseen => link[p] \in Reach \cup {NoRun}

ReaderInv == CallInv /\ SoundInv

LEMMA LeastIs ==
  ASSUME NEW S \in SUBSET Nat, S # {}
  PROVE  \E m \in S : \A i \in S : m <= i
<1>1. PICK m \in S : \A i \in S : ~(<<i, m>> \in OpToRel(<, Nat))
  BY NatLessThanWellFounded, WFMin
<1>2. ASSUME NEW i \in S PROVE ~(i < m)
  BY <1>1 DEF OpToRel
<1> QED
  BY <1>2

\* A set of receipts that leaves out none of its predecessors is an older state of
\* the chain.
LEMMA ClosedIsVerified ==
  ASSUME TypeOK, NEW n \in Nat, NEW s, StoredChain(n, s), NEW f,
         \A r \in DOMAIN f : r \in receipt /\ f[r] = previous[r] /\ f[r] \in DOMAIN f \cup {NoRun}
  PROVE  Verifies(f)
<1>1. NoRun \notin DOMAIN f
  BY RunAssumption DEF TypeOK
<1>2. /\ DOMAIN s = 1..n /\ \A i \in 1..n : s[i] \in receipt /\ s[i] # NoRun
      /\ \A i, j \in 1..n : s[i] = s[j] => i = j
      /\ \A r \in receipt : \E i \in 1..n : s[i] = r
      /\ \A i \in 1..n : previous[s[i]] = IF i = 1 THEN NoRun ELSE s[i - 1]
  <2>1. \A i, j \in 1..n : s[i] = s[j] => i = j
    BY DEF StoredChain, IsInjective
  <2> QED
    BY <2>1, RunAssumption DEF StoredChain, TypeOK
<1>3. ASSUME NEW i \in 1..n, s[i] \in DOMAIN f, i # 1
      PROVE  i - 1 \in 1..n /\ s[i - 1] \in DOMAIN f
  <2>1. i - 1 \in 1..n
    BY <1>3
  <2>2. f[s[i]] = s[i - 1]
    BY <1>2, <1>3
  <2> QED
    BY <1>2, <1>3, <2>1, <2>2
<1> DEFINE Missing == {i \in 1..(n + 1) : i = n + 1 \/ s[i] \notin DOMAIN f}
<1>4. PICK m \in Missing : \A i \in Missing : m <= i
  <2>1. Missing \in SUBSET Nat /\ n + 1 \in Missing
    OBVIOUS
  <2> HIDE DEF Missing
  <2> QED
    BY <2>1, LeastIs
<1>5. m \in 1..(n + 1) /\ m - 1 \in Nat /\ m - 1 <= n
  BY <1>4
<1>6. \A i \in 1..(m - 1) : i \in 1..n /\ s[i] \in DOMAIN f
  <2> SUFFICES ASSUME NEW i \in 1..(m - 1), s[i] \notin DOMAIN f PROVE FALSE
    BY <1>5
  <2>1. i \in Missing /\ ~(m <= i)
    BY <1>5
  <2> QED
    BY <1>4, <2>1
<1>7. \A i \in 1..n : s[i] \in DOMAIN f => i \in 1..(m - 1)
  <2> DEFINE Later == {i \in 1..n : s[i] \in DOMAIN f /\ i >= m}
  <2> SUFFICES ASSUME Later # {} PROVE FALSE
    BY <1>5
  <2>1. PICK i \in Later : \A j \in Later : i <= j
    <3>1. Later \in SUBSET Nat
      OBVIOUS
    <3> HIDE DEF Later
    <3> QED
      BY <3>1, LeastIs
  <2>2. i \in 1..n /\ s[i] \in DOMAIN f /\ i >= m
    BY <2>1
  <2>3. i # m
    BY <1>4, <2>2
  <2>4. i - 1 \in Later /\ ~(i <= i - 1)
    BY <1>3, <1>5, <2>2, <2>3
  <2> QED
    BY <2>1, <2>4
<1> HIDE DEF Missing
<1>8. PICK t : t = [i \in 1..(m - 1) |-> s[i]]
  OBVIOUS
<1>9. IsChain(f, m - 1, t)
  <2>1. t \in [1..(m - 1) -> DOMAIN f] /\ \A i \in 1..(m - 1) : t[i] = s[i]
    BY <1>6, <1>8
  <2>2. IsInjective(t)
    BY <1>2, <1>6, <1>8, <2>1 DEF IsInjective
  <2>3. \A r \in DOMAIN f : \E i \in 1..(m - 1) : t[i] = r
    BY <1>2, <1>7, <2>1
  <2>4. ASSUME NEW i \in 1..(m - 1) PROVE f[t[i]] = IF i = 1 THEN NoRun ELSE t[i - 1]
    <3>1. i # 1 => i - 1 \in 1..(m - 1)
      BY <1>5
    <3> QED
      BY <1>2, <1>6, <2>1, <3>1
  <2> QED
    BY <2>1, <2>2, <2>3, <2>4 DEF IsChain
<1> QED
  BY <1>1, <1>5, <1>9, ChainIsVerified

\* A call begins with all that is there, and goes on to take it.
LEMMA VerifyKeeps ==
  LateInterrupts = FALSE /\ IInv /\ ChainInv /\ ReaderInv /\ Verify => ReaderInv'
<1> SUFFICES ASSUME IInv, ChainInv, ReaderInv, Verify PROVE ReaderInv'
  OBVIOUS
<1>0. /\ TypeOK /\ LockInv /\ FilesInv /\ WorkInv /\ HeadInv /\ ReturnedComplete
      /\ CallInv /\ SoundInv
  BY DEF IInv, LockedType, KeptInv, ReturnedInv, ReaderInv
<1>1. ASSUME List PROVE ReaderInv'
  <2>1. /\ unseen' = directory /\ found' = {} /\ DOMAIN receipts' = {} /\ receipts' = receipts
        /\ Taken' = {} /\ known' = returned /\ reading' = "looking" /\ disturbed' = forced
        /\ UNCHANGED vars
    BY <1>0, <1>1 DEF List, CallInv, Taken
  <2>2. returned \subseteq directory
    BY <1>0 DEF ReturnedComplete
  <2>3. CallInv'
    BY <2>1, <2>2 DEF CallInv, vars
  <2>4. ASSUME ~forced PROVE SoundInv'
    <3>1. Reach' = receipt
      BY <1>0, <2>1 DEF Reach, FilesInv, vars
    <3>2. \A r \in receipt : previous[r] \in receipt \cup {NoRun}
      <4>1. PICK n \in Nat : \E s : StoredChain(n, s)
        BY <2>4 DEF ChainInv
      <4>2. PICK s : StoredChain(n, s)
        BY <4>1
      <4> SUFFICES ASSUME NEW r \in receipt PROVE previous[r] \in receipt \cup {NoRun}
        OBVIOUS
      <4>3. PICK i \in 1..n : s[i] = r
        BY <4>2 DEF StoredChain
      <4>4. i # 1 => i - 1 \in 1..n
        BY <4>3
      <4> QED
        BY <4>2, <4>3, <4>4 DEF StoredChain
    <3>3. ASSUME NEW p \in Persister, pc[p] \in {"made", "analysed"}
          PROVE  link[p] \in receipt \cup {NoRun}
      <4>1. link[p] = head /\ lock # Leaked
        BY <1>0, <3>3, LockAssumption DEF WorkInv, LockInv, Holding
      <4>2. head \in Covered \cup {NoRun}
        BY <1>0, <2>4, <4>1 DEF HeadInv
      <4> QED
        BY <4>1, <4>2 DEF Covered
    <3> QED
      BY <2>1, <2>4, <3>1, <3>2, <3>3 DEF SoundInv, vars
  <2>5. forced => SoundInv'
    BY <2>1 DEF SoundInv
  <2> QED
    BY <2>3, <2>4, <2>5 DEF ReaderInv
<1>2. ASSUME NEW q \in Run, Look(q) PROVE ReaderInv'
  <2>1. /\ unseen' = unseen \ {q} /\ q \in unseen
        /\ Taken' = IF q \in receipt THEN Taken \cup {q} ELSE Taken
        /\ receipts' = receipts /\ reading = "looking"
        /\ UNCHANGED <<vars, reading, known, disturbed>>
    BY <1>2 DEF Look, Taken
  <2>2. Reach' = Reach
    BY <2>1 DEF Reach, vars
  <2>3. CallInv'
    BY <1>0, <2>1 DEF CallInv, ReturnedComplete, vars
  <2>4. SoundInv'
    BY <1>0, <2>1, <2>2 DEF SoundInv, vars
  <2> QED
    BY <2>3, <2>4 DEF ReaderInv
<1>3. ASSUME Read PROVE ReaderInv'
  <2> DEFINE r == NextFound
  <2>0. r \in found
    BY <1>3 DEF Read, NextFound
  <2> HIDE DEF r
  <2>1. /\ DOMAIN receipts' = DOMAIN receipts \cup {r} /\ found' = found \ {r} /\ r \in receipt
        /\ \A x \in DOMAIN receipts' : receipts'[x] = IF x = r THEN previous[r] ELSE receipts[x]
        /\ UNCHANGED <<vars, reading, unseen, known, disturbed>> /\ reading = "looking"
    BY <1>3 DEF Read, r
  <2>2. Taken' = Taken /\ Reach' = Reach
    BY <2>0, <2>1 DEF Taken, Reach, vars
  <2>3. CallInv'
    BY <1>0, <2>1, <2>2 DEF CallInv, vars
  <2>4. SoundInv'
    BY <1>0, <2>1, <2>2 DEF SoundInv, vars
  <2> QED
    BY <2>3, <2>4 DEF ReaderInv
<1>4. ASSUME ReadFails \/ Conclude PROVE ReaderInv'
  <2>1. /\ reading' \in {"idle", "raised"} /\ unseen' = {} /\ found' = {} /\ DOMAIN receipts' = {}
        /\ known' = {}
    BY <1>4 DEF ReadFails, Conclude, EndCall, Nothing
  <2> QED
    BY <2>1 DEF ReaderInv, CallInv, SoundInv
<1> QED
  BY <1>1, <1>2, <1>3, <1>4 DEF Verify

\* No step of a persist takes a receipt back that was returned.
LEMMA ReturnedGrows == Next => returned \subseteq returned'
<1> SUFFICES ASSUME Next PROVE returned \subseteq returned'
  OBVIOUS
<1>1. ASSUME NEW p \in Persister,
             \/ \E r \in Run : Begin(p, r)
             \/ Step(p) \/ Crash(p)
      PROVE  returned \subseteq returned'
  BY <1>1 DEF Step, Begin, TakeLock, LockTimeout, LinkReceipt, Reject, MakeDirectory, WriteAnalysis,
              WriteReceipt, WriteHead, WriteFails, Return, Crash
<1> QED
  BY <1>1 DEF Next, RemoveLeakedLock

\* What a call has taken keeps its shape under a step that neither writes nor
\* withdraws a receipt nor begins to write one of a directory that was listed.
LEMMA SoundFrame ==
  ASSUME TypeOK, SoundInv, UNCHANGED <<reading, unseen, found, receipts, receipt, previous>>,
         directory \subseteq directory', ~forced', ~disturbed,
         \A p \in Persister :
           pc'[p] \in {"made", "analysed"} /\ run'[p] \in unseen =>
             pc[p] \in {"made", "analysed"} /\ run'[p] = run[p] /\ link'[p] = link[p]
  PROVE  SoundInv'
<1>1. Taken' = Taken /\ Reach' = Reach
  BY DEF Taken, Reach
<1> QED
  BY <1>1 DEF SoundInv

\* Neither does a store that others go on writing to, until they roll back.
LEMMA PersistingKeeps ==
  LateInterrupts = FALSE /\ IInv /\ IInv' /\ ReaderInv /\ Persisting => ReaderInv'
<1> SUFFICES ASSUME LateInterrupts = FALSE, IInv, IInv', ReaderInv, Persisting PROVE ReaderInv'
  OBVIOUS
<1>0. /\ TypeOK /\ RunInv /\ LockInv /\ FilesInv /\ WorkInv /\ CallInv /\ SoundInv
      /\ Next /\ UNCHANGED <<reading, unseen, found, receipts, known>> /\ Taken' = Taken
  BY DEF IInv, LockedType, KeptInv, ReaderInv, Persisting, Taken
<1>1. CallInv'
  BY <1>0, ReturnedGrows DEF CallInv
<1>2. SoundInv'
  <2> SUFFICES ASSUME reading = "looking", ~disturbed' PROVE SoundInv'
    BY <1>0 DEF SoundInv
  <2>1. ~disturbed /\ ~forced' /\ directory \subseteq directory'
    <3>1. disturbed' = (disturbed \/ forced' \/ directory \ directory' # {})
      BY <1>0 DEF Persisting
    <3> QED
      BY <3>1
  <2>2. ~forced
    BY <1>0, <2>1 DEF SoundInv
  <2> USE DEF Goto, Finish, disk
  <2>3. ASSUME NEW p \in Persister, WriteReceipt(p) PROVE SoundInv'
    <3>1. /\ run[p] \in Run \ receipt /\ pc[p] = "analysed"
          /\ receipt' = receipt \cup {run[p]} /\ previous'[run[p]] = link[p]
          /\ \A r \in receipt : previous'[r] = previous[r]
          /\ UNCHANGED <<directory, run, link, forced>>
          /\ \A q \in Persister : pc'[q] \in {"made", "analysed"} => pc[q] \in {"made", "analysed"}
      BY <1>0, <2>3 DEF WriteReceipt, WorkInv, RunInv, TypeOK
    <3>2. Reach' = IF run[p] \in unseen THEN Reach \cup {run[p]} ELSE Reach
      BY <1>0, <3>1 DEF Reach
    <3>3. Reach \subseteq receipt
      BY <1>0, <2>1 DEF Reach, SoundInv
    <3>4. run[p] \in unseen => link[p] \in Reach \cup {NoRun}
      BY <1>0, <2>1, <3>1 DEF SoundInv
    <3>5. \A r \in Reach' : previous'[r] \in Reach' \cup {NoRun}
      BY <1>0, <2>1, <3>1, <3>2, <3>3, <3>4 DEF SoundInv
    <3>6. \A r \in DOMAIN receipts : receipts[r] = previous'[r]
      BY <1>0, <2>1, <3>1 DEF SoundInv, Taken
    <3>7. \A q \in Persister :
            pc'[q] \in {"made", "analysed"} /\ run'[q] \in unseen => link'[q] \in Reach' \cup {NoRun}
      BY <1>0, <2>1, <3>1, <3>2 DEF SoundInv
    <3>8. unseen \subseteq directory' /\ Taken \subseteq receipt'
      BY <1>0, <2>1, <3>1 DEF SoundInv
    <3> QED
      BY <1>0, <2>1, <3>5, <3>6, <3>7, <3>8 DEF SoundInv
  <2>4. ASSUME NEW p \in Persister, WriteFails(p) PROVE FALSE
    <3>1. run[p] \in directory /\ run[p] \notin directory'
      BY <1>0, <2>4 DEF WriteFails, InterruptedAt, RollBack, WorkInv
    <3> QED
      BY <2>1, <3>1
  <2>5. ASSUME NEW p \in Persister, MakeDirectory(p) PROVE SoundInv'
    <3>1. run[p] \notin unseen
      BY <1>0, <2>1, <2>5 DEF MakeDirectory, SoundInv
    <3> QED
      BY <1>0, <2>1, <2>2, <2>5, <3>1, SoundFrame DEF MakeDirectory, TypeOK
  <2>6. ASSUME NEW p \in Persister,
               \/ \E r \in Run : Begin(p, r)
               \/ TakeLock(p) \/ LockTimeout(p) \/ LinkReceipt(p) \/ Reject(p)
               \/ WriteAnalysis(p) \/ WriteHead(p) \/ Return(p) \/ Crash(p)
        PROVE  SoundInv'
    <3>1. /\ UNCHANGED <<receipt, previous, directory>>
          /\ \A q \in Persister :
               pc'[q] \in {"made", "analysed"} =>
                 pc[q] \in {"made", "analysed"} /\ run'[q] = run[q] /\ link'[q] = link[q]
      BY <1>0, <2>6 DEF Begin, TakeLock, LockTimeout, LinkReceipt, Reject, WriteAnalysis, WriteHead,
                        Return, Crash, TypeOK
    <3> QED
      BY <1>0, <2>1, <2>2, <3>1, SoundFrame
  <2>7. ~RemoveLeakedLock
    BY <2>1 DEF RemoveLeakedLock
  <2> QED
    BY <1>0, <2>3, <2>4, <2>5, <2>6, <2>7 DEF Next, Step
<1> QED
  BY <1>1, <1>2 DEF ReaderInv

\* The store under a reader is the store.
LEMMA ReaderLeavesStore == ReaderSpec => Spec
<1>1. ReaderInit => Init
  BY DEF ReaderInit
<1>2. [ReaderNext]_readerVars => [Next]_vars
  <2>1. Verify => UNCHANGED vars
    BY DEF Verify, List, Look, Read, ReadFails, Conclude, EndCall
  <2>2. Persisting => Next
    BY DEF Persisting
  <2>3. UNCHANGED readerVars => UNCHANGED vars
    BY DEF readerVars
  <2> QED
    BY <2>1, <2>2, <2>3 DEF ReaderNext
<1> QED
  BY <1>1, <1>2, PTL DEF ReaderSpec, Spec

LEMMA ReaderInvariance ==
  LateInterrupts = FALSE /\ ReaderSpec => [](IInv /\ ChainInv /\ ReaderInv)
<1>1. ReaderInit => ReaderInv
  BY DEF ReaderInit, ReaderInv, CallInv, SoundInv, Nothing
<1>2. LateInterrupts = FALSE /\ IInv /\ IInv' /\ ChainInv /\ ReaderInv /\ [ReaderNext]_readerVars
        => ReaderInv'
  <2>1. ASSUME ReaderInv, UNCHANGED readerVars PROVE ReaderInv'
    <3>1. UNCHANGED <<directory, receipt, previous, pc, run, link, returned, forced>>
          /\ UNCHANGED reader
      BY <2>1 DEF readerVars, vars
    <3> QED
      BY <2>1, <3>1 DEF reader, ReaderInv, CallInv, SoundInv, Reach, Taken
  <2> QED
    BY <2>1, VerifyKeeps, PersistingKeeps DEF ReaderNext
<1>3. LateInterrupts = FALSE => [](LateInterrupts = FALSE)
  OBVIOUS
<1> QED
  BY <1>1, <1>2, <1>3, ReaderLeavesStore, ChainInvariance, PTL DEF ReaderSpec

\* Until an operator deletes a leaked lock file, a call of verify_chain that no
\* roll back disturbs does not raise, however its reads fall between the writes of
\* those who persist; and one that returns has seen all that was returned before.
THEOREM ReaderSeesOneChain ==
  LateInterrupts = FALSE /\ ReaderSpec => VerifiedWhilePersisting
<1> DEFINE Sound ==
      /\ reading = "looking" /\ reading' = "raised" => disturbed
      /\ reading = "looking" /\ reading' = "idle" => known \subseteq DOMAIN receipts
<1>1. IInv /\ ChainInv /\ ReaderInv /\ [ReaderNext]_readerVars => [Sound]_readerVars
  <2> SUFFICES ASSUME IInv, ChainInv, ReaderInv, ReaderNext, reading = "looking",
                      reading' # "looking"
               PROVE  Sound
    BY DEF readerVars, reader
  <2>0. TypeOK /\ CallInv /\ SoundInv
    BY DEF IInv, LockedType, ReaderInv
  <2>1. CASE ReadFails
    <3>1. reading' = "raised" /\ found # {} /\ NextFound \notin receipt
      BY <2>1 DEF ReadFails, EndCall
    <3>2. NextFound \in Taken
      BY <3>1 DEF NextFound, Taken
    <3> QED
      BY <2>0, <3>1, <3>2 DEF SoundInv
  <2>2. CASE Conclude
    <3>1. unseen = {} /\ found = {} /\ reading' = IF Verifies(receipts) THEN "idle" ELSE "raised"
      BY <2>2 DEF Conclude, EndCall
    <3>2. Taken = DOMAIN receipts /\ Reach = DOMAIN receipts
      BY <3>1 DEF Taken, Reach
    <3>3. known \subseteq DOMAIN receipts
      BY <2>0, <3>1, <3>2 DEF CallInv
    <3>4. ASSUME ~disturbed PROVE Verifies(receipts)
      <4>1. /\ ~forced
            /\ \A r \in DOMAIN receipts :
                 r \in receipt /\ receipts[r] = previous[r] /\ receipts[r] \in DOMAIN receipts \cup {NoRun}
        BY <2>0, <3>2, <3>4 DEF SoundInv
      <4>2. PICK n \in Nat : \E s : StoredChain(n, s)
        BY <4>1 DEF ChainInv
      <4> QED
        BY <2>0, <4>1, <4>2, ClosedIsVerified
    <3> QED
      BY <3>1, <3>3, <3>4
  <2> QED
    BY <2>1, <2>2 DEF ReaderNext, Verify, List, Look, Read, Persisting
<1> QED
  BY ReaderInvariance, <1>1, PTL DEF ReaderSpec, VerifiedWhilePersisting

=============================================================================
