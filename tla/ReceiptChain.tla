---------------------------- MODULE ReceiptChain ----------------------------
(***************************************************************************)
(* ReceiptStore.persist and the checks of verify_chain (receipt.py): the   *)
(* finalizers of several runs add their analysis and receipt to one        *)
(* directory of the repository.  persist holds .chain.lock (O_EXCL, never  *)
(* broken) while it reads chain-head.json, links the receipt to the hash   *)
(* found there, creates the run directory, writes analysis.json,           *)
(* receipt.json and chain-head.json, and on any exception takes the two    *)
(* files and the directory away again.                                     *)
(*                                                                         *)
(* A receipt's digest covers its run and its predecessor; as the run ids   *)
(* differ, a receipt is named by its run.                                  *)
(***************************************************************************)
EXTENDS Naturals, FiniteSets

CONSTANTS
  Persister,            \* processes that call persist
  Run,                  \* run ids
  NoRun,                \* no predecessor, no head, nothing being persisted
  Free,                 \* holder of a free .chain.lock
  Leaked,               \* holder of the lock file of a dead process
  LateInterrupts        \* TRUE: an interrupt may follow the head's os.replace

ASSUME RunAssumption == NoRun \notin Run
ASSUME LockAssumption == Free \notin Persister /\ Leaked \notin Persister \cup {Free}
ASSUME SwitchAssumption == LateInterrupts \in BOOLEAN

VARIABLES
  directory,            \* runs whose directory exists
  analysis,             \* runs whose analysis.json exists
  receipt,              \* runs whose receipt.json exists
  previous,             \* the predecessor each written receipt names
  head,                 \* the run chain-head.json names
  lock,                 \* holder of .chain.lock
  pc,                   \* where each process is in persist
  run,                  \* the run it persists
  link,                 \* the predecessor it read
  returned,             \* runs whose persist has returned its artifacts
  forced                \* history: an operator has deleted a leaked lock file

vars == <<directory, analysis, receipt, previous, head, lock, pc, run, link, returned, forced>>

disk == <<directory, analysis, receipt, previous, head>>

Holding == {"locked", "linked", "made", "analysed", "receipted", "headed"}

Init ==
  /\ directory = {} /\ analysis = {} /\ receipt = {}
  /\ previous = [r \in Run |-> NoRun]
  /\ head = NoRun
  /\ lock = Free
  /\ pc = [p \in Persister |-> "idle"]
  /\ run = [p \in Persister |-> NoRun]
  /\ link = [p \in Persister |-> NoRun]
  /\ returned = {}
  /\ forced = FALSE

Goto(p, from, to) == pc[p] = from /\ pc' = [pc EXCEPT ![p] = to]

\* persist returns or raises: its locals are gone.
Finish(p) ==
  /\ pc' = [pc EXCEPT ![p] = "idle"]
  /\ run' = [run EXCEPT ![p] = NoRun]
  /\ link' = [link EXCEPT ![p] = NoRun]

Begin(p, r) ==
  /\ Goto(p, "idle", "wait")
  /\ r \notin analysis \cup receipt
  /\ run' = [run EXCEPT ![p] = r]
  /\ UNCHANGED <<disk, lock, link, returned, forced>>

\* Mutants: the lock file is opened without O_EXCL, or names the run.
TakeLockShared(p) ==
  /\ Goto(p, "wait", "locked")
  /\ lock' = p
  /\ UNCHANGED <<disk, run, link, returned, forced>>

TakeLockForRun(p) ==
  /\ Goto(p, "wait", "locked")
  /\ lock = Free
  /\ lock' = run[p]
  /\ UNCHANGED <<disk, run, link, returned, forced>>

TakeLock(p) ==
  /\ Goto(p, "wait", "locked")
  /\ lock = Free
  /\ lock' = p
  /\ UNCHANGED <<disk, run, link, returned, forced>>

\* Mutant: the wait for the lock file has no deadline.
LockTimeoutMissing(p) == FALSE

LockTimeout(p) ==
  /\ pc[p] = "wait"
  /\ lock # Free
  /\ Finish(p)
  /\ UNCHANGED <<disk, lock, returned, forced>>

\* Reads chain-head.json; validate_linked accepts the linked receipt.
LinkReceipt(p) ==
  /\ Goto(p, "locked", "linked")
  /\ link' = [link EXCEPT ![p] = head]
  /\ UNCHANGED <<disk, lock, run, returned, forced>>

\* validate_linked rejects it, or the run directory already exists.
Reject(p) ==
  /\ \/ pc[p] = "locked"
     \/ pc[p] = "linked" /\ run[p] \in directory
  /\ lock' = Free
  /\ Finish(p)
  /\ UNCHANGED <<disk, returned, forced>>

\* Mutant: mkdir with exist_ok.
MakeDirectoryAgain(p) ==
  /\ Goto(p, "linked", "made")
  /\ directory' = directory \cup {run[p]}
  /\ UNCHANGED <<analysis, receipt, previous, head, lock, run, link, returned, forced>>

MakeDirectory(p) ==
  /\ Goto(p, "linked", "made")
  /\ run[p] \notin directory
  /\ directory' = directory \cup {run[p]}
  /\ UNCHANGED <<analysis, receipt, previous, head, lock, run, link, returned, forced>>

WriteAnalysis(p) ==
  /\ Goto(p, "made", "analysed")
  /\ analysis' = analysis \cup {run[p]}
  /\ UNCHANGED <<directory, receipt, previous, head, lock, run, link, returned, forced>>

WriteReceipt(p) ==
  /\ Goto(p, "analysed", "receipted")
  /\ receipt' = receipt \cup {run[p]}
  /\ previous' = [previous EXCEPT ![run[p]] = link[p]]
  /\ UNCHANGED <<directory, analysis, head, lock, run, link, returned, forced>>

\* Mutant: the head is left where it was.
WriteHeadForgotten(p) ==
  /\ Goto(p, "receipted", "headed")
  /\ UNCHANGED <<directory, analysis, receipt, previous, head, lock, run, link, returned, forced>>

WriteHead(p) ==
  /\ Goto(p, "receipted", "headed")
  /\ head' = run[p]
  /\ UNCHANGED <<directory, analysis, receipt, previous, lock, run, link, returned, forced>>

\* except BaseException: the two files and the directory are removed; what
\* chain-head.json holds stays.
RollBack(p) ==
  /\ directory' = directory \ {run[p]}
  /\ analysis' = analysis \ {run[p]}
  /\ receipt' = receipt \ {run[p]}
  /\ previous' = [previous EXCEPT ![run[p]] = NoRun]
  /\ UNCHANGED head

InterruptedAt == {"made", "analysed", "receipted"}
                 \cup (IF LateInterrupts THEN {"headed"} ELSE {})

WriteFails(p) ==
  /\ pc[p] \in InterruptedAt
  /\ RollBack(p)
  /\ lock' = Free
  /\ Finish(p)
  /\ UNCHANGED <<returned, forced>>

Return(p) ==
  /\ pc[p] = "headed"
  /\ returned' = returned \cup {run[p]}
  /\ lock' = Free
  /\ Finish(p)
  /\ UNCHANGED <<disk, forced>>

\* A killed process leaves what it wrote, and its lock file.
Crash(p) ==
  /\ pc[p] # "idle"
  /\ lock' = IF lock = p THEN Leaked ELSE lock
  /\ Finish(p)
  /\ UNCHANGED <<disk, returned, forced>>

\* Nothing in the program removes a leaked lock file: an operator does.
RemoveLeakedLock ==
  /\ lock = Leaked
  /\ lock' = Free
  /\ forced' = TRUE
  /\ UNCHANGED <<disk, pc, run, link, returned>>

Step(p) ==
  \/ TakeLock(p) \/ LockTimeout(p) \/ LinkReceipt(p) \/ Reject(p)
  \/ MakeDirectory(p) \/ WriteAnalysis(p) \/ WriteReceipt(p) \/ WriteHead(p)
  \/ WriteFails(p) \/ Return(p)

Next ==
  \/ \E p \in Persister, r \in Run : Begin(p, r)
  \/ \E p \in Persister : Step(p) \/ Crash(p)
  \/ RemoveLeakedLock

Spec == Init /\ [][Next]_vars

\* Every process runs; the wait for the lock file has a deadline.
FairSpec == Spec /\ \A p \in Persister : WF_vars(Step(p))

-----------------------------------------------------------------------------
(* What verify_chain computes *)

\* Receipts are given by the predecessor that each of them names.
Heads(receipts) == DOMAIN receipts \ {receipts[r] : r \in DOMAIN receipts}

\* The receipts reached from r, most recent first.
Ancestors(receipts, r) ==
  LET n == Cardinality(DOMAIN receipts)
      back[k \in 0..n] ==
        IF k = 0 THEN {r}
        ELSE back[k - 1] \cup ({receipts[s] : s \in back[k - 1]} \ {NoRun})
  IN  back[n]

\* The checks of verify_chain on the receipts it has read.
Verifies(receipts) ==
  DOMAIN receipts # {} =>
    /\ \A r \in DOMAIN receipts : receipts[r] \in DOMAIN receipts \cup {NoRun}
    /\ Cardinality(Heads(receipts)) = 1
    /\ \A r \in Heads(receipts) : Ancestors(receipts, r) = DOMAIN receipts

\* What the store holds.
Stored == [r \in receipt |-> previous[r]]

-----------------------------------------------------------------------------
(* Properties *)

\* Every variable has its type.
TypeOK ==
  /\ directory \subseteq Run /\ analysis \subseteq Run /\ receipt \subseteq Run
  /\ previous \in [Run -> Run \cup {NoRun}]
  /\ head \in Run \cup {NoRun}
  /\ lock \in Persister \cup {Free, Leaked}
  /\ pc \in [Persister -> Holding \cup {"idle", "wait"}]
  /\ run \in [Persister -> Run \cup {NoRun}]
  /\ link \in [Persister -> Run \cup {NoRun}]
  /\ returned \subseteq Run /\ forced \in BOOLEAN

\* At every moment, between the steps of a persist, after a rollback and after a
\* crash, the receipts of the store are one chain, up to the day an operator
\* deletes the lock file of a dead process.
ChainVerifies == ~forced => Verifies(Stored)

\* Until then a leaked lock is the price of a chain that never forks: whoever
\* may still link a receipt finds the chain's only head in chain-head.json.
HeadIsCurrent ==
  (~forced /\ lock = Free) => Heads(Stored) = {head} \ {NoRun}

\* A receipt that persist returned is complete, and no other one takes its place
\* in the chain.
ReturnedComplete ==
  /\ returned \subseteq directory \cap analysis \cap receipt
  /\ \A r, s \in returned : previous[r] = previous[s] => r = s

\* No step, not even an operator's intervention, leaves a returned receipt
\* incomplete or another one in its place, withdraws it or changes its
\* predecessor.
ReturnedStays ==
  [][/\ ReturnedComplete'
     /\ \A r \in returned : r \in returned' /\ previous'[r] = previous[r]]_vars

\* Every call of persist returns or raises, even while the lock is leaked.
PersistEnds == \A p \in Persister : pc[p] # "idle" ~> pc[p] = "idle"
=============================================================================
