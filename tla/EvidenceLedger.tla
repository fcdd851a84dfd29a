--------------------------- MODULE EvidenceLedger ---------------------------
(***************************************************************************)
(* EvidenceLedger.append and EvidenceLedger.verify (evidence.py): several  *)
(* threads of several processes append records to one JSONL file.  An      *)
(* append takes the process-wide _LOCK, creates the lock file with O_EXCL, *)
(* verifies the whole chain, writes one line, fsyncs it, removes the lock  *)
(* file and returns the record.                                            *)
(*                                                                         *)
(* A record is its sequence number, the caller's entry (kind and payload), *)
(* the hash of its predecessor and its own hash.  SHA-256 is taken to be   *)
(* injective: a hash is the chain of what it covers, oldest record first.  *)
(*                                                                         *)
(* A killed process leaves its lock file behind.  A power loss also drops  *)
(* or cuts lines that no fsync covered.  A cut line is "torn" when its     *)
(* JSON is incomplete and "bare" when only its newline is missing: verify  *)
(* accepts a bare line, and the next O_APPEND write lands on the same line *)
(* and makes it "garbled".  With ShortWrites, os.write may cut a line too. *)
(***************************************************************************)
EXTENDS Naturals, Sequences

CONSTANTS
  Writer,               \* threads that append
  Proc,                 \* the processes they run in
  ProcOf,               \* the process of each thread
  Entry,                \* what they append
  NoEntry,              \* the entry of a thread outside append
  Nobody,               \* holder of a free lock
  Leaked,               \* holder of the lock file left by a dead process
  TailForms,            \* how a line that was not written in full may be cut
  ShortWrites,          \* TRUE: os.write may write part of a line and return
  MaxRecords            \* bound: no append is called on a longer file

ASSUME WriterAssumption ==
  /\ Nobody \notin Writer
  /\ Leaked \notin Writer \cup {Nobody}
  /\ ProcOf \in [Writer -> Proc]
ASSUME EntryAssumption == NoEntry \notin Entry
ASSUME TailAssumption == TailForms \subseteq {"torn", "bare"}
ASSUME ShortAssumption == ShortWrites \in BOOLEAN
ASSUME BoundAssumption == MaxRecords \in Nat

VARIABLES
  file,                 \* the lines of the ledger file
  synced,               \* how many of them an fsync has covered
  lockFile,             \* creator of the lock file, Leaked, or Nobody
  mutex,                \* holder of each process's _LOCK
  pc,                   \* where each thread is in append
  job,                  \* the entry each thread is appending
  base,                 \* length and tail hash its verify() found
  acked                 \* hashes of the records append has returned

vars == <<file, synced, lockFile, mutex, pc, job, base, acked>>

-----------------------------------------------------------------------------
(* Records and chains *)

Hash == Seq(Nat \X Entry)

Genesis == << >>

RecordHash(sequence, entry, previous) == Append(previous, <<sequence, entry>>)

Forms == {"whole", "torn", "bare", "garbled"}

LineType == [sequence : Nat, entry : Entry, previous : Hash, hash : Hash, form : Forms]

Line(sequence, entry, previous, form) ==
  [sequence |-> sequence, entry |-> entry, previous |-> previous,
   hash |-> RecordHash(sequence, entry, previous), form |-> form]

HashAt(f, i) == IF i = 0 THEN Genesis ELSE f[i].hash

\* The checks verify() makes on the records it decodes.
Linked(f) ==
  \A i \in 1..Len(f) :
    /\ f[i].sequence = i
    /\ f[i].previous = HashAt(f, i - 1)
    /\ f[i].hash = RecordHash(f[i].sequence, f[i].entry, f[i].previous)

\* Every line is one JSON object; a missing last newline goes unnoticed.
Decodes(f) == \A i \in 1..Len(f) : f[i].form \in {"whole", "bare"}

Verifies(f) == Decodes(f) /\ Linked(f)

\* os.write with O_APPEND: a line without a newline swallows what follows.
AppendLine(f, line) ==
  IF f # << >> /\ f[Len(f)].form = "bare"
  THEN [f EXCEPT ![Len(f)].form = "garbled"]
  ELSE Append(f, line)

-----------------------------------------------------------------------------
(* One append *)

Holding == {"locked", "verified", "written", "synced"}

InAppend == Holding \cup {"mutex", "wait"}

NoBase == [length |-> 0, tail |-> Genesis]

Init ==
  /\ file = << >>
  /\ synced = 0
  /\ lockFile = Nobody
  /\ mutex = [p \in Proc |-> Nobody]
  /\ pc = [w \in Writer |-> "idle"]
  /\ job = [w \in Writer |-> NoEntry]
  /\ base = [w \in Writer |-> NoBase]
  /\ acked = {}

Call(w, e) ==
  /\ pc[w] = "idle"
  /\ Len(file) < MaxRecords
  /\ pc' = [pc EXCEPT ![w] = "mutex"]
  /\ job' = [job EXCEPT ![w] = e]
  /\ UNCHANGED <<file, synced, lockFile, mutex, base, acked>>

TakeMutex(w) ==
  /\ pc[w] = "mutex"
  /\ mutex[ProcOf[w]] = Nobody
  /\ mutex' = [mutex EXCEPT ![ProcOf[w]] = w]
  /\ pc' = [pc EXCEPT ![w] = "wait"]
  /\ UNCHANGED <<file, synced, lockFile, job, base, acked>>

\* append returns or raises: _LOCK is released and the locals are gone.
Finish(w) ==
  /\ mutex' = [mutex EXCEPT ![ProcOf[w]] = Nobody]
  /\ pc' = [pc EXCEPT ![w] = "idle"]
  /\ job' = [job EXCEPT ![w] = NoEntry]
  /\ base' = [base EXCEPT ![w] = NoBase]

\* Leaving _file_lock: the lock file is unlinked on every path.
Leave(w) == lockFile' = Nobody /\ Finish(w)

\* Mutant: the lock file is opened without O_EXCL.
CreateLockFileShared(w) ==
  /\ pc[w] = "wait"
  /\ lockFile' = w
  /\ pc' = [pc EXCEPT ![w] = "locked"]
  /\ UNCHANGED <<file, synced, mutex, job, base, acked>>

CreateLockFile(w) ==
  /\ pc[w] = "wait"
  /\ lockFile = Nobody
  /\ lockFile' = w
  /\ pc' = [pc EXCEPT ![w] = "locked"]
  /\ UNCHANGED <<file, synced, mutex, job, base, acked>>

\* Mutant: the wait for the lock file has no deadline.
LockTimeoutMissing(w) == FALSE

\* The deadline passes while the lock file exists: ReceiptError.
LockTimeout(w) ==
  /\ pc[w] = "wait"
  /\ lockFile # Nobody
  /\ Finish(w)
  /\ UNCHANGED <<file, synced, lockFile, acked>>

\* Mutant: append trusts the file.
VerifySkipped(w) ==
  /\ pc[w] = "locked"
  /\ base' = [base EXCEPT ![w] = [length |-> Len(file), tail |-> HashAt(file, Len(file))]]
  /\ pc' = [pc EXCEPT ![w] = "verified"]
  /\ UNCHANGED <<file, synced, lockFile, mutex, job, acked>>

Verify(w) ==
  /\ pc[w] = "locked"
  /\ Verifies(file)
  /\ base' = [base EXCEPT ![w] = [length |-> Len(file), tail |-> HashAt(file, Len(file))]]
  /\ pc' = [pc EXCEPT ![w] = "verified"]
  /\ UNCHANGED <<file, synced, lockFile, mutex, job, acked>>

VerifyFails(w) ==
  /\ pc[w] = "locked"
  /\ ~Verifies(file)
  /\ Leave(w)
  /\ UNCHANGED <<file, synced, acked>>

Draft(w) == Line(base[w].length + 1, job[w], base[w].tail, "whole")

\* What os.write may leave in the file.  Its count is ignored: on a full disk it
\* may be short.
WrittenLines(w) ==
  {Draft(w)} \cup
  (IF ShortWrites THEN {[Draft(w) EXCEPT !.form = t] : t \in TailForms} ELSE {})

Write(w) ==
  /\ pc[w] = "verified"
  /\ \E line \in WrittenLines(w) : file' = AppendLine(file, line)
  /\ pc' = [pc EXCEPT ![w] = "written"]
  /\ UNCHANGED <<synced, lockFile, mutex, job, base, acked>>

\* Mutants: no fsync, and one that claims a line too many.
SyncForgotten(w) ==
  /\ pc[w] = "written"
  /\ pc' = [pc EXCEPT ![w] = "synced"]
  /\ UNCHANGED <<file, synced, lockFile, mutex, job, base, acked>>

SyncAhead(w) ==
  /\ pc[w] = "written"
  /\ synced' = Len(file) + 1
  /\ pc' = [pc EXCEPT ![w] = "synced"]
  /\ UNCHANGED <<file, lockFile, mutex, job, base, acked>>

Sync(w) ==
  /\ pc[w] = "written"
  /\ synced' = Len(file)
  /\ pc' = [pc EXCEPT ![w] = "synced"]
  /\ UNCHANGED <<file, lockFile, mutex, job, base, acked>>

\* os.open, os.write or os.fsync raises: nothing is returned to the caller.
WriteFails(w) ==
  /\ pc[w] \in {"verified", "written"}
  /\ Leave(w)
  /\ UNCHANGED <<file, synced, acked>>

Return(w) ==
  /\ pc[w] = "synced"
  /\ acked' = acked \cup {Draft(w).hash}
  /\ Leave(w)
  /\ UNCHANGED <<file, synced>>
-----------------------------------------------------------------------------
(* Crashes *)

Die(dead) ==
  /\ pc' = [w \in Writer |-> IF ProcOf[w] \in dead THEN "idle" ELSE pc[w]]
  /\ mutex' = [p \in Proc |-> IF p \in dead THEN Nobody ELSE mutex[p]]
  /\ job' = [w \in Writer |-> IF ProcOf[w] \in dead THEN NoEntry ELSE job[w]]
  /\ base' = [w \in Writer |-> IF ProcOf[w] \in dead THEN NoBase ELSE base[w]]
  /\ UNCHANGED acked

Crash(p) ==
  /\ \E w \in Writer : ProcOf[w] = p /\ pc[w] \in InAppend
  /\ Die({p})
  /\ lockFile' = IF \E w \in Writer : ProcOf[w] = p /\ lockFile = w
                 THEN Leaked ELSE lockFile
  /\ UNCHANGED <<file, synced>>

\* The first n lines survive whole, and perhaps a cut piece of the next one.
Survivors(n) ==
  {SubSeq(file, 1, n)} \cup
  (IF n = Len(file) THEN {}
   ELSE {Append(SubSeq(file, 1, n), [file[n + 1] EXCEPT !.form = t]) : t \in TailForms})

\* The machine stops: every process dies; an existing lock file may survive.
PowerLoss ==
  /\ lockFile # Nobody \/ synced < Len(file)
  /\ Die(Proc)
  /\ \E n \in synced..Len(file) : file' \in Survivors(n)
  /\ synced' = Len(file')
  /\ lockFile' \in (IF lockFile = Nobody THEN {Nobody} ELSE {Nobody, Leaked})

\* Nothing in the program removes a leaked lock file: an operator does.
RemoveLeakedLock ==
  /\ lockFile = Leaked
  /\ lockFile' = Nobody
  /\ UNCHANGED <<file, synced, mutex, pc, job, base, acked>>

Step(w) ==
  \/ TakeMutex(w) \/ CreateLockFile(w) \/ LockTimeout(w)
  \/ Verify(w) \/ VerifyFails(w)
  \/ Write(w) \/ WriteFails(w) \/ Sync(w) \/ Return(w)

Next ==
  \/ \E w \in Writer, e \in Entry : Call(w, e)
  \/ \E w \in Writer : Step(w)
  \/ \E p \in Proc : Crash(p)
  \/ PowerLoss
  \/ RemoveLeakedLock

Spec == Init /\ [][Next]_vars

\* The scheduler runs every thread; the poll of the lock file is bounded by
\* its deadline, so a waiting thread either creates the file or times out;
\* a thread whose turn for _LOCK keeps coming gets it.
Fairness ==
  \A w \in Writer : WF_vars(Step(w)) /\ SF_vars(TakeMutex(w))

FairSpec == Spec /\ Fairness

-----------------------------------------------------------------------------
(* Properties *)

\* Every variable has its type.
TypeOK ==
  /\ file \in Seq(LineType)
  /\ synced \in 0..Len(file)
  /\ lockFile \in Writer \cup {Nobody, Leaked}
  /\ mutex \in [Proc -> Writer \cup {Nobody}]
  /\ pc \in [Writer -> InAppend \cup {"idle"}]
  /\ job \in [Writer -> Entry \cup {NoEntry}]
  /\ base \in [Writer -> [length : Nat, tail : Hash]]
  /\ acked \subseteq Hash

\* Whatever threads, crashes and cut writes do, the records on disk stay one
\* contiguous hash chain, and only its last line can be damaged: no two
\* appends ever extend the same predecessor.
OneChain ==
  /\ Linked(file)
  /\ \A i \in 1..Len(file) - 1 : file[i].form = "whole"

\* A record that append returned is on disk, undamaged and covered by an
\* fsync, for ever: through crashes, power losses and later appends.
AckedDurable ==
  \A h \in acked : \E i \in 1..synced : file[i].hash = h /\ file[i].form = "whole"

\* Records an fsync has covered are never rewritten, reordered or dropped.
SyncedNeverChanges ==
  [][ /\ synced' >= synced
      /\ \A i \in 1..synced : i <= Len(file') /\ file'[i] = file[i] ]_vars

\* Every call of append returns or raises, although a leaked lock file is
\* never broken and _LOCK is taken without a timeout.
AppendEnds == \A w \in Writer : (pc[w] \in InAppend) ~> (pc[w] = "idle")

\* The ledger implements the append-only log its callers rely on.
IntactLength == IF file # << >> /\ file[Len(file)].form \in {"torn", "garbled"}
                THEN Len(file) - 1 ELSE Len(file)

Log == INSTANCE AppendOnlyLog WITH
         log <- [i \in 1..IntactLength |-> file[i].entry],
         confirmed <- IF synced < IntactLength THEN synced ELSE IntactLength,
         sealed <- ~Decodes(file)

ImplementsLog == Log!LogSpec
=============================================================================
