------------------------ MODULE EvidenceLedgerProofs ------------------------
(***************************************************************************)
(* Proofs about EvidenceLedger, for any number of threads, processes,      *)
(* entries and records.  Whatever a power loss or a full disk does to a    *)
(* line, the ledger stays one chain.  If lines are never cut before their  *)
(* newline only and writes are complete, what append returned is durable,  *)
(* what an fsync covered never changes, and the ledger implements          *)
(* AppendOnlyLog.                                                          *)
(***************************************************************************)
EXTENDS EvidenceLedger, SequenceTheorems, TLAPS

-----------------------------------------------------------------------------
(* Lines *)

\* Two lines hold the same record, whatever became of their text.
SameRecord(l, m) ==
  /\ l.sequence = m.sequence
  /\ l.entry = m.entry
  /\ l.previous = m.previous
  /\ l.hash = m.hash

Cut(l, form) == [l EXCEPT !.form = form]

\* Hashes are closed under RecordHash.
LEMMA RecordHashType ==
  ASSUME NEW n \in Nat, NEW e \in Entry, NEW h \in Hash
  PROVE  RecordHash(n, e, h) \in Hash
<1>1. <<n, e>> \in Nat \X Entry
  OBVIOUS
<1> QED
  BY <1>1, AppendProperties DEF RecordHash, Hash

\* A drafted line is a line, and holds what it was drafted from.
LEMMA LineProperties ==
  ASSUME NEW n \in Nat, NEW e \in Entry, NEW h \in Hash, NEW form \in Forms
  PROVE  /\ Line(n, e, h, form) \in LineType
         /\ Line(n, e, h, form).sequence = n
         /\ Line(n, e, h, form).entry = e
         /\ Line(n, e, h, form).previous = h
         /\ Line(n, e, h, form).hash = RecordHash(n, e, h)
         /\ Line(n, e, h, form).form = form
BY RecordHashType DEF Line, LineType

\* Cutting a line changes its form only.
LEMMA CutProperties ==
  ASSUME NEW l \in LineType, NEW form \in Forms
  PROVE  /\ Cut(l, form) \in LineType
         /\ SameRecord(Cut(l, form), l)
         /\ Cut(l, form).form = form
BY DEF Cut, SameRecord, LineType

\* The hash at a position of a ledger is a hash.
LEMMA HashAtType ==
  ASSUME NEW f \in Seq(LineType), NEW i \in 0..Len(f)
  PROVE  HashAt(f, i) \in Hash
<1>1. CASE i = 0
  BY <1>1 DEF HashAt, Genesis, Hash
<1>2. CASE i # 0
  <2>1. f[i] \in LineType
    BY <1>2, ElementOfSeq
  <2> QED
    BY <1>2, <2>1 DEF HashAt, LineType
<1> QED
  BY <1>1, <1>2

\* What AppendLine does to a ledger that does not end in a bare line.
LEMMA AppendLineToWhole ==
  ASSUME NEW f \in Seq(LineType), NEW l \in LineType,
         f = << >> \/ f[Len(f)].form # "bare"
  PROVE  /\ AppendLine(f, l) \in Seq(LineType)
         /\ Len(AppendLine(f, l)) = Len(f) + 1
         /\ \A i \in 1..Len(f) : AppendLine(f, l)[i] = f[i]
         /\ AppendLine(f, l)[Len(f) + 1] = l
<1>1. AppendLine(f, l) = Append(f, l)
  BY DEF AppendLine
<1> QED
  BY <1>1, AppendProperties

\* What it does to one that does.
LEMMA AppendLineToBare ==
  ASSUME NEW f \in Seq(LineType), NEW l,
         f # << >>, f[Len(f)].form = "bare"
  PROVE  /\ AppendLine(f, l) \in Seq(LineType)
         /\ Len(AppendLine(f, l)) = Len(f)
         /\ \A i \in 1..Len(f) - 1 : AppendLine(f, l)[i] = f[i]
         /\ AppendLine(f, l)[Len(f)] = Cut(f[Len(f)], "garbled")
<1> DEFINE n == Len(f)
<1>1. n \in 1..Len(f)
  BY EmptySeq, LenProperties
<1>2. f[n] \in LineType
  BY <1>1, ElementOfSeq
<1>3. Cut(f[n], "garbled") \in LineType
  BY <1>2, CutProperties DEF Forms
<1>4. AppendLine(f, l) = [f EXCEPT ![n] = Cut(f[n], "garbled")]
  BY DEF AppendLine, Cut
<1> HIDE DEF n
<1>5. /\ AppendLine(f, l) \in Seq(LineType)
      /\ Len(AppendLine(f, l)) = Len(f)
      /\ \A j \in 1..Len(f) : AppendLine(f, l)[j] = IF j = n THEN Cut(f[n], "garbled") ELSE f[j]
  BY <1>1, <1>3, <1>4, ExceptSeq
<1> QED
  BY <1>1, <1>5 DEF n

\* What survives of the ledger in a power loss: n lines and perhaps a cut one.
LEMMA SurvivorsProperties ==
  ASSUME NEW n \in 0..Len(file), NEW g \in Survivors(n), file \in Seq(LineType)
  PROVE  /\ g \in Seq(LineType)
         /\ Len(g) \in {n, n + 1}
         /\ Len(g) <= Len(file)
         /\ \A i \in 1..n : g[i] = file[i]
         /\ Len(g) = n + 1 => \E t \in TailForms : g[n + 1] = Cut(file[n + 1], t)
<1> DEFINE s == SubSeq(file, 1, n)
<1>0. \A i \in 1..n : file[i] \in LineType
  BY ElementOfSeq
<1>1. s \in Seq(LineType) /\ Len(s) = n /\ \A i \in 1..n : s[i] = file[i]
  <2>1. /\ SubSeq(file, 1, n) \in Seq(LineType)
        /\ Len(SubSeq(file, 1, n)) = IF 1 <= n THEN n - 1 + 1 ELSE 0
        /\ \A i \in 1..n - 1 + 1 : SubSeq(file, 1, n)[i] = file[1 + i - 1]
    BY <1>0, SubSeqProperties
  <2> QED
    BY <2>1
<1>2. CASE g = s
  BY <1>1, <1>2
<1>3. CASE n # Len(file) /\ \E t \in TailForms : g = Append(s, Cut(file[n + 1], t))
  <2>1. PICK t \in TailForms : g = Append(s, Cut(file[n + 1], t))
    BY <1>3
  <2>2. file[n + 1] \in LineType
    BY <1>3, ElementOfSeq
  <2>3. Cut(file[n + 1], t) \in LineType
    BY <2>2, CutProperties, TailAssumption DEF Forms
  <2>4. /\ g \in Seq(LineType)
        /\ Len(g) = Len(s) + 1
        /\ \A i \in 1..Len(s) : g[i] = s[i]
        /\ g[Len(s) + 1] = Cut(file[n + 1], t)
    BY <1>1, <2>1, <2>3, AppendProperties
  <2> HIDE DEF s
  <2> QED
    BY <1>1, <1>3, <2>1, <2>4, LenProperties
<1> QED
  BY <1>2, <1>3 DEF Survivors, Cut

\* A shorter ledger with the same records is linked if the longer one is.
LEMMA LinkedPrefix ==
  ASSUME NEW f \in Seq(LineType), NEW g \in Seq(LineType), Linked(f), Len(g) <= Len(f),
         \A i \in 1..Len(g) : SameRecord(g[i], f[i])
  PROVE  Linked(g)
<1> SUFFICES ASSUME NEW i \in 1..Len(g)
             PROVE  /\ g[i].sequence = i
                    /\ g[i].previous = HashAt(g, i - 1)
                    /\ g[i].hash = RecordHash(g[i].sequence, g[i].entry, g[i].previous)
  BY DEF Linked
<1>1. i \in 1..Len(f) /\ SameRecord(g[i], f[i])
  BY LenProperties
<1>2. HashAt(g, i - 1) = HashAt(f, i - 1)
  BY LenProperties DEF HashAt, SameRecord
<1> QED
  BY <1>1, <1>2 DEF Linked, SameRecord

\* A linked ledger stays linked when a record drafted from its end follows.
LEMMA LinkedExtend ==
  ASSUME NEW f \in Seq(LineType), NEW g \in Seq(LineType), NEW e, Linked(f),
         Len(g) = Len(f) + 1,
         \A i \in 1..Len(f) : g[i] = f[i],
         g[Len(g)].sequence = Len(f) + 1,
         g[Len(g)].entry = e,
         g[Len(g)].previous = HashAt(f, Len(f)),
         g[Len(g)].hash = RecordHash(Len(f) + 1, e, HashAt(f, Len(f)))
  PROVE  Linked(g)
<1> SUFFICES ASSUME NEW i \in 1..Len(g)
             PROVE  /\ g[i].sequence = i
                    /\ g[i].previous = HashAt(g, i - 1)
                    /\ g[i].hash = RecordHash(g[i].sequence, g[i].entry, g[i].previous)
  BY DEF Linked
<1>1. HashAt(g, i - 1) = HashAt(f, i - 1)
  BY LenProperties DEF HashAt
<1>2. CASE i = Len(g)
  BY <1>1, <1>2, LenProperties
<1>3. CASE i # Len(g)
  <2>1. i \in 1..Len(f)
    BY <1>3, LenProperties
  <2> QED
    BY <1>1, <2>1 DEF Linked
<1> QED
  BY <1>2, <1>3

-----------------------------------------------------------------------------
(* The inductive invariant *)

\* Whoever is inside append has an entry to append.
JobInv == \A w \in Writer : pc[w] # "idle" => job[w] \in Entry

\* The lock file belongs to the one thread that is past it.
LockInv == \A w \in Writer : pc[w] \in Holding => lockFile = w

\* What a thread verified still holds when it writes.
BaseInv ==
  \A w \in Writer : pc[w] = "verified" =>
    /\ Verifies(file)
    /\ base[w].length = Len(file)
    /\ base[w].tail = HashAt(file, Len(file))

IInv == TypeOK /\ JobInv /\ LockInv /\ BaseInv /\ OneChain

\* The record a thread drafts.
LEMMA DraftProperties ==
  ASSUME TypeOK, JobInv, NEW w \in Writer, pc[w] # "idle"
  PROVE  /\ Draft(w) \in LineType
         /\ Draft(w).sequence = base[w].length + 1
         /\ Draft(w).entry = job[w]
         /\ Draft(w).previous = base[w].tail
         /\ Draft(w).hash = RecordHash(base[w].length + 1, job[w], base[w].tail)
         /\ Draft(w).form = "whole"
<1>1. base[w].length + 1 \in Nat /\ base[w].tail \in Hash
  BY DEF TypeOK
<1>2. job[w] \in Entry /\ "whole" \in Forms
  BY DEF JobInv, Forms
<1> QED
  BY <1>1, <1>2, LineProperties DEF Draft

\* Writing the drafted record, cut or not, keeps the ledger one chain.
LEMMA WriteKeepsChain ==
  ASSUME IInv, NEW w \in Writer, pc[w] = "verified",
         NEW l \in LineType, SameRecord(l, Draft(w)),
         file' = AppendLine(file, l)
  PROVE  /\ file' \in Seq(LineType)
         /\ Len(file') >= Len(file)
         /\ OneChain'
<1>1. file \in Seq(LineType) /\ Len(file) \in Nat
  BY LenProperties DEF IInv, TypeOK
<1>2. /\ Linked(file) /\ Decodes(file)
      /\ \A i \in 1..Len(file) - 1 : file[i].form = "whole"
  BY DEF IInv, BaseInv, Verifies, OneChain
<1>3. CASE file # << >> /\ file[Len(file)].form = "bare"
  <2>1. /\ file' \in Seq(LineType)
        /\ Len(file') = Len(file)
        /\ \A i \in 1..Len(file) - 1 : file'[i] = file[i]
        /\ file'[Len(file)] = Cut(file[Len(file)], "garbled")
    BY <1>1, <1>3, AppendLineToBare
  <2>2. Len(file) \in 1..Len(file)
    BY <1>1, <1>3, EmptySeq, LenProperties
  <2>3. SameRecord(file'[Len(file)], file[Len(file)])
    BY <1>1, <2>1, <2>2, ElementOfSeq, CutProperties DEF Forms
  <2>4. \A i \in 1..Len(file') : SameRecord(file'[i], file[i])
    BY <1>1, <2>1, <2>3 DEF SameRecord
  <2>5. Linked(file')
    BY <1>1, <1>2, <2>1, <2>4, LinkedPrefix
  <2> QED
    BY <1>1, <1>2, <2>1, <2>5 DEF OneChain
<1>4. CASE file = << >> \/ file[Len(file)].form # "bare"
  <2>1. /\ file' \in Seq(LineType)
        /\ Len(file') = Len(file) + 1
        /\ \A i \in 1..Len(file) : file'[i] = file[i]
        /\ file'[Len(file')] = l
    BY <1>1, <1>4, AppendLineToWhole
  <2>2. \A i \in 1..Len(file) : file[i].form = "whole"
    BY <1>1, <1>2, <1>4, EmptySeq, LenProperties DEF Decodes
  <2>3. /\ l.sequence = Len(file) + 1
        /\ l.entry = job[w]
        /\ l.previous = HashAt(file, Len(file))
        /\ l.hash = RecordHash(Len(file) + 1, job[w], HashAt(file, Len(file)))
    BY DraftProperties DEF IInv, BaseInv, SameRecord
  <2>4. Linked(file')
    BY <1>1, <1>2, <2>1, <2>3, LinkedExtend
  <2>5. \A i \in 1..Len(file') - 1 : file'[i].form = "whole"
    BY <1>1, <2>1, <2>2
  <2> QED
    BY <1>1, <2>1, <2>4, <2>5 DEF OneChain
<1> QED
  BY <1>3, <1>4

\* So does losing unsynced lines in a power loss.
LEMMA LossKeepsChain ==
  ASSUME IInv, PowerLoss
  PROVE  /\ file' \in Seq(LineType)
         /\ synced <= Len(file') /\ Len(file') <= Len(file)
         /\ \A i \in 1..synced : file'[i] = file[i]
         /\ OneChain'
<1>1. file \in Seq(LineType) /\ Len(file) \in Nat /\ synced \in 0..Len(file)
  BY LenProperties DEF IInv, TypeOK
<1>2. PICK n \in synced..Len(file) : file' \in Survivors(n)
  BY DEF PowerLoss
<1>3. n \in 0..Len(file)
  BY <1>1
<1>4. /\ file' \in Seq(LineType)
      /\ Len(file') \in {n, n + 1}
      /\ Len(file') <= Len(file)
      /\ \A i \in 1..n : file'[i] = file[i]
      /\ Len(file') = n + 1 => \E t \in TailForms : file'[n + 1] = Cut(file[n + 1], t)
  BY <1>1, <1>2, <1>3, SurvivorsProperties
<1>5. \A i \in 1..Len(file') : SameRecord(file'[i], file[i])
  <2>1. CASE Len(file') = n
    BY <1>4, <2>1 DEF SameRecord
  <2>2. CASE Len(file') = n + 1
    <3>1. PICK t \in TailForms : file'[n + 1] = Cut(file[n + 1], t)
      BY <1>4, <2>2
    <3>2. file[n + 1] \in LineType
      BY <1>1, <1>3, <1>4, <2>2, ElementOfSeq
    <3>3. SameRecord(file'[n + 1], file[n + 1])
      BY <3>1, <3>2, CutProperties, TailAssumption DEF Forms
    <3> QED
      BY <1>3, <1>4, <2>2, <3>3 DEF SameRecord
  <2> QED
    BY <1>4, <2>1, <2>2
<1>6. Linked(file')
  BY <1>1, <1>4, <1>5, LinkedPrefix DEF IInv, OneChain
<1>7. \A i \in 1..Len(file') - 1 : file'[i].form = "whole"
  BY <1>1, <1>3, <1>4 DEF IInv, OneChain
<1> QED
  BY <1>1, <1>3, <1>4, <1>6, <1>7 DEF OneChain

-----------------------------------------------------------------------------
(* It holds initially and every step keeps it *)

LEMMA InitIInv == Init => IInv
<1> SUFFICES ASSUME Init PROVE IInv
  OBVIOUS
<1>1. file \in Seq(LineType) /\ Len(file) = 0
  BY EmptySeq, LenProperties DEF Init
<1>2. Genesis \in Hash
  BY DEF Genesis, Hash
<1>3. TypeOK
  BY <1>1, <1>2, WriterAssumption DEF Init, TypeOK, NoBase
<1>4. JobInv /\ LockInv /\ BaseInv
  BY DEF Init, JobInv, LockInv, BaseInv, Holding
<1>5. OneChain
  BY <1>1 DEF OneChain, Linked
<1> QED
  BY <1>3, <1>4, <1>5 DEF IInv

\* A step that leaves the ledger file alone keeps the chain.
LEMMA SameFileKeepsChain ==
  ASSUME OneChain, UNCHANGED file
  PROVE  OneChain'
BY DEF OneChain, Linked, HashAt

\* The end of an append, on the paths that remove the lock file.
LEMMA LeaveIInv ==
  ASSUME IInv, NEW w \in Writer, Leave(w), UNCHANGED <<file, synced>>,
         acked' \subseteq Hash, pc[w] \in Holding
  PROVE  IInv'
<1> USE DEF IInv
<1>1. Genesis \in Hash
  BY DEF Genesis, Hash
<1>2. TypeOK'
  BY <1>1, WriterAssumption DEF TypeOK, Leave, Finish, NoBase, InAppend
<1>3. JobInv'
  BY DEF JobInv, TypeOK, Leave, Finish
<1>4. LockInv'
  BY DEF LockInv, TypeOK, Leave, Finish, Holding
<1>5. BaseInv'
  BY DEF BaseInv, TypeOK, Leave, Finish, Verifies, Decodes, Linked, HashAt
<1>6. OneChain'
  BY SameFileKeepsChain
<1> QED
  BY <1>2, <1>3, <1>4, <1>5, <1>6

\* A write by the thread that holds the lock file.
LEMMA WriteIInv ==
  ASSUME IInv, NEW w \in Writer, pc[w] = "verified",
         NEW l \in LineType, SameRecord(l, Draft(w)),
         file' = AppendLine(file, l),
         pc' = [pc EXCEPT ![w] = "written"],
         UNCHANGED <<synced, lockFile, mutex, job, base, acked>>
  PROVE  IInv'
<1> USE DEF IInv
<1>1. file' \in Seq(LineType) /\ Len(file') >= Len(file) /\ OneChain'
  BY WriteKeepsChain
<1>2. TypeOK'
  BY <1>1, LenProperties DEF TypeOK, InAppend, Holding
<1>3. JobInv'
  BY DEF JobInv, TypeOK
<1>4. LockInv'
  BY DEF LockInv, TypeOK, Holding
<1>5. BaseInv'
  BY DEF BaseInv, LockInv, TypeOK, Holding
<1> QED
  BY <1>1, <1>2, <1>3, <1>4, <1>5

LEMMA NextIInv == IInv /\ [Next]_vars => IInv'
<1> SUFFICES ASSUME IInv, [Next]_vars PROVE IInv'
  OBVIOUS
<1> USE DEF IInv
<1>1. CASE \E w \in Writer, e \in Entry : Call(w, e)
  <2>1. TypeOK' /\ JobInv' /\ LockInv'
    BY <1>1 DEF Call, TypeOK, JobInv, LockInv, InAppend, Holding
  <2>2. BaseInv'
    BY <1>1 DEF Call, TypeOK, BaseInv, Verifies, Decodes, Linked, HashAt
  <2> QED
    BY <1>1, <2>1, <2>2, SameFileKeepsChain DEF Call
<1>2. ASSUME NEW w \in Writer, TakeMutex(w) PROVE IInv'
  <2>1. TypeOK' /\ JobInv' /\ LockInv'
    BY <1>2 DEF TakeMutex, TypeOK, JobInv, LockInv, InAppend, Holding
  <2>2. BaseInv'
    BY <1>2 DEF TakeMutex, TypeOK, BaseInv, Verifies, Decodes, Linked, HashAt
  <2> QED
    BY <1>2, <2>1, <2>2, SameFileKeepsChain DEF TakeMutex
<1>3. ASSUME NEW w \in Writer, CreateLockFile(w) PROVE IInv'
  <2>1. TypeOK' /\ JobInv' /\ LockInv'
    BY <1>3, WriterAssumption DEF CreateLockFile, TypeOK, JobInv, LockInv, InAppend, Holding
  <2>2. BaseInv'
    BY <1>3 DEF CreateLockFile, TypeOK, BaseInv, Verifies, Decodes, Linked, HashAt
  <2> QED
    BY <1>3, <2>1, <2>2, SameFileKeepsChain DEF CreateLockFile
<1>4. ASSUME NEW w \in Writer, LockTimeout(w) PROVE IInv'
  <2>1. Genesis \in Hash
    BY DEF Genesis, Hash
  <2>2. TypeOK' /\ JobInv' /\ LockInv'
    BY <1>4, <2>1 DEF LockTimeout, Finish, NoBase, TypeOK, JobInv, LockInv, InAppend, Holding
  <2>3. BaseInv'
    BY <1>4 DEF LockTimeout, Finish, TypeOK, BaseInv, Verifies, Decodes, Linked, HashAt
  <2> QED
    BY <1>4, <2>2, <2>3, SameFileKeepsChain DEF LockTimeout
<1>5. ASSUME NEW w \in Writer, Verify(w) PROVE IInv'
  <2>1. HashAt(file, Len(file)) \in Hash /\ Len(file) \in Nat
    BY HashAtType, LenProperties DEF TypeOK
  <2>2. TypeOK' /\ JobInv' /\ LockInv'
    BY <1>5, <2>1 DEF Verify, TypeOK, JobInv, LockInv, InAppend, Holding
  <2>3. BaseInv'
    BY <1>5 DEF Verify, TypeOK, BaseInv, Verifies, Decodes, Linked, HashAt
  <2> QED
    BY <1>5, <2>2, <2>3, SameFileKeepsChain DEF Verify
<1>6. ASSUME NEW w \in Writer, VerifyFails(w) PROVE IInv'
  BY <1>6, LeaveIInv DEF VerifyFails, TypeOK, Holding
<1>7. ASSUME NEW w \in Writer, Write(w) PROVE IInv'
  <2>1. pc[w] = "verified"
    BY <1>7 DEF Write
  <2>2. PICK line \in WrittenLines(w) : file' = AppendLine(file, line)
    BY <1>7 DEF Write
  <2>3. line \in LineType /\ SameRecord(line, Draft(w))
    <3>1. CASE line = Draft(w)
      BY <2>1, <3>1, DraftProperties DEF SameRecord
    <3>2. CASE \E t \in TailForms : line = Cut(Draft(w), t)
      BY <2>1, <3>2, DraftProperties, CutProperties, TailAssumption DEF Forms
    <3> QED
      BY <2>2, <3>1, <3>2 DEF WrittenLines, Cut
  <2> QED
    BY <1>7, <2>1, <2>2, <2>3, WriteIInv DEF Write
<1>8. ASSUME NEW w \in Writer, Sync(w) PROVE IInv'
  <2>1. TypeOK' /\ JobInv' /\ LockInv'
    BY <1>8, LenProperties DEF Sync, TypeOK, JobInv, LockInv, InAppend, Holding
  <2>2. BaseInv'
    BY <1>8 DEF Sync, TypeOK, BaseInv, Verifies, Decodes, Linked, HashAt
  <2> QED
    BY <1>8, <2>1, <2>2, SameFileKeepsChain DEF Sync
<1>9. ASSUME NEW w \in Writer, WriteFails(w) PROVE IInv'
  BY <1>9, LeaveIInv DEF WriteFails, TypeOK, Holding
<1>10. ASSUME NEW w \in Writer, Return(w) PROVE IInv'
  <2>1. pc[w] = "synced"
    BY <1>10 DEF Return
  <2>2. Draft(w).hash \in Hash
    BY <2>1, DraftProperties DEF LineType
  <2> QED
    BY <1>10, <2>1, <2>2, LeaveIInv DEF Return, TypeOK, Holding
<1>11. CASE \E p \in Proc : Crash(p)
  <2>1. Genesis \in Hash
    BY DEF Genesis, Hash
  <2>2. TypeOK' /\ JobInv'
    BY <1>11, <2>1 DEF Crash, Die, NoBase, TypeOK, JobInv, InAppend
  <2>3. LockInv'
    BY <1>11, WriterAssumption DEF Crash, Die, TypeOK, LockInv, Holding
  <2>4. BaseInv'
    BY <1>11 DEF Crash, Die, TypeOK, BaseInv, Verifies, Decodes, Linked, HashAt
  <2> QED
    BY <1>11, <2>2, <2>3, <2>4, SameFileKeepsChain DEF Crash
<1>12. CASE PowerLoss
  <2>1. file' \in Seq(LineType) /\ OneChain'
    BY <1>12, LossKeepsChain
  <2>2. \A w \in Writer : pc'[w] = "idle"
    BY <1>12, WriterAssumption DEF PowerLoss, Die
  <2>3. Genesis \in Hash
    BY DEF Genesis, Hash
  <2>4. TypeOK'
    BY <1>12, <2>1, <2>3, LenProperties DEF PowerLoss, Die, NoBase, TypeOK, InAppend
  <2>5. JobInv' /\ LockInv' /\ BaseInv'
    BY <2>2 DEF JobInv, LockInv, BaseInv, Holding
  <2> QED
    BY <2>1, <2>4, <2>5
<1>13. CASE RemoveLeakedLock
  <2>1. TypeOK' /\ JobInv' /\ LockInv'
    BY <1>13, WriterAssumption DEF RemoveLeakedLock, TypeOK, JobInv, LockInv, Holding
  <2>2. BaseInv'
    BY <1>13 DEF RemoveLeakedLock, BaseInv, Verifies, Decodes, Linked, HashAt
  <2> QED
    BY <1>13, <2>1, <2>2, SameFileKeepsChain DEF RemoveLeakedLock
<1>14. CASE UNCHANGED vars
  <2>1. TypeOK' /\ JobInv' /\ LockInv'
    BY <1>14 DEF vars, TypeOK, JobInv, LockInv
  <2>2. BaseInv'
    BY <1>14 DEF vars, BaseInv, Verifies, Decodes, Linked, HashAt
  <2> QED
    BY <1>14, <2>1, <2>2, SameFileKeepsChain DEF vars
<1> QED
  BY <1>1, <1>2, <1>3, <1>4, <1>5, <1>6, <1>7, <1>8, <1>9, <1>10, <1>11, <1>12,
     <1>13, <1>14 DEF Next, Step

LEMMA IInvHolds == Spec => []IInv
BY InitIInv, NextIInv, PTL DEF Spec

\* Every variable of the ledger keeps its type.
THEOREM LedgerType == Spec => []TypeOK
<1>1. IInv => TypeOK
  BY DEF IInv
<1> QED
  BY <1>1, IInvHolds, PTL

\* Whatever threads, crashes, cut and short writes do to the file of
\* EvidenceLedger, its records stay one chain, damaged at most in its last line.
THEOREM LedgerOneChain == Spec => []OneChain
<1>1. IInv => OneChain
  BY DEF IInv
<1> QED
  BY <1>1, IInvHolds, PTL

-----------------------------------------------------------------------------
(* Durability, where a line that is not written in full always fails to    *)
(* decode (it never lacks its newline only) and os.write never returns a   *)
(* short count                                                             *)

\* What the file system must guarantee for append to keep its promise.
CleanCuts == TailForms \subseteq {"torn"} /\ ShortWrites = FALSE

\* Without bare lines nothing is ever written onto an existing line.
NoBareInv == \A i \in 1..Len(file) : file[i].form \in {"whole", "torn"}

\* What a thread wrote is the last line until it leaves.
WrittenInv ==
  \A w \in Writer : pc[w] \in {"written", "synced"} =>
    /\ Len(file) > 0
    /\ file[Len(file)] = Draft(w)
    /\ pc[w] = "synced" => synced = Len(file)

DInv == IInv /\ NoBareInv /\ WrittenInv /\ AckedDurable

LEMMA InitDInv == Init => DInv
<1> SUFFICES ASSUME Init PROVE DInv
  OBVIOUS
<1>1. Len(file) = 0
  BY EmptySeq DEF Init
<1>2. NoBareInv
  BY <1>1 DEF NoBareInv
<1>3. WrittenInv /\ AckedDurable
  BY DEF Init, WrittenInv, AckedDurable
<1> QED
  BY <1>2, <1>3, InitIInv DEF DInv

\* While nobody writes or loses power, the ledger file stays as it is.
LEMMA OnlyWriteOrPowerLoss ==
  ASSUME Next, file' # file
  PROVE  PowerLoss \/ \E w \in Writer : Write(w)
BY DEF Next, Step, Call, TakeMutex, CreateLockFile, LockTimeout, Verify, VerifyFails,
       Sync, WriteFails, Return, Crash, RemoveLeakedLock

\* A write adds one whole line.
LEMMA CleanWrite ==
  ASSUME CleanCuts, DInv, NEW w \in Writer, Write(w)
  PROVE  /\ file' \in Seq(LineType)
         /\ Len(file') = Len(file) + 1
         /\ \A i \in 1..Len(file) : file'[i] = file[i]
         /\ file'[Len(file')] = Draft(w)
         /\ Draft(w).form = "whole"
<1>1. pc[w] = "verified" /\ file \in Seq(LineType) /\ Len(file) \in Nat
  BY LenProperties DEF Write, DInv, IInv, TypeOK
<1>2. Draft(w) \in LineType /\ Draft(w).form = "whole"
  BY <1>1, DraftProperties DEF DInv, IInv
<1>3. file = << >> \/ file[Len(file)].form # "bare"
  BY <1>1, EmptySeq DEF DInv, NoBareInv
<1>4. file' = AppendLine(file, Draft(w))
  BY DEF Write, WrittenLines, CleanCuts
<1> QED
  BY <1>1, <1>2, <1>3, <1>4, AppendLineToWhole

\* Power losses leave no bare line.
LEMMA CleanLoss ==
  ASSUME CleanCuts, DInv, PowerLoss
  PROVE  NoBareInv'
<1>1. file \in Seq(LineType) /\ Len(file) \in Nat /\ synced \in 0..Len(file)
  BY LenProperties DEF DInv, IInv, TypeOK
<1>2. PICK n \in synced..Len(file) : file' \in Survivors(n)
  BY DEF PowerLoss
<1>3. n \in 0..Len(file)
  BY <1>1
<1>4. /\ Len(file') \in {n, n + 1}
      /\ Len(file') <= Len(file)
      /\ \A i \in 1..n : file'[i] = file[i]
      /\ Len(file') = n + 1 => \E t \in TailForms : file'[n + 1] = Cut(file[n + 1], t)
  BY <1>1, <1>2, <1>3, SurvivorsProperties
<1>5. ASSUME Len(file') = n + 1
      PROVE  file'[n + 1].form = "torn"
  <2>1. PICK t \in TailForms : file'[n + 1] = Cut(file[n + 1], t)
    BY <1>4, <1>5
  <2>2. file[n + 1] \in LineType /\ t = "torn"
    BY <1>1, <1>3, <1>4, <1>5, ElementOfSeq DEF CleanCuts
  <2> QED
    BY <2>1, <2>2, CutProperties DEF Forms
<1> QED
  BY <1>1, <1>3, <1>4, <1>5 DEF NoBareInv, DInv

\* Synced lines stay where they are.
LEMMA SyncedStep ==
  ASSUME CleanCuts, DInv, [Next]_vars
  PROVE  /\ synced' >= synced
         /\ \A i \in 1..synced : i <= Len(file') /\ file'[i] = file[i]
<1>1. file \in Seq(LineType) /\ Len(file) \in Nat /\ synced \in 0..Len(file)
  BY LenProperties DEF DInv, IInv, TypeOK
<1>2. CASE PowerLoss
  <2>1. file' \in Seq(LineType) /\ synced <= Len(file') /\ \A i \in 1..synced : file'[i] = file[i]
    BY <1>2, LossKeepsChain DEF DInv
  <2>2. synced' = Len(file') /\ Len(file') \in Nat
    BY <1>2, <2>1, LenProperties DEF PowerLoss
  <2> QED
    BY <1>1, <2>1, <2>2
<1>3. ASSUME NEW w \in Writer, Write(w)
      PROVE  /\ synced' = synced
             /\ \A i \in 1..synced : i <= Len(file') /\ file'[i] = file[i]
  <2>1. synced' = synced /\ Len(file') = Len(file) + 1 /\ \A i \in 1..Len(file) : file'[i] = file[i]
    BY <1>3, CleanWrite DEF Write
  <2> QED
    BY <1>1, <2>1
<1>4. CASE UNCHANGED file
  <2>1. synced' = synced \/ synced' = Len(file) \/ PowerLoss
    BY <1>4 DEF Next, Step, Call, TakeMutex, CreateLockFile, LockTimeout, Verify, VerifyFails,
       Write, Sync, WriteFails, Return, Crash, RemoveLeakedLock, vars
  <2> QED
    BY <1>1, <1>2, <1>4, <2>1
<1> QED
  BY <1>1, <1>2, <1>3, <1>4, OnlyWriteOrPowerLoss DEF vars

\* The acknowledged records survive whatever keeps the synced lines.
LEMMA AckedStep ==
  ASSUME CleanCuts, DInv, [Next]_vars
  PROVE  AckedDurable'
<1>1. /\ synced' >= synced
      /\ \A i \in 1..synced : i <= Len(file') /\ file'[i] = file[i]
  BY SyncedStep
<1>2. synced \in Nat /\ synced' \in Nat
  <2>1. TypeOK /\ TypeOK'
    BY NextIInv DEF DInv, IInv
  <2> QED
    BY <2>1, LenProperties DEF TypeOK
<1>3. ASSUME NEW h \in acked
      PROVE  \E i \in 1..synced' : file'[i].hash = h /\ file'[i].form = "whole"
  <2>1. PICK i \in 1..synced : file[i].hash = h /\ file[i].form = "whole"
    BY <1>3 DEF DInv, AckedDurable
  <2>2. i \in 1..synced' /\ file'[i] = file[i]
    BY <1>1, <1>2, <2>1
  <2> QED
    BY <2>1, <2>2
<1>4. ASSUME NEW w \in Writer, Return(w)
      PROVE  AckedDurable'
  <2>1. pc[w] = "synced" /\ UNCHANGED <<file, synced>>
    BY <1>4 DEF Return
  <2>2. Len(file) > 0 /\ file[Len(file)] = Draft(w) /\ synced = Len(file)
    BY <2>1 DEF DInv, WrittenInv
  <2>3. Draft(w).form = "whole"
    BY <2>1, DraftProperties DEF DInv, IInv
  <2>4. synced \in 1..synced' /\ file'[synced] = Draft(w)
    BY <1>2, <2>1, <2>2
  <2> QED
    BY <1>3, <1>4, <2>3, <2>4 DEF AckedDurable, Return
<1>5. CASE UNCHANGED acked
  BY <1>3, <1>5 DEF AckedDurable
<1>6. (\E w \in Writer : Return(w)) \/ UNCHANGED acked
  BY DEF Next, Step, Call, TakeMutex, CreateLockFile, LockTimeout, Verify, VerifyFails,
     Write, Sync, WriteFails, Crash, PowerLoss, Die, RemoveLeakedLock, vars
<1> QED
  BY <1>4, <1>5, <1>6

\* A thread's draft depends on its own variables only.
LEMMA SameDraft ==
  ASSUME NEW w, job'[w] = job[w], base'[w] = base[w]
  PROVE  Draft(w)' = Draft(w)
BY DEF Draft

LEMMA NoBareStep ==
  ASSUME CleanCuts, DInv, [Next]_vars
  PROVE  NoBareInv'
<1>1. file \in Seq(LineType) /\ Len(file) \in Nat
  BY LenProperties DEF DInv, IInv, TypeOK
<1>2. CASE PowerLoss
  BY <1>2, CleanLoss
<1>3. ASSUME NEW w \in Writer, Write(w)
      PROVE  NoBareInv'
  BY <1>1, <1>3, CleanWrite DEF DInv, NoBareInv
<1>4. CASE UNCHANGED file
  BY <1>4 DEF DInv, NoBareInv
<1> QED
  BY <1>2, <1>3, <1>4, OnlyWriteOrPowerLoss DEF vars

\* Only the holder of the lock file changes what it wrote.
LEMMA WrittenStep ==
  ASSUME CleanCuts, DInv, [Next]_vars
  PROVE  WrittenInv'
<1>1. /\ file \in Seq(LineType) /\ Len(file) \in Nat
      /\ pc \in [Writer -> InAppend \cup {"idle"}]
      /\ job \in [Writer -> Entry \cup {NoEntry}]
      /\ base \in [Writer -> [length : Nat, tail : Hash]]
  BY LenProperties DEF DInv, IInv, TypeOK
<1> SUFFICES ASSUME NEW v \in Writer, pc'[v] \in {"written", "synced"}
             PROVE  /\ Len(file') > 0
                    /\ file'[Len(file')] = Draft(v)'
                    /\ pc'[v] = "synced" => synced' = Len(file')
  BY DEF WrittenInv
<1>2. CASE PowerLoss
  BY <1>2, WriterAssumption DEF PowerLoss, Die
<1>3. CASE Write(v)
  <2>1. Draft(v)' = Draft(v) /\ pc'[v] = "written"
    BY <1>1, <1>3, SameDraft DEF Write
  <2>2. Len(file') = Len(file) + 1 /\ file'[Len(file')] = Draft(v)
    BY <1>3, CleanWrite
  <2> QED
    BY <1>1, <2>1, <2>2
<1>4. CASE Sync(v)
  <2>1. Draft(v)' = Draft(v)
    BY <1>4, SameDraft DEF Sync
  <2> QED
    BY <1>4, <2>1 DEF Sync, DInv, WrittenInv
<1>5. ASSUME ~PowerLoss, ~Write(v), ~Sync(v)
      PROVE  /\ pc'[v] = pc[v] /\ job'[v] = job[v] /\ base'[v] = base[v]
             /\ UNCHANGED <<file, synced>>
  <2>1. pc[v] \in Holding
    BY <1>1, <1>5 DEF Next, Step, Call, TakeMutex, CreateLockFile, LockTimeout, Verify,
       VerifyFails, Write, Sync, WriteFails, Return, Leave, Finish, Crash, Die,
       RemoveLeakedLock, vars, Holding
  <2>2. \A w \in Writer : w # v => pc[w] \notin Holding
    BY <2>1 DEF DInv, IInv, LockInv
  <2>3. /\ \A w \in Writer : ~Write(w)
        /\ UNCHANGED file
    BY <1>5, <2>2, OnlyWriteOrPowerLoss DEF Write, Holding, vars
  <2>4. \A w \in Writer : ~Sync(w)
    BY <1>5, <2>2 DEF Sync, Holding
  <2> QED
    BY <1>1, <1>5, <2>3, <2>4 DEF Next, Step, Call, TakeMutex, CreateLockFile, LockTimeout,
       Verify, VerifyFails, WriteFails, Return, Leave, Finish, Crash, Die,
       RemoveLeakedLock, vars
<1>6. CASE ~PowerLoss /\ ~Write(v) /\ ~Sync(v)
  <2>1. /\ pc'[v] = pc[v] /\ Draft(v)' = Draft(v)
        /\ UNCHANGED <<file, synced>>
    BY <1>5, <1>6, SameDraft
  <2> QED
    BY <2>1 DEF DInv, WrittenInv
<1> QED
  BY <1>2, <1>3, <1>4, <1>6

LEMMA NextDInv ==
  ASSUME CleanCuts
  PROVE  DInv /\ [Next]_vars => DInv'
BY NextIInv, NoBareStep, WrittenStep, AckedStep DEF DInv

\* If partly written lines never decode and writes are complete, a record that
\* EvidenceLedger.append returned stays on disk, whole and synced, for ever.
THEOREM LedgerDurable ==
  ASSUME CleanCuts
  PROVE  Spec => []AckedDurable
<1>1. DInv => AckedDurable
  BY DEF DInv
<1> QED
  BY <1>1, InitDInv, NextDInv, PTL DEF Spec

\* Under the same condition what os.fsync covered is never rewritten.
THEOREM LedgerSyncedNeverChanges ==
  ASSUME CleanCuts
  PROVE  Spec => SyncedNeverChanges
<1> DEFINE Kept == synced' >= synced
                   /\ \A i \in 1..synced : i <= Len(file') /\ file'[i] = file[i]
<1>1. DInv /\ [Next]_vars => [Kept]_vars
  BY SyncedStep
<1> QED
  BY <1>1, InitDInv, NextDInv, PTL DEF Spec, SyncedNeverChanges

-----------------------------------------------------------------------------
(* EvidenceLedger implements AppendOnlyLog, under the same condition: the  *)
(* initial states map to initial states, and every step maps to a step of  *)
(* the log or stutters                                                     *)

\* A ledger that no longer decodes was cut by a power loss, which leaves
\* nothing unsynced.
SealInv == Decodes(file) \/ synced = Len(file)

RInv == DInv /\ SealInv

\* The mapped variables.
Entries == [i \in 1..IntactLength |-> file[i].entry]
Confirmed == IF synced < IntactLength THEN synced ELSE IntactLength
Sealed == ~Decodes(file)

LEMMA InitRInv == Init => RInv
<1>1. Init => Decodes(file)
  BY EmptySeq DEF Init, Decodes
<1> QED
  BY <1>1, InitDInv DEF RInv, SealInv

\* What the mapping makes of a ledger whose lines are whole or torn.
MappedFacts ==
  /\ Len(file) \in Nat /\ synced \in 0..Len(file)
  /\ IntactLength \in Nat
  /\ Sealed => Len(file) > 0 /\ IntactLength = Len(file) - 1
  /\ ~Sealed => IntactLength = Len(file)
  /\ ~Sealed => \A i \in 1..Len(file) : file[i].form = "whole"
  /\ Confirmed \in 0..IntactLength

LEMMA Mapped == DInv => MappedFacts
<1> SUFFICES ASSUME DInv PROVE MappedFacts
  OBVIOUS
<1> USE DEF MappedFacts
<1>1. /\ file \in Seq(LineType) /\ Len(file) \in Nat /\ synced \in 0..Len(file)
      /\ file # << >> => Len(file) > 0
  BY LenProperties, EmptySeq DEF DInv, IInv, TypeOK
<1>2. /\ \A i \in 1..Len(file) : file[i].form \in {"whole", "torn"}
      /\ \A i \in 1..Len(file) - 1 : file[i].form = "whole"
  BY DEF DInv, NoBareInv, IInv, OneChain
<1>3. CASE file = << >>
  <2>1. Len(file) = 0
    BY <1>3, EmptySeq
  <2>2. ~Sealed
    BY <2>1 DEF Sealed, Decodes
  <2>3. IntactLength = 0
    BY <1>3, <2>1 DEF IntactLength
  <2> QED
    BY <1>1, <2>1, <2>2, <2>3 DEF Confirmed
<1>4. CASE file # << >> /\ file[Len(file)].form = "torn"
  <2>1. Sealed /\ Len(file) > 0
    BY <1>1, <1>4 DEF Sealed, Decodes
  <2>2. IntactLength = Len(file) - 1
    BY <1>4 DEF IntactLength
  <2> QED
    BY <1>1, <2>1, <2>2 DEF Confirmed
<1>5. CASE file # << >> /\ file[Len(file)].form = "whole"
  <2>1. ~Sealed /\ \A i \in 1..Len(file) : file[i].form = "whole"
    BY <1>1, <1>2, <1>5 DEF Sealed, Decodes
  <2>2. IntactLength = Len(file)
    BY <1>5 DEF IntactLength
  <2> QED
    BY <1>1, <2>1, <2>2 DEF Confirmed
<1>6. file = << >> \/ file[Len(file)].form \in {"whole", "torn"}
  BY <1>1, <1>2
<1> QED
  BY <1>3, <1>4, <1>5, <1>6

LEMMA MappedNext == DInv' => MappedFacts'
BY Mapped, PTL

\* The mapped log is a sequence.
LEMMA EntriesProperties ==
  ASSUME DInv
  PROVE  /\ Entries \in Seq(Entry)
         /\ Len(Entries) = IntactLength
         /\ \A i \in 1..IntactLength : Entries[i] = file[i].entry
<1>1. \A i \in 1..IntactLength : file[i].entry \in Entry
  <2>1. \A i \in 1..Len(file) : file[i] \in LineType
    BY ElementOfSeq DEF DInv, IInv, TypeOK
  <2> QED
    BY <2>1, Mapped DEF LineType, MappedFacts
<1>2. IntactLength \in Nat
  BY Mapped DEF MappedFacts
<1>3. Entries \in Seq(Entry)
  BY <1>1, <1>2, IsASeq DEF Entries
<1> QED
  BY <1>2, <1>3, LenProperties DEF Entries

LEMMA NextRInv ==
  ASSUME CleanCuts
  PROVE  RInv /\ [Next]_vars => RInv'
<1> SUFFICES ASSUME RInv, [Next]_vars PROVE RInv'
  OBVIOUS
<1>1. DInv'
  BY NextDInv DEF RInv
<1>2. CASE PowerLoss
  BY <1>1, <1>2 DEF PowerLoss, SealInv, RInv
<1>3. ASSUME NEW w \in Writer, Write(w)
      PROVE  SealInv'
  <2>1. pc[w] = "verified"
    BY <1>3 DEF Write
  <2>2. Decodes(file)
    BY <2>1 DEF RInv, DInv, IInv, BaseInv, Verifies
  <2>3. Len(file') = Len(file) + 1 /\ Len(file) \in Nat
    BY <1>3, CleanWrite, Mapped DEF RInv, MappedFacts
  <2>4. /\ \A i \in 1..Len(file) : file'[i] = file[i]
        /\ file'[Len(file')].form = "whole"
    BY <1>3, CleanWrite DEF RInv
  <2> QED
    BY <2>2, <2>3, <2>4 DEF SealInv, Decodes
<1>4. CASE UNCHANGED file
  <2>1. synced' = synced \/ synced' = Len(file) \/ PowerLoss
    BY <1>4 DEF Next, Step, Call, TakeMutex, CreateLockFile, LockTimeout, Verify, VerifyFails,
       Write, Sync, WriteFails, Return, Crash, RemoveLeakedLock, vars
  <2> QED
    BY <1>1, <1>2, <1>4, <2>1 DEF RInv, SealInv, Decodes
<1> QED
  BY <1>1, <1>2, <1>3, <1>4, OnlyWriteOrPowerLoss DEF RInv, vars

-----------------------------------------------------------------------------
(* Each step is a step of the log, or a stutter *)

\* A step that leaves the file alone and confirms at most what is there.
LEMMA SameFile ==
  ASSUME UNCHANGED file
  PROVE  Entries' = Entries /\ Sealed' = Sealed /\ IntactLength' = IntactLength
BY DEF Entries, Sealed, IntactLength, Decodes

LEMMA WriteExtends ==
  ASSUME CleanCuts, RInv, NEW w \in Writer, Write(w), RInv', NEW e, e = job[w]
  PROVE  Log!Extend(e)
<1>1. pc[w] = "verified" /\ synced' = synced /\ job[w] \in Entry
  BY DEF Write, RInv, DInv, IInv, JobInv
<1>2. ~Sealed
  BY <1>1 DEF RInv, DInv, IInv, BaseInv, Verifies, Sealed
<1>3. /\ Len(file) \in Nat /\ synced \in 0..Len(file)
      /\ IntactLength = Len(file)
      /\ \A i \in 1..Len(file) : file[i].form = "whole"
  BY <1>2, Mapped DEF RInv, MappedFacts
<1>4. /\ file' \in Seq(LineType) /\ Len(file') = Len(file) + 1
      /\ \A i \in 1..Len(file) : file'[i] = file[i]
      /\ file'[Len(file')] = Draft(w) /\ Draft(w).form = "whole"
  BY CleanWrite DEF RInv
<1>5. Draft(w).entry = job[w]
  BY <1>1, DraftProperties DEF RInv, DInv, IInv
<1>6. ~Sealed'
  BY <1>3, <1>4 DEF Sealed, Decodes
<1>7. IntactLength' = Len(file) + 1
  <2>1. ~Sealed' => IntactLength' = Len(file')
    BY MappedNext DEF RInv, MappedFacts
  <2> QED
    BY <1>4, <1>6, <2>1
<1>8. Entries' = Append(Entries, job[w])
  <2>1. /\ Entries \in Seq(Entry) /\ Len(Entries) = Len(file)
        /\ \A i \in 1..Len(file) : Entries[i] = file[i].entry
    BY <1>3, EntriesProperties DEF RInv
  <2>2. /\ Append(Entries, job[w]) \in Seq(Entry)
        /\ Len(Append(Entries, job[w])) = Len(file) + 1
        /\ \A i \in 1..Len(file) : Append(Entries, job[w])[i] = file[i].entry
        /\ Append(Entries, job[w])[Len(file) + 1] = job[w]
    BY <1>1, <2>1, AppendProperties
  <2>3. /\ Entries' = [i \in 1..Len(file) + 1 |-> file'[i].entry]
    BY <1>7 DEF Entries
  <2>4. Append(Entries, job[w]) = [i \in 1..Len(file) + 1 |-> Append(Entries, job[w])[i]]
    BY <1>3, <2>2, LenProperties
  <2>5. \A i \in 1..Len(file) + 1 : file'[i].entry = Append(Entries, job[w])[i]
    BY <1>3, <1>4, <1>5, <2>2
  <2> QED
    BY <2>3, <2>4, <2>5
<1>9. Confirmed' = Confirmed
  BY <1>1, <1>3, <1>7 DEF Confirmed
<1> QED
  BY <1>2, <1>6, <1>8, <1>9 DEF Log!Extend, Entries, Confirmed, Sealed

LEMMA SyncConfirms ==
  ASSUME RInv, NEW w \in Writer, Sync(w)
  PROVE  Log!Confirm
<1>1. UNCHANGED file /\ synced' = Len(file) /\ pc[w] = "written"
  BY DEF Sync
<1>2. Len(file) > 0 /\ file[Len(file)] = Draft(w)
  BY <1>1 DEF RInv, DInv, WrittenInv
<1>3. Draft(w).form = "whole"
  BY <1>1, DraftProperties DEF RInv, DInv, IInv
<1>4. /\ Len(file) \in Nat /\ IntactLength \in Nat /\ Confirmed \in 0..IntactLength
      /\ ~Sealed => IntactLength = Len(file)
  BY Mapped DEF RInv, MappedFacts
<1>5. ~Sealed
  BY <1>2, <1>3, <1>4 DEF Sealed, Decodes, RInv, DInv, IInv, OneChain
<1>6. Confirmed' = IntactLength
  BY <1>1, <1>4, <1>5, SameFile DEF Confirmed
<1>7. Len(Entries) = IntactLength
  BY EntriesProperties DEF RInv
<1>8. IntactLength \in Confirmed..Len(Entries)
  BY <1>4, <1>7
<1> QED
  BY <1>1, <1>5, <1>6, <1>8, SameFile DEF Log!Confirm, Entries, Confirmed, Sealed

LEMMA LossLosesTail ==
  ASSUME RInv, PowerLoss, RInv'
  PROVE  Log!LoseTail
<1>1. /\ Len(file) \in Nat /\ synced \in 0..Len(file)
      /\ IntactLength \in Nat /\ Confirmed \in 0..IntactLength
      /\ Sealed => IntactLength = Len(file) - 1
      /\ ~Sealed => IntactLength = Len(file)
      /\ ~Sealed => \A i \in 1..Len(file) : file[i].form = "whole"
  BY Mapped DEF RInv, MappedFacts
<1>2. /\ Len(file') \in Nat
      /\ IntactLength' \in Nat
      /\ Sealed' => IntactLength' = Len(file') - 1
      /\ ~Sealed' => IntactLength' = Len(file')
  BY MappedNext DEF RInv, MappedFacts
<1>3. PICK n \in synced..Len(file) : file' \in Survivors(n)
  BY DEF PowerLoss
<1>4. n \in 0..Len(file) /\ file \in Seq(LineType)
  BY <1>1 DEF RInv, DInv, IInv, TypeOK
<1>5. /\ Len(file') \in {n, n + 1}
      /\ Len(file') <= Len(file)
      /\ \A i \in 1..n : file'[i] = file[i]
      /\ Len(file') = n + 1 => \E t \in TailForms : file'[n + 1] = Cut(file[n + 1], t)
  BY <1>3, <1>4, SurvivorsProperties
<1>6. ASSUME Sealed
      PROVE  Sealed' /\ IntactLength' = IntactLength /\ IntactLength <= n
  <2>1. n = Len(file) /\ Len(file') = Len(file)
    BY <1>1, <1>3, <1>4, <1>5, <1>6 DEF RInv, SealInv, Sealed
  <2>2. Sealed'
    BY <1>5, <1>6, <2>1 DEF Sealed, Decodes
  <2> QED
    BY <1>1, <1>2, <1>6, <2>1, <2>2
<1>7. ASSUME ~Sealed
      PROVE  IntactLength' = n /\ Confirmed <= n /\ n <= IntactLength
  <2>1. Confirmed = synced
    BY <1>1, <1>7 DEF Confirmed
  <2>2. IntactLength' = n
    <3>1. CASE Len(file') = n
      <4>1. ~Sealed'
        BY <1>1, <1>4, <1>5, <1>7, <3>1 DEF Sealed, Decodes
      <4> QED
        BY <1>2, <3>1, <4>1
    <3>2. CASE Len(file') = n + 1
      <4>1. PICK t \in TailForms : file'[n + 1] = Cut(file[n + 1], t)
        BY <1>5, <3>2
      <4>2. file[n + 1] \in LineType
        BY <1>1, <1>4, <1>5, <3>2, ElementOfSeq
      <4>3. file'[n + 1].form = t /\ t \in {"torn", "bare"}
        BY <4>1, <4>2, CutProperties, TailAssumption DEF Forms
      <4>4. file'[n + 1].form \in {"whole", "torn"}
        BY <1>4, <3>2 DEF RInv, DInv, NoBareInv
      <4>5. Sealed'
        BY <1>4, <3>2, <4>3, <4>4 DEF Sealed, Decodes
      <4> QED
        BY <1>2, <1>4, <3>2, <4>5
    <3> QED
      BY <1>5, <3>1, <3>2
  <2> QED
    BY <1>1, <1>3, <1>4, <1>7, <2>1, <2>2
<1> DEFINE m == IntactLength'
<1>8. m \in Confirmed..IntactLength /\ m <= n
  BY <1>1, <1>2, <1>4, <1>6, <1>7
<1>9. Confirmed' = m
  <2>1. synced' = Len(file')
    BY DEF PowerLoss
  <2>2. synced' >= IntactLength'
    BY <1>2, <2>1
  <2> QED
    BY <1>2, <2>1, <2>2 DEF Confirmed
<1>10. /\ Entries \in Seq(Entry) /\ Len(Entries) = IntactLength
       /\ \A i \in 1..IntactLength : Entries[i] = file[i].entry
  BY EntriesProperties DEF RInv
<1>11. Entries' = SubSeq(Entries, 1, m)
  <2>1. Entries' = [i \in 1..m |-> file'[i].entry]
    BY DEF Entries
  <2> HIDE DEF m
  <2>2. \A i \in 1..m : file'[i].entry = Entries[i]
    BY <1>1, <1>4, <1>5, <1>8, <1>10
  <2>3. m \in Nat
    BY <1>1, <1>8
  <2>4. SubSeq(Entries, 1, m) = [i \in 1..m |-> Entries[i]]
    <3>1. \A i \in 1..m : Entries[i] \in Entry
      BY <1>1, <1>8, <1>10, ElementOfSeq
    <3>2. /\ SubSeq(Entries, 1, m) \in Seq(Entry)
          /\ Len(SubSeq(Entries, 1, m)) = IF 1 <= m THEN m - 1 + 1 ELSE 0
          /\ \A i \in 1..m - 1 + 1 : SubSeq(Entries, 1, m)[i] = Entries[1 + i - 1]
      BY <2>3, <3>1, SubSeqProperties
    <3> QED
      BY <2>3, <3>2, LenProperties
  <2> QED
    BY <2>1, <2>2, <2>4
<1>12. Sealed' \in {Sealed, TRUE}
  BY <1>6 DEF Sealed
<1> HIDE DEF m
<1>13. m \in Confirmed..Len(Entries)
  BY <1>8, <1>10
<1> QED
  BY <1>9, <1>11, <1>12, <1>13 DEF Log!LoseTail, Entries, Confirmed, Sealed

\* Every other step stutters.
LEMMA OtherStutters ==
  ASSUME RInv, [Next]_vars, ~PowerLoss,
         \A w \in Writer : ~Write(w) /\ ~Sync(w)
  PROVE  UNCHANGED <<Entries, Confirmed, Sealed>>
<1>1. UNCHANGED file
  BY OnlyWriteOrPowerLoss DEF vars
<1>2. UNCHANGED synced
  BY DEF Next, Step, Call, TakeMutex, CreateLockFile, LockTimeout, Verify, VerifyFails,
     WriteFails, Return, Crash, RemoveLeakedLock, vars
<1> QED
  BY <1>1, <1>2, SameFile DEF Confirmed

\* EvidenceLedger implements the append-only log: an append appears at once
\* and whole, is confirmed by its fsync, and only a power loss takes
\* unconfirmed entries away.
THEOREM LedgerImplementsLog ==
  ASSUME CleanCuts
  PROVE  Spec => ImplementsLog
<1>1. Init => Log!LogInit
  <2> SUFFICES ASSUME Init PROVE Log!LogInit
    OBVIOUS
  <2>1. Len(file) = 0 /\ file = << >> /\ synced = 0
    BY EmptySeq DEF Init
  <2>2. IntactLength = 0 /\ ~Sealed
    BY <2>1 DEF IntactLength, Sealed, Decodes
  <2>3. Confirmed = 0
    BY <2>1, <2>2 DEF Confirmed
  <2>4. Len(Entries) = 0 /\ Entries \in Seq(Entry)
    BY <2>2, InitDInv, EntriesProperties
  <2>5. Entries = << >>
    BY <2>4, EmptySeq
  <2> QED
    BY <2>2, <2>3, <2>5 DEF Log!LogInit, Entries, Confirmed, Sealed
<1>2. RInv /\ RInv' /\ [Next]_vars => [Log!LogNext]_(Log!logVars)
  <2> SUFFICES ASSUME RInv, RInv', [Next]_vars
               PROVE  Log!LogNext \/ UNCHANGED <<Entries, Confirmed, Sealed>>
    BY DEF Log!logVars, Log!LogNext, Entries, Confirmed, Sealed
  <2>1. ASSUME NEW w \in Writer, Write(w) PROVE Log!LogNext
    <3>1. PICK e \in Entry : e = job[w]
      BY <2>1 DEF Write, RInv, DInv, IInv, JobInv
    <3>2. Log!Extend(e)
      BY <2>1, <3>1, WriteExtends
    <3> QED
      BY <3>2 DEF Log!LogNext
  <2>2. ASSUME NEW w \in Writer, Sync(w) PROVE Log!LogNext
    BY <2>2, SyncConfirms DEF Log!LogNext
  <2>3. CASE PowerLoss
    BY <2>3, LossLosesTail DEF Log!LogNext
  <2> QED
    BY <2>1, <2>2, <2>3, OtherStutters
<1> QED
  BY <1>1, <1>2, InitRInv, NextRInv, PTL DEF Spec, ImplementsLog, Log!LogSpec
=============================================================================
