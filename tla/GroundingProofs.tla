-------------------------- MODULE GroundingProofs --------------------------
(***************************************************************************)
(* Proofs about Grounding and the command runner under it, for any child,  *)
(* any output, any limits and any number of pipes.                         *)
(***************************************************************************)
EXTENDS Grounding, SequenceTheorems, TLAPS

-----------------------------------------------------------------------------
(* The inductive invariant *)

Codes == ExitCode \cup {Killed, Running, None}

Texts == [Stream -> Seq(Chunk)]

Types ==
  /\ code \in Codes /\ kin \subseteq {"group", "escaped"} /\ timedOut \in BOOLEAN
  /\ returned \in [code : Codes, text : Texts, truncated : BOOLEAN]
  /\ pipe \in Texts /\ wrote \in Texts /\ sink \in Texts
  /\ cut \in [Stream -> BOOLEAN] /\ reader \in [Stream -> {"open", "closed"}]

\* run waits for the child, or is about to kill it.
Started == {"poll", "late", "kill", "wait", "kill again", "wait again"}

\* There is a child once it is started, and run knows how it ended once it has
\* waited for it.
CodeInv ==
  /\ pc \in Started \cup {"join", "text", "flags", "done"} => code # None
  /\ pc \in Started \cup {"idle", "ready"} => returned.code = None
  /\ pc \in {"join", "text", "flags", "done"} => returned.code # None
  /\ pc \in {"idle", "ready"} => code = None
  /\ returned.code \notin {None, Running} => returned.code = code

\* Only the deadline kills, and it kills the group.
DoomInv ==
  /\ code = Killed => "child" \in doomed
  /\ "child" \in doomed => "group" \in doomed /\ timedOut
  /\ pc \in {"late", "kill", "kill again", "wait again"} => timedOut
  /\ pc = "wait" /\ code = Running => timedOut

\* Whoever ran at the deadline has been killed with its group, or was found to have
\* ended by itself; either way it is a timeout.
TimeoutInv ==
  /\ pc \in {"idle", "ready", "poll"} => ~timedOut
  /\ pc \in {"idle", "ready", "poll", "late", "kill"} => doomed = {}
  /\ timedOut /\ pc \notin {"late", "kill"} =>
       "group" \in doomed \/ (doomed = {} /\ code \in ExitCode)
  /\ pc # "judged" => verdict = "none"
  /\ timedOut /\ pc = "judged" => verdict = "timeout"

ProcessInv == Types /\ CodeInv /\ DoomInv

\* Of the w chunks of W, the last p are unread in P and the k before those kept
\* in K.
Linked(W, w, P, p, K, k) ==
  /\ k + p <= w
  /\ \A i \in 1..p : P[i] = W[w - p + i]
  /\ \A i \in 1..k : K[i] = W[w - p - k + i]

\* What was written is what was dropped, what the sink keeps and what is unread,
\* in this order.
StreamInv ==
  \A s \in Stream :
    /\ Linked(wrote[s], Len(wrote[s]), pipe[s], Len(pipe[s]), sink[s], Len(sink[s]))
    /\ ~cut[s] => Len(sink[s]) + Len(pipe[s]) = Len(wrote[s])

\* What run returns of a stream is a piece of what was written.
PieceInv ==
  pc \in {"flags", "done"} =>
    \A s \in Stream : \E n \in Len(returned.text[s])..Len(wrote[s]) :
      \A i \in 1..Len(returned.text[s]) :
        returned.text[s][i] = wrote[s][n - Len(returned.text[s]) + i]

\* A reader ends when nothing can come any more, and if no process outlived the
\* wait the readers have ended when their sinks are read.
WholeInv ==
  /\ \A s \in Stream : reader[s] = "closed" => code # None /\ Alive = {} /\ pipe[s] = << >>
  /\ pc \in {"join", "text", "flags", "done"} /\ survivors = {} => Alive = {}
  /\ pc \in {"text", "flags", "done"} /\ survivors = {} => \A s \in Stream : reader[s] = "closed"
  /\ pc \in {"flags", "done"} /\ survivors = {} => returned.text = sink
  /\ pc = "done" /\ survivors = {} => returned.truncated = \E s \in Stream : cut[s]

-----------------------------------------------------------------------------
(* What the pipes and the sinks do *)

\* A sink loses at most its first chunks, and remembers that it did.
LEMMA ReadPipeIs ==
  ASSUME Types, NEW s \in Stream, ReadPipe(s)
  PROVE  /\ pipe' \in Texts /\ sink' \in Texts /\ cut' \in [Stream -> BOOLEAN]
         /\ \A q \in Stream \ {s} : pipe'[q] = pipe[q] /\ sink'[q] = sink[q] /\ cut'[q] = cut[q]
         /\ Len(pipe[s]) > 0 /\ Len(pipe'[s]) = Len(pipe[s]) - 1
         /\ \A i \in 1..Len(pipe'[s]) : pipe'[s][i] = pipe[s][i + 1]
         /\ \E d \in 0..Len(sink[s]) + 1 :
              /\ Len(sink'[s]) = Len(sink[s]) + 1 - d
              /\ ~cut'[s] => ~cut[s] /\ d = 0
              /\ \A i \in 1..Len(sink'[s]) :
                   sink'[s][i] = IF d + i <= Len(sink[s]) THEN sink[s][d + i] ELSE pipe[s][1]
<1> DEFINE c == Head(pipe[s])
           all == Append(sink[s], c)
           d == IF Len(all) > Limit THEN Len(all) - Limit ELSE 0
           kept == SubSeq(all, d + 1, Len(all))
<1>1. pipe[s] \in Seq(Chunk) /\ sink[s] \in Seq(Chunk) /\ pipe[s] # << >>
  BY DEF Types, Texts, ReadPipe
<1>2. /\ c \in Chunk /\ c = pipe[s][1]
      /\ Tail(pipe[s]) \in Seq(Chunk) /\ Len(pipe[s]) > 0
      /\ Len(Tail(pipe[s])) = Len(pipe[s]) - 1
      /\ \A i \in 1..Len(Tail(pipe[s])) : Tail(pipe[s])[i] = pipe[s][i + 1]
  BY <1>1
<1>3. /\ sink' = [sink EXCEPT ![s] = kept]
      /\ cut' = [cut EXCEPT ![s] = @ \/ d > 0]
      /\ pipe' = [pipe EXCEPT ![s] = Tail(@)]
  BY DEF ReadPipe, Kept
<1> HIDE DEF c
<1>4. /\ all \in Seq(Chunk) /\ Len(all) = Len(sink[s]) + 1
      /\ \A i \in 1..Len(all) : all[i] = IF i <= Len(sink[s]) THEN sink[s][i] ELSE c
  BY <1>1, <1>2, AppendProperties
<1> HIDE DEF all
<1>5. d \in 0..Len(all)
  BY <1>4, LimitAssumption
<1> HIDE DEF d
<1>6. /\ kept \in Seq(Chunk) /\ Len(kept) = Len(all) - d
      /\ \A i \in 1..Len(kept) : kept[i] = all[d + i]
  BY <1>4, <1>5
<1> HIDE DEF kept
<1>7. /\ sink'[s] = kept /\ pipe'[s] = Tail(pipe[s])
      /\ cut' \in [Stream -> BOOLEAN] /\ (~cut'[s] => ~cut[s] /\ ~(d > 0))
  BY <1>3 DEF Types, Texts
<1>8. /\ pipe' \in Texts /\ sink' \in Texts
      /\ \A q \in Stream \ {s} : pipe'[q] = pipe[q] /\ sink'[q] = sink[q] /\ cut'[q] = cut[q]
  BY <1>2, <1>3, <1>6 DEF Types, Texts
<1>9. /\ Len(sink'[s]) = Len(sink[s]) + 1 - d
      /\ ~cut'[s] => ~cut[s] /\ d = 0
      /\ \A i \in 1..Len(sink'[s]) :
           sink'[s][i] = IF d + i <= Len(sink[s]) THEN sink[s][d + i] ELSE pipe[s][1]
  <2>1. Len(sink[s]) \in Nat /\ d \in Nat /\ d <= Len(sink[s]) + 1
    BY <1>1, <1>4, <1>5
  <2>2. ~cut'[s] => ~cut[s] /\ d = 0
    BY <1>7, <2>1
  <2>3. Len(sink'[s]) = Len(sink[s]) + 1 - d
    <3>1. Len(sink'[s]) = Len(kept)
      BY <1>7
    <3>2. Len(kept) = Len(all) - d
      BY <1>6
    <3>3. Len(all) = Len(sink[s]) + 1
      BY <1>4
    <3> QED
      BY <2>1, <3>1, <3>2, <3>3
  <2>4. ASSUME NEW i \in 1..Len(sink'[s])
        PROVE  sink'[s][i] = IF d + i <= Len(sink[s]) THEN sink[s][d + i] ELSE pipe[s][1]
    <3>1. sink'[s][i] = all[d + i] /\ d + i \in 1..Len(all)
      BY <1>4, <1>6, <1>7, <2>1, <2>3
    <3> QED
      BY <1>2, <1>4, <3>1
  <2> QED
    BY <2>2, <2>3, <2>4
<1> QED
  BY <1>2, <1>4, <1>5, <1>7, <1>8, <1>9

\* A write adds one chunk to the pipe and to what was ever written.
LEMMA WriteIs ==
  ASSUME Types, NEW s \in Stream, NEW c \in Chunk, Write(s, c)
  PROVE  /\ pipe' \in Texts /\ wrote' \in Texts
         /\ \A q \in Stream \ {s} : pipe'[q] = pipe[q] /\ wrote'[q] = wrote[q]
         /\ Len(pipe'[s]) = Len(pipe[s]) + 1 /\ Len(wrote'[s]) = Len(wrote[s]) + 1
         /\ \A i \in 1..Len(pipe[s]) : pipe'[s][i] = pipe[s][i]
         /\ \A i \in 1..Len(wrote[s]) : wrote'[s][i] = wrote[s][i]
         /\ pipe'[s][Len(pipe[s]) + 1] = c /\ wrote'[s][Len(wrote[s]) + 1] = c
<1>1. pipe[s] \in Seq(Chunk) /\ wrote[s] \in Seq(Chunk)
  BY DEF Types, Texts
<1>2. /\ pipe' = [pipe EXCEPT ![s] = Append(pipe[s], c)]
      /\ wrote' = [wrote EXCEPT ![s] = Append(wrote[s], c)]
  BY DEF Write
<1>3. Append(pipe[s], c) \in Seq(Chunk) /\ Append(wrote[s], c) \in Seq(Chunk)
  BY <1>1, AppendProperties
<1>4. pipe'[s] = Append(pipe[s], c) /\ wrote'[s] = Append(wrote[s], c)
  BY <1>2 DEF Types, Texts
<1>5. /\ pipe' \in Texts /\ wrote' \in Texts
      /\ \A q \in Stream \ {s} : pipe'[q] = pipe[q] /\ wrote'[q] = wrote[q]
  BY <1>2, <1>3 DEF Types, Texts
<1> QED
  BY <1>1, <1>4, <1>5, AppendProperties

-----------------------------------------------------------------------------
(* The child and its group *)

LEMMA InitProcess ==
  ASSUME Init
  PROVE  ProcessInv
<1>1. [s \in Stream |-> << >>] \in Texts
  BY DEF Texts
<1>2. returned = [code |-> None, text |-> [s \in Stream |-> << >>], truncated |-> FALSE]
  BY DEF Init, RunnerInit, NoOutcome
<1>3. Types
  <2>1. returned \in [code : Codes, text : Texts, truncated : BOOLEAN]
    BY <1>1, <1>2 DEF Codes
  <2>2. pipe \in Texts /\ wrote \in Texts /\ sink \in Texts
    BY <1>1 DEF Init, RunnerInit
  <2> QED
    BY <2>1, <2>2 DEF Init, RunnerInit, Types, Codes
<1> QED
  BY <1>2, <1>3, CodeAssumption DEF Init, RunnerInit, ProcessInv, CodeInv, DoomInv, Started

LEMMA NextProcess ==
  ASSUME ProcessInv, [Next]_vars
  PROVE  ProcessInv'
<1> USE CodeAssumption DEF ProcessInv, CodeInv, DoomInv, Started
<1>1. CASE Block \/ FindBudgetSpent
  BY <1>1 DEF Block, FindBudgetSpent, Conclude, Types, streams, processes
<1>2. CASE Judge
  BY <1>2 DEF Judge, Conclude, Types, streams, processes
<1>3. CASE Launch
  BY <1>3 DEF Launch, Goto, Types, streams, processes
<1>4. CASE Start
  BY <1>4 DEF Start, Goto, Types, streams, Codes
<1>5. CASE FailToStart \/ SeeExit
  BY <1>5 DEF FailToStart, SeeExit, Goto, Types, streams, processes
<1>6. CASE SeeDeadline
  BY <1>6 DEF SeeDeadline, Goto, Types, streams, processes
<1>7. CASE CheckChild
  BY <1>7 DEF CheckChild, Goto, Types, streams, processes, Codes
<1>8. CASE KillGroup
  BY <1>8 DEF KillGroup, Goto, Types, streams
<1>9. CASE Waited
  <2>1. returned' = [returned EXCEPT !.code = code]
    BY <1>9 DEF Waited
  <2>2. /\ returned' \in [code : Codes, text : Texts, truncated : BOOLEAN]
        /\ returned'.code = code
    BY <2>1 DEF Types
  <2> QED
    BY <1>9, <2>2 DEF Waited, Goto, Types, streams, processes
<1>10. CASE Join
  BY <1>10 DEF Join, Goto, Types, streams, processes
<1>11. CASE ReadSinks
  <2>1. /\ returned' \in [code : Codes, text : Texts, truncated : BOOLEAN]
        /\ returned'.code = returned.code
    BY <1>11 DEF ReadSinks, Types
  <2> QED
    BY <1>11, <2>1 DEF ReadSinks, Goto, Types, streams, processes
<1>12. CASE Return
  <2>1. /\ returned' \in [code : Codes, text : Texts, truncated : BOOLEAN]
        /\ returned'.code = returned.code
    BY <1>12 DEF Return, Types
  <2> QED
    BY <1>12, <2>1 DEF Return, Goto, Types, streams, processes
<1>13. CASE Feed
  BY <1>13 DEF Feed, Types, caller, processes
<1>14. ASSUME NEW s \in Stream, ReadPipe(s)
       PROVE  ProcessInv'
  <2>1. pipe' \in Texts /\ sink' \in Texts /\ cut' \in [Stream -> BOOLEAN]
    BY <1>14, ReadPipeIs
  <2> QED
    BY <1>14, <2>1 DEF ReadPipe, Types, caller, processes
<1>15. ASSUME NEW s \in Stream, EndOfPipe(s)
       PROVE  ProcessInv'
  BY <1>15 DEF EndOfPipe, Types, caller, processes
<1>16. ASSUME NEW s \in Stream, NEW c \in Chunk, Write(s, c)
       PROVE  ProcessInv'
  <2>1. pipe' \in Texts /\ wrote' \in Texts
    BY <1>16, WriteIs
  <2> QED
    BY <1>16, <2>1 DEF Write, Types, caller, processes
<1>17. ASSUME NEW k \in {"group", "escaped"}, Spawn(k) \/ Leave(k)
       PROVE  ProcessInv'
  BY <1>17 DEF Spawn, Leave, Types, caller, streams
<1>18. ASSUME NEW n \in ExitCode, Exit(n)
       PROVE  ProcessInv'
  BY <1>18 DEF Exit, Alive, Types, caller, streams, Codes
<1>19. ASSUME NEW p \in {"child", "group"}, Die(p)
       PROVE  ProcessInv'
  BY <1>19 DEF Die, Alive, Types, caller, streams, Codes
<1>20. CASE DeadlinePasses
  BY <1>20 DEF DeadlinePasses, Types, streams, processes
<1>21. CASE BudgetEnds
  BY <1>21 DEF BudgetEnds, Types, runnerVars, caller, streams, processes
<1>22. CASE UNCHANGED vars
  BY <1>22 DEF vars, Types, runnerVars, caller, streams, processes
<1> QED
  BY <1>1, <1>2, <1>3, <1>4, <1>5, <1>6, <1>7, <1>8, <1>9, <1>10, <1>11, <1>12, <1>13, <1>14, <1>15,
     <1>16, <1>17, <1>18, <1>19, <1>20, <1>21, <1>22
     DEF Next, Own, Caller, Thread, Processes, Done

LEMMA NextTimeout ==
  ASSUME ProcessInv, TimeoutInv, [Next]_vars
  PROVE  TimeoutInv'
<1> USE CodeAssumption DEF TimeoutInv
<1>0. /\ code \in Codes /\ kin \subseteq {"group", "escaped"} /\ timedOut \in BOOLEAN
      /\ (code = Killed => "child" \in doomed)
      /\ pc \in Started => code # None
      /\ pc = "wait" /\ code = Running => timedOut
  BY DEF ProcessInv, Types, CodeInv, DoomInv
<1>1. CASE Own
  BY <1>1 DEF Own, Block, FindBudgetSpent, Launch, Judge, Conclude, TooLate, Goto, processes, asked
<1>2. CASE (Start \/ FailToStart \/ SeeExit \/ SeeDeadline) /\ UNCHANGED asked
  <2>1. CASE Start \/ FailToStart
    BY <1>2, <2>1 DEF Start, FailToStart, Goto, processes, asked
  <2>2. CASE SeeExit
    BY <1>2, <2>2 DEF SeeExit, Goto, processes, asked
  <2>3. CASE SeeDeadline
    BY <1>2, <2>3 DEF SeeDeadline, Goto, processes, asked
  <2> QED
    BY <1>2, <2>1, <2>2, <2>3
<1>3. CASE (CheckChild \/ KillGroup \/ Waited) /\ UNCHANGED asked
  <2>1. CASE CheckChild
    <3>1. code # Running /\ pc = "late" => code \in ExitCode
      BY <1>0 DEF Codes, Started
    <3> QED
      BY <1>3, <2>1, <3>1 DEF CheckChild, Goto, processes, asked
  <2>2. CASE KillGroup
    BY <1>3, <2>2 DEF KillGroup, Goto, asked
  <2>3. CASE Waited
    BY <1>3, <2>3 DEF Waited, Goto, processes, asked
  <2> QED
    BY <1>3, <2>1, <2>2, <2>3
<1>4. CASE (Join \/ ReadSinks \/ Return) /\ UNCHANGED asked
  BY <1>4 DEF Join, ReadSinks, Return, Goto, processes, asked
<1>5. CASE (Thread \/ DeadlinePasses) /\ UNCHANGED asked
  BY <1>5 DEF Thread, Feed, ReadPipe, EndOfPipe, DeadlinePasses, caller, processes, asked
<1>6. CASE Processes /\ UNCHANGED asked
  <2>1. UNCHANGED <<caller, doomed, verdict>> /\ (code \in ExitCode => code' \in ExitCode)
    BY <1>0, <1>6 DEF Processes, Write, Spawn, Exit, Die, Leave, Alive, caller, processes, streams, asked
  <2> QED
    BY <2>1 DEF caller
<1>7. CASE BudgetEnds \/ UNCHANGED vars
  BY <1>7 DEF BudgetEnds, vars, runnerVars, caller, processes, asked
<1> QED
  BY <1>1, <1>2, <1>3, <1>4, <1>5, <1>6, <1>7 DEF Next, Caller, Done

-----------------------------------------------------------------------------
(* The output *)

LEMMA InitStream ==
  ASSUME Init
  PROVE  StreamInv /\ PieceInv /\ WholeInv
<1>1. \A s \in Stream : /\ pipe[s] = << >> /\ sink[s] = << >> /\ wrote[s] = << >>
                        /\ reader[s] = "open"
  BY DEF Init, RunnerInit
<1>2. StreamInv
  <2>1. \A s \in Stream : Len(pipe[s]) = 0 /\ Len(sink[s]) = 0 /\ Len(wrote[s]) = 0
    <3>1. Len(<< >>) = 0
      OBVIOUS
    <3> QED
      BY <1>1, <3>1, Zenon
  <2>2. \A W, P, K : Linked(W, 0, P, 0, K, 0)
    BY DEF Linked
  <2>3. 0 + 0 = 0
    OBVIOUS
  <2> QED
    BY <2>1, <2>2, <2>3, Zenon DEF StreamInv
<1> QED
  BY <1>1, <1>2 DEF Init, PieceInv, WholeInv

\* A write adds to what is unread.
LEMMA LinkedWrite ==
  ASSUME NEW W, NEW P, NEW K, NEW W1, NEW P1,
         NEW w \in Nat, NEW p \in Nat, NEW k \in Nat, NEW w1 \in Int, NEW p1 \in Int,
         Linked(W, w, P, p, K, k), p1 = p + 1, w1 = w + 1,
         \A i \in 1..p : P1[i] = P[i],
         \A i \in 1..w : W1[i] = W[i],
         P1[p + 1] = W1[w + 1]
  PROVE  Linked(W1, w1, P1, p1, K, k)
<1> USE DEF Linked
<1>1. ASSUME NEW i \in 1..p1
      PROVE  P1[i] = W1[w1 - p1 + i]
  <2>1. CASE i <= p
    <3>1. i \in 1..p /\ w - p + i \in 1..w /\ w - p + i = w1 - p1 + i
      BY <2>1
    <3> QED
      BY <3>1
  <2>2. CASE ~(i <= p)
    <3>1. i = p + 1 /\ w1 - p1 + i = w + 1
      BY <2>2
    <3> QED
      BY <3>1
  <2> QED
    BY <2>1, <2>2
<1>2. ASSUME NEW i \in 1..k
      PROVE  K[i] = W1[w1 - p1 - k + i]
  <2>1. w - p - k + i \in 1..w /\ w - p - k + i = w1 - p1 - k + i
    OBVIOUS
  <2> QED
    BY <2>1
<1> QED
  BY <1>1, <1>2

\* Sinks, pipes and what was written change together.
LEMMA NextStream ==
  ASSUME Types, StreamInv, [Next]_vars
  PROVE  StreamInv'
<1>1. \A s \in Stream : /\ pipe[s] \in Seq(Chunk) /\ wrote[s] \in Seq(Chunk) /\ sink[s] \in Seq(Chunk)
                        /\ Len(pipe[s]) \in Nat /\ Len(wrote[s]) \in Nat /\ Len(sink[s]) \in Nat
  BY DEF Types, Texts
<1>2. CASE UNCHANGED <<pipe, wrote, sink, cut>>
  BY <1>2 DEF StreamInv
<1>3. ASSUME NEW s \in Stream, ReadPipe(s)
      PROVE  StreamInv'
  <2>1. wrote' = wrote
    BY <1>3 DEF ReadPipe
  <2>2. PICK d \in 0..Len(sink[s]) + 1 :
          /\ Len(sink'[s]) = Len(sink[s]) + 1 - d
          /\ ~cut'[s] => ~cut[s] /\ d = 0
          /\ \A i \in 1..Len(sink'[s]) :
               sink'[s][i] = IF d + i <= Len(sink[s]) THEN sink[s][d + i] ELSE pipe[s][1]
    BY <1>3, ReadPipeIs
  <2>3. /\ \A q \in Stream \ {s} : pipe'[q] = pipe[q] /\ sink'[q] = sink[q] /\ cut'[q] = cut[q]
        /\ Len(pipe[s]) > 0 /\ Len(pipe'[s]) = Len(pipe[s]) - 1
        /\ \A i \in 1..Len(pipe'[s]) : pipe'[s][i] = pipe[s][i + 1]
    BY <1>3, ReadPipeIs
  <2>4. Linked(wrote[s], Len(wrote[s]), pipe[s], Len(pipe[s]), sink[s], Len(sink[s]))
    BY DEF StreamInv
  <2>5. /\ Linked(wrote[s], Len(wrote[s]), pipe'[s], Len(pipe'[s]), sink'[s], Len(sink'[s]))
        /\ d = 0 => Len(sink'[s]) + Len(pipe'[s]) = Len(sink[s]) + Len(pipe[s])
    <3> DEFINE W == wrote[s]  P == pipe[s]  K == sink[s]  P1 == pipe'[s]  K1 == sink'[s]
               w == Len(W)  p == Len(P)  k == Len(K)  p1 == Len(P1)  k1 == Len(K1)
    <3>1. w \in Nat /\ p \in Nat /\ k \in Nat /\ p > 0 /\ Linked(W, w, P, p, K, k)
      BY <1>1, <2>3, <2>4
    <3>2. p1 = p - 1 /\ \A i \in 1..p1 : P1[i] = P[i + 1]
      BY <2>3
    <3>3. /\ k1 = k + 1 - d /\ d \in Nat /\ d <= k + 1
          /\ \A i \in 1..k1 : d + i <= k => K1[i] = K[d + i]
          /\ \A i \in 1..k1 : d + i > k => K1[i] = P[1]
      BY <2>2, <3>1
    <3> HIDE DEF w, p, k, p1, k1, W, P, K, P1, K1
    <3>4. p1 \in Int /\ k1 \in Int
      BY <3>1, <3>2, <3>3
    <3>5. Linked(W, w, P1, p1, K1, k1)
      <4>1. ASSUME NEW i \in 1..p1
            PROVE  P1[i] = W[w - p1 + i]
        <5>1. P1[i] = P[i + 1] /\ i + 1 \in 1..p /\ w - p + (i + 1) = w - p1 + i
          BY <3>1, <3>2
        <5> QED
          BY <3>1, <5>1 DEF Linked
      <4>2. ASSUME NEW i \in 1..k1
            PROVE  K1[i] = W[w - p1 - k1 + i]
        <5>1. CASE d + i <= k
          <6>1. K1[i] = K[d + i] /\ d + i \in 1..k /\ w - p - k + (d + i) = w - p1 - k1 + i
            BY <3>1, <3>2, <3>3, <5>1
          <6> QED
            BY <3>1, <6>1 DEF Linked
        <5>2. CASE d + i > k
          <6>1. K1[i] = P[1] /\ 1 \in 1..p /\ w - p + 1 = w - p1 - k1 + i
            BY <3>1, <3>2, <3>3, <5>2
          <6> QED
            BY <3>1, <6>1 DEF Linked
        <5> QED
          BY <3>1, <3>3, <3>4, <5>1, <5>2
      <4>3. k1 + p1 <= w
        BY <3>1, <3>2, <3>3 DEF Linked
      <4> QED
        BY <4>1, <4>2, <4>3 DEF Linked
    <3>6. d = 0 => k1 + p1 = k + p
      BY <3>1, <3>2, <3>3, <3>4
    <3> QED
      BY <3>5, <3>6 DEF w, p, k, p1, k1, W, P, K, P1, K1
  <2>6. ~cut'[s] => Len(sink'[s]) + Len(pipe'[s]) = Len(wrote[s])
    BY <2>2, <2>5 DEF StreamInv
  <2> QED
    BY <2>1, <2>3, <2>5, <2>6 DEF StreamInv
<1>4. ASSUME NEW s \in Stream, NEW c \in Chunk, Write(s, c)
      PROVE  StreamInv'
  <2>1. sink' = sink /\ cut' = cut
    BY <1>4 DEF Write
  <2>2. /\ \A q \in Stream \ {s} : pipe'[q] = pipe[q] /\ wrote'[q] = wrote[q]
        /\ Len(pipe'[s]) = Len(pipe[s]) + 1 /\ Len(wrote'[s]) = Len(wrote[s]) + 1
        /\ \A i \in 1..Len(pipe[s]) : pipe'[s][i] = pipe[s][i]
        /\ \A i \in 1..Len(wrote[s]) : wrote'[s][i] = wrote[s][i]
        /\ pipe'[s][Len(pipe[s]) + 1] = wrote'[s][Len(wrote[s]) + 1]
    BY <1>4, WriteIs
  <2>3. Linked(wrote[s], Len(wrote[s]), pipe[s], Len(pipe[s]), sink[s], Len(sink[s]))
    BY DEF StreamInv
  <2>4. /\ Linked(wrote'[s], Len(wrote'[s]), pipe'[s], Len(pipe'[s]), sink[s], Len(sink[s]))
        /\ ~cut[s] => Len(sink[s]) + Len(pipe'[s]) = Len(wrote'[s])
    <3> DEFINE W == wrote[s]  P == pipe[s]  K == sink[s]  P1 == pipe'[s]  W1 == wrote'[s]
               w == Len(W)  p == Len(P)  k == Len(K)  p1 == Len(P1)  w1 == Len(W1)
    <3>1. /\ w \in Nat /\ p \in Nat /\ k \in Nat /\ Linked(W, w, P, p, K, k)
          /\ ~cut[s] => k + p = w
      BY <1>1, <2>3 DEF StreamInv
    <3>2. /\ p1 = p + 1 /\ \A i \in 1..p : P1[i] = P[i]
          /\ w1 = w + 1 /\ \A i \in 1..w : W1[i] = W[i]
          /\ P1[p + 1] = W1[w + 1]
      BY <2>2
    <3> HIDE DEF w, p, k, p1, w1, W, P, K, P1, W1
    <3>3. Linked(W1, w1, P1, p1, K, k)
      BY <3>1, <3>2, LinkedWrite
    <3>4. ~cut[s] => k + p1 = w1
      BY <3>1, <3>2
    <3> QED
      BY <3>3, <3>4 DEF w, p, k, p1, w1, W, P, K, P1, W1
  <2> QED
    BY <2>1, <2>2, <2>4 DEF StreamInv
<1>5. CASE Caller \/ DeadlinePasses
  BY <1>2, <1>5 DEF Caller, Start, FailToStart, SeeExit, SeeDeadline, CheckChild, KillGroup, Waited,
     Join, ReadSinks, Return, DeadlinePasses, streams
<1>6. CASE Feed \/ \E s \in Stream : EndOfPipe(s)
  BY <1>2, <1>6 DEF Feed, EndOfPipe
<1>7. CASE \/ \E k \in {"group", "escaped"} : Spawn(k) \/ Leave(k)
           \/ \E n \in ExitCode : Exit(n)
           \/ \E p \in {"child", "group"} : Die(p)
  BY <1>2, <1>7 DEF Spawn, Leave, Exit, Die, streams
<1>8. CASE Own \/ BudgetEnds \/ UNCHANGED vars
  BY <1>2, <1>8 DEF Own, Block, FindBudgetSpent, Launch, Judge, Conclude, BudgetEnds, vars, runnerVars, streams
<1> QED
  BY <1>3, <1>4, <1>5, <1>6, <1>7, <1>8 DEF Next, Thread, Processes, Done

\* What was returned of a stream stays a piece of what was written.
LEMMA NextPiece ==
  ASSUME Types, StreamInv, PieceInv, [Next]_vars
  PROVE  PieceInv'
<1> DEFINE Piece(text, wr) ==
             \E n \in Len(text)..Len(wr) : \A i \in 1..Len(text) : text[i] = wr[n - Len(text) + i]
<1>1. \A s \in Stream : /\ wrote[s] \in Seq(Chunk) /\ wrote'[s] \in Seq(Chunk)
                        /\ Len(wrote[s]) <= Len(wrote'[s])
                        /\ \A i \in 1..Len(wrote[s]) : wrote'[s][i] = wrote[s][i]
  <2>1. CASE wrote' = wrote
    BY <2>1 DEF Types, Texts
  <2>2. ASSUME NEW s \in Stream, NEW c \in Chunk, Write(s, c)
        PROVE  \A q \in Stream : /\ wrote[q] \in Seq(Chunk) /\ wrote'[q] \in Seq(Chunk)
                                 /\ Len(wrote[q]) <= Len(wrote'[q])
                                 /\ \A i \in 1..Len(wrote[q]) : wrote'[q][i] = wrote[q][i]
    <3>1. /\ wrote' \in Texts /\ wrote \in Texts
          /\ \A q \in Stream \ {s} : wrote'[q] = wrote[q]
          /\ Len(wrote'[s]) = Len(wrote[s]) + 1
          /\ \A i \in 1..Len(wrote[s]) : wrote'[s][i] = wrote[s][i]
      BY <2>2, WriteIs DEF Types
    <3> TAKE q \in Stream
    <3>2. /\ wrote[q] \in Seq(Chunk) /\ wrote'[q] \in Seq(Chunk)
          /\ Len(wrote[q]) \in Nat
      BY <3>1 DEF Texts
    <3>3. CASE q = s
      <4>1. Len(wrote'[q]) = Len(wrote[q]) + 1
        BY <3>1, <3>3
      <4>2. Len(wrote[q]) <= Len(wrote'[q])
        BY <3>2, <4>1
      <4> QED
        BY <3>1, <3>2, <3>3, <4>2
    <3>4. CASE q # s
      <4>1. wrote'[q] = wrote[q]
        BY <3>1, <3>4
      <4> QED
        BY <3>2, <4>1
    <3> QED
      BY <3>3, <3>4
  <2>3. wrote' = wrote \/ \E s \in Stream, c \in Chunk : Write(s, c)
    BY DEF Next, Own, Block, FindBudgetSpent, Launch, Judge, Conclude, Caller, Start, FailToStart, SeeExit,
       SeeDeadline, CheckChild, KillGroup, Waited, Join, ReadSinks, Return, Thread, Feed, ReadPipe,
       EndOfPipe, Processes, Spawn, Leave, Exit, Die, DeadlinePasses, BudgetEnds, Done, vars, runnerVars, streams
  <2> QED
    BY <2>1, <2>2, <2>3
<1>2. \/ ReadSinks
      \/ pc' \notin {"flags", "done"}
      \/ pc \in {"flags", "done"} /\ returned'.text = returned.text
  <2>1. CASE Return
    BY <2>1 DEF Return, Goto, Types
  <2>2. CASE Waited
    BY <2>2 DEF Waited, Goto
  <2>3. CASE ~Return /\ ~Waited
    BY <2>3 DEF Next, Own, Block, FindBudgetSpent, Launch, Judge, Conclude, Caller, Start, FailToStart, SeeExit,
       SeeDeadline, CheckChild, KillGroup, Join, ReadSinks, Thread, Feed, ReadPipe, Goto, caller,
       EndOfPipe, Processes, Write, Spawn, Leave, Exit, Die, DeadlinePasses, BudgetEnds, Done, vars, runnerVars
  <2> QED
    BY <2>1, <2>2, <2>3
<1>3. CASE ReadSinks
  <2>1. /\ returned'.text = sink /\ wrote' = wrote
    BY <1>3 DEF ReadSinks, streams, Types
  <2>2. ASSUME NEW s \in Stream
        PROVE  Piece(sink[s], wrote[s])
    <3> DEFINE w == Len(wrote[s])  p == Len(pipe[s])  k == Len(sink[s])
               K == sink[s]  W == wrote[s]
    <3>1. w \in Nat /\ p \in Nat /\ k \in Nat
      BY DEF Types, Texts
    <3>2. k + p <= w /\ \A i \in 1..k : K[i] = W[w - p - k + i]
      BY DEF StreamInv, Linked
    <3> HIDE DEF w, p, k, K, W
    <3>3. w - p \in k..w
      BY <3>1, <3>2
    <3>4. \A i \in 1..k : K[i] = W[(w - p) - k + i]
      BY <3>2
    <3>5. \E n \in k..w : \A i \in 1..k : K[i] = W[n - k + i]
      BY <3>3, <3>4
    <3> QED
      BY <3>5 DEF w, p, k, K, W
  <2> QED
    BY <2>1, <2>2 DEF PieceInv
<1>4. CASE pc \in {"flags", "done"} /\ returned'.text = returned.text
  <2>1. ASSUME NEW s \in Stream
        PROVE  Piece(returned'.text[s], wrote'[s])
    <3> DEFINE T == returned.text[s]  t == Len(T)  w == Len(wrote[s])  w1 == Len(wrote'[s])
               W == wrote[s]  W1 == wrote'[s]
    <3>1. PICK n \in t..w : \A i \in 1..t : T[i] = W[n - t + i]
      BY <1>4 DEF PieceInv
    <3>2. t \in Nat /\ w \in Nat /\ w1 \in Nat
      BY <1>1 DEF Types, Texts
    <3>3. w <= w1 /\ \A i \in 1..w : W1[i] = W[i]
      BY <1>1
    <3> HIDE DEF T, t, w, w1, W, W1
    <3>4. n \in t..w1
      BY <3>1, <3>2, <3>3
    <3>5. ASSUME NEW i \in 1..t
          PROVE  T[i] = W1[n - t + i]
      <4>1. n - t + i \in 1..w
        BY <3>1, <3>2
      <4> QED
        BY <3>1, <3>3, <4>1
    <3>6. \E m \in t..w1 : \A i \in 1..t : T[i] = W1[m - t + i]
      BY <3>4, <3>5
    <3> QED
      BY <1>4, <3>6 DEF T, t, w, w1, W, W1
  <2> QED
    BY <2>1 DEF PieceInv
<1> QED
  BY <1>2, <1>3, <1>4 DEF PieceInv

\* Nothing comes to life again, and nothing is written.
LEMMA Silence ==
  ASSUME Types, code # None, pc \in {"idle", "ready"} => code = None, Alive = {}, [Next]_vars
  PROVE  /\ code' # None /\ Alive' = {}
         /\ \A s \in Stream : ~ \E c \in Chunk : Write(s, c)
         /\ \A s \in Stream : pipe[s] = << >> => pipe'[s] = << >>
         /\ \A s \in Stream : reader[s] = "closed" => reader'[s] = "closed"
<1>1. code # Running /\ kin = {}
  BY DEF Alive
<1>2. \A s \in Stream, c \in Chunk : ~Write(s, c)
  BY DEF Write
<1>3. /\ code' = code /\ kin' = kin
  BY <1>1, <1>2 DEF Next, Own, Block, FindBudgetSpent, Launch, Judge, Conclude, Caller, Start, FailToStart,
     SeeExit, SeeDeadline, CheckChild, KillGroup, Waited, Join, ReadSinks, Return, Thread, Feed, ReadPipe,
     EndOfPipe, Processes, Spawn, Leave, Exit, Die, Alive, Goto, DeadlinePasses, BudgetEnds, Done, vars, runnerVars,
     processes
<1>4. ASSUME NEW s \in Stream
      PROVE  /\ pipe[s] = << >> => pipe'[s] = << >>
             /\ reader[s] = "closed" => reader'[s] = "closed"
  BY <1>2 DEF Next, Own, Block, FindBudgetSpent, Launch, Judge, Conclude, Caller, Start, FailToStart,
     SeeExit, SeeDeadline, CheckChild, KillGroup, Waited, Join, ReadSinks, Return, Thread, Feed, ReadPipe,
     EndOfPipe, Processes, Spawn, Leave, Exit, Die, DeadlinePasses, BudgetEnds, Done, vars, runnerVars,
     streams, Types, Texts
<1> QED
  BY <1>1, <1>2, <1>3, <1>4 DEF Alive

\* The readers of a silent tree end, and then the sinks stay as they are.
LEMMA NextWhole ==
  ASSUME SlowThreads = FALSE, ProcessInv, WholeInv, [Next]_vars
  PROVE  WholeInv'
<1> DEFINE after == {"join", "text", "flags", "done"}
<1> USE DEF ProcessInv, CodeInv
<1>1. Types /\ (pc \in after => code # None)
  OBVIOUS
<1>2. ASSUME code # None, Alive = {}
      PROVE  /\ code' # None /\ Alive' = {}
             /\ \A s \in Stream : pipe[s] = << >> => pipe'[s] = << >>
             /\ \A s \in Stream : reader[s] = "closed" => reader'[s] = "closed"
  BY <1>2, Silence
<1>3. /\ pc' \in after => Waited \/ (pc \in after /\ survivors' = survivors)
      /\ pc' \in after \ {"join"} => Join \/ (pc \in after \ {"join"} /\ survivors' = survivors)
      /\ pc' \in {"flags", "done"} =>
           ReadSinks \/ (pc \in {"flags", "done"} /\ survivors' = survivors)
      /\ pc' = "done" => Return \/ UNCHANGED <<pc, survivors, returned>>
  <2>1. CASE Join
    <3>1. pc = "join" /\ pc' = "text" /\ survivors' = survivors
      BY <2>1 DEF Join, Goto
    <3> QED
      BY <2>1, <3>1
  <2>7. CASE ReadSinks
    <3>1. pc = "text" /\ pc' = "flags" /\ survivors' = survivors
      BY <2>7 DEF ReadSinks, Goto
    <3> QED
      BY <2>7, <3>1
  <2>8. CASE Return
    <3>1. pc = "flags" /\ pc' = "done" /\ survivors' = survivors
      BY <2>8 DEF Return, Goto
    <3> QED
      BY <2>8, <3>1
  <2>9. CASE Waited
    <3>1. pc' = "join"
      BY <2>9 DEF Waited, Goto
    <3>2. pc' \notin after \ {"join"} /\ pc' \notin {"flags", "done"} /\ pc' # "done"
      BY <3>1
    <3> HIDE DEF after
    <3> QED
      BY <2>9, <3>2, Zenon
  <2>2. CASE Start \/ FailToStart \/ SeeExit \/ SeeDeadline \/ CheckChild \/ KillGroup
    BY <2>2 DEF Start, FailToStart, SeeExit, SeeDeadline, CheckChild, KillGroup, Goto
  <2>3. CASE Own
    BY <2>3 DEF Own, Block, FindBudgetSpent, Launch, Judge, Conclude, Goto
  <2>4. CASE UNCHANGED caller
    BY <2>4 DEF caller
  <2>5. CASE DeadlinePasses
    BY <2>5 DEF DeadlinePasses
  <2>6. CASE Thread \/ Processes \/ BudgetEnds \/ UNCHANGED vars
    <3>1. UNCHANGED caller
      BY <2>6 DEF Thread, Feed, ReadPipe, EndOfPipe, Processes, Write, Spawn, Leave, Exit, Die, BudgetEnds, vars,
         runnerVars
    <3> QED
      BY <2>4, <3>1
  <2> QED
    BY <2>1, <2>2, <2>3, <2>5, <2>6, <2>7, <2>8, <2>9 DEF Next, Caller, Done
<1>4. ASSUME NEW s \in Stream, reader'[s] = "closed"
      PROVE  code' # None /\ Alive' = {} /\ pipe'[s] = << >>
  <2>1. CASE reader[s] = "closed"
    BY <1>2, <2>1 DEF WholeInv
  <2>2. CASE reader[s] # "closed"
    <3>1. EndOfPipe(s)
      BY <1>4, <2>2 DEF Next, Own, Block, FindBudgetSpent, Launch, Judge, Conclude, Caller, Start, FailToStart,
         SeeExit, SeeDeadline, CheckChild, KillGroup, Waited, Join, ReadSinks, Return, Thread, Feed,
         ReadPipe, EndOfPipe, Processes, Write, Spawn, Leave, Exit, Die, DeadlinePasses, BudgetEnds, Done, vars,
         runnerVars, streams, Types
    <3> QED
      BY <3>1 DEF EndOfPipe, processes, Alive
  <2> QED
    BY <2>1, <2>2
<1>5. ASSUME pc' \in after, survivors' = {}
      PROVE  Alive' = {}
  <2>1. CASE Waited
    BY <1>5, <2>1 DEF Waited, processes, Alive
  <2>2. CASE pc \in after /\ survivors' = survivors
    BY <1>1, <1>2, <1>5, <2>2 DEF WholeInv
  <2> QED
    BY <1>3, <1>5, <2>1, <2>2
<1>6. ASSUME pc' \in after \ {"join"}, survivors' = {}
      PROVE  \A s \in Stream : reader'[s] = "closed"
  <2>1. CASE Join
    <3>1. pc = "join" /\ survivors = {} /\ reader' = reader
      BY <1>6, <2>1 DEF Join, Goto, streams
    <3>2. Alive = {}
      BY <3>1 DEF WholeInv
    <3> QED
      BY <2>1, <3>1, <3>2 DEF Join, MayGiveUp, Unhindered, Finished
  <2>2. CASE pc \in after \ {"join"} /\ survivors' = survivors
    BY <1>1, <1>2, <1>6, <2>2 DEF WholeInv
  <2> QED
    BY <1>3, <1>6, <2>1, <2>2
<1>7. ASSUME pc \in after \ {"join"}, survivors = {}
      PROVE  sink' = sink /\ cut' = cut
  <2>1. \A s \in Stream : ~ReadPipe(s)
    BY <1>7 DEF ReadPipe, WholeInv
  <2> QED
    BY <2>1 DEF Next, Own, Block, FindBudgetSpent, Launch, Judge, Conclude, Caller, Start, FailToStart, SeeExit,
       SeeDeadline, CheckChild, KillGroup, Waited, Join, ReadSinks, Return, Thread, Feed,
       EndOfPipe, Processes, Write, Spawn, Leave, Exit, Die, DeadlinePasses, BudgetEnds, Done, vars,
       runnerVars, streams
<1>8. ASSUME pc' \in {"flags", "done"}, survivors' = {}
      PROVE  returned'.text = sink'
  <2>1. CASE ReadSinks
    BY <2>1 DEF ReadSinks, Types, streams
  <2>2. CASE pc \in {"flags", "done"} /\ survivors' = survivors
    <3>1. returned'.text = returned.text
      BY <1>8, <2>2 DEF Next, Own, Block, FindBudgetSpent, Launch, Judge, Conclude, Caller, Start, FailToStart,
         SeeExit, SeeDeadline, CheckChild, KillGroup, Waited, Join, ReadSinks, Return, Thread, Feed,
         ReadPipe, EndOfPipe, Processes, Write, Spawn, Leave, Exit, Die, Goto, caller, DeadlinePasses, BudgetEnds,
         Done, vars, runnerVars, Types
    <3> QED
      BY <1>7, <1>8, <2>2, <3>1 DEF WholeInv
  <2> QED
    BY <1>3, <1>8, <2>1, <2>2
<1>9. ASSUME pc' = "done", survivors' = {}
      PROVE  returned'.truncated = \E s \in Stream : cut'[s]
  <2>1. CASE Return
    BY <2>1 DEF Return, Types, streams
  <2>2. CASE UNCHANGED <<pc, survivors, returned>>
    BY <1>7, <1>9, <2>2 DEF WholeInv
  <2> QED
    BY <1>3, <1>9, <2>1, <2>2
<1> QED
  BY <1>4, <1>5, <1>6, <1>8, <1>9 DEF WholeInv

-----------------------------------------------------------------------------
(* What run returns, and what the candidate gets *)

\* A piece of a sequence, item by item, is a subsequence of it.
LEMMA PieceIs ==
  ASSUME NEW T \in Seq(Chunk), NEW W \in Seq(Chunk), NEW n \in Len(T)..Len(W),
         \A i \in 1..Len(T) : T[i] = W[n - Len(T) + i]
  PROVE  T = SubSeq(W, n - Len(T) + 1, n)
<1> DEFINE t == Len(T)
           w == Len(W)
           m == n - t + 1
           Sub == SubSeq(W, m, n)
<1>1. t \in Nat /\ w \in Nat /\ n \in t..w /\ \A i \in 1..w : W[i] \in Chunk
  OBVIOUS
<1>2. \A i \in 1..t : T[i] = W[n - t + i]
  OBVIOUS
<1> HIDE DEF t, w
<1>3. m \in Int /\ n \in Int /\ n - m + 1 = t /\ (m <= n \/ t = 0) /\ (m <= n => n - m + 1 = t)
  BY <1>1
<1>4. \A i \in m..n : W[i] \in Chunk
  BY <1>1, <1>3
<1>5. /\ Sub \in Seq(Chunk) /\ Len(Sub) = IF m <= n THEN n - m + 1 ELSE 0
      /\ \A i \in 1..n - m + 1 : Sub[i] = W[m + i - 1]
  BY <1>3, <1>4, SubSeqProperties
<1>6. Len(Sub) = t
  BY <1>1, <1>3, <1>5
<1>7. ASSUME NEW i \in 1..t
      PROVE  T[i] = Sub[i]
  <2>1. Sub[i] = W[m + i - 1]
    BY <1>3, <1>5
  <2>2. m + i - 1 = n - t + i
    BY <1>1
  <2> QED
    BY <1>2, <2>1, <2>2
<1>8. T = Sub
  <2>1. Len(T) = Len(Sub) /\ \A i \in 1..Len(T) : T[i] = Sub[i]
    BY <1>6, <1>7 DEF t
  <2>2. Sub \in Seq(Chunk)
    BY <1>5
  <2> HIDE DEF Sub
  <2> QED
    BY <2>1, <2>2, SeqEqual
<1> QED
  BY <1>8 DEF t

\* When every pipe is read to its end and nothing was dropped, the sinks hold all.
LEMMA SinksHoldAll ==
  ASSUME Types, StreamInv, \A s \in Stream : pipe[s] = << >> /\ ~cut[s]
  PROVE  sink = wrote
<1>1. ASSUME NEW s \in Stream
      PROVE  sink[s] = wrote[s]
  <2> DEFINE w == Len(wrote[s])
             p == Len(pipe[s])
             k == Len(sink[s])
             K == sink[s]
             W == wrote[s]
  <2>1. w \in Nat /\ p \in Nat /\ k \in Nat /\ K \in Seq(Chunk) /\ W \in Seq(Chunk)
    BY DEF Types, Texts
  <2>2. p = 0 /\ k + p = w /\ \A i \in 1..k : K[i] = W[w - p - k + i]
    <3>1. p = 0
      <4>1. Len(<< >>) = 0
        OBVIOUS
      <4> QED
        BY <4>1
    <3>2. ~cut[s] /\ (~cut[s] => k + p = w)
      BY DEF StreamInv
    <3>3. \A i \in 1..k : K[i] = W[w - p - k + i]
      BY DEF StreamInv, Linked
    <3> QED
      BY <3>1, <3>2, <3>3
  <2> HIDE DEF w, p, k
  <2>3. k = w /\ \A i \in 1..k : w - p - k + i = i
    BY <2>1, <2>2
  <2>4. \A i \in 1..k : K[i] = W[i]
    BY <2>2, <2>3
  <2> QED
    BY <2>1, <2>3, <2>4, SeqEqual DEF k, w
<1> QED
  BY <1>1 DEF Types, Texts

LEMMA ReturnedWhole ==
  ASSUME Types, StreamInv, WholeInv, pc = "done", survivors = {}, ~returned.truncated
  PROVE  returned.text = wrote
<1>1. \A s \in Stream : pipe[s] = << >> /\ ~cut[s]
  BY DEF WholeInv
<1> QED
  BY <1>1, SinksHoldAll DEF WholeInv

\* The verdict comes once and last.
JudgedInv ==
  /\ verdict # "none" => pc = "judged"
  /\ exitedOver => over
  /\ ConfirmedIsShown

OutputInv == StreamInv /\ PieceInv /\ WholeInv

LEMMA JudgeConfirms ==
  ASSUME ProcessInv, OutputInv, JudgedInv, Judge, verdict' = "confirmed"
  PROVE  ConfirmedIsShown'
<1>1. /\ pc = "done" /\ ~TooLate
      /\ UNCHANGED <<code, timedOut, exitedOver, returned, survivors, wrote>>
  BY DEF Judge, Conclude, processes, streams
<1>2. PICK found \in Findings(returned.text) : Judgement(returned, found) = "confirmed"
  BY <1>1 DEF Judge, Conclude
<1>3. /\ returned.code \notin {0, Running} /\ found
      /\ FailureClass(returned.text) \in {"assertion", "static-diagnostic"}
  BY <1>2 DEF Judgement
<1>4. code \in ExitCode \ {0}
  <2>1. returned.code = code /\ returned.code # None /\ code # Killed
    BY <1>1, <1>3 DEF ProcessInv, CodeInv, DoomInv, TooLate
  <2> QED
    BY <1>3, <2>1 DEF ProcessInv, Types, Codes
<1>5. Shown(returned.text, "expected") /\ ~Shown(returned.text, "environment")
  <2>1. ~Shown(returned.text, "environment")
    BY <1>3 DEF FailureClass
  <2>2. Shown(returned.text, "expected")
    BY <1>3 DEF Findings, Matched
  <2> QED
    BY <2>1, <2>2
<1>6. ~returned.truncated /\ survivors = {} => returned.text = wrote
  BY <1>1, ReturnedWhole DEF ProcessInv, OutputInv
<1>7. ~timedOut /\ ~exitedOver
  BY <1>1 DEF TooLate, JudgedInv
<1>8. (Shown(wrote, "expected") /\ ~Shown(wrote, "environment"))' =
        (Shown(wrote, "expected") /\ ~Shown(wrote, "environment"))
  BY <1>1 DEF Shown
<1> QED
  BY <1>1, <1>4, <1>5, <1>6, <1>7, <1>8 DEF ConfirmedIsShown

LEMMA NextJudged ==
  ASSUME ProcessInv, OutputInv, JudgedInv, [Next]_vars
  PROVE  JudgedInv'
<1>1. CASE Judge
  <2>1. pc' = "judged" /\ exitedOver' = exitedOver /\ over' = over
    BY <1>1 DEF Judge, Conclude
  <2>2. verdict' = "confirmed" => ConfirmedIsShown'
    BY <1>1, JudgeConfirms
  <2>3. verdict' # "confirmed" => ConfirmedIsShown'
    BY DEF ConfirmedIsShown
  <2> QED
    BY <2>1, <2>2, <2>3 DEF JudgedInv
<1>2. CASE Block \/ FindBudgetSpent
  <2>1. pc' = "judged" /\ exitedOver' = exitedOver /\ over' = over /\ verdict' # "confirmed"
    BY <1>2 DEF Block, FindBudgetSpent, Conclude
  <2> QED
    BY <2>1 DEF JudgedInv, ConfirmedIsShown
<1>3. CASE UNCHANGED vars
  BY <1>3 DEF vars, runnerVars, caller, streams, processes, asked, JudgedInv, ConfirmedIsShown, Shown
<1>4. CASE Launch \/ ((Caller \/ Thread \/ Processes \/ DeadlinePasses) /\ pc \notin Ends /\ UNCHANGED asked)
  <2>1. verdict' = verdict /\ exitedOver' = exitedOver /\ over' = over /\ pc # "judged"
    BY <1>4 DEF Launch, Goto, asked, Ends
  <2> QED
    BY <2>1 DEF JudgedInv, ConfirmedIsShown
<1>5. CASE BudgetEnds /\ pc \notin Ends
  <2>1. verdict' = verdict /\ over' = TRUE /\ pc # "judged"
    BY <1>5 DEF BudgetEnds, Ends
  <2> QED
    BY <2>1 DEF JudgedInv, ConfirmedIsShown
<1> QED
  BY <1>1, <1>2, <1>3, <1>4, <1>5 DEF Next, Own, Done

-----------------------------------------------------------------------------
(* Theorems *)

\* A command that ran at its deadline ends in a timeout, and only a process that left
\* its group lives on unkilled, unless the child ended by itself between two polls.
THEOREM GroundingKills == Spec => []KilledTreeIsGone
<1>1. Init => ProcessInv /\ TimeoutInv
  BY InitProcess DEF Init, RunnerInit, TimeoutInv
<1>2. ProcessInv /\ TimeoutInv /\ [Next]_vars => ProcessInv' /\ TimeoutInv'
  BY NextProcess, NextTimeout
<1>3. ProcessInv /\ TimeoutInv => KilledTreeIsGone
  BY DEF ProcessInv, Types, TimeoutInv, KilledTreeIsGone
<1> QED
  BY <1>1, <1>2, <1>3, PTL DEF Spec

IInv == ProcessInv /\ OutputInv /\ JudgedInv

LEMMA SpecIInv ==
  ASSUME SlowThreads = FALSE
  PROVE  Spec => []IInv
<1>1. Init => IInv
  BY InitProcess, InitStream DEF IInv, OutputInv, JudgedInv, ConfirmedIsShown, Init
<1>2. IInv /\ [Next]_vars => IInv'
  <2> SUFFICES ASSUME IInv, [Next]_vars
               PROVE  IInv'
    OBVIOUS
  <2>1. ProcessInv'
    BY NextProcess DEF IInv
  <2>2. OutputInv'
    BY NextStream, NextPiece, NextWhole DEF IInv, OutputInv, ProcessInv
  <2>3. JudgedInv'
    BY NextJudged DEF IInv
  <2> QED
    BY <2>1, <2>2, <2>3 DEF IInv
<1> QED
  BY <1>1, <1>2, PTL DEF Spec

\* What run returns of a stream is an unbroken piece of what was written there, and
\* all of it if run does not call it truncated and nobody outlived the wait.
THEOREM GroundingOutput ==
  ASSUME SlowThreads = FALSE
  PROVE  Spec => []OutputIsWhole
<1>1. IInv => OutputIsWhole
  <2> SUFFICES ASSUME IInv, pc = "done"
               PROVE  /\ \A s \in Stream : \E n \in Len(returned.text[s])..Len(wrote[s]) :
                           returned.text[s] = SubSeq(wrote[s], n - Len(returned.text[s]) + 1, n)
                      /\ ~returned.truncated /\ survivors = {} => returned.text = wrote
    BY DEF OutputIsWhole
  <2>1. ~returned.truncated /\ survivors = {} => returned.text = wrote
    BY ReturnedWhole DEF IInv, ProcessInv, OutputInv
  <2>2. ASSUME NEW s \in Stream
        PROVE  \E n \in Len(returned.text[s])..Len(wrote[s]) :
                 returned.text[s] = SubSeq(wrote[s], n - Len(returned.text[s]) + 1, n)
    <3>1. returned.text[s] \in Seq(Chunk) /\ wrote[s] \in Seq(Chunk)
      BY DEF IInv, ProcessInv, Types, Texts
    <3>2. PICK n \in Len(returned.text[s])..Len(wrote[s]) :
            \A i \in 1..Len(returned.text[s]) :
              returned.text[s][i] = wrote[s][n - Len(returned.text[s]) + i]
      BY DEF IInv, OutputInv, PieceInv
    <3> DEFINE T == returned.text[s]
               W == wrote[s]
    <3>3. T \in Seq(Chunk) /\ W \in Seq(Chunk) /\ n \in Len(T)..Len(W)
      BY <3>1
    <3>4. \A i \in 1..Len(T) : T[i] = W[n - Len(T) + i]
      BY <3>2
    <3> HIDE DEF T, W
    <3>5. T = SubSeq(W, n - Len(T) + 1, n)
      BY <3>3, <3>4, PieceIs
    <3> QED
      BY <3>3, <3>5 DEF T, W
  <2> QED
    BY <2>1, <2>2
<1> QED
  BY <1>1, SpecIInv, PTL

\* A confirmed verification ended by itself, within the budget, with a failure that
\* showed what was expected.
THEOREM GroundingConfirms ==
  ASSUME SlowThreads = FALSE
  PROVE  Spec => []ConfirmedIsShown
BY SpecIInv, PTL DEF IInv, JudgedInv

-----------------------------------------------------------------------------
(* What a verdict says of the outcome that was returned *)

\* Only an outcome that came in within both deadlines is confirmed or not
\* reproduced: a failure of a class that counts, in whose text an expected pattern
\* stands, or an end without a failure.
VerdictSays ==
  /\ verdict # "none" => pc = "judged"
  /\ verdict \in {"confirmed", "not-reproduced"} => ~timedOut /\ ~over
  /\ verdict = "not-reproduced" => returned.code = 0
  /\ verdict = "confirmed" =>
       /\ returned.code \notin {0, Running}
       /\ FailureClass(returned.text) \in {"assertion", "static-diagnostic"}
       /\ Matched(returned.text)

LEMMA JudgementSays ==
  ASSUME NEW o, NEW found \in Findings(o.text)
  PROVE  /\ Judgement(o, found) = "confirmed" =>
              /\ o.code \notin {0, Running} /\ Matched(o.text)
              /\ FailureClass(o.text) \in {"assertion", "static-diagnostic"}
         /\ Judgement(o, found) = "not-reproduced" => o.code = 0
         /\ Judgement(o, found) # "none"
<1>1. found => Matched(o.text)
  BY DEF Findings
<1>2. CASE o.code = 0
  BY <1>2 DEF Judgement
<1>3. CASE o.code # 0 /\ o.code = Running
  BY <1>3 DEF Judgement
<1>4. CASE o.code \notin {0, Running}
  BY <1>1, <1>4 DEF Judgement
<1> QED
  BY <1>2, <1>3, <1>4

LEMMA NextVerdict ==
  ASSUME VerdictSays, [Next]_vars
  PROVE  VerdictSays' /\ (verdict # "none" => verdict' = verdict)
<1>1. CASE Judge
  <2>1. /\ pc = "done" /\ pc' = "judged"
        /\ UNCHANGED <<timedOut, returned, request, over>>
    BY <1>1 DEF Judge, Conclude
  <2>2. PICK found \in Findings(returned.text) :
          verdict' = IF TooLate THEN "timeout" ELSE Judgement(returned, found)
    BY <1>1 DEF Judge, Conclude
  <2>3. /\ verdict = "none"
        /\ FailureClass(returned.text)' = FailureClass(returned.text)
        /\ Matched(returned.text)' = Matched(returned.text)
    BY <2>1 DEF VerdictSays, FailureClass, Matched, Shown
  <2> QED
    BY <2>1, <2>2, <2>3, JudgementSays DEF VerdictSays, TooLate
<1>2. CASE Block \/ FindBudgetSpent
  BY <1>2 DEF Block, FindBudgetSpent, Conclude, VerdictSays
<1>3. CASE UNCHANGED vars
  BY <1>3 DEF vars, runnerVars, caller, streams, processes, asked, VerdictSays, FailureClass,
    Matched, Shown
<1>4. CASE Launch \/ ((Caller \/ Thread \/ Processes \/ DeadlinePasses) /\ pc \notin Ends /\ UNCHANGED asked)
  BY <1>4 DEF Launch, Goto, asked, Ends, VerdictSays
<1>5. CASE BudgetEnds /\ pc \notin Ends
  BY <1>5 DEF BudgetEnds, Ends, VerdictSays
<1> QED
  BY <1>1, <1>2, <1>3, <1>4, <1>5 DEF Next, Own, Done

\* Whatever the threads do, a verdict says what the returned outcome says, and only
\* an outcome in time is confirmed or not reproduced.
THEOREM GroundingVerdicts == Spec => []VerdictSays
<1>1. Init => VerdictSays
  BY DEF Init, VerdictSays
<1> QED
  BY <1>1, NextVerdict, PTL DEF Spec

\* A verdict once given is never taken back.
THEOREM GroundingIsFinal == Spec => [][verdict # "none" => verdict' = verdict]_vars
<1>1. VerdictSays /\ [Next]_vars => [verdict # "none" => verdict' = verdict]_vars
  BY NextVerdict
<1> QED
  BY GroundingVerdicts, <1>1, PTL DEF Spec

=============================================================================
