--------------------------- MODULE AcpSessionProofs ---------------------------
(***************************************************************************)
(* Proofs about AcpSession, for queues of any size and any number of       *)
(* messages: a completed answer is whole, in order and once, and what the  *)
(* call received it has answered.                                          *)
(***************************************************************************)
EXTENDS AcpSession, SequenceTheorems, TLAPS

-----------------------------------------------------------------------------
(* The inductive invariant *)

Statuses == {None, "completed", "failed", "cancelled", "timed-out", "error"}

\* TypeOK, and what the steps need besides it.
TypeInv ==
  /\ TypeOK
  /\ incoming \in Seq(MessageType)
  /\ parts \in Seq(Nat)
  /\ written \in [messages : 0..MaxMessages, updates : 0..MaxMessages]
  /\ written.updates <= written.messages
  /\ reader = "publishing" => readerHas \in MessageType

\* The call has no status before it stops, nor is it completed when it is stopped;
\* there is no reader before it is started.
StatusInv ==
  /\ Listening => status = None /\ ~closed
  /\ pc \in {"stopped", "grace"} => status \in {"cancelled", "timed-out"} /\ ~closed
  /\ pc \in {"called", "spawned"} => reader = "unborn"

\* One if the message is an update.
Step(m) == IF m.kind = "update" THEN 1 ELSE 0

\* Nothing failed among the first i messages of the queue.
Clean(i) == \A j \in 1..i : incoming[j].kind # "failure"

\* How many updates the child wrote up to the i-th message of the queue.
Before(i) == IF i = 0 THEN Len(parts) ELSE incoming[i].updates

\* The queue goes on where the kept parts end, and ends where the reader goes
\* on, until something fails.
StreamInv ==
  Listening =>
    /\ \A i \in 1..Len(incoming) :
         Clean(i) => incoming[i].updates = Before(i - 1) + Step(incoming[i])
    /\ Clean(Len(incoming)) =>
         IF reader = "publishing"
         THEN readerHas.kind # "failure" =>
                /\ readerHas.updates = Before(Len(incoming)) + Step(readerHas)
                /\ readerHas.updates = written.updates
         ELSE reader # "ended" => Before(Len(incoming)) = written.updates
    /\ parts = [i \in 1..Len(parts) |-> i]

\* Nothing is owed before an error, and what is said after session/cancel.
AnswerInv ==
  /\ Listening \/ pc \in {"stopped", "grace"} => owed = 0
  /\ status = "completed" => owed = 0
  /\ said # {} => pc \in {"grace", "closing"}
  /\ said \subseteq {"cancel", "declined", "unavailable"}

IInv == TypeInv /\ StatusInv /\ StreamInv /\ AnswerInv /\ OutputComplete

-----------------------------------------------------------------------------
(* Types *)

\* Taking a message off the queue.
LEMMA Taken ==
  ASSUME TypeInv, incoming # << >>
  PROVE  /\ Head(incoming) \in MessageType
         /\ Head(incoming) = incoming[1]
         /\ Tail(incoming) \in Seq(MessageType)
         /\ Len(incoming) \in Nat \ {0}
         /\ Len(Tail(incoming)) = Len(incoming) - 1
         /\ \A i \in 1..Len(Tail(incoming)) : Tail(incoming)[i] = incoming[i + 1]
<1>1. incoming \in Seq(MessageType)
  BY DEF TypeInv
<1> QED
  BY <1>1, HeadTailProperties

\* Putting one in.
LEMMA Put ==
  ASSUME TypeInv, NEW m \in MessageType
  PROVE  /\ Append(incoming, m) \in Seq(MessageType)
         /\ Len(Append(incoming, m)) = Len(incoming) + 1
         /\ \A i \in 1..Len(incoming) : Append(incoming, m)[i] = incoming[i]
         /\ Append(incoming, m)[Len(incoming) + 1] = m
<1>1. incoming \in Seq(MessageType)
  BY DEF TypeInv
<1> QED
  BY <1>1, AppendProperties

\* A sequence of messages has the type of the queue.
LEMMA QueueType ==
  ASSUME NEW q \in Seq(MessageType)
  PROVE  \A i \in DOMAIN q : q[i] \in MessageType
<1>1. Len(q) \in Nat /\ DOMAIN q = 1..Len(q)
  BY LenProperties
<1> QED
  BY <1>1, ElementOfSeq

LEMMA FailureType == Failure \in MessageType
BY LimitAssumption DEF Failure, MessageType

LEMMA KeptType ==
  ASSUME TypeInv, NEW m \in MessageType
  PROVE  /\ Append(parts, m.updates) \in Seq(Nat)
         /\ Len(Append(parts, m.updates)) = Len(parts) + 1
         /\ \A i \in 1..Len(parts) : Append(parts, m.updates)[i] = parts[i]
         /\ Append(parts, m.updates)[Len(parts) + 1] = m.updates
         /\ Len(parts) \in Nat
<1>1. m.updates \in Nat
  BY LimitAssumption DEF MessageType
<1>2. parts \in Seq(Nat)
  BY DEF TypeInv
<1> QED
  BY <1>1, <1>2, AppendProperties, LenProperties

\* What the steps of the calling thread say of its own state.
MainType ==
  /\ pc \in {"called", "spawned", "request", "receive", "stopped", "grace", "closing", "kill",
             "join", "done"}
  /\ phase \in 1..3
  /\ status \in Statuses
  /\ parts \in Seq(Nat)
  /\ outgoing \in 0..QueueMax
  /\ owed \in Nat
  /\ said \subseteq {"request", "unavailable", "declined", "selected", "cancel"}
  /\ final \in MessageType \cup {None}

QueuesType == incoming \in Seq(MessageType) /\ Len(incoming) <= QueueMax /\ closed \in BOOLEAN

ThreadsType ==
  /\ reader \in {"unborn", "top", "reading", "publishing", "ended"}
  /\ writer \in {"unborn", "top", "writing", "publishing", "ended"}
  /\ readerHas \in MessageType \cup {None}
  /\ reader = "publishing" => readerHas \in MessageType

WorldType ==
  /\ child \in {"unborn", "alive", "dead"}
  /\ escaped \in BOOLEAN /\ stop \in {None, "timed-out", "cancelled"}
  /\ written \in [messages : 0..MaxMessages, updates : 0..MaxMessages]
  /\ written.updates <= written.messages

LEMMA TypeParts == TypeInv <=> MainType /\ QueuesType /\ ThreadsType /\ WorldType
<1>1. incoming \in Seq(MessageType) => \A i \in DOMAIN incoming : incoming[i] \in MessageType
  BY QueueType
<1> QED
  BY <1>1 DEF TypeInv, TypeOK, MainType, QueuesType, ThreadsType, WorldType, Statuses

LEMMA InitTypeInv == Init => TypeInv
<1> SUFFICES ASSUME Init PROVE TypeInv
  OBVIOUS
<1>1. MainType
  BY LimitAssumption DEF Init, MainType, Statuses
<1>2. QueuesType
  <2>1. << >> \in Seq(MessageType) /\ Len(<< >>) = 0
    BY EmptySeq
  <2>2. incoming = << >> /\ closed = FALSE
    BY DEF Init
  <2>3. Len(incoming) <= QueueMax
    BY <2>1, <2>2, LimitAssumption
  <2> QED
    BY <2>1, <2>2, <2>3 DEF QueuesType
<1>3. ThreadsType
  BY DEF Init, ThreadsType
<1>4. WorldType
  <2>1. written = [messages |-> 0, updates |-> 0]
    BY DEF Init
  <2>2. written \in [messages : 0..MaxMessages, updates : 0..MaxMessages] /\ written.updates <= written.messages
    BY <2>1, LimitAssumption
  <2> QED
    BY <2>2 DEF Init, WorldType
<1> QED
  BY <1>1, <1>2, <1>3, <1>4, TypeParts

\* What is queued is counted and, once session/cancel is, remembered.
LEMMA QueuedType ==
  ASSUME NEW kind, outgoing \in 0..QueueMax, Send(kind)
  PROVE  /\ outgoing' \in 0..QueueMax
         /\ said' \subseteq said \cup {kind}
         /\ said = {} /\ kind # "cancel" => said' = {}
BY LimitAssumption DEF Send, Queued

\* An answer keeps the bound of the queue.
LEMMA AnswerType ==
  ASSUME TypeInv, NEW b \in BOOLEAN, Answer(b)
  PROVE  /\ outgoing' \in 0..QueueMax /\ owed' = owed
         /\ said' \subseteq said \cup {"unavailable", "declined", "selected"}
         /\ said = {} => said' = {}
         /\ b => said' \subseteq said \cup {"unavailable", "declined"}
<1>1. outgoing \in 0..QueueMax
  BY DEF TypeInv, TypeOK
<1> QED
  BY <1>1, LimitAssumption DEF Answer, Send, Queued

\* How a step of the calling thread looks, apart from its guards.
LEMMA ReceiveType ==
  ASSUME TypeInv, Receive
  PROVE  MainType' /\ QueuesType' /\ ThreadsType' /\ WorldType'
<1> DEFINE m == Head(incoming)
<1>1. m \in MessageType /\ QueuesType'
  BY Taken, LimitAssumption DEF Receive, QueuesType, TypeInv, TypeOK
<1>2. MainType /\ ThreadsType /\ WorldType
  BY TypeParts
<1>3. ThreadsType' /\ WorldType'
  BY <1>2 DEF Receive, threads, world, ThreadsType, WorldType
<1> HIDE DEF m
<1>4. CASE HandleBad
  BY <1>1, <1>2, <1>3, <1>4 DEF HandleBad, Close, MainType, Statuses
<1>5. CASE Stopped /\ HandleLate(m) /\ UNCHANGED <<phase, parts, final>>
  <2>1. status' \in Statuses /\ pc' \in {"stopped", "closing"}
    BY <1>2, <1>5 DEF HandleLate, Close, Stopped, WorldType, Statuses
  <2>2. /\ outgoing' \in 0..QueueMax /\ owed' \in Nat
        /\ said' \subseteq {"request", "unavailable", "declined", "selected", "cancel"}
    <3>1. CASE Answer(TRUE)
      BY <3>1, <1>2, AnswerType DEF MainType
    <3>2. CASE UNCHANGED <<outgoing, said, owed>>
      BY <3>2, <1>2 DEF MainType
    <3>3. CASE Unanswerable
      BY <3>3, <1>2 DEF Unanswerable, MainType
    <3> QED
      BY <3>1, <3>2, <3>3, <1>5 DEF HandleLate
  <2> QED
    BY <2>1, <2>2, <1>1, <1>2, <1>3, <1>5 DEF MainType
<1>6. CASE HandleRequest(m)
  <2>1. CASE Answer(FALSE) /\ UNCHANGED <<pc, status, phase, parts, final>>
    BY <2>1, <1>1, <1>2, <1>3, AnswerType DEF MainType
  <2>2. CASE Unanswerable /\ Close("error") /\ UNCHANGED <<phase, parts, final>>
    BY <2>2, <1>1, <1>2, <1>3 DEF Unanswerable, Close, MainType, Statuses
  <2> QED
    BY <2>1, <2>2, <1>6 DEF HandleRequest
<1>7. CASE HandleUpdate(m)
  BY <1>1, <1>2, <1>3, <1>7, KeptType DEF HandleUpdate, MainType
<1>8. CASE HandleResponse(m)
  BY <1>1, <1>2, <1>3, <1>8 DEF HandleResponse, Close, MainType, Statuses
<1> QED
  BY <1>4, <1>5, <1>6, <1>7, <1>8 DEF Receive, m

LEMMA GraceType ==
  ASSUME TypeInv, ReceiveInGrace
  PROVE  MainType' /\ QueuesType' /\ ThreadsType' /\ WorldType'
<1> DEFINE m == Head(incoming)
<1>1. m \in MessageType /\ QueuesType'
  BY Taken, LimitAssumption DEF ReceiveInGrace, QueuesType, TypeInv, TypeOK
<1>2. MainType /\ ThreadsType /\ WorldType
  BY TypeParts
<1>3. ThreadsType' /\ WorldType'
  BY <1>2 DEF ReceiveInGrace, threads, world, ThreadsType, WorldType
<1> HIDE DEF m
<1>4. pc' \in {"grace", "closing"} /\ UNCHANGED <<phase, status, final>>
  BY DEF ReceiveInGrace
<1>5. parts' \in Seq(Nat)
  BY <1>1, <1>2, KeptType DEF ReceiveInGrace, MainType, m
<1>6. /\ outgoing' \in 0..QueueMax /\ owed' \in Nat
      /\ said' \subseteq {"request", "unavailable", "declined", "selected", "cancel"}
  <2>1. CASE Answer(TRUE)
    BY <2>1, <1>2, AnswerType DEF MainType
  <2>2. CASE UNCHANGED <<owed, outgoing, said>>
    BY <2>2, <1>2 DEF MainType
  <2>3. CASE Unanswerable
    BY <2>3, <1>2 DEF Unanswerable, MainType
  <2> QED
    BY <2>1, <2>2, <2>3 DEF ReceiveInGrace
<1> QED
  BY <1>1, <1>2, <1>3, <1>4, <1>5, <1>6 DEF MainType

\* Publishing keeps the bound of the queue.
LEMMA PublishType ==
  ASSUME TypeInv, NEW m \in MessageType, Publish(m)
  PROVE  incoming' \in Seq(MessageType) /\ Len(incoming') <= QueueMax
<1>1. incoming \in Seq(MessageType) /\ Len(incoming) <= QueueMax /\ Len(incoming) \in Nat
  BY LenProperties DEF TypeInv, TypeOK
<1> QED
  BY <1>1, Put, LimitAssumption DEF Publish, MayPut

LEMMA CallType ==
  ASSUME TypeInv, Call
  PROVE  MainType' /\ QueuesType' /\ ThreadsType' /\ WorldType'
<1>1. MainType /\ QueuesType /\ ThreadsType /\ WorldType
  BY TypeParts
<1> USE <1>1 DEF main, io, threads, world
<1>2. CASE EndEarly
  BY <1>2 DEF EndEarly, Stopped, MainType, QueuesType, ThreadsType, WorldType, Statuses
<1>3. CASE Spawn
  BY <1>3, SwitchAssumption DEF Spawn, MainType, QueuesType, ThreadsType, WorldType
<1>4. CASE StartThreads
  BY <1>4 DEF StartThreads, MainType, QueuesType, ThreadsType, WorldType
<1>5. CASE StartFails
  BY <1>5 DEF StartFails, Close, MainType, QueuesType, ThreadsType, WorldType, Statuses
<1>6. CASE StopBeforeRequest
  BY <1>6 DEF StopBeforeRequest, Close, Stopped, MainType, QueuesType, ThreadsType, WorldType,
              Statuses
<1>7. CASE SendRequest
  <2>1. /\ outgoing' \in 0..QueueMax
        /\ said' \subseteq {"request", "unavailable", "declined", "selected", "cancel"}
    BY <1>7, QueuedType, LimitAssumption DEF SendRequest, Send, CannotSend, MainType
  <2>2. status' \in Statuses /\ pc' \in {"receive", "closing"}
    BY <1>7 DEF SendRequest, Close, MainType, Statuses
  <2> QED
    BY <1>7, <2>1, <2>2 DEF SendRequest, MainType, QueuesType, ThreadsType, WorldType
<1>8. CASE StopReceiving
  BY <1>8 DEF StopReceiving, Stopped, MainType, QueuesType, ThreadsType, WorldType, Statuses
<1>9. CASE CancelPrompt
  <2>1. /\ outgoing' \in 0..QueueMax
        /\ said' \subseteq {"request", "unavailable", "declined", "selected", "cancel"}
    BY <1>9, QueuedType, LimitAssumption DEF CancelPrompt, Send, MainType
  <2> QED
    BY <1>9, <2>1 DEF CancelPrompt, MainType, QueuesType, ThreadsType, WorldType
<1>10. CASE GraceEnds
  BY <1>10 DEF GraceEnds, MainType, QueuesType, ThreadsType, WorldType
<1>11. CASE SetClosed
  <2>1. << >> \in Seq(Nat)
    OBVIOUS
  <2> QED
    BY <1>11, <2>1 DEF SetClosed, MainType, QueuesType, ThreadsType, WorldType
<1>12. CASE Kill
  BY <1>12 DEF Kill, MainType, QueuesType, ThreadsType, WorldType
<1>13. CASE ClosePipes
  BY <1>13 DEF ClosePipes, MainType, QueuesType, ThreadsType, WorldType
<1> QED
  BY <1>2, <1>3, <1>4, <1>5, <1>6, <1>7, <1>8, <1>9, <1>10, <1>11, <1>12, <1>13, ReceiveType,
     GraceType DEF Call

\* Only the calling thread changes what it keeps.
LEMMA OthersKeep ==
  ASSUME Reader \/ WriterThread \/ Read \/ Write \/ ChildExits \/ DescendantExits \/ DeadlinePasses
           \/ CallerCancels
  PROVE  /\ UNCHANGED <<phase, pc, status, parts, owed, said, final, closed>>
         /\ reader = "unborn" => reader' = "unborn"
<1> USE DEF main, io, threads, world
<1>1. CASE Reader
  BY <1>1 DEF Reader, ReaderLoop, ReadEnds, ReaderPublish
<1>2. CASE WriterThread
  BY <1>2 DEF WriterThread, WriterLoop, WriteFails, WriterPublish
<1>3. CASE Read \/ Write
  BY <1>3 DEF Read, Write
<1>4. CASE ChildExits \/ DescendantExits \/ DeadlinePasses \/ CallerCancels
  BY <1>4 DEF ChildExits, DescendantExits, DeadlinePasses, CallerCancels
<1> QED
  BY <1>1, <1>2, <1>3, <1>4

\* What the reader has read.
LEMMA ReadType ==
  ASSUME TypeInv, Read
  PROVE  /\ readerHas' \in MessageType
         /\ readerHas'.kind # "failure"
         /\ readerHas'.updates = written.updates + Step(readerHas')
         /\ readerHas'.updates = written'.updates
         /\ written' \in [messages : 0..MaxMessages, updates : 0..MaxMessages]
         /\ written'.updates <= written'.messages
<1>1. /\ written \in [messages : 0..MaxMessages, updates : 0..MaxMessages]
      /\ written.updates <= written.messages
  BY DEF TypeInv
<1>2. PICK m \in Messages :
        LET n == written.updates + (IF m.kind = "update" THEN 1 ELSE 0)
        IN  /\ written' = [messages |-> written.messages + 1, updates |-> n]
            /\ readerHas' = [m EXCEPT !.updates = n]
  BY DEF Read
<1> DEFINE n == written.updates + (IF m.kind = "update" THEN 1 ELSE 0)
<1>3. /\ m = [kind |-> m.kind, id |-> m.id, updates |-> m.updates]
      /\ m.kind \in {"response", "request", "update"} /\ m.id \in 0..3
  BY <1>2 DEF Messages, Message
<1>4. n \in 0..MaxMessages /\ n <= written.messages + 1 /\ written.messages + 1 \in 0..MaxMessages
  BY <1>1, LimitAssumption DEF Read
<1>5. /\ written' = [messages |-> written.messages + 1, updates |-> n]
      /\ readerHas' = [kind |-> m.kind, id |-> m.id, updates |-> n]
  BY <1>2, <1>3
<1>6. readerHas' \in MessageType
  BY <1>3, <1>4, <1>5 DEF MessageType
<1>7. n = written.updates + Step(readerHas')
  BY <1>5 DEF Step
<1> HIDE DEF n
<1> QED
  BY <1>3, <1>4, <1>5, <1>6, <1>7

LEMMA OthersType ==
  ASSUME TypeInv,
         Reader \/ WriterThread \/ Read \/ Write \/ ChildExits \/ DescendantExits \/ DeadlinePasses
           \/ CallerCancels
  PROVE  MainType' /\ QueuesType' /\ ThreadsType' /\ WorldType'
<1>1. MainType /\ QueuesType /\ ThreadsType /\ WorldType
  BY TypeParts
<1> USE <1>1 DEF main, io, threads, world
<1>2. CASE ReaderLoop
  BY <1>2 DEF ReaderLoop, MainType, QueuesType, ThreadsType, WorldType
<1>3. CASE ReadEnds
  BY <1>3, FailureType DEF ReadEnds, MainType, QueuesType, ThreadsType, WorldType
<1>4. CASE ReaderPublish
  <2>1. QueuesType'
    BY <1>4, PublishType DEF ReaderPublish, QueuesType, ThreadsType
  <2> QED
    BY <1>4, <2>1 DEF ReaderPublish, MainType, ThreadsType, WorldType
<1>5. CASE WriterLoop
  BY <1>5, LimitAssumption DEF WriterLoop, MainType, QueuesType, ThreadsType, WorldType
<1>6. CASE WriteFails
  BY <1>6 DEF WriteFails, MainType, QueuesType, ThreadsType, WorldType
<1>7. CASE WriterPublish
  <2>1. QueuesType'
    BY <1>7, PublishType, FailureType DEF WriterPublish, QueuesType
  <2> QED
    BY <1>7, <2>1 DEF WriterPublish, MainType, ThreadsType, WorldType
<1>8. CASE Read
  <2>1. MainType' /\ QueuesType'
    BY <1>8 DEF Read, MainType, QueuesType
  <2>2. ThreadsType'
    BY <1>8, ReadType DEF Read, ThreadsType
  <2>3. WorldType'
    BY <1>8, ReadType DEF Read, WorldType
  <2> QED
    BY <2>1, <2>2, <2>3
<1>9. CASE Write
  BY <1>9 DEF Write, MainType, QueuesType, ThreadsType, WorldType
<1>10. CASE ChildExits \/ DescendantExits \/ DeadlinePasses \/ CallerCancels
  <2>1. UNCHANGED <<main, io, written>>
    BY <1>10 DEF ChildExits, DescendantExits, DeadlinePasses, CallerCancels
  <2>2. MainType' /\ QueuesType' /\ ThreadsType'
    BY <2>1 DEF MainType, QueuesType, ThreadsType
  <2>3. /\ child' \in {"unborn", "alive", "dead"}
        /\ escaped' \in BOOLEAN /\ stop' \in {None, "timed-out", "cancelled"}
    BY <1>10 DEF ChildExits, DescendantExits, DeadlinePasses, CallerCancels, WorldType
  <2> QED
    BY <2>1, <2>2, <2>3 DEF WorldType
<1> QED
  BY <1>2, <1>3, <1>4, <1>5, <1>6, <1>7, <1>8, <1>9, <1>10 DEF Reader, WriterThread

LEMMA NextTypeInv ==
  ASSUME TypeInv, [Next]_vars
  PROVE  TypeInv'
<1>1. MainType' /\ QueuesType' /\ ThreadsType' /\ WorldType'
  <2>1. CASE Next
    BY <2>1, CallType, OthersType DEF Next
  <2>2. CASE UNCHANGED vars
    BY <2>2, TypeParts DEF vars, main, io, threads, world, MainType, QueuesType, ThreadsType,
                           WorldType
  <2> QED
    BY <2>1, <2>2
<1>2. incoming' \in Seq(MessageType) =>
        \A i \in DOMAIN incoming' : incoming'[i] \in MessageType
  BY QueueType
<1> QED
  BY <1>1, <1>2 DEF TypeInv, TypeOK, MainType, QueuesType, ThreadsType, WorldType, Statuses

-----------------------------------------------------------------------------
(* How the call ends, and what it owes *)

LEMMA StatusStep ==
  ASSUME TypeInv, StatusInv, [Next]_vars
  PROVE  StatusInv'
<1> USE NoneAssumption DEF StatusInv, Listening, main, io, threads, world
<1>1. CASE EndEarly \/ StartFails
  BY <1>1 DEF EndEarly, StartFails, Close
<1>9. CASE Spawn
  BY <1>9 DEF Spawn
<1>10. CASE StartThreads
  BY <1>10 DEF StartThreads
<1>2. CASE StopBeforeRequest \/ SendRequest
  BY <1>2 DEF StopBeforeRequest, SendRequest, Close
<1>3. CASE StopReceiving
  BY <1>3 DEF StopReceiving, Stopped, TypeInv, TypeOK
<1>4. CASE Receive
  <2> DEFINE m == Head(incoming)
  <2> HIDE DEF m
  <2>1. ~closed' /\ pc = "receive" /\ status = None
    BY <1>4 DEF Receive
  <2>2. CASE HandleBad
    BY <2>2 DEF HandleBad, Close
  <2>3. CASE Stopped /\ HandleLate(m)
    BY <2>1, <2>3 DEF HandleLate, Close, Stopped, TypeInv, TypeOK
  <2>4. CASE HandleRequest(m) \/ HandleUpdate(m) \/ HandleResponse(m)
    BY <2>1, <2>4 DEF HandleRequest, HandleUpdate, HandleResponse, Close
  <2> QED
    BY <1>4, <2>2, <2>3, <2>4 DEF Receive, m
<1>5. CASE CancelPrompt \/ GraceEnds
  BY <1>5 DEF CancelPrompt, GraceEnds
<1>6. CASE ReceiveInGrace
  BY <1>6 DEF ReceiveInGrace
<1>7. CASE SetClosed \/ Kill \/ ClosePipes
  BY <1>7 DEF SetClosed, Kill, ClosePipes
<1>8. CASE UNCHANGED <<phase, pc, status, parts, owed, said, final, closed>>
           /\ (reader = "unborn" => reader' = "unborn")
  BY <1>8
<1> QED
  BY <1>1, <1>2, <1>3, <1>4, <1>5, <1>6, <1>7, <1>8, <1>9, <1>10, OthersKeep DEF Next, Call, vars

LEMMA AnswerStep ==
  ASSUME TypeInv, StatusInv, AnswerInv, [Next]_vars
  PROVE  AnswerInv'
<1> USE NoneAssumption DEF AnswerInv, StatusInv, Listening, main, io, threads, world
<1>0. outgoing \in 0..QueueMax
  BY DEF TypeInv, TypeOK
<1>1. CASE EndEarly \/ Spawn \/ StartThreads \/ StartFails
  BY <1>1 DEF EndEarly, Spawn, StartThreads, StartFails, Close, Stopped, TypeInv, TypeOK
<1>2. CASE StopBeforeRequest \/ StopReceiving
  BY <1>2 DEF StopBeforeRequest, StopReceiving, Close
<1>3. CASE SendRequest
  BY <1>0, <1>3, QueuedType DEF SendRequest, CannotSend, Close
<1>4. CASE Receive
  <2> DEFINE m == Head(incoming)
  <2> HIDE DEF m
  <2>1. pc = "receive" /\ status = None /\ owed = 0 /\ said = {}
    BY <1>4 DEF Receive
  <2>2. CASE HandleBad
    BY <2>1, <2>2 DEF HandleBad, Close
  <2>3. CASE Stopped /\ HandleLate(m)
    <3>1. CASE Answer(TRUE) /\ pc' = "stopped" /\ status' = stop
      BY <2>1, <2>3, <3>1, AnswerType DEF Stopped, TypeInv, TypeOK
    <3>2. CASE UNCHANGED <<outgoing, said, owed>> /\ pc' = "stopped" /\ status' = stop
      BY <2>1, <3>2 DEF Stopped, TypeInv, TypeOK
    <3>3. CASE Unanswerable /\ Close("error")
      BY <2>1, <3>3 DEF Unanswerable, Close
    <3> QED
      BY <2>3, <3>1, <3>2, <3>3 DEF HandleLate
  <2>4. CASE HandleRequest(m)
    <3>1. CASE Answer(FALSE) /\ UNCHANGED <<pc, status>>
      BY <2>1, <3>1, AnswerType
    <3>2. CASE Unanswerable /\ Close("error")
      BY <2>1, <3>2 DEF Unanswerable, Close
    <3> QED
      BY <2>4, <3>1, <3>2 DEF HandleRequest
  <2>5. CASE HandleUpdate(m) \/ HandleResponse(m)
    BY <2>1, <2>5 DEF HandleUpdate, HandleResponse, Close
  <2> QED
    BY <1>4, <2>2, <2>3, <2>4, <2>5 DEF Receive, m
<1>5. CASE CancelPrompt
  BY <1>0, <1>5, QueuedType DEF CancelPrompt
<1>6. CASE GraceEnds
  BY <1>6 DEF GraceEnds
<1>7. CASE ReceiveInGrace
  <2>1. pc = "grace" /\ owed = 0 /\ status \in {"cancelled", "timed-out"} /\ status' = status
    BY <1>7 DEF ReceiveInGrace
  <2>2. CASE Answer(TRUE) /\ UNCHANGED pc
    BY <2>1, <2>2, AnswerType
  <2>3. CASE Unanswerable /\ pc' = "closing"
    BY <2>1, <2>3 DEF Unanswerable
  <2>4. CASE UNCHANGED <<owed, outgoing, said>> /\ pc' \in {"grace", "closing"}
    BY <2>1, <2>4
  <2> QED
    BY <1>7, <2>1, <2>2, <2>3, <2>4 DEF ReceiveInGrace
<1>8. CASE SetClosed \/ Kill \/ ClosePipes
  BY <1>8 DEF SetClosed, Kill, ClosePipes
<1>9. CASE UNCHANGED <<phase, pc, status, parts, owed, said, final, closed>>
  BY <1>9
<1> QED
  BY <1>1, <1>2, <1>3, <1>4, <1>5, <1>6, <1>7, <1>8, <1>9, OthersKeep DEF Next, Call, vars

-----------------------------------------------------------------------------
(* The stream of updates *)

\* The reader's hand and the writer's failure go on the end of the queue.
LEMMA PublishStream ==
  ASSUME TypeInv, Listening, StreamInv, NEW m \in MessageType, incoming' = Append(incoming, m),
         UNCHANGED parts, pc' = pc,
         \/ m.kind = "failure"
         \/ /\ reader = "publishing" /\ m = readerHas /\ reader' # "publishing"
            /\ UNCHANGED written
  PROVE  StreamInv'
<1>0. PICK n \in Nat : n = Len(incoming)
  BY LenProperties DEF TypeInv
<1>1. /\ n \in Nat /\ Len(incoming') = n + 1
      /\ \A i \in 1..n : incoming'[i] = incoming[i]
      /\ incoming'[n + 1] = m
      /\ Len(parts') = Len(parts)
  BY <1>0, Put
<1>2. \A i \in 0..n : Clean(i)' <=> Clean(i)
  BY <1>1 DEF Clean
<1>3. \A i \in 0..n : Before(i)' = Before(i)
  BY <1>1 DEF Before
<1>4. Clean(n + 1)' <=> Clean(n) /\ m.kind # "failure"
  <2>0. 1..(n + 1) = 1..n \cup {n + 1} /\ n \in 0..n
    OBVIOUS
  <2>1. Clean(n + 1)' => m.kind # "failure" /\ Clean(n)
    BY <1>1, <2>0 DEF Clean
  <2>2. Clean(n) /\ m.kind # "failure" => Clean(n + 1)'
    BY <1>1, <2>0 DEF Clean
  <2> QED
    BY <2>1, <2>2
<1>5. \A i \in 1..n : Clean(i)' => incoming'[i].updates = Before(i - 1)' + Step(incoming'[i])
  BY <1>0, <1>1, <1>2, <1>3 DEF StreamInv
<1>8. \A i \in 1..(n + 1) : Clean(i)' /\ i # n + 1 => i \in 1..n
  OBVIOUS
<1>6. CASE m.kind = "failure"
  BY <1>1, <1>4, <1>5, <1>6, <1>8 DEF StreamInv, Listening
<1>7. CASE m.kind # "failure"
  <2>1. /\ Clean(n) => /\ m.updates = Before(n) + Step(m)
                       /\ m.updates = written.updates
        /\ written' = written /\ reader' # "publishing"
    BY <1>0, <1>7 DEF StreamInv
  <2>2. Before(n + 1)' = m.updates
    BY <1>1 DEF Before
  <2>3. \A i \in 1..(n + 1) : Clean(i)' => incoming'[i].updates = Before(i - 1)' + Step(incoming'[i])
    BY <1>1, <1>3, <1>4, <1>5, <1>8, <2>1
  <2> QED
    BY <1>1, <1>4, <1>7, <2>1, <2>2, <2>3 DEF StreamInv, Listening
<1> QED
  BY <1>6, <1>7

\* The head of the queue goes on where the kept parts end.
LEMMA TakeStream ==
  ASSUME TypeInv, Listening, StreamInv, incoming # << >>, incoming' = Tail(incoming),
         Head(incoming).kind # "failure",
         UNCHANGED <<reader, readerHas, written>>,
         Listening' =>
           parts' = IF Head(incoming).kind = "update" THEN Append(parts, Head(incoming).updates)
                    ELSE parts
  PROVE  /\ StreamInv'
         /\ Head(incoming).updates = Len(parts) + Step(Head(incoming))
         /\ parts = [i \in 1..Len(parts) |-> i]
<1> DEFINE m == Head(incoming)
<1>0. PICK n \in Nat : n = Len(incoming)
  BY LenProperties DEF TypeInv
<1>1. /\ m \in MessageType /\ incoming[1] = m
      /\ n \in Nat \ {0} /\ Len(incoming') = n - 1
      /\ \A i \in 1..(n - 1) : incoming'[i] = incoming[i + 1]
  BY <1>0, Taken
<1>2. parts = [i \in 1..Len(parts) |-> i] /\ Len(parts) \in Nat
  BY LenProperties DEF StreamInv, TypeInv
<1>3. m.updates = Len(parts) + Step(m)
  <2>1. Clean(1)
    BY <1>1 DEF Clean
  <2>2. Before(0) = Len(parts)
    BY DEF Before
  <2> QED
    BY <1>0, <1>1, <2>1, <2>2 DEF StreamInv
<1>4. ASSUME Listening' PROVE StreamInv'
  <2>1. /\ Len(parts') = m.updates
        /\ parts' = [i \in 1..Len(parts') |-> i]
    <3>1. CASE m.kind = "update"
      <4>1. /\ Len(parts') = Len(parts) + 1
            /\ \A i \in 1..Len(parts) : parts'[i] = parts[i]
            /\ parts'[Len(parts) + 1] = m.updates
            /\ parts' \in Seq(Nat)
        BY <1>1, <1>4, <3>1, KeptType
      <4>2. parts' = [i \in 1..Len(parts') |-> parts'[i]]
        BY <4>1, LenProperties
      <4>3. \A i \in 1..Len(parts') : parts'[i] = i
        BY <1>2, <1>3, <3>1, <4>1 DEF Step
      <4> QED
        BY <1>2, <1>3, <3>1, <4>1, <4>2, <4>3 DEF Step
    <3>2. CASE m.kind # "update"
      BY <1>2, <1>3, <1>4, <3>2 DEF Step
    <3> QED
      BY <3>1, <3>2
  <2> HIDE DEF m
  <2>2. \A i \in 0..(n - 1) : Clean(i)' <=> Clean(i + 1)
    <3> SUFFICES ASSUME NEW i \in 0..(n - 1) PROVE Clean(i)' <=> Clean(i + 1)
      OBVIOUS
    <3>1. ASSUME Clean(i + 1), NEW j \in 1..i PROVE incoming'[j].kind # "failure"
      BY <1>1, <3>1 DEF Clean
    <3>2. ASSUME Clean(i)', NEW j \in 1..(i + 1) PROVE incoming[j].kind # "failure"
      <4>1. CASE j = 1
        BY <1>1, <4>1 DEF m
      <4>2. CASE j # 1
        <5>1. j - 1 \in 1..i /\ j - 1 \in 1..(n - 1) /\ (j - 1) + 1 = j
          BY <4>2, <1>1
        <5>2. incoming'[j - 1].kind # "failure" /\ incoming'[j - 1] = incoming[j]
          BY <1>1, <3>2, <5>1 DEF Clean
        <5> QED
          BY <5>2
      <4> QED
        BY <4>1, <4>2
    <3> QED
      BY <3>1, <3>2 DEF Clean
  <2>3. \A i \in 0..(n - 1) : Before(i)' = Before(i + 1)
    <3> SUFFICES ASSUME NEW i \in 0..(n - 1) PROVE Before(i)' = Before(i + 1)
      OBVIOUS
    <3>1. CASE i = 0
      BY <1>1, <2>1, <3>1 DEF Before
    <3>2. CASE i # 0
      BY <1>1, <3>2 DEF Before
    <3> QED
      BY <3>1, <3>2
  <2>4. \A i \in 1..(n - 1) : Clean(i)' => incoming'[i].updates = Before(i - 1)' + Step(incoming'[i])
    <3> SUFFICES ASSUME NEW i \in 1..(n - 1), Clean(i)'
                 PROVE  incoming'[i].updates = Before(i - 1)' + Step(incoming'[i])
      OBVIOUS
    <3>1. i \in 0..(n - 1) /\ i - 1 \in 0..(n - 1) /\ (i - 1) + 1 = i /\ (i + 1) - 1 = i
          /\ i + 1 \in 1..n
      BY <1>1
    <3>2. Clean(i + 1) /\ Before(i - 1)' = Before(i) /\ incoming'[i] = incoming[i + 1]
      BY <1>1, <2>2, <2>3, <3>1
    <3> QED
      BY <1>0, <3>1, <3>2 DEF StreamInv
  <2>5. n - 1 \in 0..(n - 1) /\ (n - 1) + 1 = n
    BY <1>1
  <2>6. (Clean(n - 1)' <=> Clean(n)) /\ Before(n - 1)' = Before(n)
    BY <2>2, <2>3, <2>5
  <2>7. Clean(n) =>
         IF reader = "publishing"
         THEN readerHas.kind # "failure" =>
                /\ readerHas.updates = Before(n) + Step(readerHas)
                /\ readerHas.updates = written.updates
         ELSE reader # "ended" => Before(n) = written.updates
    BY <1>0 DEF StreamInv
  <2> QED
    BY <1>1, <2>1, <2>4, <2>6, <2>7 DEF StreamInv
<1> QED
  BY <1>2, <1>3, <1>4 DEF StreamInv

\* A step that leaves the messages alone.
LEMMA KeepStream ==
  ASSUME StreamInv,
         Listening' =>
           /\ Listening
           /\ UNCHANGED <<incoming, parts, readerHas, written>>
           /\ reader' = "publishing" <=> reader = "publishing"
           /\ reader' # "ended" => reader # "ended"
  PROVE  StreamInv'
<1> SUFFICES ASSUME Listening' PROVE StreamInv'
  BY DEF StreamInv
<1>1. /\ \A i : Clean(i)' <=> Clean(i)
      /\ \A i : Before(i)' = Before(i)
      /\ Len(incoming') = Len(incoming) /\ Len(parts') = Len(parts)
  BY DEF Clean, Before
<1>2. \A i \in 1..Len(incoming') :
        Clean(i)' => incoming'[i].updates = Before(i - 1)' + Step(incoming'[i])
  BY <1>1 DEF StreamInv
<1>3. (Clean(Len(incoming))' <=> Clean(Len(incoming))) /\ Before(Len(incoming))' = Before(Len(incoming))
  BY DEF Clean, Before
<1> QED
  BY <1>1, <1>2, <1>3 DEF StreamInv

LEMMA StreamStep ==
  ASSUME TypeInv, StatusInv, StreamInv, [Next]_vars
  PROVE  StreamInv'
<1> USE DEF main, io, threads, world
<1>0. Listening => ~closed
  BY DEF StatusInv
<1>1. CASE EndEarly \/ StartFails \/ StopBeforeRequest \/ StopReceiving \/ CancelPrompt \/ GraceEnds
           \/ ReceiveInGrace \/ SetClosed \/ Kill \/ ClosePipes
  <2>1. ~Listening'
    BY <1>1 DEF EndEarly, StartFails, StopBeforeRequest, StopReceiving, CancelPrompt, GraceEnds,
                ReceiveInGrace, SetClosed, Kill, ClosePipes, Close, Listening
  <2> QED
    BY <2>1 DEF StreamInv
<1>2. CASE Spawn
  BY <1>2, KeepStream DEF Spawn, Listening
<1>3. CASE StartThreads
  <2>1. reader = "unborn"
    BY <1>3 DEF StartThreads, StatusInv
  <2> QED
    BY <1>3, <2>1, KeepStream DEF StartThreads, Listening
<1>4. CASE SendRequest
  BY <1>4, KeepStream DEF SendRequest, Listening
<1>5. CASE Receive
  <2> DEFINE m == Head(incoming)
  <2> HIDE DEF m
  <2>1. CASE HandleBad \/ HandleLate(m)
    <3>1. ~Listening'
      BY <2>1 DEF HandleBad, HandleLate, Close, Listening
    <3> QED
      BY <3>1 DEF StreamInv
  <2>2. CASE HandleRequest(m) \/ HandleUpdate(m) \/ HandleResponse(m)
    <3>1. m.kind # "failure"
      BY <2>2 DEF HandleRequest, HandleUpdate, HandleResponse
    <3>2. parts' = IF m.kind = "update" THEN Append(parts, m.updates) ELSE parts
      BY <2>2 DEF HandleRequest, HandleUpdate, HandleResponse
    <3> QED
      BY <1>5, <3>1, <3>2, TakeStream DEF Receive, Listening, m
  <2> QED
    BY <1>5, <2>1, <2>2 DEF Receive, m
<1>6. CASE ReaderLoop
  BY <1>0, <1>6, KeepStream DEF ReaderLoop, Listening
<1>7. CASE ReadEnds
  BY <1>7 DEF ReadEnds, Failure, StreamInv, Listening, Clean, Before
<1>8. CASE Read
  <2> SUFFICES ASSUME Listening PROVE StreamInv'
    BY <1>8 DEF Read, StreamInv, Listening
  <2>1. /\ readerHas'.updates = written.updates + Step(readerHas')
        /\ readerHas'.updates = written'.updates
        /\ reader' = "publishing" /\ reader = "reading" /\ UNCHANGED <<incoming, parts>>
    BY <1>8, ReadType DEF Read
  <2>2. /\ \A i : Clean(i)' <=> Clean(i)
        /\ \A i : Before(i)' = Before(i)
        /\ Len(incoming') = Len(incoming) /\ Len(parts') = Len(parts)
    BY <2>1 DEF Clean, Before
  <2>3. \A i \in 1..Len(incoming') :
          Clean(i)' => incoming'[i].updates = Before(i - 1)' + Step(incoming'[i])
    BY <2>1, <2>2 DEF StreamInv
  <2>4. (Clean(Len(incoming))' <=> Clean(Len(incoming)))
          /\ Before(Len(incoming))' = Before(Len(incoming))
    BY <2>1 DEF Clean, Before
  <2>5. Clean(Len(incoming)) => Before(Len(incoming)) = written.updates
    BY <2>1 DEF StreamInv
  <2> QED
    BY <2>1, <2>2, <2>3, <2>4, <2>5 DEF StreamInv
<1>9. CASE ReaderPublish
  <2> SUFFICES ASSUME Listening PROVE StreamInv'
    BY <1>9 DEF ReaderPublish, StreamInv, Listening
  <2>1. /\ readerHas \in MessageType /\ incoming' = Append(incoming, readerHas)
        /\ UNCHANGED <<parts, pc, written>>
        /\ reader = "publishing" /\ reader' # "publishing"
    BY <1>0, <1>9 DEF ReaderPublish, Publish, MayDrop, TypeInv
  <2> QED
    BY <2>1, PublishStream
<1>10. CASE WriterPublish
  <2> SUFFICES ASSUME Listening PROVE StreamInv'
    BY <1>10 DEF WriterPublish, StreamInv, Listening
  <2>1. incoming' = Append(incoming, Failure) /\ UNCHANGED <<parts, pc>>
    BY <1>0, <1>10 DEF WriterPublish, Publish, MayDrop
  <2>2. Failure.kind = "failure"
    BY DEF Failure
  <2> QED
    BY <2>1, <2>2, FailureType, PublishStream
<1>11. CASE WriterLoop \/ WriteFails \/ Write
  BY <1>11, KeepStream DEF WriterLoop, WriteFails, Write, Listening
<1>12. CASE ChildExits \/ DescendantExits \/ DeadlinePasses \/ CallerCancels
  BY <1>12, KeepStream DEF ChildExits, DescendantExits, DeadlinePasses, CallerCancels, Listening
<1>13. CASE UNCHANGED vars
  BY <1>13, KeepStream DEF vars, Listening
<1> QED
  BY <1>1, <1>2, <1>3, <1>4, <1>5, <1>6, <1>7, <1>8, <1>9, <1>10, <1>11, <1>12, <1>13
  DEF Next, Call, Reader, WriterThread

LEMMA OutputStep ==
  ASSUME TypeInv, StatusInv, StreamInv, OutputComplete, [Next]_vars
  PROVE  OutputComplete'
<1> USE DEF main, io, threads, world
<1>1. CASE status = "completed"
  <2>1. pc \in {"closing", "kill", "join", "done"}
    BY <1>1, NoneAssumption DEF StatusInv, Listening, TypeInv, TypeOK
  <2>2. UNCHANGED <<parts, final>>
    <3>1. CASE Call
      BY <1>1, <2>1, <3>1
      DEF Call, EndEarly, Spawn, StartThreads, StartFails, StopBeforeRequest, SendRequest,
          StopReceiving, Receive, CancelPrompt, ReceiveInGrace, GraceEnds, SetClosed, Kill, ClosePipes
    <3>2. CASE UNCHANGED vars
      BY <3>2 DEF vars
    <3> QED
      BY <3>1, <3>2, OthersKeep DEF Next
  <2> QED
    BY <1>1, <2>2 DEF OutputComplete
<1>2. CASE status # "completed" /\ status' = "completed"
  <2>1. Receive
    <3>1. stop \in {None, "timed-out", "cancelled"}
      BY DEF TypeInv, TypeOK
    <3> QED
      BY <1>2, <3>1, NoneAssumption, OthersKeep
      DEF Next, vars, Call, EndEarly, Spawn, StartThreads, StartFails, StopBeforeRequest, SendRequest,
          StopReceiving, CancelPrompt, ReceiveInGrace, GraceEnds, SetClosed, Kill, ClosePipes, Close,
          Stopped
  <2> DEFINE m == Head(incoming)
  <2> HIDE DEF m
  <2>2. /\ HandleResponse(m) /\ m.id = 3 /\ final' = m /\ ~Listening' /\ parts' = parts
        /\ m.kind = "response"
    <3>1. HandleResponse(m)
      BY <1>2, <2>1
      DEF Receive, HandleBad, HandleLate, HandleRequest, HandleUpdate, Close, Stopped, TypeInv, TypeOK,
          m
    <3> QED
      BY <1>2, <3>1, NoneAssumption DEF HandleResponse, Close, Listening, StatusInv
  <2>3. incoming # << >> /\ incoming' = Tail(incoming) /\ UNCHANGED <<reader, readerHas, written>>
        /\ Listening
    BY <2>1 DEF Receive, Listening
  <2>4. m.updates = Len(parts) + Step(m) /\ parts = [i \in 1..Len(parts) |-> i]
    BY <2>2, <2>3, TakeStream DEF m
  <2>5. m.updates = Len(parts)
    BY <2>2, <2>4, LenProperties DEF Step, TypeInv
  <2> QED
    BY <2>2, <2>4, <2>5 DEF OutputComplete
<1> QED
  BY <1>1, <1>2 DEF OutputComplete

-----------------------------------------------------------------------------
(* The theorems *)

LEMMA InitIInv == Init => IInv
<1> SUFFICES ASSUME Init PROVE IInv
  OBVIOUS
<1>1. TypeInv
  BY InitTypeInv
<1>2. StatusInv /\ AnswerInv /\ OutputComplete
  BY NoneAssumption DEF Init, StatusInv, AnswerInv, OutputComplete, Listening
<1>3. StreamInv
  <2>1. Len(<< >>) = 0 /\ << >> = [i \in 1..0 |-> i]
    BY EmptySeq
  <2>2. /\ incoming = << >> /\ parts = << >> /\ reader = "unborn"
        /\ written = [messages |-> 0, updates |-> 0]
    BY DEF Init
  <2> QED
    BY <2>1, <2>2 DEF StreamInv, Before
<1> QED
  BY <1>1, <1>2, <1>3 DEF IInv

LEMMA NextIInv == IInv /\ [Next]_vars => IInv'
BY NextTypeInv, StatusStep, AnswerStep, StreamStep, OutputStep DEF IInv

LEMMA IInvHolds == Spec => []IInv
BY InitIInv, NextIInv, PTL DEF Spec

\* Every variable keeps its type, and both queues (queue.Queue(maxsize) in
\* acp.py) their bound.
THEOREM SessionType == Spec => []TypeOK
<1>1. IInv => TypeOK
  BY DEF IInv, TypeInv
<1> QED
  BY <1>1, IInvHolds, PTL

\* A completed answer is every update the child wrote before its response to
\* the prompt, once and in order, however long the reader had to wait for room.
THEOREM SessionOutput == Spec => []OutputComplete
<1>1. IInv => OutputComplete
  BY DEF IInv
<1> QED
  BY <1>1, IInvHolds, PTL

\* What the call took off the queue it answers, unless it ends in an error, and
\* after session/cancel it only declines.
THEOREM SessionAnswers == Spec => []RequestsAnswered
<1>1. IInv => RequestsAnswered
  BY DEF IInv, AnswerInv, RequestsAnswered, Listening
<1> QED
  BY <1>1, IInvHolds, PTL
=============================================================================
