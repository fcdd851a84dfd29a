----------------------------- MODULE AcpSession -----------------------------
(***************************************************************************)
(* One AcpProvider.invoke (providers/acp.py): the calling thread runs a    *)
(* JSON-RPC session with a child process.  A reader and a writer thread    *)
(* keep the blocking pipes away from it; two bounded queues connect them.  *)
(* A deadline and a cancel event may stop the call at any time, and on     *)
(* every path the child is killed, the threads are joined for a moment and *)
(* the pipes are closed.                                                   *)
(*                                                                         *)
(* The child is not trusted: it writes what it likes, in any order, stops  *)
(* reading, or exits.  A descendant that left its process group survives   *)
(* the kill and keeps the pipes open.                                      *)
(*                                                                         *)
(* What waits in a pipe is not state here: a read returns any message the  *)
(* child may have written by then, and a write ends when the child, at its *)
(* leisure, has made room.  Only the calling thread looks at the deadline  *)
(* and the event, so a check and the step it guards are one action.        *)
(***************************************************************************)
EXTENDS Naturals, Sequences

CONSTANTS
  QueueMax,             \* maxsize of both queues
  MaxMessages,          \* bound: messages the child writes
  Escapes,              \* TRUE: a descendant may leave the process group
  None

ASSUME LimitAssumption == QueueMax \in Nat \ {0} /\ MaxMessages \in Nat
ASSUME SwitchAssumption == Escapes \in BOOLEAN
ASSUME NoneAssumption == None \notin {"completed", "timed-out", "cancelled"}

VARIABLES
  pc,                   \* where the calling thread is
  phase,                \* 1 initialize, 2 session/new, 3 session/prompt
  status,               \* how the call ends
  parts,                \* the updates whose text it keeps
  incoming,             \* the queue of what the child wrote
  outgoing,             \* how many messages wait for the writer
  closed,               \* the event that tells the threads to end
  reader, writer,       \* where the two threads are
  readerHas,            \* what the reader has in hand
  child,                \* unborn, alive or dead
  escaped,              \* a descendant outside the group holds the pipes
  stop,                 \* None, timed-out (deadline) or cancelled (event)
  written,              \* history: messages and updates the child wrote
  owed,                 \* history: requests received and not answered
  said,                 \* history: what was queued since session/cancel
  final                 \* history: the response that completed the call

main == <<pc, phase, status, parts, owed, said, final>>
threads == <<reader, writer, readerHas>>
world == <<child, escaped, stop, written>>
io == <<incoming, outgoing, closed, threads>>
vars == <<main, io, world>>

Message(kind, id) == [kind |-> kind, id |-> id, updates |-> written.updates]

\* The responses to the three requests, a request of its own, or an update.
Messages == {Message("response", id) : id \in 1..3} \cup {Message(k, 0) : k \in {"request", "update"}}

Failure == [kind |-> "failure", id |-> 0, updates |-> 0]

EndOfFile == child = "dead" /\ ~escaped

Stopped == stop # None

Init ==
  /\ pc = "called" /\ phase = 1 /\ status = None /\ parts = << >>
  /\ incoming = << >> /\ outgoing = 0 /\ closed = FALSE
  /\ reader = "unborn" /\ writer = "unborn" /\ readerHas = None
  /\ child = "unborn" /\ escaped = FALSE
  /\ stop = None
  /\ written = [messages |-> 0, updates |-> 0]
  /\ owed = 0 /\ said = {} /\ final = None

-----------------------------------------------------------------------------
(* The calling thread *)

Queued(kind) ==
  /\ outgoing' = outgoing + 1
  /\ said' = IF kind = "cancel" \/ said # {} THEN said \cup {kind} ELSE said

\* Connection.send: put_nowait.
Send(kind) == outgoing < QueueMax /\ Queued(kind)

CannotSend == outgoing >= QueueMax /\ UNCHANGED <<outgoing, said>>

Close(s) == pc' = "closing" /\ status' = s

\* Cancelled or late before there is a child, or the child cannot be started.
EndEarly ==
  /\ pc = "called"
  /\ pc' = "done"
  /\ \/ Stopped /\ status' = stop
     \/ status' = "error"
  /\ UNCHANGED <<phase, parts, owed, said, final, io, world>>

Spawn ==
  /\ pc = "called" /\ ~Stopped
  /\ pc' = "spawned"
  /\ child' = "alive"
  /\ escaped' \in {FALSE, Escapes}
  /\ UNCHANGED <<phase, status, parts, owed, said, final, io, stop, written>>

StartThreads ==
  /\ pc = "spawned"
  /\ pc' = "request"
  /\ reader' = "top" /\ writer' = "top"
  /\ UNCHANGED <<phase, status, parts, owed, said, final, incoming, outgoing, closed,
                 readerHas, world>>

\* Thread.start fails for one of the three threads, perhaps not for the first.
StartFails ==
  /\ pc = "spawned"
  /\ Close("error")
  /\ reader' \in {"unborn", "top"}
  /\ writer' \in {"unborn", reader'}
  /\ UNCHANGED <<phase, parts, owed, said, final, incoming, outgoing, closed, readerHas, world>>

\* Without a prompt there is nothing to cancel.
StopBeforeRequest ==
  /\ pc = "request"
  /\ Stopped
  /\ Close(stop)
  /\ UNCHANGED <<phase, parts, owed, said, final, io, world>>

SendRequest ==
  /\ pc = "request"
  /\ ~Stopped
  /\ \/ Send("request") /\ pc' = "receive" /\ UNCHANGED status
     \/ CannotSend /\ Close("error")
  /\ UNCHANGED <<phase, parts, owed, final, incoming, closed, threads, world>>

StopReceiving ==
  /\ pc = "receive"
  /\ Stopped
  /\ pc' = "stopped"
  /\ status' = stop
  /\ UNCHANGED <<phase, parts, owed, said, final, io, world>>

\* Session.dispatch of a request: every one is refused, a permission by the
\* child's own option to reject or, when the call is being cancelled, as cancelled.
Answer(cancelling) ==
  /\ \/ Send("unavailable")
     \/ phase = 3 /\ Send(IF cancelling THEN "declined" ELSE "selected")
  /\ UNCHANGED owed

\* The queue is full, or a permission names no session of this call.
Unanswerable ==
  /\ phase < 3 \/ outgoing >= QueueMax
  /\ owed' = owed + 1
  /\ UNCHANGED <<outgoing, said>>

\* Mutant: a request taken off the queue too late gets no answer.
HandleLateSilently(m) ==
  /\ owed' = owed + (IF m.kind = "request" THEN 1 ELSE 0)
  /\ pc' = "stopped" /\ status' = stop
  /\ UNCHANGED <<outgoing, said>>

\* The stop came while the message was being taken off the queue.
HandleLate(m) ==
  \/ /\ IF m.kind = "request" THEN Answer(TRUE) ELSE UNCHANGED <<outgoing, said, owed>>
     /\ pc' = "stopped" /\ status' = stop
  \/ m.kind = "request" /\ Unanswerable /\ Close("error")

HandleRequest(m) ==
  /\ m.kind = "request"
  /\ \/ Answer(FALSE) /\ UNCHANGED <<pc, status>>
     \/ Unanswerable /\ Close("error")
  /\ UNCHANGED <<phase, parts, final>>

\* An update is kept once there is a session, and is an error before.
HandleUpdate(m) ==
  /\ m.kind = "update" /\ phase = 3
  /\ parts' = Append(parts, m.updates)
  /\ UNCHANGED <<phase, pc, status, owed, outgoing, said, final>>

\* The response of the pending request, which the child may have cancelled.
HandleResponse(m) ==
  /\ m.kind = "response" /\ m.id = phase
  /\ \/ phase < 3 /\ phase' = phase + 1 /\ pc' = "request" /\ UNCHANGED <<status, final>>
     \/ /\ phase = 3
        /\ \/ Close("completed") /\ final' = m
           \/ Close("cancelled") /\ UNCHANGED final
           \/ Close("failed") /\ UNCHANGED final
        /\ UNCHANGED phase
     \/ pc' = "stopped" /\ status' = "cancelled" /\ UNCHANGED <<phase, final>>
  /\ UNCHANGED <<parts, owed, outgoing, said>>

\* Any message may be malformed, too long or out of place.
HandleBad ==
  /\ Close("error")
  /\ UNCHANGED <<phase, parts, owed, outgoing, said, final>>

Receive ==
  /\ pc = "receive" /\ incoming # << >>
  /\ incoming' = Tail(incoming)
  /\ LET m == Head(incoming)
     IN  \/ HandleBad
         \/ /\ Stopped /\ m # Failure
            /\ HandleLate(m)
            /\ UNCHANGED <<phase, parts, final>>
         \/ ~Stopped /\ (HandleRequest(m) \/ HandleUpdate(m) \/ HandleResponse(m))
  /\ UNCHANGED <<closed, threads, world>>

\* Session.cancel: session/cancel, if a prompt was sent.
CancelPrompt ==
  /\ pc = "stopped"
  /\ \/ phase = 3 /\ Send("cancel") /\ pc' = "grace"
     \/ (phase < 3 \/ outgoing >= QueueMax) /\ pc' = "closing" /\ UNCHANGED <<outgoing, said>>
  /\ UNCHANGED <<phase, status, parts, owed, final, incoming, closed, threads, world>>

\* The grace window: requests are declined until the prompt is answered, or a
\* message is malformed.
ReceiveInGrace ==
  /\ pc = "grace" /\ incoming # << >>
  /\ incoming' = Tail(incoming)
  /\ LET m == Head(incoming)
     IN  \/ /\ m.kind = "update"
            /\ parts' = Append(parts, m.updates)
            /\ UNCHANGED <<pc, owed, outgoing, said>>
         \/ /\ m.kind = "request"
            /\ \/ Answer(TRUE) /\ UNCHANGED pc
               \/ Unanswerable /\ pc' = "closing"
            /\ UNCHANGED parts
         \/ /\ m.kind = "response" /\ m.id # 3
            /\ UNCHANGED <<pc, parts, owed, outgoing, said>>
         \/ pc' = "closing" /\ UNCHANGED <<parts, owed, outgoing, said>>
  /\ UNCHANGED <<phase, status, final, closed, threads, world>>

GraceEnds ==
  /\ pc = "grace"
  /\ pc' = "closing"
  /\ UNCHANGED <<phase, status, parts, owed, said, final, io, world>>

\* Connection.close begins; of the session only a completed answer is used.
SetClosed ==
  /\ pc = "closing"
  /\ closed' = TRUE
  /\ pc' = "kill"
  /\ parts' = IF status = "completed" THEN parts ELSE << >>
  /\ phase' = 1 /\ owed' = 0 /\ said' = {}
  /\ UNCHANGED <<status, final, incoming, outgoing, threads, world>>

\* _close_owned_process kills the process group and reaps the child.
Kill ==
  /\ pc = "kill"
  /\ child' = "dead"
  /\ pc' = "join"
  /\ UNCHANGED <<phase, status, parts, owed, said, final, io, escaped, stop, written>>

\* The joins have timeouts; stdin.close() waits for a writer inside write().
ClosePipes ==
  /\ pc = "join"
  /\ writer # "writing"
  /\ pc' = "done"
  /\ UNCHANGED <<phase, status, parts, owed, said, final, io, world>>

Call ==
  \/ EndEarly \/ Spawn \/ StartThreads \/ StartFails
  \/ StopBeforeRequest \/ SendRequest \/ StopReceiving \/ Receive
  \/ CancelPrompt \/ ReceiveInGrace \/ GraceEnds
  \/ SetClosed \/ Kill \/ ClosePipes

-----------------------------------------------------------------------------
(* The reader and the writer *)

ReaderLoop ==
  /\ reader = "top"
  /\ reader' = IF closed THEN "ended" ELSE "reading"
  /\ UNCHANGED <<main, incoming, outgoing, closed, writer, readerHas, world>>

\* os.read returns what the child wrote: the next message, whichever it is.
Read ==
  /\ reader = "reading" /\ child # "unborn"
  /\ written.messages < MaxMessages
  /\ \E m \in Messages :
       LET n == written.updates + (IF m.kind = "update" THEN 1 ELSE 0)
       IN  /\ written' = [messages |-> written.messages + 1, updates |-> n]
           /\ readerHas' = [m EXCEPT !.updates = n]
  /\ reader' = "publishing"
  /\ UNCHANGED <<main, incoming, outgoing, closed, writer, child, escaped, stop>>

\* os.read returns nothing, as nobody holds the other end.
ReadEnds ==
  /\ reader = "reading"
  /\ EndOfFile
  /\ readerHas' = Failure
  /\ reader' = "publishing"
  /\ UNCHANGED <<main, incoming, outgoing, closed, writer, world>>

\* Mutants of the two ways a publication ends.
MayDropFull == closed \/ Len(incoming) >= QueueMax

MayDropNever == FALSE

MayDrop == closed

MayPut == Len(incoming) < QueueMax

\* _publish polls the queue until there is room or the connection is closed.
Publish(value) ==
  \/ MayDrop /\ UNCHANGED incoming
  \/ MayPut /\ incoming' = Append(incoming, value)

ReaderPublish ==
  /\ reader = "publishing"
  /\ Publish(readerHas)
  /\ reader' = IF readerHas.kind = "failure" THEN "ended" ELSE "top"
  /\ readerHas' = None
  /\ UNCHANGED <<main, outgoing, closed, writer, world>>

WriterLoop ==
  /\ writer = "top"
  /\ \/ closed /\ writer' = "ended" /\ UNCHANGED outgoing
     \/ /\ ~closed /\ outgoing > 0
        /\ outgoing' = outgoing - 1
        /\ writer' = "writing"
  /\ UNCHANGED <<main, incoming, closed, reader, readerHas, world>>

\* The pipe has room again because somebody reads it.
Write ==
  /\ writer = "writing"
  /\ ~EndOfFile
  /\ writer' = "top"
  /\ UNCHANGED <<main, incoming, outgoing, closed, reader, readerHas, world>>

\* Nobody holds the other end any more: OSError, which is published.
WriteFails ==
  /\ writer = "writing"
  /\ EndOfFile
  /\ writer' = IF closed THEN "ended" ELSE "publishing"
  /\ UNCHANGED <<main, incoming, outgoing, closed, reader, readerHas, world>>

WriterPublish ==
  /\ writer = "publishing"
  /\ Publish(Failure)
  /\ writer' = "ended"
  /\ UNCHANGED <<main, outgoing, closed, reader, readerHas, world>>

Reader == ReaderLoop \/ ReadEnds \/ ReaderPublish
WriterThread == WriterLoop \/ WriteFails \/ WriterPublish

-----------------------------------------------------------------------------
(* The child, the clock and the caller *)

ChildExits ==
  /\ child = "alive"
  /\ child' = "dead"
  /\ UNCHANGED <<main, io, escaped, stop, written>>

DescendantExits ==
  /\ escaped /\ child = "dead"
  /\ escaped' = FALSE
  /\ UNCHANGED <<main, io, child, stop, written>>

\* Bound: the deadline and the event change only while the call may read them.
Listening == pc \in {"called", "spawned", "request", "receive"}

DeadlinePasses ==
  /\ Listening /\ stop = None
  /\ stop' = "timed-out"
  /\ UNCHANGED <<main, io, child, escaped, written>>

CallerCancels ==
  /\ Listening /\ stop # "cancelled"
  /\ stop' = "cancelled"
  /\ UNCHANGED <<main, io, child, escaped, written>>

Next ==
  \/ Call \/ Reader \/ WriterThread
  \/ Read \/ Write \/ ChildExits \/ DescendantExits
  \/ DeadlinePasses \/ CallerCancels

Spec == Init /\ [][Next]_vars

\* Threads run and time passes.  Read and Write wait for the child, which owes
\* nothing, like its descendants and the caller.
FairSpec ==
  /\ Spec
  /\ WF_vars(Call) /\ WF_vars(GraceEnds)
  /\ WF_vars(Reader) /\ WF_vars(WriterThread)
  /\ WF_vars(DeadlinePasses)

-----------------------------------------------------------------------------
(* Properties *)

MessageType == [kind : {"response", "request", "update", "failure"}, id : 0..3, updates : 0..MaxMessages]

\* Every variable has its type; the queues are bounded.
TypeOK ==
  /\ pc \in {"called", "spawned", "request", "receive", "stopped", "grace", "closing", "kill",
             "join", "done"}
  /\ phase \in 1..3
  /\ status \in {None, "completed", "failed", "cancelled", "timed-out", "error"}
  /\ \A i \in DOMAIN incoming : incoming[i] \in MessageType
  /\ Len(incoming) <= QueueMax /\ outgoing \in 0..QueueMax
  /\ closed \in BOOLEAN /\ escaped \in BOOLEAN /\ stop \in {None, "timed-out", "cancelled"}
  /\ reader \in {"unborn", "top", "reading", "publishing", "ended"}
  /\ writer \in {"unborn", "top", "writing", "publishing", "ended"}
  /\ readerHas \in MessageType \cup {None}
  /\ owed \in Nat /\ said \subseteq {"request", "unavailable", "declined", "selected", "cancel"}
  /\ child \in {"unborn", "alive", "dead"}
  /\ final \in MessageType \cup {None}

\* A completed answer is the child's whole answer: every update it wrote before
\* its response to the prompt, once, in order, although queues were full
\* meanwhile; and nothing else.
OutputComplete ==
  status = "completed" =>
    /\ final.id = 3
    /\ parts = [i \in 1..final.updates |-> i]

\* Every request of the child that was received is answered, that is, its answer is
\* queued for the writer (which may stand before a full pipe), even one that a
\* deadline or a cancellation overtook, unless the call ends in an error; and once
\* session/cancel is queued, permissions are declined as cancelled and nothing more
\* is owed of the child.
RequestsAnswered ==
  /\ pc \in {"request", "receive", "stopped"} \/ status = "completed" => owed = 0
  /\ said \subseteq {"cancel", "declined", "unavailable"}

\* The call ends, though the child neither answers nor reads, both queues and
\* both pipes are full, or threads could not be started, and neither thread
\* outlives it for long; only a descendant that left the process group, and
\* keeps its pipes open, can hold them up.
CallEnds ==
  /\ <>(pc = "done" \/ escaped)
  /\ (pc = "done") ~> (escaped \/ (reader \in {"unborn", "ended"} /\ writer \in {"unborn", "ended"}))
=============================================================================
