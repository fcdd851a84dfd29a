---------------------------- MODULE CommandRunner ----------------------------
(***************************************************************************)
(* providers/process.py: CommandRunner.run starts a child in a process     *)
(* group of its own, one thread reads each output pipe into a bounded sink *)
(* and one feeds stdin; the calling thread polls the child, kills the group*)
(* at the deadline, waits, joins the threads for a second and returns what *)
(* the sinks hold.  The child may write, spawn and exit as it likes; its   *)
(* descendants inherit the pipes, and one may leave the group.             *)
(***************************************************************************)
EXTENDS Integers, Sequences

CONSTANTS
  Stream,       \* the output pipes
  Chunk,        \* what one read may return
  Limit,        \* chunks that a sink keeps (max_output_chars)
  Capacity,     \* chunks that a pipe holds
  MaxChunks,    \* chunks written in all (bounds the model)
  ExitCode,     \* codes a child may exit with
  Killed,       \* the return code of a killed child
  Running,      \* the return code of a child that has not ended
  None,         \* no child yet
  SlowThreads   \* a join may time out on a thread that has work to do

ASSUME LimitAssumption == Limit \in Nat /\ Capacity \in Nat \ {0} /\ MaxChunks \in Nat

ASSUME CodeAssumption ==
  /\ {Killed, Running, None} \cap ExitCode = {}
  /\ Killed # Running /\ None \notin {Killed, Running}
  /\ SlowThreads \in BOOLEAN

VARIABLES
  pc,        \* the calling thread
  late,      \* the deadline of the command has passed
  timedOut,
  returned,  \* what run returns: code, texts, truncated
  code,      \* how the child ended: Running until then
  kin,       \* its living descendants: in the process group, or out of it
  doomed,    \* processes that killpg signalled
  pipe, wrote,          \* stream -> unread chunks, all chunks ever written
  sink, cut, reader,    \* stream -> retained chunks, truncated, thread
  feeder,               \* the thread that writes stdin
  survivors             \* history: who was alive when the wait for the child ended

caller == <<pc, late, timedOut, returned, survivors>>
processes == <<code, kin, doomed>>
streams == <<pipe, wrote, sink, cut, reader, feeder>>
runnerVars == <<caller, processes, streams>>

Alive == kin \cup (IF code = Running THEN {"child"} ELSE {})

NoOutcome == [code |-> None, text |-> [s \in Stream |-> << >>], truncated |-> FALSE]

RunnerInit ==
  /\ late = FALSE /\ timedOut = FALSE /\ returned = NoOutcome
  /\ code = None /\ kin = {} /\ doomed = {}
  /\ pipe = [s \in Stream |-> << >>] /\ wrote = pipe /\ sink = pipe
  /\ cut = [s \in Stream |-> FALSE]
  /\ reader = [s \in Stream |-> "open"] /\ feeder = "writing"
  /\ survivors = {}

-----------------------------------------------------------------------------
(* The calling thread *)

Goto(from, to) == pc = from /\ pc' = to

Start ==
  /\ Goto("ready", "poll")
  /\ code' = Running
  /\ UNCHANGED <<late, timedOut, returned, survivors, kin, doomed, streams>>

\* Popen fails: no such program, or no such working directory.
FailToStart ==
  /\ Goto("ready", "raised")
  /\ UNCHANGED <<late, timedOut, returned, survivors, processes, streams>>

SeeExit ==
  /\ Goto("poll", "wait") /\ code # Running
  /\ UNCHANGED <<late, timedOut, returned, survivors, processes, streams>>

\* The child ran when it was polled; it may be gone when it is to be killed.
SeeDeadline ==
  /\ Goto("poll", "late") /\ code = Running /\ late
  /\ timedOut' = TRUE
  /\ UNCHANGED <<late, returned, survivors, processes, streams>>

\* _terminate_tree does nothing if the child has exited.
CheckChild ==
  /\ \/ Goto("late", IF code = Running THEN "kill" ELSE "wait")
     \/ Goto("wait", "kill again") /\ code = Running
  /\ UNCHANGED <<late, timedOut, returned, survivors, processes, streams>>

\* Mutant: only the child is killed.
KillChild ==
  /\ Goto("kill", "wait") \/ Goto("kill again", "wait again")
  /\ doomed' = doomed \cup {"child"}
  /\ UNCHANGED <<late, timedOut, returned, survivors, code, kin, streams>>

\* killpg reaches the group although the child may have exited since: nobody has
\* reaped it.
KillGroup ==
  /\ Goto("kill", "wait") \/ Goto("kill again", "wait again")
  /\ doomed' = doomed \cup {"child", "group"}
  /\ UNCHANGED <<late, timedOut, returned, survivors, code, kin, streams>>

Waited ==
  /\ \/ Goto("wait", "join") /\ code # Running
     \/ Goto("wait again", "join")      \* or the second wait times out
  /\ survivors' = Alive
  /\ returned' = [returned EXCEPT !.code = code]
  /\ UNCHANGED <<late, timedOut, processes, streams>>

Finished == feeder = "done" /\ \A s \in Stream : reader[s] = "closed"

\* A thread that no process keeps waiting: it ends within the second.
Unhindered == Alive = {}

\* Mutant: the threads are not waited for.
MayStopJoining == TRUE

MayGiveUp == ~Unhindered \/ SlowThreads

\* Mutant: a plain join.
JoinForever ==
  /\ Goto("join", "text") /\ Finished
  /\ UNCHANGED <<late, timedOut, returned, survivors, processes, streams>>

Join ==
  /\ Goto("join", "text")
  /\ Finished \/ MayGiveUp
  /\ UNCHANGED <<late, timedOut, returned, survivors, processes, streams>>

ReadSinks ==
  /\ Goto("text", "flags")
  /\ returned' = [returned EXCEPT !.text = sink]
  /\ UNCHANGED <<late, timedOut, survivors, processes, streams>>

Return ==
  /\ Goto("flags", "done")
  /\ returned' = [returned EXCEPT !.truncated = \E s \in Stream : cut[s]]
  /\ UNCHANGED <<late, timedOut, survivors, processes, streams>>

Caller ==
  \/ Start \/ FailToStart \/ SeeExit \/ SeeDeadline
  \/ CheckChild \/ KillGroup \/ Waited
  \/ Join \/ ReadSinks \/ Return

-----------------------------------------------------------------------------
(* The threads *)

\* _BoundedBytes.append keeps the tail.
Kept(s, c) ==
  LET all == Append(sink[s], c)
      drop == IF Len(all) > Limit THEN Len(all) - Limit ELSE 0
  IN  /\ sink' = [sink EXCEPT ![s] = SubSeq(all, drop + 1, Len(all))]
      /\ cut' = [cut EXCEPT ![s] = @ \/ drop > 0]

ReadPipe(s) ==
  /\ reader[s] = "open" /\ pipe[s] # << >>
  /\ Kept(s, Head(pipe[s]))
  /\ pipe' = [pipe EXCEPT ![s] = Tail(@)]
  /\ UNCHANGED <<caller, processes, wrote, reader, feeder>>

EndOfPipe(s) ==
  /\ code # None /\ reader[s] = "open" /\ pipe[s] = << >> /\ Alive = {}
  /\ reader' = [reader EXCEPT ![s] = "closed"]
  /\ UNCHANGED <<caller, processes, pipe, wrote, sink, cut, feeder>>

\* All is written, or nobody holds the other end and write() fails.
Feed ==
  /\ code # None /\ feeder = "writing"
  /\ feeder' = "done"
  /\ UNCHANGED <<caller, processes, pipe, wrote, sink, cut, reader>>

Thread == Feed \/ \E s \in Stream : ReadPipe(s) \/ EndOfPipe(s)

-----------------------------------------------------------------------------
(* The child, its descendants and the clock *)

Write(s, c) ==
  /\ Alive \ doomed # {} /\ Len(pipe[s]) < Capacity /\ Len(wrote[s]) < MaxChunks
  /\ pipe' = [pipe EXCEPT ![s] = Append(@, c)]
  /\ wrote' = [wrote EXCEPT ![s] = Append(@, c)]
  /\ UNCHANGED <<caller, processes, sink, cut, reader, feeder>>

Spawn(k) ==
  /\ "child" \in Alive \ doomed
  /\ kin' = kin \cup {k}
  /\ UNCHANGED <<caller, code, doomed, streams>>

Exit(n) ==
  /\ "child" \in Alive \ doomed
  /\ code' = n
  /\ UNCHANGED <<caller, kin, doomed, streams>>

\* A killed process dies when the system gets to it.
Die(p) ==
  /\ p \in Alive \cap doomed
  /\ code' = IF p = "child" THEN Killed ELSE code
  /\ kin' = kin \ {p}
  /\ UNCHANGED <<caller, doomed, streams>>

Leave(k) ==
  /\ k \in kin \ doomed
  /\ kin' = kin \ {k}
  /\ UNCHANGED <<caller, code, doomed, streams>>

DeadlinePasses ==
  /\ ~late /\ late' = TRUE
  /\ UNCHANGED <<pc, timedOut, returned, survivors, processes, streams>>

Processes ==
  \/ \E s \in Stream, c \in Chunk : Write(s, c)
  \/ \E k \in {"group", "escaped"} : Spawn(k) \/ Leave(k)
  \/ \E n \in ExitCode : Exit(n)
  \/ \E p \in {"child", "group"} : Die(p)
==============================================================================
