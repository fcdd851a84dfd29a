--------------------------- MODULE AppendOnlyLog ---------------------------
(***************************************************************************)
(* What the evidence ledger promises to its callers, without locks, files  *)
(* or hash chains: a sequence of entries that only grows, of which a       *)
(* prefix is confirmed (an append of its last entry, or of a later one,    *)
(* has returned).  A power loss may drop entries after the confirmed       *)
(* prefix, never one inside it.  A log that lost part of an entry is       *)
(* sealed: it refuses every further append and keeps what it holds.        *)
(***************************************************************************)
EXTENDS Naturals, Sequences

CONSTANT Entry          \* what callers append: a kind and its payload

VARIABLES
  log,                  \* the entries, oldest first
  confirmed,            \* how many of them are confirmed
  sealed                \* TRUE once the log refuses every append

logVars == <<log, confirmed, sealed>>

LogTypeOK ==
  /\ log \in Seq(Entry)
  /\ confirmed \in 0..Len(log)
  /\ sealed \in BOOLEAN

LogInit ==
  /\ log = << >>
  /\ confirmed = 0
  /\ sealed = FALSE

Extend(e) ==
  /\ ~sealed
  /\ log' = Append(log, e)
  /\ UNCHANGED <<confirmed, sealed>>

Confirm ==
  /\ ~sealed
  /\ \E n \in confirmed..Len(log) : confirmed' = n
  /\ UNCHANGED <<log, sealed>>

\* A power loss: unconfirmed entries may vanish, what is left is confirmed,
\* and the log may be sealed.
LoseTail ==
  /\ \E n \in confirmed..Len(log) :
       /\ log' = SubSeq(log, 1, n)
       /\ confirmed' = n
  /\ sealed' \in {sealed, TRUE}

LogNext == (\E e \in Entry : Extend(e)) \/ Confirm \/ LoseTail

LogSpec == LogInit /\ [][LogNext]_logVars
=============================================================================
