----------------------------- MODULE ChainReader -----------------------------
(***************************************************************************)
(* ReceiptStore.verify_chain (receipt.py) while processes persist: it      *)
(* takes no lock, lists the run directories, looks for a receipt.json in   *)
(* each, and only then reads the files it found, one by one; what it has   *)
(* read it judges by itself.  It raises when a file is gone by then.       *)
(*                                                                         *)
(* The directories are listed in one step, which holds of a directory that *)
(* one getdents call returns, and they are looked into in any order.  The  *)
(* files are read in one fixed order, which does not tell who came first.  *)
(***************************************************************************)
EXTENDS ReceiptChain

VARIABLES
  reading,      \* where the call of verify_chain is
  unseen,       \* directories listed and not yet looked into
  found,        \* runs whose receipt.json was there, and is not yet read
  receipts,     \* the predecessor each receipt it has read names
  known,        \* history: runs whose persist had returned when it was called
  disturbed     \* history: a persist was rolled back during the call, or a
                \* leaked lock file has been deleted before or during it

reader == <<reading, unseen, found, receipts, known, disturbed>>
readerVars == <<vars, reader>>

Nothing == [r \in {} |-> NoRun]

ReaderInit ==
  /\ Init
  /\ reading = "idle"
  /\ unseen = {} /\ found = {} /\ receipts = Nothing
  /\ known = {} /\ disturbed = FALSE

\* The call: sorted(root.glob(...)) lists the directories.
List ==
  /\ reading \in {"idle", "raised"}
  /\ reading' = "looking"
  /\ unseen' = directory
  /\ known' = returned /\ disturbed' = forced
  /\ UNCHANGED <<vars, found, receipts>>

Look(r) ==
  /\ reading = "looking" /\ r \in unseen
  /\ unseen' = unseen \ {r}
  /\ found' = IF r \in receipt THEN found \cup {r} ELSE found
  /\ UNCHANGED <<vars, reading, receipts, known, disturbed>>

\* The call returns or raises: its locals are gone.
EndCall(outcome) ==
  /\ reading' = outcome
  /\ unseen' = {} /\ found' = {} /\ receipts' = Nothing
  /\ known' = {} /\ disturbed' = FALSE
  /\ UNCHANGED vars

\* The files found are read in the order of the run ids.
NextFound == CHOOSE r \in found : TRUE

Read ==
  /\ reading = "looking" /\ unseen = {} /\ found # {}
  /\ NextFound \in receipt
  /\ found' = found \ {NextFound}
  /\ receipts' = [r \in DOMAIN receipts \cup {NextFound} |->
                    IF r = NextFound THEN previous[r] ELSE receipts[r]]
  /\ UNCHANGED <<vars, reading, unseen, known, disturbed>>

\* The file has been taken away since it was found.
ReadFails ==
  /\ reading = "looking" /\ unseen = {} /\ found # {}
  /\ NextFound \notin receipt
  /\ EndCall("raised")

Conclude ==
  /\ reading = "looking" /\ unseen = {} /\ found = {}
  /\ EndCall(IF Verifies(receipts) THEN "idle" ELSE "raised")

Verify ==
  \/ List \/ \E r \in Run : Look(r)
  \/ Read \/ ReadFails \/ Conclude

\* A step of the store beside it.
Persisting ==
  /\ Next
  /\ disturbed' = (reading = "looking" /\ (disturbed \/ forced' \/ directory \ directory' # {}))
  /\ UNCHANGED <<reading, unseen, found, receipts, known>>

ReaderNext == Verify \/ Persisting

ReaderSpec == ReaderInit /\ [][ReaderNext]_readerVars

\* As in ReceiptChain; nobody waits for verify_chain.
FairReaderSpec == ReaderSpec /\ \A p \in Persister : WF_vars(Step(p))

-----------------------------------------------------------------------------
(* Property *)

\* A store may be verified while others persist, up to the day an operator deletes
\* a leaked lock file: however the reads fall between their writes, verify_chain
\* raises only if a persist was rolled back during the call, and when it returns
\* it has seen every receipt whose persist had returned before.
VerifiedWhilePersisting ==
  [][/\ reading = "looking" /\ reading' = "raised" => disturbed
     /\ reading = "looking" /\ reading' = "idle" => known \subseteq DOMAIN receipts]_readerVars
=============================================================================
