-------------------------- MODULE MCEvidenceLedger --------------------------
EXTENDS EvidenceLedger, TLC

CONSTANTS w1, w2, w3, p1, p2, e1, e2

\* Two threads share a process, a third runs in another one.
MCProcOf == (w1 :> p1) @@ (w2 :> p1) @@ (w3 :> p2)
=============================================================================
