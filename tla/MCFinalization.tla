--------------------------- MODULE MCFinalization ---------------------------
EXTENDS Finalization, TLC

CONSTANTS engine, operator, minor, major, proof1, proof2, capsule1, capsule1b, capsule2

SeverityOf == [f \in Finding |-> IF f = major THEN "major" ELSE "minor"]
AllMinor == [f \in Finding |-> "minor"]

AllRuns == [selfDriven : BOOLEAN, degraded : BOOLEAN, context : BOOLEAN, recordable : BOOLEAN,
            panel : Panels, adverse : BOOLEAN, severity : {SeverityOf, AllMinor}]

\* Self judges the findings of a panel that may fuse and of an advisor's, which the
\* automatic reconciliation can finalize only once the tree has changed.
SelfDrivenRuns ==
  {r \in AllRuns : /\ r.selfDriven /\ r.context /\ r.recordable
                   /\ ~r.degraded /\ ~r.adverse /\ r.panel # "one-family"
                   /\ r.severity = SeverityOf}

\* No rule of the receipt schema stands against this one.
FusingRuns == {r \in SelfDrivenRuns : r.panel = "cross-model"}

\* capsule1 and capsule1b are two capsules of one proof id, capsule2 is
\* another proof; capsule1 confirms its finding.
ProofId == [c \in Capsule |-> IF c = capsule2 THEN proof2 ELSE proof1]
FindingId == [c \in Capsule |-> CHOOSE f \in Finding : TRUE]

\* Every finding disposed of in the same way, and every judgement.
Uniform(ds) == {[f \in Finding |-> d] : d \in ds}
Judgements == Uniform({"accepted", "waived"})
AllJudgements == UNION {[F -> Disposition] : F \in SUBSET Finding}
=============================================================================
