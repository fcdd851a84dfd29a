-------------------------- MODULE MCBudgetDispatch --------------------------
EXTENDS BudgetDispatch, TLC

\* The first request gives up before the run does, the others would wait longer.
Timeouts == [r \in Request |-> IF r = 1 THEN 1 ELSE 5]
=============================================================================
