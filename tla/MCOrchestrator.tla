--------------------------- MODULE MCOrchestrator ---------------------------
(***************************************************************************)
(* The time budgets with which the claims are posted.                      *)
(***************************************************************************)
EXTENDS Orchestrator

MCCallBudgets == {NoBudget, 0}
MCNoBudgets   == {NoBudget}
=============================================================================
