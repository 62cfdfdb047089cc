--------------------------- MODULE MCGrantManager ---------------------------
(* Instances of GrantManager for TLC. *)
EXTENDS GrantManager, TLC

MCBudgets == {-1, 0, 2}
MCAmounts == {0, 1, 2}
MCLifetimes == {0, 1}
=============================================================================
