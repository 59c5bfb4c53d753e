---------------------------- MODULE MCTurnCommit ----------------------------
(* TurnCommit on small instances. *)
EXTENDS TurnCommit, TLC
=============================================================================
