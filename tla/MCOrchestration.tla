-------------------------- MODULE MCOrchestration --------------------------
(***************************************************************************)
(* Orchestration for TLC: a host and a client.                             *)
(***************************************************************************)
EXTENDS Orchestration

CONSTANTS p1, p2, save1

MCTwoPlayers == {[pid |-> p1, save |-> save1], [pid |-> p2, save |-> NoSave]}
=============================================================================
