-------------------------- MODULE MCSessionManager --------------------------
(* Instances of SessionManager for TLC. *)
EXTENDS SessionManager, TLC

UserSymmetry == Permutations(Users)
=============================================================================
