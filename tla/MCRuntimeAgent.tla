--------------------------- MODULE MCRuntimeAgent ---------------------------
(***************************************************************************)
(* RuntimeAgent for TLC: two hosts that use the same save, and a second,   *)
(* different request for the first of them.                               *)
(***************************************************************************)
EXTENDS RuntimeAgent, TLC

CONSTANTS p1, p2, save1

MCRequests == {[pid |-> p1, save |-> save1], [pid |-> p2, save |-> save1],
               [pid |-> p1, save |-> NoSave]}

ThreadSymmetry == Permutations(Threads)
=============================================================================
