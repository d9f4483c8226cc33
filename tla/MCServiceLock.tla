--------------------------- MODULE MCServiceLock ---------------------------
(***************************************************************************)
(* ServiceLock for TLC: an owner and a guest.                              *)
(***************************************************************************)
EXTENDS ServiceLock

CONSTANTS u1, u2

MCPlayers == {u1, u2}
=============================================================================
