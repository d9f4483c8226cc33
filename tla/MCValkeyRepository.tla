------------------------- MODULE MCValkeyRepository -------------------------
(* ValkeyRepository for TLC: clients and keys are interchangeable. *)
EXTENDS ValkeyRepository, TLC

RepositorySymmetry == Permutations(Clients) \cup Permutations(Keys)
=============================================================================
