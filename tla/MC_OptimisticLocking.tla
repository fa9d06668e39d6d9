------------------------- MODULE MC_OptimisticLocking -------------------------
(* Small instances of OptimisticLocking for TLC.                            *)
EXTENDS OptimisticLocking, TLC

Interchangeable == Permutations(Requests) \cup Permutations(Fields)
=============================================================================
