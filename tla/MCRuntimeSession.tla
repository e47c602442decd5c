--------------------------- MODULE MCRuntimeSession --------------------------
(* Instances of RuntimeSession: launches are interchangeable.               *)
EXTENDS RuntimeSession, TLC
Interchangeable == Permutations(Launches)
=============================================================================
