--------------------------- MODULE MCTransportOut ---------------------------
(***************************************************************************)
(* Model checking TransportOut: four buffers against a pool limit of two,  *)
(* so that the pool overflows into free(), runs dry and is reused.         *)
(***************************************************************************)
EXTENDS TransportOut, TLC

Symmetry == Permutations(Bufs)
=============================================================================
