---------------------------- MODULE MCTransportIn ----------------------------
(***************************************************************************)
(* Model checking TransportIn.  The header is scaled to two bytes and the  *)
(* buffer to five; a frame may just fill the buffer, and the length field  *)
(* may be zero, shorter than the header or larger than the buffer.         *)
(***************************************************************************)
EXTENDS TransportIn
=============================================================================
