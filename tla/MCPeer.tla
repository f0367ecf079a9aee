------------------------------- MODULE MCPeer -------------------------------
(***************************************************************************)
(* Model checking Peer: two ends of the same version.  The target on the   *)
(* Amiga has no clock; the one built for other systems has.                *)
(***************************************************************************)
EXTENDS Peer

SameVersions == [p \in Ends |-> <<0, 2>>]
Nobody == {}
ControllerOnly == {"controller"}
=============================================================================
