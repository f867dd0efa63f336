----------------------------- MODULE MCNatCheck -----------------------------
(* An instance of NatCheck with two ports. *)
EXTENDS NatCheck
CONSTANTS p1, p2
MCPorts == {p1, p2}
=============================================================================
