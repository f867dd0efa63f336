---------------------------- MODULE MCCandidate ----------------------------
(* Instances of Candidate: priorities, octets and ports as ICE and home     *)
(* networks have them.  The priorities stay below 2^31, as TLC's numbers do. *)
EXTENDS Candidate
MCFoundations == {842163049}
MCPriorities  == {16777215, 1694498815, 2130706431}
MCOctets      == {5, 10, 25, 100, 192, 255, 256}
MCMiddles     == {168, 256}
MCPorts       == {1, 443, 9000, 49152, 65535}
=============================================================================
