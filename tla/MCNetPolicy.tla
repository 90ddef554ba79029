---------------------------- MODULE MCNetPolicy ----------------------------
(***************************************************************************)
(* Addresses of three bits: 01x is the IPv4-mapped space, 10x its NAT64    *)
(* translation.  The prefixes nest three deep inside the mapped space and  *)
(* two deep in the translated one.                                         *)
(***************************************************************************)
EXTENDS Egress

MCV4 == <<0, 1>>
MCNAT64 == <<1, 0>>
MCNets == {<< >>, <<0, 1>>, <<0, 1, 0>>, <<1, 0, 0>>}
MCPorts == 0..2
MCPortLists == {<< <<0, 2>> >>, << <<2, 2>>, <<0, 0>> >>}
MCMasks == {{"tcp", "udp", "other"}, {"tcp"}}
=============================================================================
