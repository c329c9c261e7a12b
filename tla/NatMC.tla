---------------------------------- MODULE NatMC ----------------------------------
(***************************************************************************)
(* NAT traversal for TLC: two keys, one value to set; at first the router has no *)
(* port map, or one.                                              *)
(***************************************************************************)
EXTENDS Nat, TLC

CONSTANTS udp, tcp, new, old

SomeRouters == {(udp :> None) @@ (tcp :> None), (udp :> old) @@ (tcp :> None)}
===============================================================================
