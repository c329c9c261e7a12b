------------------------------ MODULE NetServerMC ------------------------------
(***************************************************************************)
(* Instances of NetServer for TLC.  The remote programs differ by name     *)
(* only, so for the safety runs states that swap them are one.             *)
(***************************************************************************)
EXTENDS NetServer, TLC

\* Every remote program has a UDP address of its own.
OwnAddr == [p \in Peers |-> p]

\* One client with UDP, two without.
SmallServers == {[maxClients |-> 1, udp |-> TRUE], [maxClients |-> 2, udp |-> FALSE]}

UDPServer == {[maxClients |-> 1, udp |-> TRUE]}

Symmetry == Permutations(Peers)
================================================================================
