----------------------------- MODULE NetClientMC ------------------------------
(***************************************************************************)
(* Instances of NetClient for TLC.                                         *)
(***************************************************************************)
EXTENDS NetClient

\* Every profile that a client can be loaded with: UDP needs the handshake.
\* Graceful disconnection matters once connected only, and is taken together with
\* a receive function.
AllSetups ==
  {s \in [handshake : BOOLEAN, udp : BOOLEAN, func : BOOLEAN, graceful : BOOLEAN] :
     (s.udp => s.handshake) /\ (s.graceful => s.func)}
=============================================================================
