------------------------------ MODULE CommandsMC ------------------------------
(***************************************************************************)
(* The commands of the module for TLC: those on instances (Commands) and   *)
(* those on packets (Packet).  They use no state of each other, so each    *)
(* behaviour is about one kind, and the rest stays as it began.  Objects   *)
(* and ports differ by name only.  Sizes are scaled down: what matters is  *)
(* that numbers have different sizes, and that the prefix is larger than   *)
(* a size_t, as on a 32 bit build.                                         *)
(***************************************************************************)
EXTENDS Commands, Packet, TLC

VARIABLE subject

CommandsInit == subject \in {"instances", "packets"} /\ Init /\ PacketInit

InstancesNext == subject = "instances" /\ Next /\ UNCHANGED <<packetVars, subject>>

PacketsNext == subject = "packets" /\ PacketNext /\ UNCHANGED <<vars, subject>>

CommandsSpec ==
  CommandsInit /\ [][InstancesNext \/ PacketsNext]_<<vars, packetVars, subject>>

SmallSizes == [type \in NumberTypes |-> IF type \in {"byte", "short", "size_t"} THEN 1 ELSE 2]

\* One packet that can be cut in the middle, and one to copy to and from.
Large == CHOOSE k \in Packets : TRUE
Rooms == [k \in Packets |-> IF k = Large THEN 3 ELSE 1]

Symmetry == Permutations(Objects)

\* No step depends on last: states that differ there only are one.
WithoutLast == IF subject = "packets" THEN <<live, packet, op, fault>> ELSE vars
================================================================================
