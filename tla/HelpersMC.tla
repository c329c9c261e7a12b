------------------------------- MODULE HelpersMC -------------------------------
(***************************************************************************)
(* Helpers for TLC: programs with two packets, with two inputs, with two   *)
(* outputs, with one of each, and with nothing.                            *)
(***************************************************************************)
EXTENDS Helpers, TLC

CONSTANTS p1, p2, in1, in2, out1, out2, k1, k2

AllObjects == {p1, p2, in1, in2, out1, out2}
AllPackets == {p1, p2}
ClassOfObject == [o \in AllObjects |-> IF o \in AllPackets THEN "packet" ELSE "sound"]
TwoAndOne == [c \in {"packet", "sound"} |-> IF c = "packet" THEN 2 ELSE 1]
AllScenes == {{}, {p1, p2}, {in1, in2}, {in2, out2}, {out1, out2}}
AllSizes == (p1 :> 5) @@ (p2 :> 1)
Data2And1 == (in1 :> 2) @@ (in2 :> 1) @@ (out1 :> 2) @@ (out2 :> 1)
Operations2And1 == (p1 :> 2) @@ (p2 :> 1)
================================================================================
