--------------------------- MODULE MessageOwnership ---------------------------
(***************************************************************************)
(* What ThreadMessageItem promises (ThreadMessageItem.cpp, comments of     *)
(* ShouldThreadCleanup and ShouldSenderCleanup): a message belongs to the  *)
(* sending and to the receiving thread from the moment it is posted, each  *)
(* side gives it up, and "the object is cleaned up by either the thread or *)
(* the sender, but is only cleaned up once".  Which side cleans up, and    *)
(* through which flags and locks the two sides agree on it, is left open.  *)
(***************************************************************************)
CONSTANTS Items

Sides == {"thread", "sender"}

VARIABLES
    owners,  \* owners[i]: the sides that may still touch item i
    life     \* life[i]: "unborn", "live" or "freed"

vars == <<owners, life>>

Init ==
    /\ owners = [i \in Items |-> {}]
    /\ life = [i \in Items |-> "unborn"]

\* An item comes into existence in the hands of the code that built it.
Create(i) ==
    /\ life[i] = "unborn"
    /\ life' = [life EXCEPT ![i] = "live"]
    /\ owners' = owners

\* Posting shares a live item between the two sides.
Share(i) ==
    /\ life[i] = "live"
    /\ owners[i] = {}
    /\ owners' = [owners EXCEPT ![i] = Sides]
    /\ life' = life

\* One side stops using the item.
Release(i, side) ==
    /\ life[i] = "live"
    /\ side \in owners[i]
    /\ owners' = [owners EXCEPT ![i] = @ \ {side}]
    /\ life' = life

\* The item is destroyed, once, when nobody may touch it any more.
Destroy(i) ==
    /\ life[i] = "live"
    /\ owners[i] = {}
    /\ life' = [life EXCEPT ![i] = "freed"]
    /\ owners' = owners

Next ==
    \E i \in Items :
        \/ Create(i)
        \/ Share(i)
        \/ \E side \in Sides : Release(i, side)
        \/ Destroy(i)

Spec == Init /\ [][Next]_vars
===============================================================================
