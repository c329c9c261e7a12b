----------------------------- MODULE FoundationsMC -----------------------------
(***************************************************************************)
(* Foundations for TLC: programs with two vectors or two queues, and the   *)
(* tests of StoreVector and StoreQueue with stores of their own.           *)
(***************************************************************************)
EXTENDS Foundations, TLC

CONSTANTS a, b, test, copyMade, assigned

FreePrograms == [kind : {"vector", "queue"}, of : {{a, b}}, script : {"free"}]
TestPrograms == {[kind |-> "vector", of |-> {}, script |-> "vector"],
                 [kind |-> "vector", of |-> {}, script |-> "sort"],
                 [kind |-> "vector", of |-> {}, script |-> "find"],
                 [kind |-> "queue", of |-> {}, script |-> "queue"]}
Scenes == FreePrograms \union TestPrograms

\* What does not belong to the subject never changes, so it does not tell states apart,
\* nor does what a program has left that did something excused: it does not go on.
OfSubject ==
  <<subject,
    CASE subject = "profile" -> vars
      [] subject = "control" -> controlVars
      [] subject = "simple" -> simpleVars
      [] subject = "stores" -> IF excused THEN <<storeScene>> ELSE storeVars
      [] subject = "cells" -> cellVars>>

\* Stores and profiles are interchangeable.  No behaviour is about both, so it is enough
\* to swap both at once.
Alike ==
  {f @@ g : <<f, g>> \in {<<f, g>> \in Permutations({a, b}) \X Permutations(Profiles) :
                           f[a] = a <=> \A p \in Profiles : g[p] = p}}
================================================================================
