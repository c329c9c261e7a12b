-------------------------------- MODULE Helpers --------------------------------
(***************************************************************************)
(* The users of shared threads, and what happens to one chunk of a packet: *)
(* the program without objects shows the latter.                           *)
(***************************************************************************)
EXTENDS ThreadUsers, Aes

helperVars == <<userVars, aesVars>>

HelpersInit == UsersInit /\ AesInit

HelpersNext ==
  \/ UsersNext /\ UNCHANGED aesVars
  \/ scene = {} /\ AesNext /\ UNCHANGED userVars

Spec == HelpersInit /\ [][HelpersNext]_helperVars

(***************************************************************************)
(* Properties.                                                             *)
(***************************************************************************)
\* No call waits for ever, neither for a lock nor for threads or buffers, unless a setup
\* ran beside a cleanup (the two take the same two locks in opposite order) or a device
\* failed.  Nothing in Proceed can be repeated for ever.
NothingHangs ==
  (\E k \in Callers : call[k].at # "idle") =>
    overlapped \/ fault \/ fails > 0 \/ ENABLED (Proceed /\ UNCHANGED <<aesVars, scene>>)
================================================================================
