------------------------------ MODULE ThreadUsers ------------------------------
(***************************************************************************)
(* The parts of the library that run on shared threads, together: a        *)
(* program encrypts packets, or uses sound, or does both.                  *)
(***************************************************************************)
EXTENDS Encryption, Sound

userVars == <<poolVars, encryptionVars, soundVars, scene>>

UsersInit == Init /\ EncryptionInit /\ SoundInit

\* Whoever is in a call goes on with it, and the threads and devices go on.
Proceed ==
  \/ PoolNext /\ UNCHANGED <<encryptionVars, soundVars>>
  \/ EncryptionGoesOn /\ UNCHANGED soundVars
  \/ SoundGoesOn /\ UNCHANGED encryptionVars

UsersNext ==
  /\ \/ Proceed
     \/ scene \intersect Packets # {} /\ EncryptionCalls /\ UNCHANGED soundVars
     \/ scene \intersect Instances # {} /\ SoundCalls /\ UNCHANGED encryptionVars
  /\ UNCHANGED scene

UsersSpec == UsersInit /\ [][UsersNext]_userVars

(***************************************************************************)
(* Properties.                                                             *)
(***************************************************************************)
\* What an object that is destroyed still has in use is used until it has ended: memory
\* is deleted twice, or used when it is gone, only if an object was destroyed before it
\* was known to be idle and others kept the threads, or the key was deleted too early,
\* or a setup ran beside a cleanup, or a device failed.
FinishedMeansUnused == fault => rash # {} \/ careless \/ overlapped \/ fails > 0
================================================================================
