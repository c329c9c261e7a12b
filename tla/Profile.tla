-------------------------------- MODULE Profile --------------------------------
(***************************************************************************)
(* Instance profiles (NetInstanceProfile) and decryption keys (EncryptKey) *)
(* as the program uses them through the commands of mnCommands.cpp.  A     *)
(* profile holds values for the options of an instance and a pointer to a  *)
(* key.  Programs change options, copy and compare profiles, and delete    *)
(* profiles and keys; new instances read the options and copy the key.     *)
(*                                                                         *)
(* Of an option the model knows whether it has its default value, another  *)
(* one the program set, the one meant for a different option, or whatever  *)
(* was in memory.  TCP receive buffers are one option: wsaRecvSizeTCP is   *)
(* half of recvSizeTCP throughout.                                         *)
(***************************************************************************)
EXTENDS Naturals

CONSTANTS
  Profiles,   \* profiles the program has variables for
  Keys,       \* keys it has variables for
  Blocks,     \* blocks of memory for keys; each is allocated at most once
  Null,       \* a NULL pointer
  MaxSets     \* bound: options the program changes and keys it makes

ASSUME ProfileAssumption ==
  /\ Null \notin Blocks
  /\ MaxSets \in Nat

VARIABLES
  profile,    \* [Profiles -> Null, or the options and the key of a profile]
  key,        \* [Keys -> the block the program's variable points to]
  heap,       \* [Blocks -> "unused", "key" or "freed"]
  fault,      \* a freed key was freed again or read: nothing holds any more
  wanted,     \* history: the options as the program means them to be
  copies,     \* history: profiles that another profile was copied into
  careless,   \* history: a key got a second owner
  sets        \* counter for the bound MaxSets

vars == <<profile, key, heap, fault, wanted, copies, careless, sets>>

Limits == {"sendLimitTCP", "sendLimitUDP", "recvLimitTCP", "recvLimitUDP"}
Sizes  == {"recvSizeTCP", "recvSizeUDP"}
Recycle == {"recycleUDP", "recycleSizeUDP"}
Options == Limits \union Sizes \union Recycle \union
  {"localAddrTCP", "localAddrUDP", "enabledUDP", "handshakeEnabled", "modeTCP", "modeUDP",
   "autoResizeTCP", "sendTimeout", "gracefulDisconnect", "nagleEnabled", "postFixTCP",
   "reusableUDP", "serverTimeout", "numOperations", "recycleTCP"}

\* "other" of the Booleans with default true is false, "other" of modeUDP is one of
\* the modes that keep a packet per client.
Values == {"default", "other"}

\* What is in an option ("zero" only in the parameters of a command), and the objects
\* that pointers to profiles point to: NULL is none of them.
OptionContents == Values \union {"zero", "swapped", "junk"}
Settings == [Options -> OptionContents]
Objects  == [option : Settings, key : Blocks \union {Null}]

ASSUME NullIsNoProfile == Null \notin Objects

Exists(p) == ~fault /\ profile[p] # Null

\* Options r with those of f changed.
Override(r, f) == [o \in Options |-> IF o \in DOMAIN f THEN f[o] ELSE r[o]]

Init ==
  /\ profile = [p \in Profiles |-> Null]
  /\ key = [k \in Keys |-> Null]
  /\ heap = [b \in Blocks |-> "unused"]
  /\ fault = FALSE
  /\ wanted = [p \in Profiles |-> [o \in Options |-> "default"]]
  /\ copies = {} /\ careless = FALSE /\ sets = 0

\* DefaultVariables.
Defaults == [option |-> [o \in Options |-> "default"], key |-> Null]

(***************************************************************************)
(* Keys.                                                                   *)
(***************************************************************************)
\* CreateKey256 and the like, which differ in how the bytes are given.
CreateKey(k) ==
  /\ ~fault /\ key[k] = Null /\ sets < MaxSets
  /\ sets' = sets + 1
  /\ \E b \in Blocks :
       /\ heap[b] = "unused"
       /\ heap' = [heap EXCEPT ![b] = "key"]
       /\ key' = [key EXCEPT ![k] = b]
  /\ UNCHANGED <<profile, fault, wanted, copies, careless>>

\* delete of a pointer to a key, and whether deleting or reading it is an error.
Deleted(b) == IF b = Null THEN heap ELSE [heap EXCEPT ![b] = "freed"]
Freed(b)   == b # Null /\ heap[b] = "freed"
Owned(b)   == b # Null /\ \E p \in Profiles : profile[p] # Null /\ profile[p].key = b

\* The documentation of SetDecryptKeyUDP lets a program delete its key afterwards.
DeleteKey(k) ==
  /\ ~fault /\ key[k] # Null
  /\ heap' = Deleted(key[k])
  /\ fault' = Freed(key[k])
  /\ careless' = (careless \/ Owned(key[k]) \/ Freed(key[k]))
  /\ key' = [key EXCEPT ![k] = Null]
  /\ UNCHANGED <<profile, wanted, copies, sets>>

\* A program may also forget about a key.
ForgetKey(k) ==
  /\ ~fault /\ key[k] # Null
  /\ key' = [key EXCEPT ![k] = Null]
  /\ UNCHANGED <<profile, heap, fault, wanted, copies, careless, sets>>

\* Mutated form of SetDecryptKeyUDP: without a new key the pointer to the old one
\* stays.
SetDecryptKeyUDPStale(p, new) ==
  /\ heap' = Deleted(profile[p].key)
  /\ fault' = (Freed(profile[p].key) \/ (new # Null /\ heap'[new] = "freed"))
  /\ profile' = IF new = Null THEN profile ELSE [profile EXCEPT ![p].key = new]
  /\ careless' = (careless \/ Owned(new) \/ Freed(new))

\* SetDecryptKeyUDP deletes the old key, makes a copy of the new one, and then
\* keeps the program's key instead of the copy, which nobody frees.
SetDecryptKeyUDP(p, new) ==
  /\ heap' = Deleted(profile[p].key)
  /\ fault' = (Freed(profile[p].key) \/ (new # Null /\ heap'[new] = "freed"))
  /\ profile' = [profile EXCEPT ![p].key = new]
  /\ careless' = (careless \/ Owned(new) \/ Freed(new))

SetProfileDecryptKeyUDP(p, k) ==
  /\ Exists(p)
  /\ SetDecryptKeyUDP(p, key[k])
  /\ UNCHANGED <<key, wanted, copies, sets>>

\* Program variable k takes the key of profile p; the command fails if there is none.
GetProfileDecryptKeyUDP(p, k) ==
  /\ Exists(p) /\ key[k] = Null /\ profile[p].key # Null
  /\ key' = [key EXCEPT ![k] = profile[p].key]
  /\ UNCHANGED <<profile, heap, fault, wanted, copies, careless, sets>>

(***************************************************************************)
(* Options.  The program means "meant", the command stores "stored".       *)
(***************************************************************************)
Store(p, stored, meant) ==
  /\ Exists(p) /\ sets < MaxSets
  /\ sets' = sets + 1
  /\ profile' = [profile EXCEPT ![p].option = Override(@, stored)]
  /\ wanted' = [wanted EXCEPT ![p] = Override(@, meant)]
  /\ UNCHANGED <<key, heap, fault, copies, careless>>

One(o, v) == [x \in {o} |-> v]
Set(p, o, v) == Store(p, One(o, v), One(o, v))

SetProfileServerTimeout(p, v) == Set(p, "serverTimeout", v)
SetProfileEnabledUDP(p, v) == Set(p, "enabledUDP", v)
SetProfileAutoResizeTCP(p, v) == Set(p, "autoResizeTCP", v)
SetProfileGracefulDisconnectEnabled(p, v) == Set(p, "gracefulDisconnect", v)
SetProfileSendTimeout(p, v) == Set(p, "sendTimeout", v)
SetProfilePostfixTCP(p, v) == Set(p, "postFixTCP", v)
SetProfileNagleEnabledTCP(p, v) == Set(p, "nagleEnabled", v)
SetProfileLocalTCP(p, v) == Set(p, "localAddrTCP", v)
SetProfileLocalUDP(p, v) == Set(p, "localAddrUDP", v)
SetProfileReusableUDP(p, v) == Set(p, "reusableUDP", v)
SetProfileNumOperationsUDP(p, v) == Set(p, "numOperations", v)
SetProfileMemoryRecycleTCP(p, v) == Set(p, "recycleTCP", v)

\* The mode is tested first: the command fails if there is no such mode.
SetProfileModeTCP(p, v) == v \in Values /\ Set(p, "modeTCP", v)
SetProfileModeUDP(p, v) == v \in Values /\ Set(p, "modeUDP", v)

\* Without handshake there is no UDP either, until UDP is enabled again.
SetProfileHandshakeEnabled(p, v) ==
  LET f == IF v = "other" THEN [o \in {"handshakeEnabled", "enabledUDP"} |-> v]
                          ELSE One("handshakeEnabled", v)
  IN  Store(p, f, f)

\* v[o] is the address for option o.
SetProfileLocal(p, v) == Store(p, v, v)

\* The number of packets the memory recycle of UDP keeps, and their size.
SetProfileMemoryRecycleUDP(p, v) == Store(p, v, v)

\* The command for languages without references hands its parameters on in the
\* wrong order.  (Equal sizes, for which that does no harm, are left out.)
SetProfileBufferSizes(p, v, references) ==
  Store(p, IF references THEN v ELSE [o \in Sizes |-> "swapped"], v)

\* A limit of 0 keeps the one there is.
NewLimits(v) == [o \in {x \in DOMAIN v : v[x] # "zero"} |-> v[o]]
SetProfileSendMemoryLimit(p, v) == Store(p, NewLimits(v), NewLimits(v))
SetProfileRecvMemoryLimit(p, v) == Store(p, NewLimits(v), NewLimits(v))

GetProfileLocalAddressTCP(p) == profile[p].option["localAddrTCP"]
GetProfileLocalAddressUDP(p) == profile[p].option["localAddrUDP"]
GetProfileBufferSizeTCP(p) == profile[p].option["recvSizeTCP"]
GetProfileBufferSizeUDP(p) == profile[p].option["recvSizeUDP"]
GetProfileEnabledUDP(p) == profile[p].option["enabledUDP"]
GetProfileAutoResizeTCP(p) == profile[p].option["autoResizeTCP"]
GetProfileHandshakeEnabled(p) == profile[p].option["handshakeEnabled"]
GetProfileModeTCP(p) == profile[p].option["modeTCP"]
GetProfileModeUDP(p) == profile[p].option["modeUDP"]
GetProfileGracefulDisconnect(p) == profile[p].option["gracefulDisconnect"]
GetProfileSendTimeout(p) == profile[p].option["sendTimeout"]
GetProfilePostfixTCP(p) == profile[p].option["postFixTCP"]
GetProfileNagleEnabledTCP(p) == profile[p].option["nagleEnabled"]
GetProfileServerTimeout(p) == profile[p].option["serverTimeout"]
GetProfileSendMemoryLimitTCP(p) == profile[p].option["sendLimitTCP"]
GetProfileRecvMemoryLimitTCP(p) == profile[p].option["recvLimitTCP"]
GetProfileSendMemoryLimitUDP(p) == profile[p].option["sendLimitUDP"]
GetProfileRecvMemoryLimitUDP(p) == profile[p].option["recvLimitUDP"]
GetProfileMemoryRecycleTCP(p) == profile[p].option["recycleTCP"]
GetProfileMemoryRecycleUDP(p) == [o \in Recycle |-> profile[p].option[o]]
GetProfileReusableUDP(p) == profile[p].option["reusableUDP"]
GetProfileNumOperationsUDP(p) == profile[p].option["numOperations"]

\* The answers of all these commands.
Answers(p) ==
  [localAddrTCP |-> GetProfileLocalAddressTCP(p),
   localAddrUDP |-> GetProfileLocalAddressUDP(p),
   recvSizeTCP |-> GetProfileBufferSizeTCP(p),
   recvSizeUDP |-> GetProfileBufferSizeUDP(p),
   enabledUDP |-> GetProfileEnabledUDP(p),
   autoResizeTCP |-> GetProfileAutoResizeTCP(p),
   handshakeEnabled |-> GetProfileHandshakeEnabled(p),
   modeTCP |-> GetProfileModeTCP(p),
   modeUDP |-> GetProfileModeUDP(p),
   gracefulDisconnect |-> GetProfileGracefulDisconnect(p),
   sendTimeout |-> GetProfileSendTimeout(p),
   postFixTCP |-> GetProfilePostfixTCP(p),
   nagleEnabled |-> GetProfileNagleEnabledTCP(p),
   serverTimeout |-> GetProfileServerTimeout(p),
   sendLimitTCP |-> GetProfileSendMemoryLimitTCP(p),
   recvLimitTCP |-> GetProfileRecvMemoryLimitTCP(p),
   sendLimitUDP |-> GetProfileSendMemoryLimitUDP(p),
   recvLimitUDP |-> GetProfileRecvMemoryLimitUDP(p),
   recycleTCP |-> GetProfileMemoryRecycleTCP(p),
   recycleUDP |-> GetProfileMemoryRecycleUDP(p).recycleUDP,
   recycleSizeUDP |-> GetProfileMemoryRecycleUDP(p).recycleSizeUDP,
   reusableUDP |-> GetProfileReusableUDP(p),
   numOperations |-> GetProfileNumOperationsUDP(p)]

(***************************************************************************)
(* Profiles.                                                               *)
(***************************************************************************)
CreateInstanceProfile(p) ==
  /\ ~fault /\ profile[p] = Null
  /\ profile' = [profile EXCEPT ![p] = Defaults]
  /\ UNCHANGED <<key, heap, fault, wanted, copies, careless, sets>>

\* The destructor deletes the key.
DeleteInstanceProfile(p) ==
  /\ Exists(p)
  /\ heap' = Deleted(profile[p].key)
  /\ fault' = Freed(profile[p].key)
  /\ profile' = [profile EXCEPT ![p] = Null]
  /\ wanted' = [wanted EXCEPT ![p] = [o \in Options |-> "default"]]
  /\ copies' = copies \ {p}
  /\ UNCHANGED <<key, careless, sets>>

\* Mutated form of Copy: it leaves out an option that was added later.
CopyOldOptions(p, q) ==
  LET kept == IF profile[p] = Null THEN [o \in Limits \union {"reusableUDP"} |-> "junk"]
              ELSE [o \in Limits \union {"reusableUDP"} |-> profile[p].option[o]]
  IN  /\ profile' = [profile EXCEPT ![p] =
                       [option |-> Override(profile[q].option, kept), key |-> profile[q].key]]
      /\ wanted' = [wanted EXCEPT ![p] = wanted[q]]
      /\ copies' = copies \union {p}
      /\ careless' = (careless \/ profile[q].key # Null)
      /\ UNCHANGED <<key, heap, fault, sets>>

\* Copy leaves out the memory limits, and copies the pointer to the key.
Copy(p, q) ==
  LET kept == IF profile[p] = Null THEN [o \in Limits |-> "junk"]
                                   ELSE [o \in Limits |-> profile[p].option[o]]
  IN  /\ profile' = [profile EXCEPT ![p] =
                       [option |-> Override(profile[q].option, kept), key |-> profile[q].key]]
      /\ wanted' = [wanted EXCEPT ![p] = wanted[q]]
      /\ copies' = copies \union {p}
      /\ careless' = (careless \/ profile[q].key # Null)
      /\ UNCHANGED <<key, heap, fault, sets>>

CreateInstanceProfileFrom(p, q) == Exists(q) /\ profile[p] = Null /\ Copy(p, q)
AssignInstanceProfile(p, q)     == Exists(p) /\ Exists(q) /\ p # q /\ Copy(p, q)

\* The memory of the packets in the recycle of UDP.  By default there are none.
RecycleMemorySize(p) ==
  IF profile[p].option["recycleUDP"] = "default" THEN "zero" ELSE profile[p].option["recycleSizeUDP"]

\* The operator == of profiles.  It compares that memory, not the size of a packet.
CompareInstanceProfile(p, q) ==
  /\ \A o \in Options \ (Limits \union {"recycleSizeUDP"}) : profile[p].option[o] = profile[q].option[o]
  /\ RecycleMemorySize(p) = RecycleMemorySize(q)
  /\ profile[p].key = profile[q].key

(***************************************************************************)
(* New instances.  A client passes the limit of what UDP receives as that  *)
(* of what it sends.                                                       *)
(***************************************************************************)
ServerOptions(p) == profile[p].option
ClientOptions(p) == [profile[p].option EXCEPT !["sendLimitUDP"] = profile[p].option["recvLimitUDP"]]

\* The UDP mode of a server copies the key, if it is one of those that use it.
StartServer(p) ==
  /\ Exists(p)
  /\ fault' = /\ profile[p].option["enabledUDP"] = "default"
              /\ profile[p].option["modeUDP"] = "other"
              /\ Freed(profile[p].key)
  /\ UNCHANGED <<profile, key, heap, wanted, copies, careless, sets>>

\* A client copies the key if UDP is enabled, whatever its UDP mode.
StartClient(p) ==
  /\ Exists(p)
  /\ fault' = (profile[p].option["enabledUDP"] = "default" /\ Freed(profile[p].key))
  /\ UNCHANGED <<profile, key, heap, wanted, copies, careless, sets>>

KeyCommand ==
  \/ \E k \in Keys : CreateKey(k) \/ DeleteKey(k) \/ ForgetKey(k)
  \/ \E p \in Profiles, k \in Keys : SetProfileDecryptKeyUDP(p, k) \/ GetProfileDecryptKeyUDP(p, k)

SetCommand(p) ==
  \/ \E v \in Values :
       \/ SetProfileServerTimeout(p, v)
       \/ SetProfileEnabledUDP(p, v)
       \/ SetProfileAutoResizeTCP(p, v)
       \/ SetProfileGracefulDisconnectEnabled(p, v)
       \/ SetProfileSendTimeout(p, v)
       \/ SetProfilePostfixTCP(p, v)
       \/ SetProfileNagleEnabledTCP(p, v)
       \/ SetProfileLocalTCP(p, v)
       \/ SetProfileLocalUDP(p, v)
       \/ SetProfileReusableUDP(p, v)
       \/ SetProfileNumOperationsUDP(p, v)
       \/ SetProfileMemoryRecycleTCP(p, v)
       \/ SetProfileModeTCP(p, v)
       \/ SetProfileModeUDP(p, v)
       \/ SetProfileHandshakeEnabled(p, v)
  \/ \E v \in [{"localAddrTCP", "localAddrUDP"} -> Values] : SetProfileLocal(p, v)
  \/ \E v \in [Recycle -> Values] : SetProfileMemoryRecycleUDP(p, v)
  \/ \E v \in [Sizes -> Values], references \in BOOLEAN : SetProfileBufferSizes(p, v, references)
  \/ \E v \in [{"sendLimitTCP", "sendLimitUDP"} -> Values \union {"zero"}] : SetProfileSendMemoryLimit(p, v)
  \/ \E v \in [{"recvLimitTCP", "recvLimitUDP"} -> Values \union {"zero"}] : SetProfileRecvMemoryLimit(p, v)

ProfileCommand ==
  \/ \E p \in Profiles : CreateInstanceProfile(p) \/ DeleteInstanceProfile(p)
  \/ \E p, q \in Profiles : CreateInstanceProfileFrom(p, q) \/ AssignInstanceProfile(p, q)

Next ==
  \/ KeyCommand
  \/ \E p \in Profiles : SetCommand(p)
  \/ ProfileCommand
  \/ \E p \in Profiles : StartServer(p) \/ StartClient(p)

Spec == Init /\ [][Next]_vars

(***************************************************************************)
(* Properties.                                                             *)
(***************************************************************************)
\* Whatever the program set, copied and assigned, in whatever order: each Get
\* command answers what the program meant the option to be, and the instances
\* made from the profile use it, but for the known exceptions: the limits of a
\* profile that was copied into, buffer sizes set with the command that swaps
\* them, and the limit a client takes for what it sends by UDP.  Profiles that are
\* meant to be alike compare as equal.
ReadsWhatWasSet ==
  /\ \A p, q \in Profiles :
       (/\ Exists(p) /\ Exists(q) /\ wanted[p] = wanted[q] /\ profile[p].key = profile[q].key
        /\ \A o \in Sizes : "swapped" \notin {Answers(p)[o], Answers(q)[o]})
       => CompareInstanceProfile(p, q)
  /\ \A p \in Profiles : Exists(p) =>
    \A o \in Options :
      \/ /\ Answers(p)[o] = wanted[p][o]
         /\ ServerOptions(p)[o] = wanted[p][o]
         /\ o # "sendLimitUDP" => ClientOptions(p)[o] = wanted[p][o]
      \/ o \in Limits /\ p \in copies
      \/ o \in Sizes /\ Answers(p)[o] = "swapped"

\* As long as a program does not give a key two owners -- by deleting it after
\* handing it over, handing it over twice, or copying a profile that has one --
\* no key is freed twice or read after it was freed, by the library or by an
\* instance.  (A program that follows the documentation does give keys two
\* owners: it promises copies throughout.)
KeysSafeIfOneOwner == fault => careless
================================================================================
