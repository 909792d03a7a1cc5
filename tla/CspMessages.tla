---------------------------- MODULE CspMessages ----------------------------
(***************************************************************************)
(* What a Client and a Server of CSP both know: the settings of a party,   *)
(* the messages, and the checks of the Common Context.                     *)
(*                                                                         *)
(* A message is what one serialization writes: a Status or a Data message, *)
(* or the request for settings.  The binary output of a server is the      *)
(* sequence of the messages written to it one after another.  The field    *)
(* cut says where an error ended the writing of a message: in its context, *)
(* in its body, or nowhere.                                                *)
(***************************************************************************)
EXTENDS Integers, SequencesExt

CONSTANTS
  None,
  Interfaces,   (* ids of CSP interfaces                                   *)
  Latest,       (* Latest[i]: m_version of interface i                     *)
  Structs,      (* structs that messages carry                             *)
  InterfaceOf,  (* InterfaceOf[s]: the interface struct s belongs to       *)
  Origin,       (* Origin[s]: getOriginPrivateVersion                      *)
  Dummy,        (* ISerializableDummy: no output                           *)
  PartySettings (* the struct CspPartySettings                             *)

ASSUME StructsAssumption ==
  /\ Dummy \in Structs
  /\ Latest \in [Interfaces -> 0..(2147483647 - 1)]
  /\ InterfaceOf \in [Structs \ {Dummy} -> Interfaces]
  /\ Origin \in [Structs -> Nat]
  /\ PartySettings \notin Structs

Undefined == 255                    \* kProtocolVersionUndefined

(* kInterfaceVersionUndefined, 2^32 - 1 in the code: above every version.  *)
UndefinedInterface == 2147483647

-----------------------------------------------------------------------------
(* Common flags.                                                           *)

Flags == {"bitness32", "bigEndian", "endiannessDifference"}

(* CommonFlags{} on a platform of 64 bits.                                 *)
PlatformFlags(bigEndian) == IF bigEndian THEN {"bigEndian"} ELSE {}

(* The byte order of the message is not the platform's, and the message    *)
(* does not say that it may differ.                                        *)
ByteOrderRefused(flags, bigEndian) ==
  /\ ("bigEndian" \in flags) # bigEndian
  /\ "endiannessDifference" \notin flags

-----------------------------------------------------------------------------
(* Settings.                                                               *)

(* CspPartySettings: the versions in decreasing order, the flags, and a    *)
(* version for each interface that is available.                           *)
Settings(versions, mandatory, forbidden, interfaces) ==
  [versions |-> versions, mandatory |-> mandatory, forbidden |-> forbidden,
   interfaces |-> interfaces]

Cleared(bigEndian) ==
  Settings(<<>>, PlatformFlags(bigEndian), PlatformFlags(bigEndian), [i \in {} |-> 0])

SettingsValid(s) ==
  /\ s.versions # <<>>
  /\ s.mandatory \cap s.forbidden = {}
  /\ DOMAIN s.interfaces # {}

(* The elements of s that T has, in their order: what a loop over s finds. *)
FoundIn(s, T) ==
  LET F[n \in 0..Len(s)] ==
        IF n = 0 THEN <<>> ELSE IF s[n] \in T THEN Append(F[n - 1], s[n]) ELSE F[n - 1]
  IN F[Len(s)]

(* To those of mine, the interfaces of both sides are added, each with the *)
(* smaller of its versions.                                                *)
CommonInterfaces(mine, l, r) ==
  [i \in DOMAIN mine.interfaces \cup (DOMAIN l.interfaces \cap DOMAIN r.interfaces) |->
     IF i \in DOMAIN mine.interfaces THEN mine.interfaces[i]
     ELSE IF l.interfaces[i] < r.interfaces[i] THEN l.interfaces[i] ELSE r.interfaces[i]]

(* getCompatibleSettings: its status, and what it leaves in the settings   *)
(* when it fails.  It adds to the settings mine, which are cleared before. *)
Compatible(mine, l, r) ==
  LET versions   == mine.versions \o FoundIn(l.versions, Range(r.versions))
      mandatory  == l.mandatory \cup r.mandatory
      forbidden  == l.forbidden \cup r.forbidden
      interfaces == CommonInterfaces(mine, l, r)
      Result(status, s) == [status |-> status, settings |-> s]
  IN CASE versions = <<>> ->
            Result("ErrorNotSupportedProtocolVersion", mine)
       [] versions # <<>> /\ mandatory \cap forbidden # {} ->
            Result("ErrorNotCompatibleCommonFlagsSettings",
                   Settings(versions, mandatory, forbidden, mine.interfaces))
       [] versions # <<>> /\ mandatory \cap forbidden = {} ->
            Result(IF DOMAIN interfaces = {} THEN "ErrorNoSupportedInterfaces" ELSE "NoError",
                   Settings(versions, mandatory, forbidden, interfaces))

-----------------------------------------------------------------------------
(* Messages.                                                               *)

(* A request: no content but for a Data message, which carries a struct    *)
(* in the form of an interface version.                                    *)
Request(type, version, flags, struct, interfaceVersion) ==
  [type |-> type, version |-> version, flags |-> flags, struct |-> struct,
   interfaceVersion |-> interfaceVersion]

StatusMessage(version, flags, status, body) ==
  [type |-> "Status", version |-> version, flags |-> flags, status |-> status, body |-> body]

DataMessage(version, flags, struct, interfaceVersion, content, cut) ==
  [type |-> "Data", version |-> version, flags |-> flags, struct |-> struct,
   interfaceVersion |-> interfaceVersion, content |-> content, cut |-> cut]

(* common::ContextProcessor::serialize and its checks; library is          *)
(* kProtocolVersions of the party's build.                                 *)
CommonSerialize(version, flags, library, bigEndian) ==
  IF version \notin Range(library) THEN "ErrorNotSupportedProtocolVersion"
  ELSE IF ByteOrderRefused(flags, bigEndian) THEN "ErrorNotCompatibleCommonFlagsSettings"
  ELSE "NoError"

(* common::ContextProcessor::deserialize of a context created with the     *)
(* version minimum.                                                        *)
CommonDeserialize(m, minimum, library, bigEndian) ==
  IF minimum > m.version \/ library[1] < m.version THEN "ErrorNotSupportedProtocolVersion"
  ELSE IF ByteOrderRefused(m.flags, bigEndian) THEN "ErrorNotCompatibleCommonFlagsSettings"
  ELSE "NoError"

(* testCommonFlagsCompatibility.                                           *)
TestCommonFlags(flags, forbidden, mandatory) ==
  IF flags \cap forbidden = {} /\ mandatory \subseteq flags
  THEN "NoError" ELSE "ErrorNotCompatibleCommonFlagsSettings"

(* isInterfaceVersionSupported.                                            *)
InterfaceVersionSupported(version, minimum, maximum) ==
  maximum >= version /\ version >= minimum

(* The default of a handler's kMinimumInterfaceVersion.                    *)
MinimumInterfaceVersion(input, output) ==
  IF Origin[input] < Origin[output] THEN Origin[input] ELSE Origin[output]
=============================================================================
