--------------------------- MODULE MCCspMessaging ---------------------------
(***************************************************************************)
(* Instances of CspMessaging for TLC.  Interface ifc has a unicast handler *)
(* hUni of In with output Out, beside which hWatch, a multicast handler of *)
(* In without an output, may be registered, and two multicast handlers of  *)
(* Event, hFirst and hSecond; no handler is of interface ifcOther.         *)
(***************************************************************************)
EXTENDS CspMessaging

CONSTANTS ifc, ifcOther, In, Out, Event, hUni, hWatch, hFirst, hSecond

Trait(input, output, multicast, minimum) ==
  [input |-> input, output |-> output, multicast |-> multicast, minimum |-> minimum]

Call(input, output) == [input |-> input, output |-> output]

MCLatest      == [x \in {ifc, ifcOther} |-> IF x = ifc THEN 3 ELSE 1]
MCInterfaceOf == [x \in {In, Out, Event} |-> ifc]

(* Both sides are built for 64 bits, little-endian.                        *)
AllFlags == SUBSET {"bitness32"}

(* Settings of one interface, at the given version.                        *)
Offer(versions, mandatory, forbidden, interface, version) ==
  Settings(versions, mandatory, forbidden, [x \in {interface} |-> version])

-----------------------------------------------------------------------------
(* Messaging: the client is built for protocol versions 2 and 1, the       *)
(* server for 3 too.  Out appeared in version 2 of interface ifc, Event is *)
(* as old as ifc, and hSecond asks for version 2.                          *)

GrownClientLibrary == <<2, 1>>
GrownServerLibrary == <<3, 2, 1>>

GrownOrigin == [x \in {In, Out, Event, Dummy} |-> IF x = Out THEN 2 ELSE IF x = Event THEN 0 ELSE 1]

GrownTraits ==
  [h \in {hUni, hWatch, hFirst, hSecond} |->
     CASE h = hUni  -> Trait(In, Out, FALSE, 2)
       [] h = hWatch -> Trait(In, Dummy, TRUE, 1)
       [] h = hFirst -> Trait(Event, Dummy, TRUE, MinimumInterfaceVersion(Event, Dummy))
       [] h = hSecond -> Trait(Event, Dummy, TRUE, 2)]

GrownCalls == {Call(In, Out), Call(In, Dummy), Call(Event, Dummy)}

(* One that every server may suit, one that forbids a flag, one with a     *)
(* version the client's build does not have, one of the oldest version,    *)
(* and one that is not valid.                                              *)
GrownClientOffers ==
  {Offer(<<2, 1>>, {}, {}, ifc, 2),
   Offer(<<2, 1>>, {}, {"bitness32"}, ifc, 3),
   Offer(<<3, 2>>, {}, {}, ifc, 3),
   Offer(<<1>>, {}, {}, ifc, 3),
   Offer(<<2, 1>>, {"bitness32"}, {"bitness32"}, ifc, 3)}

(* One with every version, an old one that forbids a flag, one that        *)
(* demands it, one that demands a byte order that is not its own, and one  *)
(* with another interface.                                                 *)
GrownServerOffers ==
  {Offer(<<3, 2, 1>>, {}, {}, ifc, 3),
   Offer(<<2>>, {}, {"bitness32"}, ifc, 1),
   Offer(<<3, 2>>, {"bitness32"}, {}, ifc, 3),
   Offer(<<3, 2>>, {"bigEndian"}, {}, ifc, 3),
   Offer(<<2, 1>>, {}, {}, ifcOther, 1)}

(* Other clients: one asks for settings, one has another byte order, one   *)
(* sends a message no server reads, one is from the future.                *)
GrownRequests ==
  {Request("GetSettings", 1, {}, None, None),
   Request("Data", 2, {"bigEndian"}, Event, 1),
   Request("Status", 2, {}, None, None),
   Request("Data", 9, {}, Event, 1)}
=============================================================================
