------------------------- MODULE MCHandlerRegistrar -------------------------
(***************************************************************************)
(* Instances of HandlerRegistrar for TLC.  Two services, as in StressTest  *)
(* of ComplexTests.cpp: h1 and h2 belong to the first, h3 to the second;   *)
(* h1 and h3 are multicast handlers of the same id, h2 is the unicast      *)
(* handler of another.  In OneId all three are of one id, and only h1 is   *)
(* multicast.                                                              *)
(***************************************************************************)
EXTENDS HandlerRegistrarInvariant

CONSTANTS c1, c2, a1, a2, i1, i2, h1, h2, h3, p1, p2, s1, s2, s3

MCInputId   == [h \in {h1, h2, h3} |-> IF h = h2 THEN i2 ELSE i1]
MCServiceOf == [h \in {h1, h2, h3} |-> IF h = h3 THEN p2 ELSE p1]
MCMulticast == {h1, h3}

(* Admin a1 manages the first service, a2 the second.                      *)
Own(x, y) == [a \in {a1, a2} |-> IF a = a1 THEN x ELSE y]
Registered     == Own({h1, h2}, {h3})
ByHandler      == Own({h1, h2}, {h3})
ByService      == Own({p1}, {p2})
NotByHandler   == Own({}, {})
NotByService   == Own({}, {})

MCMaxCalls     == Own(4, 3)

(* Admin a1 uses both kinds of removal, as the thread of StressTest that   *)
(* calls unregisterService, registerHandlers and unregisterDiamond.        *)
OfBothServices == Own({h1, h2, h3}, {})
WithdrawsFirst == Own({p1}, {})

(* Handlers of both kinds for one id, h1 alone being multicast.            *)
OneId          == [h \in {h1, h2, h3} |-> i1]
FirstMulticast == {h1}

(* Admin a1 removes the service while a2 removes one of its handlers.      *)
FirstRegisters    == Own({h1}, {})
SecondUnregisters == Own({}, {h1})
=============================================================================
