SPECIFICATION Spec
CONSTANTS
  ifc = ifc
  ifcOther = ifcOther
  In = In
  Out = Out
  Event = Event
  hUni = hUni
  hWatch = hWatch
  hFirst = hFirst
  hSecond = hSecond
  None = None
  Dummy = Dummy
  ClientBigEndian = FALSE
  ServerBigEndian = FALSE
  Interfaces = {ifc, ifcOther}
  Latest <- MCLatest
  Structs = {In, Out, Event, Dummy}
  InterfaceOf <- MCInterfaceOf
  Origin <- GrownOrigin
  PartySettings = PartySettings
  ClientLibrary <- GrownClientLibrary
  ServerLibrary <- GrownServerLibrary
  ClientOffers <- GrownClientOffers
  ServerOffers <- GrownServerOffers
  Handlers = {hUni, hWatch, hFirst, hSecond}
  Traits <- GrownTraits
  Calls <- GrownCalls
  AdditionalFlags <- AllFlags
  OtherRequests <- GrownRequests
INVARIANTS TypeOK SettingsSuitBoth AgreedClientIsServed EveryRequestAnswered   AgreementInv
