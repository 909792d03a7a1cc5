SPECIFICATION FairSpec
CONSTANTS
  c1 = c1
  c2 = c2
  a1 = a1
  a2 = a2
  i1 = i1
  i2 = i2
  h1 = h1
  h2 = h2
  h3 = h3
  p1 = p1
  p2 = p2
  s1 = s1
  s2 = s2
  s3 = s3
  None = None
  Clients = {c1, c2}
  Admins = {a1, a2}
  Ids = {i1, i2}
  Handlers = {h1, h2, h3}
  Services = {p1, p2}
  Slots = {s1, s2, s3}
  InputId <- MCInputId
  ServiceOf <- MCServiceOf
  Multicast <- MCMulticast
  Registers <- Registered
  Unregisters <- ByHandler
  Withdraws <- NotByService
  MaxCalls <- MCMaxCalls
  CounterMax = 7
INVARIANTS TypeOK HeldHandlersStay CountersExact LatchCountedOnce HandlerInv
PROPERTIES ImplementsDrainingRegistry UnregisterReturns
