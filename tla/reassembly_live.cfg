SPECIFICATION FairSpec
CONSTANTS
  Server = Server
  Client = {c1}
  MaxEvents <- ClientSendsTwo
  Leaving = {c1}
  MaxEarly = 0
  PacketCounts <- OfTwoThenOne
  TotalPacketsMod = 4
  Unlimited = 3
  MaxPendingEvents = 1
  UnlimitedPendingEvents = FALSE
INVARIANTS
  TypeOK
  PendingAccounting
PROPERTIES
  EventuallyReceived
  EventuallyForgotten
