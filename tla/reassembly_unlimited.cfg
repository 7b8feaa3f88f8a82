SPECIFICATION Spec
CONSTANTS
  Server = Server
  Client = {c1}
  MaxEvents <- ClientSends
  Leaving = {Server, c1}
  MaxEarly = 1
  PacketCounts <- OfOne
  TotalPacketsMod = 4
  Unlimited = 3
  MaxPendingEvents = 2
  UnlimitedPendingEvents = TRUE
INVARIANT UnlimitedNeverRunsOut
