SPECIFICATION Spec
CONSTANTS
  Server = Server
  Client = {c1, c2}
  MaxEvents <- ServerSends
  Leaving = {Server}
  MaxEarly = 1
  PacketCounts <- OfTwo
  TotalPacketsMod = 4
  Unlimited = 3
  MaxPendingEvents = 2
  UnlimitedPendingEvents = FALSE
INVARIANTS
  WholeEvents
  DeliveredOnce
  AckedMeansReceived
  ForgottenMeansCompleted
PROPERTY ImplementsChannel

SYMMETRY SymmetryOfClients
