CONSTANTS
  p1 = p1
  p2 = p2
  p3 = p3
  w1 = w1
  w2 = w2
  c1 = c1
  c2 = c2
  Packets <- MCPackets
  Impostors <- MCImpostors
  Workers <- MCWorkers
  Cap = 1
  Closers <- MCClosers
  NoPacket = NoPacket
CHECK_DEADLOCK FALSE
SPECIFICATION FairSpec
INVARIANTS
  PacketsConserved
  OnlyAllowedIsSent
  OnlyRacesPanic
PROPERTIES
  PacketSettles
  CloseEndsGoroutines
