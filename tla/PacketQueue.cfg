CONSTANTS
  gui = gui
  worker = worker
  MaxRead <- MCMaxRead
  PktSize <- MCPktSize
  PktDuration <- MCPktDuration
  Controllers <- MCControllers
  NoPacket = NoPacket
SPECIFICATION FairSpec
INVARIANTS QueueInv LiveWhereHeld FileOrder FreedTwiceOnlyRefused
PROPERTIES StopEndsGet ImplementsChannel
