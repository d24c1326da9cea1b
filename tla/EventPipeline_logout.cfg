SPECIFICATION Spec
CONSTANTS
  MaxPackets = 1
  MaxEvents = 1
  MaxReloads = 0
  PacketLimit = 1
  EventLimit = 1
  ArchiveCsv = FALSE
  Commands <- AllCommands
INVARIANTS QueueIsLocked
