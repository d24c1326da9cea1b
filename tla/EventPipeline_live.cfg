SPECIFICATION FairSpec
CONSTANTS
  MaxPackets = 2
  MaxEvents = 1
  MaxReloads = 0
  PacketLimit = 1
  EventLimit = 1
  ArchiveCsv = FALSE
  Commands <- LockedCommands
PROPERTIES QueuesDrain ShutdownCompletes
