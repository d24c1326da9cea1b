SPECIFICATION Spec
CONSTANTS
  MaxPackets = 1
  MaxEvents = 3
  MaxReloads = 1
  PacketLimit = 1
  EventLimit = 2
  ArchiveCsv = TRUE
  Commands <- AllCommands
INVARIANTS TypeOK Accounted CsvFollowsTable ConnectedWhenStoring
PROPERTIES OptionsFixedDuringBatch ImplementsAuditTrail
