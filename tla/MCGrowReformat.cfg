CONSTANTS
  None = None
  Units <- MCUnits
  AlignmentBytes = 4
  GptEntryBytes = 2
  DosLimit = 64
  Devices <- MCDevices
  Hosts <- MCAllHosts
  Requests <- MCRequests
  Orders <- MCOrders
  Migrations <- MCMigrations
  SwapfileAt <- MCSwapfileAt
  PageBytes = 1
  PlainSectors = {1, 2}
  TailSectors = {1, 2}
  FirstPartition <- MCFirstPartition
  MaxInterference = 1
SPECIFICATION Spec
INVARIANTS FilesystemKept
CHECK_DEADLOCK FALSE
