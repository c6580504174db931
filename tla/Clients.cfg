CONSTANTS
  Stream <- MC_Stream
  BufSize = 3
  MaxFaults = 4
  MaxLines = 3
  Files <- MC_Files
SPECIFICATION Spec
INVARIANTS TypeOK DescriptorsOwned ShownIsSent ConfiguredServer
PROPERTIES DataIsRead
CHECK_DEADLOCK FALSE
