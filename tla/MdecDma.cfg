CONSTANTS
  BlockWords = 2
  OutWords = 2
  Streams <- MCStreams
  OutSizes <- MCOutSizes
  Counts <- MCCounts
  TableWords = 2
  CpuWords <- JustData
  PortReads = TRUE
SPECIFICATION Spec
INVARIANTS
  TypeOK
  FrameIsConserved
  InputBusyHasAnEnd
PROPERTIES
  InputKeepsItsTime
