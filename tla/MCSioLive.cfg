CONSTANTS Size = 6
  Fifo = 2
  Lag = 3
  Byte = {x, y}
  none = none
SPECIFICATION FairSpec
VIEW View
INVARIANTS FlowControl NoByteDropped
PROPERTIES IsQueue LineReopens Served
