CONSTANTS Size = 8
  Fifo = 2
  Lag = 2
  Byte = {x}
  none = none
SPECIFICATION Spec
VIEW View
INVARIANT LineAsReported
