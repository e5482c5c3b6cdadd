CONSTANTS
  Wirings <- MCWirings
  NoDevice = NoDevice
  Faults = 3
  Rounds = 1
SPECIFICATION EnumSpec
INVARIANT EnumTypeOK OneAnswers SlotsRight EverythingFound DrivesExact
PROPERTY BootGoesOn
CHECK_DEADLOCK FALSE
