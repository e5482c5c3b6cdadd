SPECIFICATION Spec
CONSTANTS
  sys = sys
  usr = usr
  app = app
  rom = rom
  Bank = {sys, usr, app, rom}
  Rom <- RomBanks
  BIOS = sys
  Shadow <- RomShadow
  Prepared = {sys, usr, rom}
  IM = 1
  H8P = TRUE
  Chunks = 2
  Depth = 2
  Common = Common
  Junk = Junk
  ResultAF = ResultAF
INVARIANTS RightBank VectorReady
PROPERTIES CallReturns
VIEW View
