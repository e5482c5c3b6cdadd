SPECIFICATION FairSpec
CONSTANTS
  sys = sys
  usr = usr
  app = app
  rom = rom
  Bank = {sys, usr, app, rom}
  Rom <- RomBanks
  BIOS = sys
  Shadow <- RomShadow
  Prepared = {sys, usr, rom}
  IM = 2
  H8P = FALSE
  Chunks = 2
  Depth = 1
  Common = Common
  Junk = Junk
  ResultAF = ResultAF
INVARIANTS CopyExact
PROPERTIES EveryCallReturns
VIEW View
