SPECIFICATION MCSpec
CONSTANTS
  Word = 64
  HbEnd = 5
  Bit <- TwoBits
  W <- Signature
  One <- Present
  Version <- VersionSum
  Image <- AsBuilt
  Default <- Factory
CONSTRAINT OneAtATime
INVARIANTS BlocksApart RefusalExact StatusHonest TornSetIsSeen
