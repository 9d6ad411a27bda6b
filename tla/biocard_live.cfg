SPECIFICATION FairSpec
CONSTANTS
  w1 = w1
  w2 = w2
  Workers = {w1, w2}
  NoSample = NoSample
  Samples = {"f0", "f1", "g0", "g1"}
  KindOf <- MCKindOf
  Score <- MCScore
  GostScore <- MCGostScore
  Seed <- SeedFaceFinger
  Sequenced = {"face", "finger"}
  ExactSearch = TRUE
  SeqMax = 4
  BcMax = 2
  Ops = {"new", "into", "delete", "unlink"}
  MaxElems = 2
  MaxRequests = 2
  Faults = FALSE
PROPERTIES EveryRequestAnswered
