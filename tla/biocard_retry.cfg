SPECIFICATION Spec
CONSTANTS
  w1 = w1
  Workers = {w1}
  NoSample = NoSample
  Samples = {"f0", "f1", "g0", "g1", "g2", "g3", "i0", "i1"}
  KindOf <- MCKindOf
  Score <- MCScore
  GostScore <- MCGostScore
  Seed <- SeedAll
  Sequenced = {"face", "finger"}
  ExactSearch = TRUE
  SeqMax = 3
  BcMax = 2
  Ops = {"new", "into", "delete", "unlink"}
  MaxElems = 1
  MaxRequests = 4
  Faults = TRUE
INVARIANTS DuplicatesBounded
PROPERTIES LinkedGostStable
