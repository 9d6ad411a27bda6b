SPECIFICATION Spec
CONSTANTS
  w1 = w1
  Workers = {w1}
  NoSample = NoSample
  Samples = {"f0", "f1", "f2", "i0", "i1", "i2"}
  KindOf <- MCKindOf
  Score <- MCScore
  GostScore <- MCGostScore
  Seed <- SeedFaceIris
  Sequenced = {"face", "finger", "iris"}
  ExactSearch = TRUE
  SeqMax = 3
  BcMax = 3
  Ops = {"new", "into"}
  MaxElems = 1
  MaxRequests = 5
  Faults = FALSE
INVARIANTS NoTwins
