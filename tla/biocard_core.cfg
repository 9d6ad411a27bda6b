SPECIFICATION Spec
CONSTANTS
  w1 = w1
  w2 = w2
  Workers = {w1, w2}
  NoSample = NoSample
  Samples = {"f0", "f1", "g0", "g1", "i1", "p1"}
  KindOf <- MCKindOf
  Score <- MCScore
  GostScore <- MCGostScore
  Seed <- SeedFaceFinger
  Sequenced = {"face", "finger", "iris"}
  ExactSearch = FALSE
  SeqMax = 2
  BcMax = 2
  Ops = {"new", "into", "delete", "unlink"}
  MaxElems = 2
  MaxRequests = 2
  Faults = TRUE
SYMMETRY Symmetry
INVARIANTS TypeOK EmptyKindStaysEmpty GostFitsVector LinksResolve
PROPERTIES OkIsDurable WholeRequests RegistrySpec
