SPECIFICATION MCSpec
CONSTANTS
  Elements <- MCElements
  Lengths = {0, 1, 2, 3}
  FreeThreads = {1, 2}
  Unit = 200
  ABIS_FLOAT_THRESHOLD = 4
  Threshold <- MCThreshold
  Samples <- MCSamples
  MaxSamples = 2
  MaxLinks = 2
  Grid <- MCGrid
  Queries <- MCQueries
  Sizes = {0, 1, 2, 3}
  Free = {1, 2}
INVARIANTS SerialVerdict FreedOnce NoTemplateRefused
  EverySampleMatches NothingLeftOut Conjunction Monotone SearchAnswers
