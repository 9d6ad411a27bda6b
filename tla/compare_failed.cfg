SPECIFICATION Spec
CONSTANTS
  Elements <- MCElements
  Lengths = {2}
  FreeThreads = {2}
INVARIANTS FailedExtractRefused
