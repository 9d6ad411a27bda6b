SPECIFICATION Spec
CONSTANTS
  t1 = t1
  t2 = t2
  Threads = {t1}
  Gain = 16
  Bank <- Five3
  Originals <- Impulses
  Pictures <- MCPictures
  UintMax = 16777215
  MaxHuffBits = 8
  Images <- MCImages
  FilterBank <- Nine7
  Kinds = {"mem", "file"}
  Comments <- MCComments
  Added <- MCAdded
  Edited = {"small"}
  MaxEdits = 2
  Cut = {"small", "edge", "skewed"}
  CutTo <- MCCutTo
  Again = {"small"}
INVARIANTS TypeOK EncoderSound RoundTrip OnlyWhole LimitExact BandsMeasured
  PerfectReconstruction BandsAligned HeaderCounts OnlyItsCoder
PROPERTIES CrashOnlyCut Advances
