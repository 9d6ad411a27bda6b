SPECIFICATION Spec
CONSTANTS
  t1 = t1
  t2 = t2
  Threads = {t1, t2}
  Gain = 16
  Bank <- Five3
  Originals <- Impulses
  Pictures <- MCPictures
  UintMax = 16777215
  MaxHuffBits = 8
  Images <- MCPair
  FilterBank <- Nine7
  Kinds = {"mem"}
  Comments <- NoTexts
  Added = {}
  Edited = {}
  MaxEdits = 0
  Cut = {}
  CutTo = {}
  Again = {}
INVARIANT OwnPixmap
