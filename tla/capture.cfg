SPECIFICATION Spec
CONSTANTS
  Clients = {c1, c2}
  Inodes = {i1, i2}
  MaxFrames = 3
  MaxSaves = 2
  MaxCrashes = 1
  NoFile = NoFile
  NoPicture = NoPicture
SYMMETRY Symmetry
PROPERTIES
  PicturesAreFresh
CHECK_DEADLOCK FALSE
