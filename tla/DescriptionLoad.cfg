CONSTANTS
  dj = dj
  foto = foto
  decor = decor
  NoSheet = NoSheet
  Sheets = {dj, foto, decor}
  Kind <- MCKind
  PictureCounts = {0, 4, 5}
  StrayPictures = {{}, {1}, {2}, {5}}
SPECIFICATION LiveSpec
CHECK_DEADLOCK FALSE
INVARIANTS
  ShownIsComplete
  PicturesInTheirPlace
  MissingPicturesDoNotFail
  CrashHasItsCause
PROPERTIES
  LoadingEnds
