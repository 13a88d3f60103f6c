CONSTANTS
  dj1 = dj1
  dj2 = dj2
  dj3 = dj3
  bar1 = bar1
  foto1 = foto1
  foto2 = foto2
  decor1 = decor1
  decor2 = decor2
  cake = cake
  broken = broken
  Documents = {dj1, dj2, dj3, bar1, foto1, foto2, decor1, decor2, cake, broken}
  Decodable = {dj1, dj2, dj3, bar1, foto1, foto2, decor1, decor2, cake}
  InBucket = {dj1, dj2, dj3, bar1, foto1, decor1, decor2}
  Service <- MCService
  Price <- MCPrice
  Title <- MCTitle
SPECIFICATION LiveSpec
CHECK_DEADLOCK FALSE
INVARIANTS
  SectionsHoldThePictures
  CrashHasItsCause
PROPERTIES
  SectionsAreFinal
  LoadingEnds
