SPECIFICATION Spec
CONSTANTS
  k1 = k1
  k2 = k2
  v1 = v1
  v2 = v2
  NoKey = NoKey
  BadKey = BadKey
  Keys <- MCKeys
  Values <- MCValues
  Short <- MCShort
  MaxChunks = 2
INVARIANTS NeverTorn DataSurvives KeyOfTheFile
PROPERTY ReadOnlyKeeps
