SPECIFICATION PrivFairSpec
CONSTANTS
  Values = 256
  Nil = Nil
  MaxPkts = 2
  MaxList = 3
  Data <- MCData
INVARIANTS
  LogIsTheStream
PROPERTIES
  EndsOrHangs
