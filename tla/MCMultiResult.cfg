SPECIFICATION Spec
CONSTANTS
  a = a
  b = b
  X = X
  Y = Y
  I = I
  J = J
  U = U
  Unranked = Unranked
  Values <- MCValues
  NameOf <- MultiNames
  Views <- MCViews
  RankOf <- MCRankOf
  ArgumentNames <- MCArgumentNames
  AccessArguments <- MCAccessArguments
  IndirectArguments <- MCIndirectArguments
  Programs <- MCPrograms
INVARIANT CapturesEveryValue
CHECK_DEADLOCK FALSE
