SPECIFICATION Spec
CONSTANTS
  a = a
  b = b
  X = X
  Y = Y
  I = I
  J = J
  U = U
  Unranked = Unranked
  Values <- MCValues
  NameOf <- MCNames
  Views <- MCViews
  RankOf <- MCRankOf
  ArgumentNames <- MCArgumentNames
  AccessArguments <- MCAccessArguments
  IndirectArguments <- MCIndirectArguments
  Programs <- MCPrograms
INVARIANT TypeOK
INVARIANT PrintedTextReads
INVARIANT RoundTrip
INVARIANT PrintStaysInBounds
INVARIANT SubscriptsReadWhatTheyName
INVARIANT CapturesEveryValue
INVARIANT ParserBuildsWhatVerifierExpects
CHECK_DEADLOCK FALSE
