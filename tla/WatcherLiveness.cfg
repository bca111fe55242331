SPECIFICATION FairSpec
CONSTANTS
  Names = {n1, n2}
  Specs <- MCSpecsOne
  NoSE = NoSE
  Readers = {r1}
  Queries <- MCQueriesOne
  MaxChanges = 2
  MaxPending = 2
PROPERTIES Converges LockReleased
