SPECIFICATION Spec
CONSTANTS
  Names = {n1, n2}
  Specs <- MCSpecs
  NoSE = NoSE
  Readers = {r1}
  Queries <- MCQueries
  MaxChanges = 1
  MaxPending = 2
INVARIANTS QuiescentCurrent QuiescentSound QuiescentComplete LockOwned
PROPERTY ImplementsPolicy
