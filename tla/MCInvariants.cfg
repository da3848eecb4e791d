CONSTANTS
  Blank = Blank
  NoIdentity = NoIdentity
  Rows <- MCRows
  Requests <- MCRequests
  PresentingWords <- MCPresentingWords
  PresentingCodes <- MCPresentingCodes
  WordBits = 2
  Primes = {3, 5}
SPECIFICATION Spec
INVARIANT TabulatedConfirmed
INVARIANT CubesAreComplexes
INVARIANT ReducersAgree
INVARIANT EulerIsJones
INVARIANT KnightMoves
INVARIANT SurfacesAgree
INVARIANT BraidMovesKept
