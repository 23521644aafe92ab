SPECIFICATION Spec
CONSTANTS
  p1 = p1
  p2 = p2
  a = a
  b = b
  Proc = {p1, p2}
  Content = {a, b}
  NoDoc = NoDoc
  NoProc = NoProc
  MaxVersion = 2
  MaxClock = 2
  Published <- FourDocuments
INVARIANTS
  OnlyReviewedAccepted
  AcceptanceSurvives
  ErrorsAreDefinite
PROPERTIES
  AcceptedMovesForward
SYMMETRY Symmetry
