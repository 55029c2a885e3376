SPECIFICATION Spec
CONSTANTS
  Letters = {a, m, n}
  Quote = Quote
  Newline = Newline
  LetterN = n
  Esc = Esc
  m = m
  Literals <- MCLiterals
  Marker <- MCMarker
  Bodies <- MCBodies
  MaxLiterals = 2
  MaxLen = 4
INVARIANT ContentRedacted
CHECK_DEADLOCK FALSE
