CONSTANTS
  Size = 2
  Char <- MCChar
  Piece <- MCPiece
  Digit <- MCDigit
  MaxDigits = 2
  Texts <- MCTexts
SPECIFICATION FenSpec
CHECK_DEADLOCK FALSE
INVARIANTS ExactlyFens StoredIsCanonical
