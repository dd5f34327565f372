SPECIFICATION Spec
CONSTANTS
    MaxInputBytes = 1
    MaxOutputChars = 6
    Body <- Streams
    Piece <- Pieces
    MaxPieces = 3
INVARIANT
    SamplesArePlainText
CHECK_DEADLOCK FALSE
