SPECIFICATION Spec
CONSTANTS
    MaxInputBytes = 1
    MaxOutputChars = 6
    Body <- Bodies
    Piece <- Pieces
    MaxPieces = 3
INVARIANTS
    TypeOK
    ReadsWhatWasSaid
    ReplayAnswersTheQuestion
CHECK_DEADLOCK FALSE
