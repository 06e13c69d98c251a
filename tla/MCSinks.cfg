\* Two overlapping passes over four events in pages of two.
CONSTANTS
    Passes = {p1, p2}
    batchSize = 2
    MaxLength = 4
SPECIFICATION SinkSpec
INVARIANTS
    CursorIsBehindDelivery
PROPERTY CursorNeverMovesBack
