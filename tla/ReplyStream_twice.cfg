SPECIFICATION ReplySpec
CONSTANTS
    MaxBlocks = 2
    MaxPieces = 1
INVARIANTS ToldTwiceRunsOnce
CHECK_DEADLOCK FALSE
