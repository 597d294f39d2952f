\* A batch of three experts under two heads, two of them under the first.
SPECIFICATION FairSpec
CONSTANTS
    Width = 3
    Heads = 2
    HeadOf <- Interleaved
CHECK_DEADLOCK FALSE
INVARIANTS
    RowsComplete
    AwaitedInTime
    OwnSafeReasonTrue
PROPERTIES
    BatchAnswered
    CloseReturns
