\* Two experts, two attempts, a policy that also retries an ERR.
SPECIFICATION FairSpec
CONSTANTS
    n1 = n1
    n2 = n2
    n3 = n3
    Group = Group
    Width = 2
    CandidatesOf <- Candidates
    Attempts = 2
    RetryOnError = TRUE
    RetryOnTimeout = FALSE
    RetryOnDisconnect = FALSE
CHECK_DEADLOCK FALSE
INVARIANTS
    AtMostOnce
    RowsComplete
PROPERTY
    BatchAnswered
