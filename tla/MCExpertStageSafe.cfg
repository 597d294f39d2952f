\* Two experts under the default policy.
SPECIFICATION Spec
CONSTANTS
    n1 = n1
    n2 = n2
    n3 = n3
    Group = Group
    Width = 2
    CandidatesOf <- Candidates
    Attempts = 2
    RetryOnError = FALSE
    RetryOnTimeout = FALSE
    RetryOnDisconnect = FALSE
CHECK_DEADLOCK FALSE
INVARIANT
    SafeMeansNeverRan
