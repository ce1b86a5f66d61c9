\* Two tokens, two requests at a time, three that come in all, one failure.
CONSTANTS
    t1 = t1
    t2 = t2
    Tokens <- TwoTokens
    Requests = {1, 2}
    MaxTerms <- TwoTerms
    MaxFailures = 1
    MaxArrivals = 3
    Nil = Nil
SPECIFICATION FairSpec
INVARIANTS SessionsTypeOK SignedOutIsRefused LiveTokenIsNotRefused
PROPERTIES SessionsEnd
CHECK_DEADLOCK FALSE
