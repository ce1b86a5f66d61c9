\* Two requests at a time, one lost Redis command, one change of the balance.
CONSTANTS
    Chains <- BothChains
    AllChains = AllChains
    Requests = {q1, q2}
    MaxVersion = 1
    MaxFailures = 1
    Overlap = FALSE
    Operator = TRUE
    Nil = Nil
SPECIFICATION FairCacheSpec
INVARIANT CacheTypeOK
PROPERTIES HitAfterInvalidationIsFresh EventuallyFresh
