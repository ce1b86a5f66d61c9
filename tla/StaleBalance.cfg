\* Two requests that may overlap, no failure: a late fill undoes the invalidation of a predicate.
CONSTANTS
    Chains <- OnlyMainnet
    AllChains = AllChains
    Requests = {q1, q2}
    MaxVersion = 1
    MaxFailures = 0
    Overlap = TRUE
    Operator = FALSE
    Nil = Nil
SPECIFICATION CacheSpec
PROPERTY HitAfterInvalidationIsFresh
