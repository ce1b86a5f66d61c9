\* Two requests at a time, a lost Redis command, an incremental fetch that is too short.
CONSTANTS
    Chains <- OnlyMainnet
    Requests = {q1, q2}
    FetchLimit = 3
    IncrementalLimit = 1
    MaxTransactions = 3
    MaxInvalidations = 2
    MaxFailures = 1
    Nil = Nil
    MaxTime = 5
    MaxPages = 10
SPECIFICATION FairPagesSpec
INVARIANTS PagesTypeOK StalePageIsMarked PagingIsComplete PagingIsTheList
PROPERTIES EventuallyComplete
