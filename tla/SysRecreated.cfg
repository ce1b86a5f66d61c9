\* Two rows of one hash, no fault: the second is created after the first failed.
CONSTANTS
    x = x
    Members = {m1}
    Required = 1
    Rows = {r1, r2}
    Hashes = {x}
    RowHash <- MCRowHash
    Handlers = {h1}
    Producers = {h1}
    Payloads <- MCPayloads
    HashOf <- MCHashOf
    Sufficient <- MCSufficient
    Requests = {"create", "sign"}
    Answers <- PlainAnswers
    Retries = FALSE
    MaxAttempts = 1
    Faults = {}
    Nil = Nil
SPECIFICATION FairSpec
PROPERTY PendingSenderSettles
CHECK_DEADLOCK FALSE
