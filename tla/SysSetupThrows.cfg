\* One row; getChain may throw, as it does when the node is down.
CONSTANTS
    x = x
    Members = {m1}
    Required = 1
    Rows = {r1}
    Hashes = {x}
    RowHash <- MCRowHash
    Handlers = {h1}
    Producers = {h1}
    Payloads <- MCPayloads
    HashOf <- MCHashOf
    Sufficient <- MCSufficient
    Requests = {"create", "sign"}
    Answers <- PlainAnswers
    Retries = FALSE
    MaxAttempts = 2
    Faults = {"setup"}
    Nil = Nil
SPECIFICATION FairSpec
PROPERTY PendingSenderSettles
CHECK_DEADLOCK FALSE
