\* One row; waitForResult may time out.
CONSTANTS
    x = x
    Members = {m1}
    Required = 1
    Rows = {r1}
    Hashes = {x}
    RowHash <- MCRowHash
    Handlers = {h1}
    Producers = {h1}
    Payloads <- MCPayloads
    HashOf <- MCHashOf
    Sufficient <- MCSufficient
    Requests = {"create", "sign"}
    Answers <- PlainAnswers
    Retries = FALSE
    MaxAttempts = 2
    Faults = {"late"}
    Nil = Nil
SPECIFICATION Spec
INVARIANT FailedNotOnChain
CHECK_DEADLOCK FALSE
