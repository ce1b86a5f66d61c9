\* One request at a time, two rows of one hash, a 1-of-2 vault.
CONSTANTS
    x = x
    Members = {m1, m2}
    Required = 1
    Rows = {r1, r2}
    Hashes = {x}
    RowHash <- MCRowHash
    Handlers = {h1}
    Producers = {h1}
    Payloads <- MCPayloads
    HashOf <- MCHashOf
    Sufficient <- MCSufficient
    Requests = {"create", "sign", "cancel", "delete"}
    Answers <- AnyAnswers
    Retries = FALSE
    MaxAttempts = 2
    Faults = {"squeeze"}
    Nil = Nil
SPECIFICATION FairSpec
PROPERTIES ImplementsLifecycle SubmittedRowSettles
CHECK_DEADLOCK FALSE
