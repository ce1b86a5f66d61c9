\* One row of a 2-of-2 vault; a member may answer twice.
CONSTANTS
    x = x
    Members = {m1, m2}
    Required = 2
    Rows = {r1}
    Hashes = {x}
    RowHash <- MCRowHash
    Handlers = {h1}
    Producers = {h1}
    Payloads <- MCPayloads
    HashOf <- MCHashOf
    Sufficient <- MCSufficient
    Requests = {"create", "sign"}
    Answers <- PlainAnswers
    Retries = TRUE
    MaxAttempts = 1
    Faults = {}
    Nil = Nil
SPECIFICATION Spec
PROPERTY AnswerIsFinal
CHECK_DEADLOCK FALSE
