\* Two requests at a time, of every kind, on one row of a 2-of-2 vault.
CONSTANTS
    x = x
    Members = {m1, m2}
    Required = 2
    Rows = {r1}
    Hashes = {x}
    RowHash <- MCRowHash
    Handlers = {h1, h2}
    Producers = {h1, h2}
    Payloads <- MCPayloads
    HashOf <- MCHashOf
    Sufficient <- MCSufficient
    Requests = {"create", "sign", "cancel", "delete", "send", "close"}
    Answers <- PlainAnswers
    Retries = TRUE
    MaxAttempts = 1
    Faults = {"network", "abort"}
    Nil = Nil
SPECIFICATION Spec
SYMMETRY BothSymmetries
INVARIANTS TypeOK SuccessOnlyOnChain StatusMatchesAnswers
PROPERTY SignEnqueuesQuorum
CHECK_DEADLOCK FALSE
