\* Two requests enqueue the same hash, every fault may happen, three attempts.
CONSTANTS
    x = x
    enough = enough
    short = short
    Hashes = {x}
    Payloads <- MCPayloads
    HashOf <- MCHashOf
    Sufficient = {enough}
    Producers = {p1, p2}
    MaxAttempts = 3
    Faults = {"setup", "network", "squeeze", "notify", "crash", "redis"}
    Nil = Nil
SPECIFICATION FairQueueSpec
INVARIANTS QueueTypeOK WorkerHoldsItsJob SuccessIsIncluded
PROPERTIES CaughtErrorsAreReported EveryJobEnds
