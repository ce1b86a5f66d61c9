\* A vault of the user, two blocks, one login, two failures of any kind.
CONSTANTS
    v1 = v1
    Predicates <- OneVault
    UserPredicates <- VaultOfUser
    OtherPredicates = 1
    BlockRange = 1
    MaxBlocks = 2
    MaxAttempts = 2
    MaxHeight = 1
    MaxLogins = 1
    MaxFailures = 2
    ETH = ETH
    OtherAsset = OtherAsset
SPECIFICATION FairSyncSpec
INVARIANTS SyncTypeOK CountedOnce BalancesAddUp
PROPERTIES CursorMovesForward EventuallyRead
