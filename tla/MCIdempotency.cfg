SPECIFICATION FairSpec
CONSTANTS
    Calls = {1, 2, 3}
    Request <- MCRequest
    Strip <- MCStrip
    BlankKey = empty
    LockId <- MCLockId
    Fields = {"title", "description"}
    Unset = Unset
    FieldDefault <- MCFieldDefault
    PatchOperations = {"update_task"}
    MaxAttempts <- MCMaxAttempts
    MaxCrashes = 1
    alice = alice
    bob = bob
    k1 = k1
    k1Padded = k1Padded
    kBlank = kBlank
    empty = empty
    home = home
    office = office
    null = null
    tidy = tidy
INVARIANTS
    TypeOK
    AtMostOnce
    EffectIffRecord
    ReadStaysCurrent
    SuccessIsCommitted
    FailsOnlyOnBlankKey
PROPERTIES
    RetryReplays
    ImplementsPromise
    Progress
CHECK_DEADLOCK FALSE
