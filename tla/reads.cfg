\* Three concurrent reads, rotations and lease revocations of one role.
SPECIFICATION Spec
CONSTANTS
    NoReq = NoReq
    r1 = r1
    r2 = r2
    c1 = c1
    l1 = l1
    Req = {q1, q2, q3}
    Role = {r1}
    Config = {c1}
    Lock = {l1}
    LockOf <- OneLock
    RoleSpec <- RevokingSpec
    DefaultTokenTTL = 2
    ExpiresIn = {0}
    SessionLife = 2
    Ops = {"creds", "rotate", "revoke"}
    MaxTime = 1
    MaxWrites = 1
    MaxTokens = 2
    MaxFaults = 0
SYMMETRY ReqSymmetry
INVARIANTS
    TypeOK
    LockInv
    NewestWins
    SingleFlight
    MintOnlyWhenStale
    CondemnedLeavesCache
    RotateRevokesWhatItDrops
PROPERTIES
    ImplementsTokenCache
