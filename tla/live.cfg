\* Tokens expire, and storage fails or the plugin crashes at any step.
SPECIFICATION FairSpec
CONSTANTS
    NoReq = NoReq
    r1 = r1
    r2 = r2
    c1 = c1
    l1 = l1
    Req = {q1, q2}
    Role = {r1}
    Config = {c1}
    Lock = {l1}
    LockOf <- OneLock
    RoleSpec <- RevokingSpec
    DefaultTokenTTL = 2
    ExpiresIn = {0}
    SessionLife = 2
    Ops = {"creds", "rotate", "revoke"}
    MaxTime = 2
    MaxWrites = 1
    MaxTokens = 1
    MaxFaults = 1
INVARIANTS
    LockInv
PROPERTIES
    ServesUnexpired
    EveryRequestReturns
