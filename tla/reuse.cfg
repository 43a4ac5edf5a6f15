\* A re-mint returns the token that is about to expire; it is served after its end.
SPECIFICATION Spec
CONSTANTS
    NoReq = NoReq
    r1 = r1
    r2 = r2
    c1 = c1
    l1 = l1
    Req = {q1, q2}
    Role = {r1}
    Config = {c1}
    Lock = {l1}
    LockOf <- OneLock
    RoleSpec <- PlainSpec
    DefaultTokenTTL = 3
    ExpiresIn = {0}
    SessionLife = 3
    Ops = {"creds"}
    MaxTime = 3
    MaxWrites = 1
    MaxTokens = 2
    MaxFaults = 0
SYMMETRY ReqSymmetry
PROPERTIES
    NeverServesExpired
