\* Reads against the writes and deletions of two roles and their config, with a
\* storage error or a crash at any step.
SPECIFICATION Spec
CONSTANTS
    NoReq = NoReq
    r1 = r1
    r2 = r2
    c1 = c1
    l1 = l1
    Req = {q1, q2}
    Role = {r1, r2}
    Config = {c1}
    Lock = {l1}
    LockOf <- OneLock
    RoleSpec <- PlainSpec
    DefaultTokenTTL = 2
    ExpiresIn = {0}
    SessionLife = 2
    Ops = {"creds", "cwrite", "cdelete", "rwrite", "rdelete"}
    MaxTime = 0
    MaxWrites = 3
    MaxTokens = 1
    MaxFaults = 1
SYMMETRY ReqSymmetry
INVARIANTS
    ConfigWritePurges
    RoleWritePurges
PROPERTIES
    ServesCachedSince
