CONSTANTS
    Req = {q1, q2}
    Config = {"c1", "c2"}
    User = {"ann", "bob"}
    Duration = {1, 20}
    None = ""
    Update <- Requests
    DefaultTokenTTL = 15
    DefaultSkew = 1
    DefaultJWTExpiry = 3
    MaxJWTExpiry = 5
    MaxPuts = 3
SYMMETRY ReqSymmetry
SPECIFICATION Spec
INVARIANT TypeOK
INVARIANT StoredRoleAdmissible
INVARIANT IdentityFromCreation
