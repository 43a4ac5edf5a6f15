\* Three attempts of at most two ticks; the assertion outlives them.
SPECIFICATION Spec
CONSTANTS
    MaxAttempts = 3
    BaseBackoff = 2
    Timeout = 2
    JWTExpiry = 0
    DefaultJWTExpiry = 16
    Grants = {"jwt_bearer", "client_credentials"}
CHECK_DEADLOCK FALSE
INVARIANTS
    TypeOK
    DefinitiveMeansRejected
    AssertionOutlivesRetries
PROPERTIES
    NoRetryAfterRejection
    ImplementsMintCall
