CONSTANTS
    Lease = {l1, l2}
    Term <- Terms
    Increment = {0, 3}
    TokenTTL = 2
    RenewSkew = 1
    DefaultTokenTTL = 2
    MountDefault = 2
    MountMax = 3
    MaxTime = 4
    MaxTokens = 2
    MaxFaults = 1
SPECIFICATION Spec
PROPERTY RenewalObeysRole
PROPERTY EveryLeaseEnds
