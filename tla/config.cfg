CONSTANTS
    SalesforceHost = {"org", "sandbox"}
    LoopbackHost = {"localhost"}
    OtherHost = {"gateway"}
    NoHost = ""
    Req = {q1, q2}
    Update <- Requests
    NoText = ""
    Text = {"app", "s1", "s2", "k1", "ca"}
    MaxPuts = 4
SYMMETRY ReqSymmetry
SPECIFICATION Spec
INVARIANT TypeOK
INVARIANT EndpointConfirmed
INVARIANT EndpointAllowed
