CONSTANTS
    SalesforceHost = {"org", "sandbox"}
    LoopbackHost = {"localhost"}
    OtherHost = {"gateway"}
    NoHost = ""
    Req = {q1}
    Update <- Requests
    NoText = ""
    Text = {"app", "s1", "s2", "k1", "ca"}
    MaxPuts = 4
SPECIFICATION Spec
PROPERTY SecretsResupplied
