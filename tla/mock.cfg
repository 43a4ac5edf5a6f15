\* Two calls with two attempts each, while the test changes the answers.
SPECIFICATION Spec
CONSTANTS
    Call = {a, b}
    MaxAttempts = 2
    Failures = {1, 2}
    MaxSets = 2
INVARIANTS
    EachMintObservable
    RequestsExplained
