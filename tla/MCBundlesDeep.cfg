\* A bundle within a bundle within a bundle, with one message in the innermost.
CONSTANTS
    Msg = {1}
    MaxDepth = 3
    LongDepths = {}
    AllowEmpty = FALSE
    MaxCalls = 7
SPECIFICATION BundleSpec
INVARIANT PacketsAsCalled
CHECK_DEADLOCK FALSE
