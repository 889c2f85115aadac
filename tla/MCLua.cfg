\* Modules: an input whose add may fail, a loopback and an uplink, or two uplinks
\* with the collector within the walk over their list.  Bundles: within bundles,
\* as in examples/bundle.lua, empty ones too, with invalid and overlong messages
\* anywhere.
CONSTANTS
    in = in
    loopback = loopback
    up = up
    up2 = up2
    Module = {in, loopback, up, up2}
    Kind <- MCKind
    Failing = {in}
    MaxChildren = 1
    MaxEvents = 2
    Broadcast = Broadcast
    None = None
    Msg = {1, 2}
    MaxDepth = 3
    LongDepths = {0, 1, 2, 3}
    AllowEmpty = TRUE
    MaxCalls = 9
SPECIFICATION LuaSpec
INVARIANTS
    ListsHoldTheLiving
    RespondersHaveTargets
    OnlyForgottenMisused
    ShutdownGivesBack
    ShallowAsCalled
    BufferIsOpenBundles
CHECK_DEADLOCK FALSE
