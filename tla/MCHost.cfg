\* Periods of two frames; the frame time does not wrap.
CONSTANTS
    osc = osc  net = net  all = all  out = out  loop = loop  up = up
    PortIn = {osc}
    PipeIn = {net}
    Broadcast = all
    Port = {out}
    Loopback = {loop}
    Uplink = {up}
    Outputs <- MCOutputs
    Uplinks <- MCUplinks
    Children <- MCChildren
    HasLua = {up, loop}
    Period = 2
    TimeMod = 32
    StartTime = 4
    PipeTimes = {0, 3, 5, 7}
    PortRoom = 2
    LuaDelays <- MCLuaDelays
    MaxEvents = 3
    MaxCycles = 3
SPECIFICATION Spec
INVARIANTS
    PortBufferInOrder
    SourceOrderKept
    ExactlyOnce
    NothingDueLeft
    UplinkFlushed
CHECK_DEADLOCK FALSE
