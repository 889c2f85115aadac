\* A pipe consumed by _asio after a flush: dump, write, serial, rtmidi_out,
\* seq_out and the uplink's transmit pipe.
CONSTANTS
    small = small
    large = large
    Event <- MCEvent
    Size <- MCSize
    Header = 2
    Capacity = 7
    Listening = TRUE
    SchedReturns = {0}
    MaxEvents = 4
SPECIFICATION FairSpec
INVARIANTS
    PipeInv
    InOrderAndIntact
    NoShortCopy
    NoLostWakeup
PROPERTIES
    SpinEnds
    AcceptedIsDelivered
    ImplementsChannel
CHECK_DEADLOCK FALSE
