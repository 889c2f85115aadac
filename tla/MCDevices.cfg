\* Three periods of three frames; recordings of three events that start at 0 or
\* later, and a pipe that a large record after another does not fit into.
CONSTANTS
    NFrames = 3
    Values = {0, 1}
    Delays = {0, 2, 4}
    MaxMidi = 3
    MidiCap = 3
    MaxPeriods = 3
    FileFrames = 2
    Starts = {0, 3}
    Sizes = {3, 4}
    BufSize = 4
    Header = 2
    Ring = 10
    RecCap = 2
    MaxEvents = 3
    FilePeriods = 2
SPECIFICATION DevicesSpec
INVARIANTS
    CvThrough
    MidiThrough
    ReplayKeepsIntervals
    OnlyRefusedMissing
CHECK_DEADLOCK FALSE
