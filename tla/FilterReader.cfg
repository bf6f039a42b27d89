\* Every filter over small streams, complete, cut short and with a failing
\* input, read in pieces shorter than, equal to and longer than a word.
SPECIFICATION Spec
CONSTANTS
    Streams <- MCStreams
    Lens = {1, 3, 6}
    Distances = {0, 1, 2, 15}
    BlockSize = 2
    BufCap = 4
    Cuts = {3, 4}
    Faults = TRUE
CHECK_DEADLOCK FALSE
INVARIANTS
    TypeOK
    BufferedIsNext
PROPERTIES
    DeliversStream
    Ends
