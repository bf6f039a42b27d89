\* Two readers of one folder: all shapes of up to three coders, and chains of
\* all methods.
SPECIFICATION Spec
CONSTANTS
    d1 = d1
    d2 = d2
    d3 = d3
    r1 = r1
    r2 = r2
    NoDecoder = NoDecoder
    Folders <- MCFolders
    Readers <- MCReaders
    Decoders <- MCDecoders
    Bcj2In = 2
    Faults = TRUE
CHECK_DEADLOCK FALSE
INVARIANTS
    TypeOK
    AcceptedIsTree
    SizesAgree
    DecodersExclusive
PROPERTIES
    CloseReleases
