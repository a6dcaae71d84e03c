CONSTANTS
    SPB <- MCSPB
    Starts <- MCStarts
    MaxSegs <- MCMaxSegs

SPECIFICATION Spec

INVARIANT TypeOK
INVARIANT SplitWithinBounds
INVARIANT SplitMatchesReference
INVARIANT OneToOneSound

\* The loop ends once every segment has been handled.
CHECK_DEADLOCK FALSE
