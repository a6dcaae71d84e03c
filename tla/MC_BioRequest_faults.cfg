CONSTANTS
    SPB <- MCSPB
    NBlocks <- MCNBlocks
    Bios <- MCFaultBios
    Shape <- MCShape
    Mapped <- MCMapped
    MayFail <- MCMayFail
    w1 = w1
    w2 = w2
    r1 = r1
    x = x
    Zero = Zero
    Old = Old
    Garbage = Garbage
    NoOwner = NoOwner
    None = None

SPECIFICATION Spec


INVARIANT EndioOnceAfterAllCbvecs




\* The device has a finite set of requests: once all have completed it is idle.
CHECK_DEADLOCK FALSE
PROPERTY AllBiosComplete
