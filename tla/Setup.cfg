SPECIFICATION Spec
CONSTANTS
    Vms <- BothVms
    Malformed = Malformed
    U32Max = 63
    Images <- SmallImages
    IntMax = 100
    U64Max = 150
    Entries <- SizedEntries
    MaxEntries = 2
    Carveouts <- Carveout
    MaxBoots = 3
INVARIANTS TypeOK PrivateIsBacking OemMemoryFits OverlayIntact AbortNeedsMissingDirectory EntryInTable
PROPERTIES MemorySettles
CHECK_DEADLOCK FALSE
