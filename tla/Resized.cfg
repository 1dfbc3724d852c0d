SPECIFICATION ResizingSpec
CONSTANTS
    Files = {f, g}
    Memories = {m}
    Pages <- FourPages
    Lengths = {3, 4}
    MemLength = 4
    PageSizes = {s4096}
    MaxSources = 3
    MaxRoots = 1
    None = None
    Half = Half
INVARIANTS AddressesResolve
