SPECIFICATION MixedSpec
CONSTANTS
    Files = {f, g}
    Memories = {m}
    Pages <- SixPages
    Lengths = {4, 6}
    MemLength = 4
    PageSizes = {s4096}
    MaxSources = 3
    MaxRoots = 2
    None = None
    Half = Half
INVARIANTS AddressesResolve
