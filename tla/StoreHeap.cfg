SPECIFICATION Spec
CONSTANTS
    Files = {f, g}
    Memories = {m}
    Pages <- FivePages
    Lengths = {1, 3, 5}
    MemLength = 4
    PageSizes = {s4096, s8192}
    MaxSources = 3
    MaxRoots = 3
    None = None
    Half = Half
INVARIANTS TypeOK Inductive RootNeverDangles LivePagesNotFree PagesInside AddressesResolve
PROPERTIES RootNotReplaced
SYMMETRY Symmetry
