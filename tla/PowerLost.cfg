SPECIFICATION PowerSpec
CONSTANTS
    Files = {f}
    Memories = {m}
    Pages <- FourPages
    Lengths = {4}
    MemLength = 4
    PageSizes = {s4096}
    MaxSources = 2
    MaxRoots = 1
    None = None
    Half = Half
INVARIANTS RootNeverDangles
