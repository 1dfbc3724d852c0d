SPECIFICATION Spec
CONSTANTS
    Files = {f}
    Memories = {m}
    Pages <- FourPages
    Lengths = {4}
    MemLength = 4
    PageSizes = {s4096}
    MaxSources = 3
    MaxRoots = 3
    None = None
    Half = Half
INVARIANTS RootSurvivesReopen
