SPECIFICATION Spec
CONSTANTS
    Allocators = {obj, log}
    Overhead <- Overheads
    Memories = {m, n}
    Offset <- Offsets
    Length <- Lengths
    PageSize = 8
    Sizes = {3, 9, 17}
    Wrap = 16
    AddressBits = 7
    CountBits = 2
    None = None
    obj = obj
    log = log
    m = m
    n = n
INVARIANTS LargeEnough
