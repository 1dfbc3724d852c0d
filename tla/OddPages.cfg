SPECIFICATION Spec
CONSTANTS
    Allocators = {obj, log}
    Overhead <- Overheads
    Memories = {m, n}
    Offset <- Offsets
    Length <- Lengths
    PageSize = 6
    Sizes = {2, 3}
    Wrap = 16
    AddressBits = 7
    CountBits = 2
    None = None
    obj = obj
    log = log
    m = m
    n = n
INVARIANTS PageAssertion
