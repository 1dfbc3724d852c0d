SPECIFICATION StrictSpec
CONSTANTS
    Threads = {t1, t2}
    Ptrs = {p, q}
    Obj = {o1, o2, o3, o4, o5}
    Log = {l1, l2, l3}
    First <- TwoPointers
    None = None
    Block = Block
    Base = Base
    Free = Free
    p = p
    q = q
    o1 = o1
    o2 = o2
SYMMETRY PointerSymmetry
INVARIANTS ReadForWritePreventsSkew
