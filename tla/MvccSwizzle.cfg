SPECIFICATION Spec
CONSTANTS
    Threads = {t1, t2}
    Ptrs = {p}
    Obj = {o1, o2, o3, o4}
    Log = {l1, l2}
    First <- OneStored
    None = None
    Block = Block
    Base = Base
    Free = Free
    p = p
    q = q
    o1 = o1
    o2 = o2
SYMMETRY Symmetry
INVARIANTS TypeOK Inductive Refining
PROPERTIES SnapshotIsolated
CHECK_DEADLOCK FALSE
