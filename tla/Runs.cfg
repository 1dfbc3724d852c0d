SPECIFICATION LoopSpec
CONSTANTS
    Threads = {t1, t2, t3}
    Ptrs = {p, q, root, s}
    Obj = {o1, o2, o3, o4, o5, o6, o7, o8, o9, o10}
    Log = {l1, l2, l3, l4, l5, l6}
    First <- Heap
    Programs <- Applications
    Pages = 6
    None = None
    Block = Block
    Base = Base
    Free = Free
    p = p
    q = q
    root = root
    s = s
    o1 = o1
    o2 = o2
    o3 = o3
    t1 = t1
    t2 = t2
    t3 = t3
INVARIANTS CounterExact TuplesAgree LatchReleased WholeCommits Counting
PROPERTIES EveryRunReturns SomeRunCommits SnapshotIsolated
CHECK_DEADLOCK FALSE
