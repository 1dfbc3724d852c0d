SPECIFICATION Spec
CONSTANTS
    Txs = {x1, x2}
    Cells = {c1}
    Obj = {r, o1, o2, o3, o4, o5}
    FirstRoot = r
    First <- OneChild
    Habits = {{"read"}}
    Root = Root
    None = None
    Base = Base
    Free = Free
    c1 = c1
    c2 = c2
    o1 = o1
    o2 = o2
SYMMETRY Symmetry
INVARIANTS ChildLatchHeld
CHECK_DEADLOCK FALSE
