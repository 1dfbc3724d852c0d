SPECIFICATION Spec
CONSTANTS
    Txs = {x1, x2, x3}
    Cells = {c1, c2}
    Obj = {r, o1, o2, o3, o4, o5}
    FirstRoot = r
    First <- OneChildMissing
    Habits = {{"own"}, {"read", "own"}}
    Root = Root
    None = None
    Base = Base
    Free = Free
    c1 = c1
    c2 = c2
    o1 = o1
    o2 = o2
SYMMETRY Symmetry
INVARIANTS Inductive OwnInductive ChildReadable RollbackFinds OwnUpdatesKept OwnLatchHeld
PROPERTIES RepeatableChild
CHECK_DEADLOCK FALSE
