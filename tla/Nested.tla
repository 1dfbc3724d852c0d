------------------------------- MODULE Nested -------------------------------
(***************************************************************************)
(* Pointers inside objects. The root object holds pointers to children;    *)
(* Transaction::write of the root copies them along with its other bytes,  *)
(* so from then on a child has one pointer in the old version of its       *)
(* parent and another one in the new version.                              *)
(*                                                                         *)
(* Mvcc describes transactions on pointers that stay where they are, step  *)
(* by step. Here an operation of VersionedReader::read is one step: the    *)
(* version of an object changes once, from 0 to a number that is not in    *)
(* any snapshot taken before, so it does not matter when it is read. The   *)
(* copy of an object is made pointer by pointer, because other threads     *)
(* swap the pointers of the original meanwhile. A commit is one step.      *)
(***************************************************************************)
EXTENDS Naturals

CONSTANTS
    Txs,        \* transactions; each runs once
    Cells,      \* the pointers at the beginning of the root object
    Obj,        \* bound: memory for objects
    FirstRoot,  \* the root object when the store opens
    First,      \* its children
    Habits,     \* how an application writes children: through a parent that it has
                \* "read", through the "own" copy of the transaction, or both
    Root,       \* the pointer to the root object
    None, Base, Free

ASSUME NestedAssumption ==
    /\ FirstRoot \in Obj
    /\ First \in [Cells -> (Obj \ {FirstRoot}) \cup {None}]
    /\ \A c, d \in Cells : First[c] = First[d] => c = d \/ First[c] = None
    /\ Habits \subseteq SUBSET {"read", "own"}
    /\ None \notin Obj /\ {Base, Free} \cap Txs = {} /\ Base # Free
    /\ Root \notin Obj \X Cells

VARIABLES
    clock,          \* VersionedObjectStore.version
    ptr,            \* what each pointer holds
    owner, other,   \* ObjectHeader.version, an indirect one or Base, and .other
    cell,           \* the number in the version cell of a transaction
    pc, snap,       \* what a transaction is doing, and its snapshot
    parent,         \* the root object that Transaction::read has returned to its closure
    op,             \* write: the pointer, the version to copy, the copy
    left,           \* write: the pointers still to be copied
    wset,           \* Transaction.writeset
    ways,           \* the habit of this application
    hist            \* history: the committed versions of each child

heapVars == <<ptr, owner, other>>
vars == <<clock, heapVars, cell, pc, snap, parent, op, left, wset, ways, hist>>

Loc == {Root} \cup (Obj \X Cells)
TransactionWrite == [dst : Loc, current : Obj, new : Obj]

-----------------------------------------------------------------------------

VerNum(o) == IF owner[o] = Base THEN 1 ELSE cell[owner[o]]

Visible(x, o) == VerNum(o) # 0 /\ VerNum(o) <= snap[x]

\* VersionedReader::read without abort_on_conflict: the version of the chain of o
\* that x gets, or None for InvalidLogicalAddress.
Seen(x, o) ==
    LET walk[v \in Obj \cup {None}] ==
           IF v = None \/ (v \in Obj /\ Visible(x, v)) THEN v ELSE walk[other[v]]
    IN  walk[o]

Fresh == {o \in Obj : owner[o] = Free}

\* Which piece of memory is handed out makes no difference.
Allocated == CHOOSE o \in Fresh : TRUE

InitObject(o, x, prev) ==
    /\ owner' = [owner EXCEPT ![o] = x]
    /\ other' = [other EXCEPT ![o] = prev]

Goto(x, l) == pc' = [pc EXCEPT ![x] = l]

\* The root object that Transaction::write has returned to the closure of x.
OwnRoot(x) == {w.new : w \in {v \in wset[x] : v.dst = Root}}

Init ==
    /\ clock = 1
    /\ ptr = [l \in Loc |-> IF l = Root THEN FirstRoot
                            ELSE IF l[1] = FirstRoot THEN First[l[2]] ELSE None]
    /\ owner = [o \in Obj |-> IF o = FirstRoot \/ \E c \in Cells : First[c] = o
                              THEN Base ELSE Free]
    /\ other = [o \in Obj |-> None]
    /\ cell = [x \in Txs |-> 0]
    /\ pc = [x \in Txs |-> "idle"]
    /\ snap = [x \in Txs |-> 0]
    /\ parent = [x \in Txs |-> None]
    /\ op = [x \in Txs |-> None]
    /\ left = [x \in Txs |-> {}]
    /\ wset = [x \in Txs |-> {}]
    /\ ways \in Habits
    /\ hist = [c \in Cells |-> {<<1, First[c]>>}]

-----------------------------------------------------------------------------

Begin(x) ==
    /\ pc[x] = "idle"
    /\ Goto(x, "run")
    /\ snap' = [snap EXCEPT ![x] = clock]
    /\ UNCHANGED <<clock, heapVars, cell, parent, op, left, wset, hist>>

\* Transaction::read of the root pointer. It does not return what the transaction
\* itself has written.
ReadRoot(x) ==
    /\ pc[x] = "run"
    /\ parent[x] = None
    /\ parent' = [parent EXCEPT ![x] = Seen(x, ptr[Root])]
    /\ UNCHANGED <<clock, heapVars, cell, pc, snap, op, left, wset, hist>>

\* The pointers a closure can call write with: the root, and the pointers in the
\* root objects it has a reference to.
Reach(x) ==
    LET read == IF "read" \in ways THEN {parent[x]} \ {None} ELSE {}
        own == IF "own" \in ways THEN OwnRoot(x) ELSE {}
    IN  {Root} \cup ((read \cup own) \X Cells)

\* Transaction::write: the head of the chain is in the snapshot, and memory for
\* its copy is allocated.
Write(x, l) ==
    /\ pc[x] = "run"
    /\ l \in Reach(x)
    /\ ptr[l] # None /\ Visible(x, ptr[l])
    /\ Fresh # {}
    /\ InitObject(Allocated, x, ptr[l])
    /\ op' = [op EXCEPT ![x] = [dst |-> l, current |-> ptr[l], new |-> Allocated]]
    /\ left' = [left EXCEPT ![x] = IF l = Root THEN Cells ELSE {}]
    /\ Goto(x, "copy")
    /\ UNCHANGED <<clock, ptr, cell, snap, parent, wset, hist>>

\* The head is not in the snapshot (TxAborted), the pointer is null
\* (InvalidLogicalAddress), or there is no memory (NoAvailableMemory).
WriteFails(x, l) ==
    /\ pc[x] = "run"
    /\ l \in Reach(x)
    /\ ptr[l] # None /\ Visible(x, ptr[l]) => Fresh = {}
    /\ Goto(x, "abort")
    /\ UNCHANGED <<clock, heapVars, cell, snap, parent, op, left, wset, hist>>

\* copy_from_slice, one pointer of the object at a time.
CopyPointer(x, c) ==
    /\ pc[x] = "copy"
    /\ c \in left[x]
    /\ ptr' = [ptr EXCEPT ![<<op[x].new, c>>] = ptr[<<op[x].current, c>>]]
    /\ left' = [left EXCEPT ![x] = @ \ {c}]
    /\ UNCHANGED <<clock, owner, other, cell, pc, snap, parent, op, wset, hist>>

\* Deliberately wrong, for the mutation runs: a store instead of a compare-and-swap.
PerformBlindly(x) ==
    /\ pc[x] = "copy"
    /\ left[x] = {}
    /\ op' = [op EXCEPT ![x] = None]
    /\ ptr' = [ptr EXCEPT ![op[x].dst] = op[x].new]
    /\ wset' = [wset EXCEPT ![x] = @ \cup {op[x]}]
    /\ Goto(x, "run")
    /\ UNCHANGED <<clock, owner, other, cell, snap, parent, left, hist>>

\* TransactionWrite::perform: the copy is swapped in, and the closure has a
\* mutable reference to it.
Perform(x) ==
    /\ pc[x] = "copy"
    /\ left[x] = {}
    /\ op' = [op EXCEPT ![x] = None]
    /\ IF ptr[op[x].dst] = op[x].current
       THEN /\ ptr' = [ptr EXCEPT ![op[x].dst] = op[x].new]
            /\ wset' = [wset EXCEPT ![x] = @ \cup {op[x]}]
            /\ Goto(x, "run")
       ELSE /\ Goto(x, "abort")
            /\ UNCHANGED <<ptr, wset>>
    /\ UNCHANGED <<clock, owner, other, cell, snap, parent, left, hist>>

\* Transaction::alloc, and the store of the new pointer in the object o.
AllocIn(x, o, c) ==
    /\ pc[x] = "run"
    /\ Fresh # {}
    /\ InitObject(Allocated, x, None)
    /\ ptr' = [ptr EXCEPT ![<<o, c>>] = Allocated]
    /\ UNCHANGED <<clock, cell, pc, snap, parent, op, left, wset, hist>>

\* Deliberately wrong, for the mutation runs: the parent was only read.
AllocInParent(x, c) == parent[x] # None /\ AllocIn(x, parent[x], c)
\* Deliberately wrong, for the mutation runs: the copy may be borrowed.
AllocInBorrowed(x, c) == \E o \in OwnRoot(x) : AllocIn(x, o, c)

\* Only an object the closure may change can get the pointer: its own copy of the
\* root, unless it has called write with a pointer of the copy, which borrows the
\* copy for the rest of the transaction.
Alloc(x, c) ==
    \E o \in OwnRoot(x) :
       /\ \A w \in wset[x] : w.dst \notin {o} \X Cells
       /\ AllocIn(x, o, c)

\* The versions of child c that x has written or allocated.
Written(x, c) ==
    {o \in Obj : /\ owner[o] = x
                 /\ \/ \E w \in wset[x] : w.new = o /\ w.dst # Root /\ w.dst[2] = c
                    \/ \E r \in OwnRoot(x) : ptr[<<r, c>>] = o}

\* Transaction::commit.
Commit(x) ==
    /\ pc[x] = "run"
    /\ Goto(x, "done")
    /\ IF wset[x] = {}
       THEN UNCHANGED <<clock, cell, hist>>
       ELSE /\ clock' = clock + 1
            /\ cell' = [cell EXCEPT ![x] = clock + 1]
            /\ hist' = [c \in Cells |-> hist[c] \cup ({clock + 1} \X Written(x, c))]
    /\ wset' = [wset EXCEPT ![x] = {}]
    /\ UNCHANGED <<heapVars, snap, parent, op, left>>

\* The closure returns an error of its own.
Fail(x) ==
    /\ pc[x] = "run"
    /\ Goto(x, "abort")
    /\ UNCHANGED <<clock, heapVars, cell, snap, parent, op, left, wset, hist>>

\* Transaction::abort, one write at a time; a failed assertion is a panic.
Rollback(x, w) ==
    /\ pc[x] = "abort"
    /\ w \in wset[x]
    /\ IF ptr[w.dst] = w.new
       THEN /\ ptr' = [ptr EXCEPT ![w.dst] = w.current]
            /\ wset' = [wset EXCEPT ![x] = @ \ {w}]
            /\ UNCHANGED pc
       ELSE Goto(x, "panic") /\ UNCHANGED <<ptr, wset>>
    /\ UNCHANGED <<clock, owner, other, cell, snap, parent, op, left, hist>>

AbortDone(x) ==
    /\ pc[x] = "abort"
    /\ wset[x] = {}
    /\ Goto(x, "done")
    /\ UNCHANGED <<clock, heapVars, cell, snap, parent, op, left, wset, hist>>

Step(x) ==
    \/ Begin(x) \/ ReadRoot(x) \/ Perform(x) \/ Commit(x) \/ Fail(x) \/ AbortDone(x)
    \/ \E l \in Reach(x) : Write(x, l) \/ WriteFails(x, l)
    \/ \E c \in Cells : CopyPointer(x, c) \/ Alloc(x, c)
    \/ \E w \in wset[x] : Rollback(x, w)

Next == UNCHANGED ways /\ \E x \in Txs : Step(x)

Spec == Init /\ [][Next]_vars

-----------------------------------------------------------------------------
(***************************************************************************)
(* Properties.                                                             *)
(***************************************************************************)

Running(x) == pc[x] \in {"run", "copy", "abort"}
Reading(x) == Running(x) /\ parent[x] # None

\* What x gets when it reads child c of its parent.
SeenChild(x, c) == Seen(x, ptr[<<parent[x], c>>])

\* A child can always be read: a parent that belongs to the snapshot never leads
\* to a child without a version in the snapshot, whoever rewrites or replaces the
\* child or the parent meanwhile (VersionedReader::read, InvalidLogicalAddress).
ChildReadable ==
    \A x \in Txs : Reading(x) => \A c \in Cells :
       ptr[<<parent[x], c>>] # None => SeenChild(x, c) # None

\* Reads are repeatable: reading a child of the same parent again gives the same
\* version, although the pointers were swapped, rolled back and copied meanwhile.
RepeatableChild ==
    [][\A x \in Txs : Reading(x) /\ Reading(x)' => \A c \in Cells :
          SeenChild(x, c)' = SeenChild(x, c)]_vars

\* "assert!(success)" (TransactionWrite::rollback, tx.rs:32) also holds for the
\* pointers inside objects: what a transaction has swapped in stays there until
\* it ends.
RollbackFinds ==
    \A x \in Txs : \A w \in wset[x] : ptr[w.dst] = w.new

\* What is read through the root of a snapshot is, for every child, the last
\* version committed before the snapshot.
NewestChildren(x) ==
    \A c \in Cells :
       \E h \in hist[c] : /\ SeenChild(x, c) = h[2] /\ h[1] <= snap[x]
                          /\ \A g \in hist[c] : g[1] <= snap[x] => g[1] <= h[1]

\* A committed update of a child is not lost when its parent is copied, replaced
\* or rolled back (DESIGN.md:70, "(serializable) isolation"), as long as children
\* are written through the transaction's own copy of their parent only: then the
\* latch of the parent keeps other writers of its children out.
OwnUpdatesKept ==
    ways = {"own"} => \A x \in Txs : Reading(x) => NewestChildren(x)

\* Behind a committed root, a version 0 in front of a child belongs to a
\* transaction that is still running.
ChildLatchHeld ==
    VerNum(ptr[Root]) # 0 =>
       \A c \in Cells : LET o == ptr[<<ptr[Root], c>>] IN
          o # None /\ owner[o] # Base /\ VerNum(o) = 0 => Running(owner[o])

\* "Objects with version 0 can be considered to be object/page latches"
\* (DESIGN.md:464): no latch on a child outlives its transaction, as long as
\* children are written through the own copy of their parent only.
OwnLatchHeld == ways = {"own"} => ChildLatchHeld

(***************************************************************************)
(* What the documentation says and the code does not do.                   *)
(***************************************************************************)

\* "From the user's perspective, transactions provide (serializable) isolation"
\* (DESIGN.md:70): whatever pointers the closures use, no committed update of a
\* child is lost.
ChildUpdatesKept == \A x \in Txs : Reading(x) => NewestChildren(x)

=============================================================================
