-------------------------------- MODULE Mvcc --------------------------------
(***************************************************************************)
(* The transaction protocol of librarius: src/src/tx.rs (Transaction), the *)
(* version chains, the versioned reader and the commit of src/src/vos.rs,  *)
(* and run_once of src/src/librarius.rs.                                   *)
(*                                                                         *)
(* Threads run closures that read, read_for_write and write the objects    *)
(* behind a fixed set of pointers. Every access to shared memory (loading  *)
(* a pointer, reading the version of an object, a compare-and-swap, taking *)
(* and releasing the version lock) is a step of its own, so the steps of   *)
(* different threads interleave the way the hardware interleaves them.     *)
(*                                                                         *)
(* What is abstracted: the bytes of an object (a closure may only change   *)
(* the private copy that write gave it, so an object stands for its        *)
(* content), and the address of an object inside its page. Pointers stored *)
(* inside objects that are themselves copied by write are not covered: Ptrs*)
(* are pointer locations that stay where they are.                         *)
(***************************************************************************)
EXTENDS Naturals

CONSTANTS
    Threads,    \* threads calling Librarius::run
    Ptrs,       \* UntypedPointer locations
    Obj,        \* byte-addressable memory for objects; nothing is ever freed
    Log,        \* byte-addressable memory for transaction version cells
    First,      \* what each pointer holds when the store opens
    None,       \* the null pointer, and "no value" in general
    Block,      \* a pointer with the block tag: its object must be fetched
    Base,       \* the direct version 1, Version::new_base
    Free        \* memory that has not been allocated

ASSUME ConstantsAssumption ==
    /\ {None, Block} \cap Obj = {} /\ None # Block
    /\ First \in [Ptrs -> Obj \cup {Block}]
    /\ \A p, q \in Ptrs : First[p] = First[q] => p = q \/ First[p] = Block
    /\ {None, Base, Free} \cap Log = {} /\ Base # Free
    /\ None \notin Ptrs /\ None \notin Threads

VARIABLES
    clock, lock,    \* VersionedObjectStore.version: the number, the write lock
    ptr,            \* what each UntypedPointer holds
    vword, other,   \* ObjectHeader.version and ObjectHeader.other
    chain,          \* history: the pointer whose version chain holds an object
    logs, cell,     \* the allocated version cells and the number in each
    pc,             \* what a thread is doing
    snap,           \* VersionedReader.version of the running transaction
    tlog,           \* Transaction.version: the version cell it writes with
    rset, wset,     \* Transaction.readset and Transaction.writeset
    arg,            \* the pointer the operation in progress was called with
    addr,           \* write: the value of that pointer when the call started
    cur,            \* the version the reader is looking at; None before a load
    new,            \* write: the copy that is about to be swapped in
    todo,           \* commit: the part of the readset still to be validated
    ret,            \* the object the last read or read_for_write returned
    commits         \* history: the committed write transactions

heapVars == <<ptr, vword, other, chain, logs, cell>>
opVars == <<arg, addr, cur, new, ret>>
txVars == <<snap, tlog, rset, wset>>
vars == <<clock, lock, heapVars, pc, txVars, opVars, todo, commits>>

TransactionWrite == [dst : Ptrs, current : Obj \cup {None}, new : Obj]

-----------------------------------------------------------------------------
(***************************************************************************)
(* Versions and pointers.                                                  *)
(***************************************************************************)

\* Version::read: a direct version is its own number, an indirect one is the
\* number in the cell it points to. 0 means not committed.
VerNum(o) == IF vword[o] = Base THEN 1 ELSE cell[vword[o]]

\* What the last operation of each transaction has returned to its closure: the
\* pointer, and the number of the version it got.
Returned ==
    [t \in Threads |-> IF ret[t] = None THEN None
                       ELSE [ptr |-> arg[t], ver |-> VerNum(ret[t])]]

SI == INSTANCE SnapshotIsolation WITH seen <- Returned

\* Deliberately wrong, for the mutation runs: a version 0 is taken for an old one.
VisibleIgnoringZero(t, o) == VerNum(o) <= snap[t]
\* Deliberately wrong, for the mutation runs: committed is enough.
VisibleIgnoringSnapshot(t, o) == VerNum(o) # 0

\* Deliberately wrong, for the mutation runs: an off-by-one in the comparison.
VisibleOffByOne(t, o) == VerNum(o) # 0 /\ VerNum(o) < snap[t]

\* VersionedReader::read: the test that decides whether a version belongs to
\* the snapshot of the reading transaction.
Visible(t, o) == VerNum(o) # 0 /\ VerNum(o) <= snap[t]

\* Version::newer, as the validation in Transaction::commit uses it: the head
\* of the pointer against the committing transaction's own version.
Newer(t, p) == VerNum(ptr[p]) > cell[tlog[t]]

\* Deliberately wrong, for the mutation runs: the block tag is kept.
NewByteTagged(a) == a

\* UntypedPointer::new_byte(address): the block tag of the address is lost, so
\* the result of applying it to a block pointer equals no pointer of the heap.
NewByte(a) == IF a = Block THEN None ELSE a

\* Memory that GenericAllocator::alloc can still hand out.
Fresh == {o \in Obj : vword[o] = Free}

\* TransactionalObjectAllocator::init_object.
InitObject(o, version, prev) ==
    /\ vword' = [vword EXCEPT ![o] = version]
    /\ other' = [other EXCEPT ![o] = prev]

-----------------------------------------------------------------------------
(***************************************************************************)
(* The store has just been opened: version 1, every pointer either in      *)
(* memory with its base version or still on block storage.                 *)
(***************************************************************************)

Init ==
    /\ clock = 1
    /\ lock = None
    /\ ptr = First
    /\ vword = [o \in Obj |-> IF \E p \in Ptrs : First[p] = o THEN Base ELSE Free]
    /\ chain = [o \in Obj |-> IF \E p \in Ptrs : First[p] = o
                              THEN CHOOSE p \in Ptrs : First[p] = o ELSE None]
    /\ other = [o \in Obj |-> None]
    /\ logs = {}
    /\ cell = [l \in Log |-> 0]
    /\ pc = [t \in Threads |-> "idle"]
    /\ snap = [t \in Threads |-> 0]
    /\ tlog = [t \in Threads |-> None]
    /\ rset = [t \in Threads |-> {}]
    /\ wset = [t \in Threads |-> {}]
    /\ arg = [t \in Threads |-> None]
    /\ addr = [t \in Threads |-> None]
    /\ cur = [t \in Threads |-> None]
    /\ new = [t \in Threads |-> None]
    /\ ret = [t \in Threads |-> None]
    /\ todo = [t \in Threads |-> {}]
    /\ commits = {}

Goto(t, l) == pc' = [pc EXCEPT ![t] = l]

\* The per-transaction state is dropped with the Transaction value.
DropTransaction(t) ==
    /\ Goto(t, "idle")
    /\ snap' = [snap EXCEPT ![t] = 0]
    /\ tlog' = [tlog EXCEPT ![t] = None]
    /\ rset' = [rset EXCEPT ![t] = {}]
    /\ wset' = [wset EXCEPT ![t] = {}]
    /\ todo' = [todo EXCEPT ![t] = {}]
    /\ arg' = [arg EXCEPT ![t] = None]
    /\ ret' = [ret EXCEPT ![t] = None]
    /\ UNCHANGED <<addr, cur, new>>

\* The operation in progress is over: the closure goes on at l with result o.
Return(t, l, o) ==
    /\ Goto(t, l)
    /\ ret' = [ret EXCEPT ![t] = o]
    /\ arg' = [arg EXCEPT ![t] = IF o = None THEN None ELSE @]
    /\ addr' = [addr EXCEPT ![t] = None]
    /\ cur' = [cur EXCEPT ![t] = None]
    /\ new' = [new EXCEPT ![t] = None]

\* A closure that gets an error either returns it, as the ? operator does, and
\* run_once aborts the transaction, or ignores it and goes on.
Propagate == {"abort"}
OnError == Propagate \cup {"run"}

-----------------------------------------------------------------------------
(***************************************************************************)
(* Transaction::new: the snapshot is read under the read lock, so not      *)
(* while a commit holds the write lock.                                    *)
(***************************************************************************)

\* Deliberately wrong, for the mutation runs: the version is read without the lock.
BeginUnlocked(t) ==
    /\ pc[t] = "idle"
    /\ Goto(t, "run")
    /\ snap' = [snap EXCEPT ![t] = clock]
    /\ UNCHANGED <<clock, lock, heapVars, tlog, rset, wset, opVars, todo, commits>>

Begin(t) ==
    /\ pc[t] = "idle"
    /\ lock = None
    /\ Goto(t, "run")
    /\ snap' = [snap EXCEPT ![t] = clock]
    /\ UNCHANGED <<clock, lock, heapVars, tlog, rset, wset, opVars, todo, commits>>

-----------------------------------------------------------------------------
(***************************************************************************)
(* The closure calls an operation: the pointer is loaded.                  *)
(***************************************************************************)

Call(t, p, op) ==
    /\ pc[t] = "run"
    /\ Goto(t, op)
    /\ arg' = [arg EXCEPT ![t] = p]
    /\ cur' = [cur EXCEPT ![t] = ptr[p]]
    /\ ret' = [ret EXCEPT ![t] = None]
    /\ UNCHANGED <<clock, lock, ptr, vword, other, chain, snap, wset, new, todo,
                   commits>>

\* Transaction::read
Read(t, p) ==
    /\ Call(t, p, "read")
    /\ UNCHANGED <<logs, cell, tlog, rset, addr>>

\* Transaction::read_for_write: the pointer joins the readset first.
ReadForWrite(t, p) ==
    /\ Call(t, p, "rfw")
    /\ rset' = [rset EXCEPT ![t] = @ \cup {p}]
    /\ UNCHANGED <<logs, cell, tlog, addr>>

\* Transaction::write_version: the first call allocates a version cell that
\* holds 0.
WriteVersion(t) ==
    \/ /\ tlog[t] # None
       /\ UNCHANGED <<logs, cell, tlog>>
    \/ /\ tlog[t] = None
       /\ \E l \in Log \ logs :
             /\ logs' = logs \cup {l}
             /\ cell' = [cell EXCEPT ![l] = 0]
             /\ tlog' = [tlog EXCEPT ![t] = l]

\* Transaction::write, up to the read of the version to copy.
Write(t, p) ==
    /\ Call(t, p, "write")
    /\ WriteVersion(t)
    /\ addr' = [addr EXCEPT ![t] = ptr[p]]
    /\ UNCHANGED rset

-----------------------------------------------------------------------------
(***************************************************************************)
(* VersionedReader::read, called by read (which skips versions that are    *)
(* not in the snapshot) and by read_for_write and write (which give up on  *)
(* them).                                                                  *)
(***************************************************************************)

\* A block pointer is fetched into memory and swizzled: the copy is swapped
\* into the pointer unless another thread was faster, and the read starts over.
Swizzle(t) ==
    /\ pc[t] \in {"read", "rfw"}
    /\ cur[t] = Block
    /\ \E o \in Fresh :
          /\ InitObject(o, Base, None)
          /\ \/ /\ ptr[arg[t]] = Block
                /\ ptr' = [ptr EXCEPT ![arg[t]] = o]
                /\ chain' = [chain EXCEPT ![o] = arg[t]]
             \/ /\ ptr[arg[t]] # Block
                /\ UNCHANGED <<ptr, chain>>
    /\ cur' = [cur EXCEPT ![t] = None]
    /\ UNCHANGED <<clock, lock, logs, cell, pc, txVars, arg, addr, new, ret, todo,
                   commits>>

\* The read starts over: the pointer is loaded again.
Reload(t) ==
    /\ pc[t] \in {"read", "rfw"}
    /\ cur[t] = None
    /\ cur' = [cur EXCEPT ![t] = ptr[arg[t]]]
    /\ UNCHANGED <<clock, lock, heapVars, pc, txVars, arg, addr, new, ret, todo,
                   commits>>

\* write reads through its own clone of the pointer, so the copy is swapped
\* into the clone and the pointer itself stays a block pointer.
SwizzleClone(t) ==
    /\ pc[t] = "write"
    /\ cur[t] = Block
    /\ \E o \in Fresh :
          /\ InitObject(o, Base, None)
          /\ cur' = [cur EXCEPT ![t] = o]
    /\ UNCHANGED <<clock, lock, ptr, chain, logs, cell, pc, txVars, arg, addr, new,
                   ret, todo, commits>>

\* The version is in the snapshot: read and read_for_write return it.
ReadReturns(t) ==
    /\ pc[t] \in {"read", "rfw"}
    /\ cur[t] \in Obj
    /\ Visible(t, cur[t])
    /\ Return(t, "run", cur[t])
    /\ UNCHANGED <<clock, lock, heapVars, txVars, todo, commits>>

\* The version is not in the snapshot: read goes on to the older one.
ReadOlder(t) ==
    /\ pc[t] = "read"
    /\ cur[t] \in Obj
    /\ ~Visible(t, cur[t])
    /\ other[cur[t]] # None
    /\ cur' = [cur EXCEPT ![t] = other[cur[t]]]
    /\ UNCHANGED <<clock, lock, heapVars, pc, txVars, arg, addr, new, ret, todo,
                   commits>>

\* The operation fails: the version chain ends before the snapshot
\* (InvalidLogicalAddress), or the newest version is not in the snapshot of an
\* operation that may not skip it (TxAborted).
OperationFails(t, e) ==
    /\ cur[t] \in Obj
    /\ ~Visible(t, cur[t])
    /\ \/ pc[t] = "read" /\ other[cur[t]] = None
       \/ pc[t] \in {"rfw", "write"}
    /\ Return(t, e, None)
    /\ UNCHANGED <<clock, lock, heapVars, txVars, todo, commits>>

\* No page is left (NoAvailableMemory) for the version cell of a first write,
\* for a fetched object or for the copy that write makes. Memory is handed out
\* in pages, so this can happen while other transactions still have room in
\* theirs.
NoAvailableMemory(t, e) ==
    /\ \/ pc[t] = "run" /\ tlog[t] = None
       \/ pc[t] \in {"read", "rfw", "write"} /\ cur[t] = Block
       \/ pc[t] = "write" /\ cur[t] \in Obj /\ Visible(t, cur[t])
    /\ Return(t, e, None)
    /\ UNCHANGED <<clock, lock, heapVars, txVars, todo, commits>>

-----------------------------------------------------------------------------
(***************************************************************************)
(* Transaction::write, after the version to copy has been read.            *)
(***************************************************************************)

\* Deliberately wrong, for the mutation runs: alloc_new instead of alloc.
CopyWithoutOther(t) ==
    /\ pc[t] = "write"
    /\ cur[t] \in Obj
    /\ Visible(t, cur[t])
    /\ \E o \in Fresh :
          /\ InitObject(o, tlog[t], None)
          /\ new' = [new EXCEPT ![t] = o]
    /\ Goto(t, "swap")
    /\ UNCHANGED <<clock, lock, ptr, chain, logs, cell, txVars, arg, addr, cur, ret,
                   todo, commits>>

\* The copy is allocated with the transaction's version cell as its version
\* and the version that was read as the next older one.
CopyOnWrite(t) ==
    /\ pc[t] = "write"
    /\ cur[t] \in Obj
    /\ Visible(t, cur[t])
    /\ \E o \in Fresh :
          /\ InitObject(o, tlog[t], cur[t])
          /\ new' = [new EXCEPT ![t] = o]
    /\ Goto(t, "swap")
    /\ UNCHANGED <<clock, lock, ptr, chain, logs, cell, txVars, arg, addr, cur, ret,
                   todo, commits>>

\* The write takes effect and joins the writeset.
Swap(t, w) ==
    /\ ptr' = [ptr EXCEPT ![w.dst] = w.new]
    /\ chain' = [chain EXCEPT ![w.new] = w.dst]
    /\ wset' = [wset EXCEPT ![t] = @ \cup {w}]

\* Deliberately wrong, for the mutation runs: a store instead of a compare-and-swap.
PerformBlindly(t) ==
    /\ pc[t] = "swap"
    /\ Swap(t, [dst |-> arg[t], current |-> NewByte(addr[t]), new |-> new[t]])
    /\ Return(t, "run", None)
    /\ UNCHANGED <<clock, lock, vword, other, logs, cell, snap, tlog, rset, todo,
                   commits>>

\* Deliberately wrong, for the mutation runs: the write does not join the writeset.
PerformUnrecorded(t) ==
    /\ pc[t] = "swap"
    /\ ptr[arg[t]] = NewByte(addr[t])
    /\ ptr' = [ptr EXCEPT ![arg[t]] = new[t]]
    /\ chain' = [chain EXCEPT ![new[t]] = arg[t]]
    /\ Return(t, "run", None)
    /\ UNCHANGED <<clock, lock, vword, other, logs, cell, snap, tlog, rset, wset, todo,
                   commits>>

\* TransactionWrite::perform: one compare-and-swap. When it fails the copy is
\* leaked and the closure gets TxAborted.
Perform(t) ==
    /\ pc[t] = "swap"
    /\ ptr[arg[t]] = NewByte(addr[t])
    /\ Swap(t, [dst |-> arg[t], current |-> NewByte(addr[t]), new |-> new[t]])
    /\ Return(t, "run", None)
    /\ UNCHANGED <<clock, lock, vword, other, logs, cell, snap, tlog, rset, todo,
                   commits>>

PerformFails(t, e) ==
    /\ pc[t] = "swap"
    /\ ptr[arg[t]] # NewByte(addr[t])
    /\ Return(t, e, None)
    /\ UNCHANGED <<clock, lock, heapVars, txVars, todo, commits>>

-----------------------------------------------------------------------------
(***************************************************************************)
(* The closure has returned.                                               *)
(***************************************************************************)

\* Ok in a transaction that never wrote: commit does nothing.
CommitReadOnly(t) ==
    /\ pc[t] = "run"
    /\ tlog[t] = None
    /\ DropTransaction(t)
    /\ UNCHANGED <<clock, lock, heapVars, commits>>

\* Ok in a transaction with a version cell: commit_version takes the write lock
\* and a new version number.
CommitLock(t) ==
    /\ pc[t] = "run"
    /\ tlog[t] # None
    /\ lock = None
    /\ lock' = t
    /\ clock' = clock + 1
    /\ todo' = [todo EXCEPT ![t] = rset[t]]
    /\ Goto(t, "validate")
    /\ UNCHANGED <<heapVars, txVars, opVars, commits>>

\* One pointer of the readset passes validation.
Validate(t, p) ==
    /\ pc[t] = "validate"
    /\ p \in todo[t]
    /\ ptr[p] # Block
    /\ ~Newer(t, p)
    /\ todo' = [todo EXCEPT ![t] = @ \ {p}]
    /\ UNCHANGED <<clock, lock, heapVars, pc, txVars, opVars, commits>>

\* Deliberately wrong, for the mutation runs: a failed commit rolls nothing back.
ValidateFailsOnly(t, p) ==
    /\ pc[t] = "validate"
    /\ p \in todo[t]
    /\ ptr[p] # Block
    /\ Newer(t, p)
    /\ lock' = None
    /\ todo' = [todo EXCEPT ![t] = {}]
    /\ wset' = [wset EXCEPT ![t] = {}]
    /\ Goto(t, "abort")
    /\ UNCHANGED <<clock, heapVars, snap, tlog, rset, opVars, commits>>

\* One does not: the lock is released, then the writes are rolled back.
ValidateFails(t, p) ==
    /\ pc[t] = "validate"
    /\ p \in todo[t]
    /\ ptr[p] # Block
    /\ Newer(t, p)
    /\ lock' = None
    /\ todo' = [todo EXCEPT ![t] = {}]
    /\ Goto(t, "abort")
    /\ UNCHANGED <<clock, heapVars, txVars, opVars, commits>>

\* VersionedReader::read_version is a todo!() for a block pointer: the thread
\* panics, which releases the lock and leaves its writes where they are.
ValidatePanics(t, p) ==
    /\ pc[t] = "validate"
    /\ p \in todo[t]
    /\ ptr[p] = Block
    /\ lock' = None
    /\ Goto(t, "panic")
    /\ UNCHANGED <<clock, heapVars, txVars, opVars, todo, commits>>

\* Version::commit: one store to the version cell makes every write of the
\* transaction visible, and the lock is released.
CommitStore(t) ==
    /\ pc[t] = "validate"
    /\ todo[t] = {}
    /\ cell' = [cell EXCEPT ![tlog[t]] = clock]
    /\ lock' = None
    /\ commits' = commits \cup {[ver |-> clock, snap |-> snap[t], reads |-> rset[t],
                                 writes |-> {w.dst : w \in wset[t]}]}
    /\ DropTransaction(t)
    /\ UNCHANGED <<clock, ptr, vword, other, chain, logs>>

\* Err: run_once aborts the transaction.
ClosureFails(t) ==
    /\ pc[t] = "run"
    /\ Goto(t, "abort")
    /\ UNCHANGED <<clock, lock, heapVars, txVars, opVars, todo, commits>>

\* TransactionWrite::rollback: swap the old version back, and assert that this
\* worked. A failed assertion is a panic.
Rollback(t, w) ==
    /\ pc[t] = "abort"
    /\ w \in wset[t]
    /\ IF ptr[w.dst] = w.new
       THEN /\ ptr' = [ptr EXCEPT ![w.dst] = w.current]
            /\ chain' = [chain EXCEPT ![w.new] = None]
            /\ wset' = [wset EXCEPT ![t] = @ \ {w}]
            /\ UNCHANGED pc
       ELSE /\ Goto(t, "panic")
            /\ UNCHANGED <<ptr, chain, wset>>
    /\ UNCHANGED <<clock, lock, vword, other, logs, cell, snap, tlog, rset, opVars,
                   todo, commits>>

AbortDone(t) ==
    /\ pc[t] = "abort"
    /\ wset[t] = {}
    /\ DropTransaction(t)
    /\ UNCHANGED <<clock, lock, heapVars, commits>>

-----------------------------------------------------------------------------

Step(t, onError) ==
    \/ Begin(t)
    \/ \E p \in Ptrs : Read(t, p) \/ ReadForWrite(t, p) \/ Write(t, p)
    \/ Swizzle(t) \/ Reload(t) \/ SwizzleClone(t)
    \/ ReadReturns(t) \/ ReadOlder(t) \/ CopyOnWrite(t) \/ Perform(t)
    \/ \E e \in onError : OperationFails(t, e) \/ NoAvailableMemory(t, e)
                          \/ PerformFails(t, e)
    \/ CommitReadOnly(t) \/ CommitLock(t) \/ CommitStore(t)
    \/ \E p \in Ptrs : Validate(t, p) \/ ValidateFails(t, p) \/ ValidatePanics(t, p)
    \/ ClosureFails(t) \/ AbortDone(t)
    \/ \E w \in wset[t] : Rollback(t, w)

Next == \E t \in Threads : Step(t, OnError)

Spec == Init /\ [][Next]_vars

\* Every closure returns the errors it gets, as those of the tests and of the
\* example do.
StrictNext == \E t \in Threads : Step(t, Propagate)

StrictSpec == Init /\ [][StrictNext]_vars

-----------------------------------------------------------------------------
(***************************************************************************)
(* Properties.                                                             *)
(***************************************************************************)

Labels == {"idle", "run", "read", "rfw", "write", "swap", "validate", "abort", "panic"}

\* Every variable holds a value of its type.
TypeOK ==
    /\ clock \in Nat
    /\ lock \in Threads \cup {None}
    /\ ptr \in [Ptrs -> Obj \cup {Block}]
    /\ vword \in [Obj -> Log \cup {Base, Free}]
    /\ other \in [Obj -> Obj \cup {None}]
    /\ chain \in [Obj -> Ptrs \cup {None}]
    /\ logs \in SUBSET Log
    /\ cell \in [Log -> Nat]
    /\ pc \in [Threads -> Labels]
    /\ snap \in [Threads -> Nat]
    /\ tlog \in [Threads -> Log \cup {None}]
    /\ rset \in [Threads -> SUBSET Ptrs]
    /\ wset \in [Threads -> SUBSET TransactionWrite]
    /\ arg \in [Threads -> Ptrs \cup {None}]
    /\ addr \in [Threads -> Obj \cup {None, Block}]
    /\ cur \in [Threads -> Obj \cup {None, Block}]
    /\ new \in [Threads -> Obj \cup {None}]
    /\ ret \in [Threads -> Obj \cup {None}]
    /\ todo \in [Threads -> SUBSET Ptrs]
    /\ commits \subseteq SI!CommitRecord

\* The version 0 object a transaction has swapped into a pointer latches it:
\* until that transaction commits or rolls back, the pointer keeps that object,
\* no other transaction has a write on the pointer, and rolling back restores a
\* committed version. This is why the assertion in TransactionWrite::rollback
\* cannot fail (tx.rs:32).
WriteLatch ==
    \A t \in Threads : \A w \in wset[t] :
       /\ ptr[w.dst] = w.new
       /\ VerNum(w.new) = 0
       /\ w.current \in Obj /\ VerNum(w.current) # 0

Committed(o) == chain[o] # None /\ VerNum(o) # 0

\* No update is lost: in the version chain of a pointer every committed version
\* was copied from the committed version just before it, so the chain holds all
\* committed versions, newest first (VersionedReader::read relies on the order,
\* Transaction::write has to keep it).
NoLostUpdate ==
    \A o \in Obj : Committed(o) /\ other[o] # None =>
       LET prev == other[o] IN
       /\ Committed(prev) /\ chain[prev] = chain[o]
       /\ VerNum(prev) < VerNum(o)
       /\ \A x \in Obj :
             Committed(x) /\ chain[x] = chain[o] /\ VerNum(x) < VerNum(o)
                => VerNum(x) <= VerNum(prev)

\* A snapshot can always be read: whatever the writers do, a read that skips a
\* version finds an older one, so VersionedReader::read never falls off the end
\* of a chain with InvalidLogicalAddress.
ReadFindsVersion ==
    \A t \in Threads : pc[t] = "read" /\ cur[t] \in Obj /\ ~Visible(t, cur[t]) =>
       other[cur[t]] # None

\* The transaction layer gives snapshot isolation: every read returns the newest
\* version of its snapshot, however late it gets there and whatever commits in
\* between, and no two transactions that overlap in time both commit a write of
\* the same pointer.
SnapshotIsolated == SI!Spec

(***************************************************************************)
(* What the documentation says and the code does not do.                   *)
(***************************************************************************)

\* "The read_for_write function can be used to prevent write skew" (DESIGN.md:91):
\* no two transactions that overlap in time both commit when each of them wrote
\* what the other one read for write.
ReadForWritePreventsSkew ==
    \A c, d \in commits : c.snap < d.ver /\ d.ver < c.ver =>
       c.reads \cap d.writes = {} \/ d.reads \cap c.writes = {}

\* TxAborted is a "conflict during commit" (error.rs:54) and without one a write
\* transaction "is guaranteed to commit" (DESIGN.md:629): validation rejects a
\* pointer only if it was overwritten after the snapshot was taken.
CommitAbortsOnConflictOnly ==
    \A t \in Threads : pc[t] = "validate" =>
       \A p \in todo[t] : ptr[p] \in Obj /\ Newer(t, p) => VerNum(ptr[p]) > snap[t]

\* A block pointer is "swizzled" in place (DESIGN.md:222) and a write aborts when
\* it meets a version 0 (DESIGN.md:448): the compare-and-swap of a write fails
\* only if the pointer holds a version the writing transaction does not see.
WriteAbortsOnConflictOnly ==
    \A t \in Threads : pc[t] = "swap" /\ ptr[arg[t]] # NewByte(addr[t]) =>
       ptr[arg[t]] \in Obj /\ ~Visible(t, ptr[arg[t]])

=============================================================================
