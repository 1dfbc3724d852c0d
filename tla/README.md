# librarius in TLA+

librarius is a transactional object store over several storage sources: objects
live on files, are brought into byte-addressable memory when they are read, and
are changed by transactions with multi-version concurrency control. These
modules model its transaction protocol, the retry loop around it, pointers inside
objects, the memory allocators, the encoding of addresses, and the way a store is
opened, created, crashed and reopened. Paths and line numbers refer to `src/`.

## The system

| component | state | operations | interacts with |
|---|---|---|---|
| Transactions (`tx.rs`; `run`, `run_once` in `librarius.rs`) | snapshot version, version cell, readset, writeset | `read`, `read_for_write`, `write`, `alloc`, `commit`, `abort`; `set` is a `todo!()` | shared pointers by compare-and-swap, the version lock, the allocators |
| Versioned object store (`vos.rs`) | the version number behind an `RwLock`; in memory, object headers with a version and the next older version | `VersionedReader::read`, `read_version`, `flush`, `commit_version`, object and log allocators | fetches through the address space, swizzles pointers |
| Logical address space (`las.rs`) | where every source is mapped, the root location, block backing of memory slices | `new`, `alloc`, `fetch`, `flush`, `read`, `write` | the allocator of each source |
| Page allocator (`source/mod.rs`) | a header on page 0, the free list | `initialize`, `allocate_page`, page reads and writes | `valid_page` of the object store tells it which pages are in use |
| Sources (`file_source.rs`, `memory_source.rs`) | the bytes | `read`, `write`, `flush`, `length` | |
| Builder and open (`librarius.rs`) | root location and its bytes | `open`, `create_with`, `root_read`, `root_alloc` | all of the above |
| Allocators of a transaction (`GenericAllocator` in `vos.rs`, `LogicalMutRef` in `las.rs`) | the rest of a page | `alloc`, `try_consume_bytes` | takes pages from the first byte-addressable source |
| Pointers, versions, slices (`vos.rs`, `las.rs`, `utils.rs`) | words with an address, tags and a count | encode, decode, translate to a page | |
| Typed wrappers, errors | none | casts | lifetimes say which pointers a closure can use |

What is hard here:

* Transactions of different threads share the pointers without locks. A write
  is: load the pointer, read a version, copy it, compare-and-swap. Only the
  version number is behind a lock. Readers walk chains that change meanwhile.
* A version of 0 is both "not committed" and "older than everything".
* A pointer may be on block storage. Then the first access replaces it, and
  several threads may do so at once.
* An open writes to every source, page by page, and may end anywhere: because
  the process dies or because another source reports an error. Free pages are
  recorded nowhere; they are recognised by what they look like.
* `write` copies an object with the pointers in it, while other transactions swap
  those pointers. From then on a child has two pointers.
* `run` retries without a limit, and every attempt takes new pages that nothing
  gives back.
* A write to a file may stop short, and `flush` does not sync.

The properties that make it correct:

* Transactions: snapshot isolation (every read returns the newest version of its
  snapshot, no two overlapping transactions commit a write of the same pointer);
  an uncommitted version latches its pointer; no committed update is lost; a
  reader always finds a version; a commit aborts only on a conflict;
  `read_for_write` prevents write skew.
* Runs: every `run` returns, one of several conflicting runs commits, a counter is
  incremented once per run, no run leaves a latch behind.
* Nested objects: a child of a parent of the snapshot is readable and reads are
  repeatable, updates of children are kept, rollbacks find what they swapped in.
* Memory: slices are disjoint and inside one page, every address translates back
  to the page it came from, and a word says what it holds.
* Store: a persisted root pointer never dangles, whenever the process dies; pages
  that are referred to are not given out again; addresses resolve to one source; a
  root is found again and is not replaced.

## Modules

| module | what it is |
|---|---|
| `SnapshotIsolation` | the abstract promise of the transaction layer: snapshots, commits, no heap |
| `Mvcc` | the transaction protocol, one action per access to shared memory |
| `MvccInvariant` | the inductive invariants of `Mvcc`: `Inductive` for its own properties, `Refining` for the refinement |
| `MvccProofs` | the proof of `Inductive` and the theorems that follow from it |
| `MvccRefinement` | the proof of `Refining` and that `Mvcc` implements `SnapshotIsolation` |
| `RunLoop` | `Librarius::run` around the transactions of `Mvcc`: closures, retries, pages that are used up, fairness |
| `RunLoopProofs` | that the loop runs transactions of `Mvcc`, and what its runs leave behind |
| `Nested` | pointers inside objects: a root object with children, `alloc`, writes that copy pointers |
| `NestedInvariant` | the inductive invariants of `Nested`: `Inductive` for all closures, `OwnInductive` for those that write children through their own copy of the root only |
| `NestedProofs` | the proof of `Inductive` and the theorems that follow from it |
| `NestedOwnProofs` | the proof of `OwnInductive` and the theorems that follow from it |
| `Allocator` | pages taken from a source and carved up, in bytes, with the inductive invariant |
| `AllocatorProofs` | its proof and the theorems that follow from it |
| `Layout` | on top of `Allocator`: the translation of slices to pages, alignment, pointer and version words |
| `LayoutProofs` | that slices translate to their pages and words keep what is stored in them |
| `Store` | sources, address space, page allocator, open, root object, crashes, short writes |
| `StoreInvariant` | the inductive invariant of `Store`, and the part of it that power failures leave intact |
| `Power` | `Store` with a disk behind the files: pages written back in any order, power failures, and the inductive invariant with them |
| `StoreProofs` | the proofs of both invariants and the theorems that follow from them |
| `MCMvcc`, `MCRunLoop`, `MCNested`, `MCAllocator`, `MCLayout`, `MCStore`, `MCPower` | constants and symmetry for TLC |

### Mvcc

Threads run transactions for ever; a closure is any sequence of operations on the
pointers `Ptrs`. `pc[t]` says where a thread is: `idle` between transactions,
`run` in the closure, `read`, `rfw`, `write` inside `VersionedReader::read`,
`swap` before the compare-and-swap of `write`, `validate` with the version lock
held, `abort` during the rollback, `panic`.

| code | actions |
|---|---|
| `Transaction::new` | `Begin` |
| `read`, `read_for_write`, `write` | `Read`, `ReadForWrite`, `Write` load the pointer |
| `VersionedReader::read` | `Swizzle`, `Reload`, `SwizzleClone`, `ReadReturns`, `ReadOlder`, `OperationFails` |
| `write`, second half | `CopyOnWrite`, `Perform`, `PerformFails` |
| allocation without a page left | `NoAvailableMemory` |
| `commit`, `commit_version` | `CommitReadOnly`, `CommitLock`, `Validate`, `ValidateFails`, `ValidatePanics`, `CommitStore` |
| `abort`, `rollback` | `ClosureFails`, `Rollback`, `AbortDone` |

Shared memory is `ptr` (what a pointer holds), `vword` and `other` (an object's
version word and next older version) and `cell` (the version cells of
transactions). Memory is never freed by the code, so objects and cells are taken
from the constant sets `Obj` and `Log` until these are used up. `chain` and
`commits` are history variables, used by properties only; `ret` keeps the object
that the last read returned.

Choices made in the model:

* Objects have no content: a closure can only change the private copy it got from
  `write`, so which object a read returns says everything.
* The readset is validated, and the writeset rolled back, in any order instead of
  the order of the vectors. That allows more behaviours than the code has.
* `Validate` reads a pointer and the version behind it in one step. The pointer
  can change in between, but under the write lock no version is committed, so
  the version that was behind the pointer when it was loaded is the version read.
* A closure may ignore the error of an operation and go on (`OnError`). In
  `StrictSpec` it returns every error, as the tests and the example do.
* `write` on a block pointer clones it first, so the clone is swizzled and not
  the pointer (`SwizzleClone`), and `UntypedPointer::new_byte` loses the block tag
  (`NewByte`).
* Pointer locations stay where they are. Pointers inside objects, which `write`
  copies with the object, are the subject of `Nested`.

### RunLoop

Every thread runs one closure, a sequence of operations on pointers that returns the
first error, as the closures of the tests do. The actions are those of `Mvcc`,
grouped by what they mean for the loop: `StartAttempt` (`Transaction::new`),
`CallNext`, `Copy`, `Fetch` and `Internal` (the operations), `Conflict` and
`OutOfMemory` (the errors), `ReturnOk`, and `EndAttempt`, which starts over after
`TxAborted` and returns every other error. `pages` counts the free pages of memory: an
attempt takes one for its version cell, one for its copies, and each fetch takes one.
Nothing gives a page back, so `pages` bounds the number of attempts as it does in the
code. An application gives every thread its closure; `Programs` is the set of
applications. The objects of one closure fit into one page; `Allocator` has the general case.

### Nested

One root object with pointers `Cells` to children. `ptr` maps every location (the root
pointer and every pointer in every root object) to an object. `Write` allocates a copy,
`CopyPointer` copies one pointer of the original, in any order (`copy_from_slice` copies
words that other threads swap), `Perform` swaps the copy in. `Alloc` is `alloc` and the
store of the new pointer. Which pointers a closure can pass to `write` follows from
the lifetimes in `typed.rs`: those in a root object it got from `read` (valid for the
whole transaction) or in its own copy from `write`. Calling `write` with a pointer of the
own copy borrows the copy, so the closure cannot change it directly afterwards.
`ways` is the habit of the application: `Habits` lists which of the two its closures
use. `VersionedReader::read` and the
commit are single steps here; `Mvcc` has their interleavings.

### Allocator and Layout

`Allocator` follows one call of `GenericAllocator::alloc`: `Alloc`, `TakePage` or `NoPage`,
`Consume`, `Discard`, `TooLarge`; `Drop` is the end of a transaction. Allocators of several
transactions interleave between these steps. Sizes wrap at `Wrap`, which stands for 2^32.

`Layout` looks at every slice `Allocator` has handed out: its address is stored in a byte
pointer, a block pointer or an indirect version (`StoreWord`), read back (`LoadWord`) and
translated to a page (`ToPage`). The fields of a word are scaled down for TLC (`AddressBits`
for 54, `CountBits` for 8). `BitAnd`, `BitOr` and `PowerOfTwo` are recursive functions of the
project, because nothing can be proved about the operators of `Bitwise` and about `^`; an
assumption of `MCLayout` compares them on all words of 6 bits.

### Store

Sources are arrays of pages and every length and address is in pages. Page 0 has
the source header, page 1 the metadata, the rest objects. A step writes at most
one page of a file, so `Crash` between two steps is a crash between two writes.
`Crash` also stands for the errors that end an open (I/O errors, no memory for the
root, a failing constructor): what is left is what is in the files. A write may
stop short (`ShortWrite`): a half written header or metadata page is not recognised,
a half written object is if its header is complete, and of the root location a part may be
there (`Half`). What was written survives `Crash`.

`Power` adds the disk: a write changes what the file returns, `WriteBack` brings single
pages to the disk in any order, and after `PowerFail` only the disk is left.

| code | actions |
|---|---|
| `LibrariusBuilder` | `Open` |
| `FileSource::new` on an existing file | `Resize` |
| `FileSource::write` that writes too little | `ShortHeader`, `ShortMeta`, `ShortObject`, `ShortRoot` |
| `LogicalAddressSpace::new` | `ScanMapped`, `ScanUnallocated`, `ScanFails`, `Allocate`, `CreateAssertionFails`, `RootInMemory`, `FetchRoot` |
| `Librarius::new`, `root_read`, `root_alloc` | `RootRead`, `RootAlloc` |
| `VersionedReader::flush` of the root location | `FlushObject`, `FlushRoot`, `FlushFails` |

The root location is a pointer at a fixed offset of a page. `las.rs:332` places it
in the metadata page, `las.rs:275` looks for it in the header page; the model keeps
both computations (`IsRootLocation`, `ScanMapped`), so every page has a `root`
field.

`Spec` opens a heap always with all the files that have a slice of its address
space (`WholeHeap`); new sources may join. `MixedSpec` opens any files together, and
`ResizingSpec` gives files other lengths between two opens.

## Runs

| run | instance | shows |
|---|---|---|
| `mvcc_two` | 2 threads, 2 pointers, 2 more objects, 2 version cells | `WriteLatch`, `NoLostUpdate`, `ReadFindsVersion`, and that `Mvcc` implements `SnapshotIsolation` |
| `mvcc_swizzle` | 2 threads, 1 pointer on block storage, 4 objects | type and inductive invariants (`Inductive`, `Refining`), snapshot isolation with swizzling, validation that panics |
| `runs` | 3 threads, 18 applications, 4 pointers of which one is on block storage, 6 pages | `CounterExact`, `TuplesAgree`, `LatchReleased`, `WholeCommits`, `Counting`, every run returns, one commits, snapshot isolation with three actors |
| `nested` | 3 transactions, a child and an empty pointer, 4 more objects | `Inductive`, `ChildReadable`, `RepeatableChild`, `RollbackFinds`; with children written through the own copy only, `OwnInductive`, `OwnUpdatesKept`, `OwnLatchHeld` |
| `carve` | an object and a log allocator, pages of 8 bytes, 2 sources | `Inductive`, `SlicesDisjoint`, `SlicesInPage`, `TooLargeOnlyIfLarger`, `PageAssertion`, `TranslatesHome`, `WordsDistinct` |
| `store` | 2 files of 1, 3 or 5 pages, 1 memory, 2 page sizes, 3 roots | `Inductive`, `RootNeverDangles`, `LivePagesNotFree`, `PagesInside`, `AddressesResolve`, `RootNotReplaced` |
| `skew` | 2 threads, 2 pointers | `ReadForWritePreventsSkew` is violated |
| `spurious_abort` | 2 threads, 2 pointers | `CommitAbortsOnConflictOnly` is violated |
| `stored_write` | 2 threads, 1 pointer on block storage | `WriteAbortsOnConflictOnly` is violated |
| `child_lost` | 3 transactions, 1 child, written through a parent that was read | `ChildUpdatesKept` is violated |
| `root_lost` | 1 file, 1 memory | `RootSurvivesReopen` is violated |
| `power_lost` | 1 file, 1 memory | `RootNeverDangles` is violated after a power failure |

Configurations that are kept beside the runs, each for one question about a corner of
the system (all but `Power.cfg` end with a counterexample):

| configuration | module | what it shows |
|---|---|---|
| `Power.cfg` | `MCPower` | with power failures, 2 files of 3 pages, 1 memory and 1 root, `PowerInductive` and `AddressesResolve` hold |
| `CreatePanic.cfg` | `MCStore` | an open that ended after the metadata makes `assert!(create)` (`las.rs:322`) fail later |
| `MixedHeaps.cfg` | `MCStore` | files of two heaps are opened together without an error (`las.rs:284`) |
| `Resized.cfg` | `MCStore` | a file that has grown reaches into the slice of the next source (`las.rs:299`) |
| `RunsOut.cfg` | `MCRunLoop` | memory for one attempt of each thread is used up by retries |
| `LatchStuck.cfg` | `MCNested` | the latch on a child of an aborted transaction stays in a copy of the parent |
| `SecondMemory.cfg` | `MCAllocator` | an allocation fails while the second memory has pages (`las.rs:388`) |
| `SizeLost.cfg` | `MCAllocator` | a size above 32 bits gets a slice that is too short (`vos.rs:286`) |
| `OddPages.cfg` | `MCAllocator` | a page size that is not a power of two violates `assert_eq!` (`las.rs:61`) |
| `WideAddress.cfg` | `MCAllocator` | an address of the width in DESIGN.md:203 does not fit (`vos.rs:26`) |

Bounds. The instances are finite because memory is: every write takes an object,
every writing transaction a version cell. Two cells and two more objects are two
writing transactions that overlap or follow each other, and any number of
reading ones around them; an aborted write uses up its memory as in the code.
The third thread of `runs` makes it possible that a reader is suspended while one writer
commits and another one rolls back. Threads, version cells and unused objects
are interchangeable and declared symmetric; so are the two pointers of
`mvcc_two`. In `store`, `MaxRoots` bounds the number of roots ever constructed:
the first, the one that replaces it after a reopen, and one more, for which
files of 5 pages have room. Files of 3 pages have room for one object, so a full
file is reached, and files of one page are too short. `Power.cfg` has the two files and the memory
that it takes for the metadata of one file to reach the disk before that of the one mapped in
front of it, and one root, which is flushed in any order with them.

In `RunLoop`, `Pages` is enough for every closure to succeed when nobody is in its way,
and for some of them when all conflict; which object or version cell an allocation
returns is fixed (`InOrder`), because it makes no difference. In `nested` four more objects
are, for example, two copies of the root and two versions of children, with a third
transaction that reads; transactions are interchangeable. All safety properties of the runs that pass
are also proved for instances of any size. In `carve` pages of 8 bytes and requests of 3, 5, 6, 8, 9 and 11 bytes
meet every case: a page used up exactly, a rest that is too small, a request larger than a
page.

`mvcc_swizzle` does not check for deadlock: when a thread has panicked in its
validation the other one may be left with nothing it can do. `mvcc_two`, `carve` and
`store` check it.

`RunLoop` and `Nested` do not check for deadlock either: their threads and transactions
end.

Fairness. `LoopSpec` has weak fairness of every thread: the operating system lets every
thread that can go on run again, and a thread that waits for the version lock
(`parking_lot::RwLock`) gets it when it stays free, since it is held for the few steps
of a commit only. No fairness is assumed between the actions of one thread, which has at
most one way to go on, and no strong fairness: that a compare-and-swap succeeds is
never assumed. All the other properties are safety properties.

What that shows: `run` has no limit of retries and no back-off, and two closures that
write two pointers in opposite order can abort each other again and again.
`EveryRunReturns` holds because every attempt takes pages, so such a livelock ends in
`NoAvailableMemory`; `RunsOut.cfg` is the other side of it. For closures that write in the same order
`SomeRunCommits` says that retries alone cannot use up all memory: an attempt that aborts
at its first pointer does so because another one has committed or holds it.

## What the violated properties mean

* `skew`: validation looks at the head of a version chain only. An uncommitted
  version there has number 0, which is newer than nothing, and hides a version that
  was committed after the snapshot. Two transactions that read for write what the
  other one writes both commit, against DESIGN.md:91.
* `spurious_abort`: the head is compared with the version of the committing
  transaction itself, which is still 0 (`tx.rs:153`), so a transaction that reads
  one pointer for write and writes another one aborts although it runs alone.
* `stored_write`: a write to a pointer on block storage swizzles a clone and then
  compares with an address without its tag; it aborts without any conflict.
* `root_lost`: the root location is placed in one page and looked up in another, so
  the first reopen constructs a new root.
* `child_lost`: `write` copies the pointers inside an object (`tx.rs:109`). A child
  written through the parent that was read is committed in the old parent and is not there
  in the new one. One transaction that reads the root, writes it and writes a child
  through what it read is enough.
* `power_lost`: `FileSource::flush` does not sync; the page with the root pointer can
  reach the disk before the object. What does survive is the address space (`Power.cfg`).

## Proofs

Eight modules hold theorems. They hold for any sets of threads, transactions, pointers,
objects, pages and sources, of any size, that satisfy the named assumption of the module;
the runs check the same invariants on small instances.

| module | theorem | statement |
|---|---|---|
| `MvccProofs` | `InductiveInvariant`, `TypeCorrect` | `Spec => []Inductive`, `Spec => []TypeOK` |
| | `LatchHeld` | `Spec => []WriteLatch`: the assertion in `rollback` cannot fail |
| | `NoUpdateLost` | `Spec => []NoLostUpdate` |
| | `ReadNeverFallsOff` | `Spec => []ReadFindsVersion` |
| `MvccRefinement` | `RefiningInvariant` | `Spec => []Refining` |
| | `ImplementsSnapshotIsolation` | `Spec => SnapshotIsolated`: `Mvcc` implements `SnapshotIsolation` |
| `RunLoopProofs` | `WholeCommitsInvariant` | `LoopSpec => [](Inductive /\ Refining /\ WholeCommits)` |
| | `LoopImplementsMvcc` | `LoopSpec => Spec` |
| | `RunsAreIsolated` | `LoopSpec => SnapshotIsolated` |
| | `NoLatchLeft` | `LoopSpec => []LatchReleased` |
| | `TuplesWrittenTogether` | `LoopSpec => []TuplesAgree` |
| | `CountingInvariant` | `LoopSpec => []Counting` |
| | `EveryRunCountsOnce` | `LoopSpec => []CounterExact` |
| `NestedProofs` | `InductiveInvariant` | `Spec => []Inductive` |
| | `RollbackAlwaysFinds` | `Spec => []RollbackFinds` |
| | `ChildrenReadable` | `Spec => []ChildReadable` |
| | `ReadsRepeatable` | `Spec => RepeatableChild` |
| `NestedOwnProofs` | `OwnInvariant` | `Spec => []OwnInductive` |
| | `OwnUpdatesAreKept` | `Spec => []OwnUpdatesKept` |
| | `OwnLatchesHeld` | `Spec => []OwnLatchHeld` |
| `AllocatorProofs` | `InductiveInvariant`, `TypeCorrect` | `Spec => []Inductive`, `Spec => []TypeOK` |
| | `NoOverlap`, `StaysInPage` | `Spec => []SlicesDisjoint`, `Spec => []SlicesInPage` |
| | `TooLargeIsTooLarge` | `Spec => TooLargeOnlyIfLarger` |
| `LayoutProofs` | `AssertionHolds` | `LayoutFits` implies `Spec => []PageAssertion` |
| | `SlicesTranslateHome` | `LayoutFits` implies `Spec => []TranslatesHome` |
| | `WordsSayWhatTheyAre` | `LayoutFits` implies `Spec => []WordsDistinct` |
| `StoreProofs` | `InductiveInvariant`, `TypeCorrect` | `Spec => []Inductive`, `Spec => []TypeOK` |
| | `RootsNeverDangle` | `Spec => []RootNeverDangles` |
| | `LivePagesKept` | `Spec => []LivePagesNotFree` |
| | `NothingBehindTheEnd` | `Spec => []PagesInside` |
| | `EveryAddressResolves` | `Spec => []AddressesResolve` |
| | `RootsNeverReplaced` | `Spec => RootNotReplaced` |
| | `PowerInvariant` | `PowerSpec => []PowerInductive` |
| | `AddressesSurvivePowerFailure` | `PowerSpec => []AddressesResolve` |

### Transactions

Assumed (`ConstantsAssumption`): the special values are distinct from objects, cells,
threads and pointers, and no two pointers share an object at the start.

None of the properties of `MvccProofs` is inductive. That a compare-and-swap that succeeds
extends the chain by exactly the right version follows only from several facts together:
the object the writer copied is the one the pointer held when the call
started (`OpInv`) and is visible to it, so it is committed; a committed head is the
newest version of its chain (`HeadInv`); every copy leads to an older committed
version of the same chain and an uncommitted version is only ever a head
(`HeapInv`); a version cell belongs to one transaction and holds 0 until it commits
(`ThreadInv`); the number a commit hands out is larger than every snapshot and
version there is, which holds because the lock keeps new snapshots out (`ClockInv`);
and a write in a writeset is still the head (`WriteInv`). `Inductive` is their
conjunction with `NoLostUpdate`. Each action has a lemma that it preserves
`Inductive`; the actions that only change the state of their own transaction share
lemmas about what they leave alone.

The refinement needs more, because a read takes several steps while the chain changes
under it. `Refining` says that every uncommitted version in a chain is in the writeset of
a transaction (`OwnerInv`), so a reader that starts at it walks on to the newest committed
version; that a reader is in the chain of its pointer, or on an object that was
rolled back and will never be committed but leads there, and that all it has passed is newer
than its snapshot (`ReaderInv`); that the committed versions of a chain are those of the
commits (`CommitInv`); and that a transaction that is not running has no snapshot
(`SnapInv`). With it every step maps to a step of `SnapshotIsolation` or to none:
`ReadReturns` to a read of the newest version of the snapshot, `CommitLock` to the next
version number, `CommitStore` to the commit of all that was written, and what happens
inside an operation to a stutter. The
abstract commit asks that nobody has committed a write of the same pointer since the
snapshot, which the code never checks for writes: it holds because the latch was set on
a version of the snapshot and is still there.

`RunLoopProofs` shows that the loop only adds conditions to the steps of `Mvcc`, so what
is proved of transactions holds of runs; `ProgramsAssumption` says that closures are
finite sequences of operations. `WholeCommits` relates the writeset of an
attempt to how far its closure has come (`Progress`), so what is committed is all that a
closure writes. With it, pointers that are always written together have newest
versions of one number (`TuplesAgree`).

`CounterExact` compares the depth of the newest committed version of a pointer with the
number of runs that wrote it and returned Ok. `Depth` is a recursive function along the
chain. That it exists is shown as for the walks of `Nested` below (`LengthExists`,
`DepthStep`); chains end because versions get older along them (`OlderInv`,
`ChainsEnd`). The depth of a version never changes once it is there (`DepthStays`), and only
`CommitStore` changes which version is the newest committed one (`OtherStepCounts`). A
commit puts one version on top of each pointer that its closure writes and ends a run
that has not returned before (`Counting`), so both sides grow by one (`CommitCounts`). A
pointer that is still on block storage has been written by no run. `ThreadsAssumption`
says that the threads are finitely many: their number is taken.

### Nested objects

Assumed (`NestedAssumption`): the children at the start are distinct objects and not the
root object, and the special values are distinct from the others.

`Inductive` holds whatever references the closures use. Its core is `AnchorInv`: the
oldest version of a child (`Origin`) is committed not later than the object it is in, or
belongs to the same transaction. A write of a child does not change its origin, a copied
pointer gets into a younger object, and `alloc` can only store into the own copy. A
transaction that sees the parent therefore sees the end of the chain of each child, so a
version is found (`ChildReadable`). A swap puts in front of a chain, and a rollback takes
away, only what is visible to no running transaction but its owner, and a commit makes
it visible to later snapshots only, so what a walk finds does not change
(`RepeatableChild`). For `RollbackFinds`: a pointer that can be written is in an object
that is committed or the writer's own (`Writable`), the pointer of a copy that is still
being made is in no writeset (`OpInv`), and nobody else writes over a latch (`WriteInv`).

The walks along a chain are recursive functions. That such a function exists, and so obeys
its own equation, is shown from the set of objects that a walk can reach (`WalkExists`,
`SeenStep`, `OriginStep`). Where a walk ends is shown without induction over data: version
numbers decrease along a chain, so a set of objects from which a walk does not end would
have a member of the lowest number, and its successor a lower one (`ChainsEnd`).

`OwnInductive` is for applications that write children through their own copy of the
root only (`ways = {"own"}`). Then the root objects form one chain (`RootChain`), only its
transaction changes a copy that is not committed, and all children that it has not
written are those of the original (`OwnRoots`); so each committed root object has the
children committed last (`ChildrenInv`), and a reader's parent is the newest root of its
snapshot (`ParentInv`). `child_lost` shows that the habit is needed.

### Allocator, layout and store

`Allocator`: all memory handed out, and what is left in the active pages, is in pages that
are not free any more (`InTakenPage`), and a page taken for a request is untouched until
that request ends. A new page is therefore disjoint from everything, and a request that
does not fit into it is larger than a page. Assumed (`AllocatorAssumption`): sizes are
positive and the slices of the sources in the address space are disjoint, which
`EveryAddressResolves` says of the store. `Wrap` may be any number: a size that wraps gets
a slice that is too short, but still one that nobody else has.

`Layout`: the theorems have a hypothesis, `LayoutFits`, that the code does not check: the page
size is a power of two (the builder takes any number; `OddPages.cfg` shows what happens),
sources are mapped at multiples of it (`las.rs:299` adds up lengths that
`SourceAllocator::length` has rounded down), addresses fit into 54 bits
(`WideAddress.cfg`), and no size wraps to 0 (the code allocates headers with objects, and
version cells of 8 bytes). TLC evaluates it on the instance of `carve`. Assumed
(`LayoutAssumption`): no two sources have the same offset, which is the key of a map.
Words are taken apart by division. A mask whose low bits are 0 acts on what is left of the
word after a shift (`AndShifted`), and a mask of ones up to a power of two is a
remainder (`AndLow`), both for every width. So `align_down` is a multiple of the page size,
`address` the remainder by `AddressEnd`, the tag the next two bits and the type of a version the top
bit, and each way of storing an address adds a bit above it (`RoundTrip`). With
`SlicesInPage` and slices that are not empty (`NotEmpty`) the page of a slice is the one it
was carved from; `SourceAt` finds its source because the slices of sources are disjoint.
That the recursive functions exist (`RecursionExists`) and what they compute (`Induction`) is
shown with sets of numbers that have a smallest element.

`Store`: the invariant follows an open through its phases. Only pages that are recognised
have a root pointer, so overwriting one that is not loses nothing (`RootPagesValid`); the
slices in the metadata of all files are disjoint, also of those that are not open
(`MetaInv`); the address space is that of the metadata (`SpaceInv`); while sources are
looked at, every slice in use is mapped already or will be looked at (`ScanInv`), which is
where `WholeHeap` is needed: with `MixedSpec` a new slice may be placed over that of a file
that is not there; the copy of the root location in memory differs from the page in the
file in the pointer only (`RootInv`); the object of the root is complete in memory before
it is flushed, and in a file before the root pointer is (`ObjectInv`); and what the files
refer to is complete and not free (`LiveInv`). Crashes and short writes are steps like the
others. Assumed (`StoreAssumption`): every page number below a length that occurs is in `Pages`,
and the special values are distinct from numbers, sources and page sizes.

`Power`: of the invariant of the store all but `LiveInv` (`Structure`) is kept by every step
on its own, so it does not depend on which pages of the files are complete. With it every
step keeps the metadata a file has (`MetaKept`). What is on the disk is older than what is in
the file, but metadata is never changed once it is there, so metadata on the disk is that of the
file (`Readable`); and it is the slices of all files, not only of those on the disk, that are
disjoint (`MetaInv`). A power failure can therefore only take files out of the address space.
`LiveInv` does not hold: `power_lost` shows it.

### Only model-checked

* `EveryRunReturns` and `SomeRunCommits`: liveness under fairness is out of the prover's
  reach, and so is `ENABLED`.
* The properties that are violated.

## Not modelled

* `set`, log records, log recovery, replacement and garbage collection: they are
  described in DESIGN.md and not implemented.
* Checksums: a page has a valid header or metadata or it has not. That a half written
  one is mistaken for a valid one is left out.
* The casts of the typed wrappers and of `unsafe_utils`, and `mmap`.
* `flush` by several threads: `root_alloc` is its only caller and runs before the
  store is shared, so the locks around `backing` have no second user.
* The reference count in pointers: no code uses it.
* `PageHeader` is empty, so a page starts with its first object.

## State of the project

Modelled: the transaction protocol, the retry loop, nested pointers, allocators, address
layout, the store with crashes and short writes, power failures. Every invariant and every
action property of a run that passes is a theorem, and so is the refinement; what is left to
TLC is liveness and the counterexamples.
