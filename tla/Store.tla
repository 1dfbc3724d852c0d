------------------------------- MODULE Store -------------------------------
(***************************************************************************)
(* Opening a store: Librarius::new and root_alloc (src/src/librarius.rs),  *)
(* LogicalAddressSpace::new, fetch, alloc and flush (src/src/las.rs), the  *)
(* page allocator of a source (src/src/source/mod.rs), the flush of the    *)
(* root object (src/src/vos.rs), on files and on anonymous memory.         *)
(*                                                                         *)
(* A source is an array of pages and all lengths and addresses are in      *)
(* pages: page 0 has the source header, page 1 the metadata, the others    *)
(* are for objects. A page is what one write puts there. Every step writes *)
(* at most one page of a file, so a crash between two steps is a crash     *)
(* between two writes. A write may be short (PartialIO); what was written  *)
(* survives the crash of the process (Power.tla adds power failures).      *)
(***************************************************************************)
EXTENDS Naturals, Sequences

CONSTANTS
    Files,      \* FileSource: persistent, not byte addressable
    Memories,   \* MemorySource: byte addressable, not persistent
    Pages,      \* page numbers, 0 .. the longest length of a source - 1
    Lengths,    \* the lengths a file may have been opened with
    MemLength,  \* the length of a memory source
    PageSizes,  \* the page sizes a store may be opened with
    MaxSources, \* bound: sources a store is opened with
    MaxRoots,   \* bound: root objects ever constructed
    None,       \* the null pointer, and "no value" in general
    Half        \* a root location that is not empty and has no pointer yet

Sources == Files \cup Memories

ASSUME StoreAssumption ==
    /\ Files \cap Memories = {} /\ None \notin Sources
    /\ Pages \subseteq Nat /\ {0, 1} \subseteq Pages
    /\ Lengths \cup {MemLength} \subseteq Nat
    /\ \A n \in Lengths \cup {MemLength} : 0 .. (n - 1) \subseteq Pages
    /\ MaxSources \in Nat /\ MaxRoots \in Nat
    /\ {None, Half} \cap Nat = {} /\ None # Half /\ None \notin PageSizes

VARIABLES
    length,     \* Source::length
    page,       \* what is on every page of every source
    pc,         \* how far the open has come
    create,     \* the store is opened with a root constructor
    pagesize,   \* the page size it is opened with
    todo,       \* the sources LogicalAddressSpace::new has not looked at yet
    unallocated, \* those it found without valid metadata
    base,       \* LogicalAddressSpace.sources: where a source is mapped
    free,       \* SourceAllocator.freelist
    root,       \* LogicalAddressSpace.root: the page with the root location
    copy,       \* root_bytes: the page it is accessed in
    object,     \* the page of a root object that has just been constructed
    roots,      \* history: the number of root objects constructed
    kept        \* history: the first root whose flush was successful

opened == <<create, pagesize, todo, unallocated, base, free, root, copy, object>>
vars == <<length, page, pc, opened, roots, kept>>

-----------------------------------------------------------------------------
(***************************************************************************)
(* Pages. The root location is at the same offset in every page, so a page *)
(* that is taken for the metadata page has one too.                        *)
(***************************************************************************)

Zero == [kind |-> "zero", root |-> None]

\* SourceHeader::new
SourceHeader(size) == [kind |-> "header", pagesize |-> size, root |-> None]

\* Meta::new
Meta(offset, len) == [kind |-> "meta", offset |-> offset, len |-> len, root |-> None]

Object(id) == [kind |-> "object", id |-> id, root |-> None]

\* What a short write leaves: the beginning of an object with its header, or
\* something that is not recognised.
Partial == [kind |-> "partial", root |-> None]
Torn == [kind |-> "torn", root |-> None]

\* Deliberately wrong, for the mutation runs: no page is recognised.
ValidNothing(p) == FALSE

\* VersionedObjectStore::valid_page: the page starts with an object header.
ValidPage(p) == p.kind \in {"object", "partial"}

-----------------------------------------------------------------------------
(***************************************************************************)
(* The logical address space.                                              *)
(***************************************************************************)

Mapped == {s \in Sources : base[s] # None}

\* The sources at the two ends of a set of mapped sources.
IsFirst(s, S) == s \in S /\ \A r \in S : base[s] <= base[r]
IsLast(s, S) == s \in S /\ \A r \in S : base[r] <= base[s]

\* LogicalAddressSpace::with_source: the source that is mapped last at or
\* before an address, whatever its length is.
SourceAt(a) == CHOOSE s \in Sources : IsLast(s, {r \in Mapped : base[r] <= a})

PageAt(a) == page[SourceAt(a)][a - base[SourceAt(a)]]

\* read_into and write_from: the page at an address is replaced.
WritePage(a, p) ==
    page' = [page EXCEPT ![SourceAt(a)][a - base[SourceAt(a)]] = p]

\* The freelist is filled in ascending order and used from its front.
NextFree(s) == CHOOSE n \in free[s] : \A m \in free[s] : n <= m

\* get_best_persistent and get_best_byte_addressable, with allocate_page on the
\* source they find: the allocator that can still give out a page, if any.
CanAllocate(s, S) == IsFirst(s, Mapped \cap S) /\ free[s] # {}

AllocatePage(s) == free' = [free EXCEPT ![s] = @ \ {NextFree(s)}]

-----------------------------------------------------------------------------

Init ==
    /\ length \in [Sources -> Lengths \cup {MemLength}]
    /\ \A s \in Sources : IF s \in Files THEN length[s] \in Lengths
                                         ELSE length[s] = MemLength
    /\ page = [s \in Sources |-> [n \in Pages |-> Zero]]
    /\ pc = "closed"
    /\ create = FALSE
    /\ pagesize = None
    /\ todo = <<>>
    /\ unallocated = <<>>
    /\ base = [s \in Sources |-> None]
    /\ free = [s \in Sources |-> {}]
    /\ root = None
    /\ copy = None
    /\ object = None
    /\ roots = 0
    /\ kept = 0

\* Everything that is not in a file is gone.
Forget ==
    /\ pc' = "closed"
    /\ create' = FALSE
    /\ pagesize' = None
    /\ todo' = <<>>
    /\ unallocated' = <<>>
    /\ base' = [s \in Sources |-> None]
    /\ free' = [s \in Sources |-> {}]
    /\ root' = None
    /\ copy' = None
    /\ object' = None

\* p is what is left on the sources when the memory is gone.
ForgetMemory(p) ==
    page' = [s \in Sources |-> IF s \in Files THEN p[s] ELSE [n \in Pages |-> Zero]]

\* The store is dropped, the process crashes, or an I/O error ends the open.
Crash ==
    /\ pc # "closed"
    /\ Forget
    /\ ForgetMemory(page)
    /\ UNCHANGED <<length, roots, kept>>

-----------------------------------------------------------------------------
(***************************************************************************)
(* LibrariusBuilder: sources in any order, with or without create_with.    *)
(***************************************************************************)

Orders == {s \in UNION {[1 .. n -> Sources] : n \in 1 .. MaxSources} :
             \A i, j \in DOMAIN s : s[i] = s[j] => i = j}

IsMapped(f) == page[f][1].kind = "meta"

\* Every file that has a slice of the logical address space is there.
WholeHeap(srcs) == \A f \in Files : IsMapped(f) => \E i \in DOMAIN srcs : srcs[i] = f

Open(srcs, c, size) ==
    /\ pc = "closed"
    /\ pc' = "scan"
    /\ todo' = srcs
    /\ create' = c
    /\ pagesize' = size
    /\ UNCHANGED <<length, page, unallocated, base, free, root, copy, object, roots,
                   kept>>

\* FileSource::new on an existing file with another length: set_len cuts it off
\* or extends it with zeroes.
Resize(f, n) ==
    /\ pc = "closed"
    /\ n # length[f]
    /\ length' = [length EXCEPT ![f] = n]
    /\ page' = [page EXCEPT ![f] = [k \in Pages |-> IF k < n THEN @[k] ELSE Zero]]
    /\ UNCHANGED <<pc, opened, roots, kept>>

-----------------------------------------------------------------------------
(***************************************************************************)
(* LogicalAddressSpace::new.                                               *)
(***************************************************************************)

HasHeader(s) == page[s][0].kind = "header"
WrongPagesize(s) == HasHeader(s) /\ page[s][0].pagesize # pagesize

\* Deliberately wrong, for the mutation runs: the length is not looked at.
UsableShort(s) == ~WrongPagesize(s)

\* Reading the header of an empty source fails. On a source of one page, where
\* the size of the object pages underflows, reading the first of them does.
Usable(s) == length[s] >= 2 /\ ~WrongPagesize(s)

\* SourceAllocator::initialize: a source without a valid header gets one...
Initialized(s) ==
    IF HasHeader(s) THEN page ELSE [page EXCEPT ![s][0] = SourceHeader(pagesize)]

\* Deliberately wrong, for the mutation runs: the metadata page is not skipped.
FreePagesAndMeta(s) == {n \in 1 .. (length[s] - 1) : ~ValidPage(page[s][n])}

\* ... and its pages that hold no object are free.
FreePages(s) == {n \in 2 .. (length[s] - 1) : ~ValidPage(page[s][n])}

SliceOf(m) == m.offset .. (m.offset + m.len - 1)

\* The mapping in the metadata cannot be used, or it is the second root.
BadMeta(m) ==
    \/ m.root # None /\ root # None
    \/ \E s \in Mapped : base[s] \in SliceOf(m)

Looking(s) == pc = "scan" /\ todo # <<>> /\ s = Head(todo)

\* A source with metadata is mapped where it was before. A root location that
\* is not empty is taken to be in the first page of the slice.
ScanMapped(s) ==
    /\ Looking(s)
    /\ Usable(s)
    /\ IsMapped(s)
    /\ ~BadMeta(page[s][1])
    /\ page' = Initialized(s)
    /\ free' = [free EXCEPT ![s] = FreePages(s)]
    /\ base' = [base EXCEPT ![s] = page[s][1].offset]
    /\ root' = IF page[s][1].root = None THEN root ELSE page[s][1].offset
    /\ todo' = Tail(todo)
    /\ UNCHANGED <<length, pc, create, pagesize, unallocated, copy, object, roots, kept>>

\* A source without metadata is put aside, if the store may be created.
ScanUnallocated(s) ==
    /\ Looking(s)
    /\ Usable(s)
    /\ ~IsMapped(s)
    /\ create
    /\ page' = Initialized(s)
    /\ free' = [free EXCEPT ![s] = FreePages(s)]
    /\ unallocated' = Append(unallocated, s)
    /\ todo' = Tail(todo)
    /\ UNCHANGED <<length, pc, create, pagesize, base, root, copy, object, roots, kept>>

\* An empty source and WrongPagesize are reported before the source is touched, a
\* source that is too short, RootExists, InvalidLogicalAddress and
\* OpenOnUninitialized after it has got its header.
ScanFails(s) ==
    /\ Looking(s)
    /\ \/ /\ length[s] = 0 \/ WrongPagesize(s)
          /\ ForgetMemory(page)
       \/ /\ length[s] > 0 /\ ~WrongPagesize(s)
          /\ length[s] = 1 \/ IF IsMapped(s) THEN BadMeta(page[s][1]) ELSE ~create
          /\ ForgetMemory(Initialized(s))
    /\ Forget
    /\ UNCHANGED <<length, roots, kept>>

\* Deliberately wrong, for the mutation runs: the first mapping instead of the last.
OffsetOfFirst ==
    IF Mapped = {} THEN 0
    ELSE LET s == CHOOSE s \in Sources : IsFirst(s, Mapped) IN base[s] + length[s]

\* The end of the last mapping.
NextOffset ==
    IF Mapped = {} THEN 0
    ELSE LET s == CHOOSE s \in Sources : IsLast(s, Mapped) IN base[s] + length[s]

\* The sources put aside are mapped one after the other.
Allocate(s) ==
    /\ pc = "scan" /\ todo = <<>>
    /\ unallocated # <<>> /\ s = Head(unallocated)
    /\ page' = [page EXCEPT ![s][1] = Meta(NextOffset, length[s])]
    /\ base' = [base EXCEPT ![s] = NextOffset]
    /\ unallocated' = Tail(unallocated)
    /\ UNCHANGED <<length, pc, create, pagesize, todo, free, root, copy, object, roots,
                   kept>>

AllMapped == pc = "scan" /\ todo = <<>> /\ unallocated = <<>>

\* The source for a root location when there is none.
BestForRoot(s) ==
    IF Mapped \cap Files # {} THEN IsFirst(s, Mapped \cap Files)
                              ELSE IsFirst(s, Mapped \cap Memories)

IsRootLocation(a) ==
    \/ root # None /\ a = root
    \/ root = None /\ \E s \in Mapped : BestForRoot(s) /\ a = base[s] + 1

\* assert!(create)
CreateAssertionFails ==
    /\ AllMapped
    /\ root = None /\ ~create
    /\ pc' = "panic"
    /\ UNCHANGED <<length, page, opened, roots, kept>>

\* The root location is in memory already (fetch is not needed) ...
RootInMemory(a) ==
    /\ AllMapped /\ (root = None => create)
    /\ IsRootLocation(a)
    /\ SourceAt(a) \in Memories
    /\ root' = a
    /\ copy' = a
    /\ pc' = "root"
    /\ UNCHANGED <<length, page, create, pagesize, todo, unallocated, base, free, object,
                   roots, kept>>

\* ... or its page is fetched into a page of memory.
FetchRoot(a, m) ==
    /\ AllMapped /\ (root = None => create)
    /\ IsRootLocation(a)
    /\ SourceAt(a) \in Files
    /\ CanAllocate(m, Memories)
    /\ AllocatePage(m)
    /\ page' = [page EXCEPT ![m][NextFree(m)] = PageAt(a)]
    /\ root' = a
    /\ copy' = base[m] + NextFree(m)
    /\ pc' = "root"
    /\ UNCHANGED <<length, create, pagesize, todo, unallocated, base, object, roots, kept>>

-----------------------------------------------------------------------------
(***************************************************************************)
(* Librarius::new: root_read, or root_alloc with a constructor.            *)
(***************************************************************************)

Pointer(r) == IF r = Half THEN None ELSE r
RootPointer == Pointer(PageAt(copy).root)

\* There is a root, or nobody asked for one.
RootRead ==
    /\ pc = "root"
    /\ RootPointer # None \/ ~create
    /\ pc' = "open"
    /\ UNCHANGED <<length, page, opened, roots, kept>>

\* Deliberately wrong, for the mutation runs: an existing root is not looked at.
RootAllocAlways(m) ==
    /\ pc = "root"
    /\ create
    /\ roots < MaxRoots
    /\ CanAllocate(m, Memories)
    /\ AllocatePage(m)
    /\ LET a == base[m] + NextFree(m) IN
       /\ object' = a
       /\ page' = [page EXCEPT ![m][NextFree(m)] = Object(roots + 1),
                               ![SourceAt(copy)][copy - base[SourceAt(copy)]].root = a]
    /\ roots' = roots + 1
    /\ pc' = "flush_object"
    /\ UNCHANGED <<length, create, pagesize, todo, unallocated, base, root, copy, kept>>

\* A root object is allocated and constructed, and the root pointer set to it.
\* (Errors of the allocation and of the constructor end the open, see Crash.)
RootAlloc(m) ==
    /\ pc = "root"
    /\ create /\ RootPointer = None
    /\ roots < MaxRoots
    /\ CanAllocate(m, Memories)
    /\ AllocatePage(m)
    /\ LET a == base[m] + NextFree(m) IN
       /\ object' = a
       /\ page' = [page EXCEPT ![m][NextFree(m)] = Object(roots + 1),
                               ![SourceAt(copy)][copy - base[SourceAt(copy)]].root = a]
    /\ roots' = roots + 1
    /\ pc' = "flush_object"
    /\ UNCHANGED <<length, create, pagesize, todo, unallocated, base, root, copy, kept>>

\* Deliberately wrong, for the mutation runs: the location is written
\* before the object.
FlushRootFirst(f) ==
    /\ pc = "flush_object"
    /\ CanAllocate(f, Files)
    /\ AllocatePage(f)
    /\ LET a == base[f] + NextFree(f)
           s == SourceAt(root)
       IN  page' = [page EXCEPT ![s][root - base[s]] = [PageAt(copy) EXCEPT !.root = a]]
    /\ pc' = "flush_root"
    /\ UNCHANGED <<length, create, pagesize, todo, unallocated, base, root, copy, object,
                   roots, kept>>

\* VersionedReader::flush of the root location: first the object behind its
\* pointer gets a page of the first persistent source and is written to it. The
\* pointer in memory then refers to that page.
FlushObject(f) ==
    /\ pc = "flush_object"
    /\ CanAllocate(f, Files)
    /\ AllocatePage(f)
    /\ LET a == base[f] + NextFree(f)
           s == SourceAt(a)
           c == SourceAt(copy)
       IN  page' = [page EXCEPT ![s][a - base[s]] = PageAt(object),
                                ![c][copy - base[c]].root = a]
    /\ pc' = "flush_root"
    /\ UNCHANGED <<length, create, pagesize, todo, unallocated, base, root, copy, object,
                   roots, kept>>

\* Then the page with the root location itself is written back.
FlushRoot ==
    /\ pc = "flush_root"
    /\ WritePage(root, PageAt(copy))
    /\ kept' = IF kept = 0 THEN roots ELSE kept
    /\ pc' = "open"
    /\ UNCHANGED <<length, opened, roots>>

\* root_alloc ignores every error of the flush: there is no persistent source,
\* it has no free page, or a write fails.
FlushFails ==
    /\ pc \in {"flush_object", "flush_root"}
    /\ pc' = "open"
    /\ UNCHANGED <<length, page, opened, roots, kept>>

-----------------------------------------------------------------------------
(***************************************************************************)
(* PartialIO: a write to a file stops short.                               *)
(***************************************************************************)

\* The header or the metadata of a source is not complete, which ends the open.
ShortHeader(f) ==
    /\ Looking(f) /\ length[f] > 0 /\ ~HasHeader(f)
    /\ ForgetMemory([page EXCEPT ![f][0] = Torn])
    /\ Forget
    /\ UNCHANGED <<length, roots, kept>>

ShortMeta(f) ==
    /\ pc = "scan" /\ todo = <<>>
    /\ unallocated # <<>> /\ f = Head(unallocated)
    /\ ForgetMemory([page EXCEPT ![f][1] = Torn])
    /\ Forget
    /\ UNCHANGED <<length, roots, kept>>

\* Deliberately wrong, for the mutation runs: the error is not reported.
ShortObjectIgnored(f, p) ==
    /\ pc = "flush_object"
    /\ CanAllocate(f, Files)
    /\ AllocatePage(f)
    /\ LET a == base[f] + NextFree(f)
           c == SourceAt(copy)
       IN  page' = [page EXCEPT ![f][NextFree(f)] = p, ![c][copy - base[c]].root = a]
    /\ pc' = "flush_root"
    /\ UNCHANGED <<length, create, pagesize, todo, unallocated, base, root, copy, object,
                   roots, kept>>

\* The root object is not complete: root_alloc ignores the error, and the root
\* location is not written.
ShortObject(f, p) ==
    /\ pc = "flush_object"
    /\ CanAllocate(f, Files)
    /\ AllocatePage(f)
    /\ WritePage(base[f] + NextFree(f), p)
    /\ pc' = "open"
    /\ UNCHANGED <<length, create, pagesize, todo, unallocated, base, root, copy, object,
                   roots, kept>>

\* The page with the root location is not complete, of the location itself all or
\* a part is. What is in front of the location was there before.
ShortRoot(r) ==
    /\ pc = "flush_root"
    /\ SourceAt(root) \in Files
    /\ WritePage(root, [PageAt(copy) EXCEPT !.root = r])
    /\ pc' = "open"
    /\ UNCHANGED <<length, opened, roots, kept>>

ShortWrite ==
    \/ \E f \in Files : \/ ShortHeader(f) \/ ShortMeta(f)
                        \/ \E p \in {Partial, Torn} : ShortObject(f, p)
    \/ pc = "flush_root" /\ \E r \in {Half, PageAt(copy).root} : ShortRoot(r)

-----------------------------------------------------------------------------

Opening ==
    \/ Crash
    \/ \E s \in Sources : ScanMapped(s) \/ ScanUnallocated(s) \/ ScanFails(s) \/ Allocate(s)
    \/ CreateAssertionFails
    \/ \E a \in 0 .. NextOffset : RootInMemory(a) \/ \E m \in Memories : FetchRoot(a, m)
    \/ RootRead
    \/ \E m \in Memories : RootAlloc(m)
    \/ \E f \in Files : FlushObject(f)
    \/ FlushRoot \/ FlushFails \/ ShortWrite

\* A heap is always opened with all of its files; new sources may join it.
Next ==
    \/ Opening
    \/ \E srcs \in Orders, c \in BOOLEAN, z \in PageSizes : WholeHeap(srcs) /\ Open(srcs, c, z)

Spec == Init /\ [][Next]_vars

\* Any files are opened together.
MixedSpec ==
    Init /\ [][Opening \/ \E srcs \in Orders, c \in BOOLEAN, z \in PageSizes :
                            Open(srcs, c, z)]_vars

\* Files get another length between two opens.
ResizingSpec == Init /\ [][Next \/ \E f \in Files, n \in Lengths : Resize(f, n)]_vars

-----------------------------------------------------------------------------
(***************************************************************************)
(* Properties.                                                             *)
(***************************************************************************)

Location == Nat \cup {None, Half}
Page ==
    [kind : {"zero", "partial", "torn"}, root : Location]
       \cup [kind : {"header"}, pagesize : PageSizes, root : Location]
       \cup [kind : {"meta"}, offset : Nat, len : Nat, root : Location]
       \cup [kind : {"object"}, id : Nat, root : Location]

\* Every variable holds a value of its type.
TypeOK ==
    /\ length \in [Sources -> Nat]
    /\ \A s \in Sources : 0 .. (length[s] - 1) \subseteq Pages
    /\ page \in [Sources -> [Pages -> Page]]
    /\ pc \in {"closed", "scan", "root", "flush_object", "flush_root", "open", "panic"}
    /\ create \in BOOLEAN
    /\ pagesize \in PageSizes \cup {None}
    /\ todo \in Seq(Sources) /\ unallocated \in Seq(Sources)
    /\ base \in [Sources -> Nat \cup {None}]
    /\ free \in [Sources -> SUBSET Nat]
    /\ \A s \in Sources : free[s] \subseteq 2 .. (length[s] - 1)
    /\ {root, copy, object} \subseteq Nat \cup {None}
    /\ {roots, kept} \subseteq Nat

\* The page of a file that a persisted pointer refers to.
Refers(a, f, n) ==
    /\ IsMapped(f)
    /\ a \in SliceOf(page[f][1]) /\ n = a - page[f][1].offset

\* The root pointers in the files.
PersistedRoots == {page[f][n].root : f \in Files, n \in {0, 1}} \ {None, Half}

\* Whenever the process crashes, a root pointer that is in a file refers to a
\* page of a file that holds a complete object: the flush in root_alloc writes
\* the object first, into a page that nothing else refers to.
RootNeverDangles ==
    \A a \in PersistedRoots : \E f \in Files, n \in Pages :
       Refers(a, f, n) /\ page[f][n].kind = "object"

\* The page of a persisted object is never given out again, although the free
\* pages are found by looking at the pages and are recorded nowhere.
LivePagesNotFree ==
    \A a \in PersistedRoots : \A f \in Files, n \in Pages :
       Refers(a, f, n) => n \notin free[f]

\* Nothing is written behind the end of a file: a source too short for a header and
\* a metadata page, where the number of pages underflows, is turned down before
\* it gets a place in the address space (SourceAllocator::initialize).
PagesInside ==
    \A f \in Files, n \in Pages : n >= length[f] => page[f][n] = Zero

\* "Attempt to use multiple sources that map to the same slice will fail"
\* (DESIGN.md:131): in an address space every page of every source has an
\* address of its own, the one with_source resolves to it.
AddressesResolve ==
    \A s \in Mapped : \A n \in 0 .. (length[s] - 1) : SourceAt(base[s] + n) = s

\* A root pointer that is in a file is never replaced by another: root_alloc
\* constructs a root only if the location is empty.
RootNotReplaced ==
    [][\A f \in Files, n \in {0, 1} :
          Pointer(page[f][n].root) # None => page'[f][n].root = page[f][n].root]_vars

(***************************************************************************)
(* What the documentation and the assertions say and the code does not do. *)
(***************************************************************************)

\* A persistent source "retains its contents across restarts/crashes"
\* (DESIGN.md:116) and the root object in it "is used as an application's
\* starting point" (DESIGN.md:521): once a root has been flushed, every open of
\* the same files that succeeds gives the application that root.
RootSurvivesReopen ==
    pc = "open" /\ kept # 0 => RootPointer # None /\ PageAt(RootPointer).id = kept

\* assert!(create) (las.rs:322)
CreateAssertion == pc # "panic"

=============================================================================
