---------------------------- MODULE StoreProofs ----------------------------
(***************************************************************************)
(* Proofs for Store: the conjunction Inductive of StoreInvariant is an     *)
(* inductive invariant, and the properties of the files follow from it,    *)
(* for any number of sources of any length, any crash and any short write. *)
(* The steps are shown to keep Structure, all of it but what the root      *)
(* pointers refer to, on its own: that part holds in Power as well.        *)
(***************************************************************************)
EXTENDS Power, SequenceTheorems, WellFoundedInduction, TLAPS

-----------------------------------------------------------------------------
(***************************************************************************)
(* Numbers and sequences.                                                  *)
(***************************************************************************)

\* A set of numbers has a smallest one.
LEMMA Minimum ==
  ASSUME NEW S, S \subseteq Nat, S # {}
  PROVE  \E n \in S : \A m \in S : n <= m
<1>1. PICK n \in S : \A y \in S : ~(<<y, n>> \in OpToRel(<, Nat))
  BY NatLessThanWellFounded, WFMin, Zenon
<1>2. \A y \in S : ~(y < n)
  BY <1>1 DEF OpToRel
<1> QED BY <1>2

\* The first element of a sequence leaves it.
LEMMA TailFacts ==
  ASSUME NEW S, NEW q \in Seq(S), q # <<>>, Distinct(q)
  PROVE  /\ Head(q) \in S /\ Head(q) \in Elements(q)
         /\ Tail(q) \in Seq(S) /\ Distinct(Tail(q))
         /\ Elements(Tail(q)) = Elements(q) \ {Head(q)}
<1>1. Len(q) \in Nat /\ Len(q) >= 1 /\ Head(q) = q[1] /\ Head(q) \in S
  OBVIOUS
<1>2. /\ Tail(q) \in Seq(S) /\ Len(Tail(q)) = Len(q) - 1
      /\ \A i \in 1 .. Len(q) - 1 : Tail(q)[i] = q[i + 1]
  BY <1>1
<1>3. Distinct(Tail(q))
  BY <1>1, <1>2 DEF Distinct
<1>4. ASSUME NEW x PROVE x \in Elements(Tail(q)) <=> x \in Elements(q) /\ x # q[1]
  <2>1. ASSUME x \in Elements(Tail(q)) PROVE x \in Elements(q) /\ x # q[1]
    <3>1. PICK i \in 1 .. Len(q) - 1 : x = q[i + 1]
      BY <1>2, <2>1 DEF Elements
    <3>2. i + 1 \in 1 .. Len(q) /\ i + 1 # 1 /\ 1 \in 1 .. Len(q)
      BY <1>1
    <3> QED BY <3>1, <3>2 DEF Elements, Distinct
  <2>2. ASSUME x \in Elements(q), x # q[1] PROVE x \in Elements(Tail(q))
    <3>1. PICK i \in 1 .. Len(q) : x = q[i]
      BY <2>2 DEF Elements
    <3>2. PICK j \in 1 .. Len(q) - 1 : i = j + 1
      BY <1>1, <2>2, <3>1
    <3> QED BY <1>2, <3>1, <3>2 DEF Elements
  <2> QED BY <2>1, <2>2
<1>5. Head(q) \in Elements(q)
  BY <1>1 DEF Elements
<1> QED BY <1>1, <1>2, <1>3, <1>4, <1>5

\* An element joins a sequence.
LEMMA AppendFacts ==
  ASSUME NEW S, NEW q \in Seq(S), NEW x \in S, Distinct(q), x \notin Elements(q)
  PROVE  /\ Append(q, x) \in Seq(S) /\ Distinct(Append(q, x))
         /\ Elements(Append(q, x)) = Elements(q) \cup {x}
<1>1. /\ Append(q, x) \in Seq(S) /\ Len(q) \in Nat /\ Len(Append(q, x)) = Len(q) + 1
      /\ \A i \in 1 .. Len(q) : Append(q, x)[i] = q[i]
      /\ Append(q, x)[Len(q) + 1] = x
  OBVIOUS
<1>2. 1 .. Len(q) + 1 = (1 .. Len(q)) \cup {Len(q) + 1}
  BY <1>1
<1>3. Elements(Append(q, x)) = Elements(q) \cup {x}
  BY <1>1, <1>2 DEF Elements
<1>4. Distinct(Append(q, x))
  BY <1>1, <1>2 DEF Distinct, Elements
<1> QED BY <1>1, <1>3, <1>4

-----------------------------------------------------------------------------
(***************************************************************************)
(* Pages.                                                                  *)
(***************************************************************************)

\* What a page is.
LEMMA PageFacts ==
  ASSUME NEW p \in Page
  PROVE  /\ p.root \in Location
         /\ p.kind \in {"zero", "partial", "torn", "header", "meta", "object"}
         /\ p.kind = "meta" => p.offset \in Nat /\ p.len \in Nat
  BY DEF Page

\* Setting the root location of a page leaves the rest of it alone.
LEMMA SetRoot ==
  ASSUME NEW p \in Page, NEW r \in Location, NEW q, q = [p EXCEPT !.root = r]
  PROVE  q \in Page /\ q.root = r /\ SamePage(q, p) /\ SamePage(p, q)
<1>1. CASE p \in [kind : {"zero", "partial", "torn"}, root : Location]
  BY <1>1 DEF Page, SamePage
<1>2. CASE p \in [kind : {"header"}, pagesize : PageSizes, root : Location]
  BY <1>2 DEF Page, SamePage
<1>3. CASE p \in [kind : {"meta"}, offset : Nat, len : Nat, root : Location]
  BY <1>3 DEF Page, SamePage
<1>4. CASE p \in [kind : {"object"}, id : Nat, root : Location]
  BY <1>4 DEF Page, SamePage
<1> QED BY <1>1, <1>2, <1>3, <1>4 DEF Page

\* The pages that are written.
LEMMA NewPages ==
  /\ Zero \in Page /\ Zero.kind = "zero" /\ Zero.root = None
  /\ \A z \in PageSizes : SourceHeader(z) \in Page /\ SourceHeader(z).kind = "header"
                          /\ SourceHeader(z).root = None
  /\ \A o, l \in Nat : Meta(o, l) \in Page /\ Meta(o, l).kind = "meta"
                       /\ Meta(o, l).offset = o /\ Meta(o, l).len = l /\ Meta(o, l).root = None
  /\ \A n \in Nat : Object(n) \in Page /\ Object(n).kind = "object"
  /\ Partial \in Page /\ Partial.kind = "partial"
  /\ Torn \in Page /\ Torn.kind = "torn" /\ Torn.root = None
  BY DEF Page, Location, Zero, SourceHeader, Meta, Object, Partial, Torn

\* A set of sources that are mapped has at most one at the end.
LEMMA Resolve ==
  ASSUME TypeOK, MetaInv, SpaceInv, NEW s \in Sources, NEW n, NEW a, IsAt(a, s, n)
  PROVE  /\ SourceAt(a) = s /\ a - base[s] = n /\ PageAt(a) = page[s][n]
         /\ a \in Nat /\ n \in Pages /\ n \in Nat
<1> USE StoreAssumption
<1>1. /\ base[s] \in Nat /\ length[s] \in Nat /\ n \in Nat /\ n < length[s]
      /\ a = base[s] + n /\ s \in Mapped /\ n \in Pages
  BY DEF TypeOK, IsAt, Mapped
<1>2. ASSUME NEW r \in Mapped, base[r] <= a, r # s PROVE base[r] < base[s]
  <2>1. base[r] \in Nat /\ length[r] \in Nat /\ length[r] >= 2 /\ r \in Sources
    BY DEF TypeOK, Mapped, SpaceInv, MetaInv
  <2>2. base[r] + length[r] <= base[s] \/ base[s] + length[s] <= base[r]
    BY <1>1, <1>2, <2>1 DEF SpaceInv, MetaInv
  <2> QED BY <1>1, <1>2, <2>1, <2>2
<1>3. IsLast(s, {r \in Mapped : base[r] <= a})
  <2>1. \A r \in Mapped : base[r] \in Nat
    BY DEF TypeOK, Mapped
  <2>2. \A r \in Mapped : base[r] <= a => base[r] <= base[s]
    BY <1>1, <1>2, <2>1
  <2>3. base[s] <= a
    BY <1>1
  <2> QED BY <1>1, <2>2, <2>3 DEF IsLast
<1>4. \A x \in Sources : IsLast(x, {r \in Mapped : base[r] <= a}) => x = s
  <2> SUFFICES ASSUME NEW x \in Mapped, base[x] <= a, base[s] <= base[x], x # s PROVE FALSE
    BY <1>1 DEF IsLast
  <2>1. base[x] < base[s] /\ base[x] \in Nat
    BY <1>2 DEF Mapped, TypeOK
  <2> QED BY <1>1, <2>1
<1>5. SourceAt(a) = s
  BY <1>3, <1>4 DEF SourceAt
<1> QED BY <1>1, <1>5 DEF PageAt

\* Before a file or its pages are touched.
LEMMA FirstPages == 0 \in Pages /\ 1 \in Pages /\ Pages \subseteq Nat /\ None \notin Nat
                    /\ Half \notin Nat /\ None \in Location /\ Half \in Location
                    /\ Nat \subseteq Location /\ Files \subseteq Sources /\ Memories \subseteq Sources
                    /\ Files \cap Memories = {} /\ None # Half
  BY StoreAssumption DEF Location, Sources

-----------------------------------------------------------------------------
(***************************************************************************)
(* What steps have in common.                                              *)
(***************************************************************************)

\* q differs from the pages of the files only in pages that are not valid yet, and has
\* no root pointer and no metadata there.
Overwrites(q) ==
    /\ q \in [Sources -> [Pages -> Page]]
    /\ \A f \in Files, n \in Pages : q[f][n] # page[f][n] =>
          /\ n < length[f] /\ q[f][n].root = None
          /\ \/ n = 0 /\ ~HasHeader(f)
             \/ n = 1 /\ ~IsMapped(f) /\ q[f][n].kind # "meta"

\* No root pointer in a file is replaced (RootNotReplaced, for one step).
RootsKept ==
    \A f \in Files, n \in {0, 1} :
       Pointer(page[f][n].root) # None => page'[f][n].root = page[f][n].root

\* Nor is the metadata of a file.
MetaKept == \A f \in Files : IsMapped(f) => SamePage(page'[f][1], page[f][1])

\* The root pointers in the files go on referring to objects.
LiveKept == LiveInv => LiveInv'

\* What is shown of every step.
StepKeeps == Structure' /\ RootsKept /\ MetaKept /\ LiveKept

\* A complete object in a file stays one while its page is not free, and as long as
\* the metadata of the file stays what it is.
LEMMA LiveFrame ==
  ASSUME NEW a, Live(a), length' = length,
         \A f \in Files : IsMapped(f) => SamePage(page[f][1], page'[f][1]),
         \A f \in Files, n \in Pages :
            n >= 2 /\ page[f][n].kind = "object" /\ n \notin free[f] => page'[f][n].kind = "object",
         \A f \in Files : free'[f] \subseteq free[f] \cup FreePages(f)
  PROVE  Live(a)'
<1>1. PICK f \in Files : \E n \in Pages :
         Refers(a, f, n) /\ n >= 2 /\ page[f][n].kind = "object" /\ n \notin free[f]
  BY DEF Live
<1>2. PICK n \in Pages :
         Refers(a, f, n) /\ n >= 2 /\ page[f][n].kind = "object" /\ n \notin free[f]
  BY <1>1
<1>3. n \notin free'[f] /\ page'[f][n].kind = "object"
  BY <1>2 DEF FreePages, ValidPage
<1>4. SamePage(page[f][1], page'[f][1]) /\ IsMapped(f)
  BY <1>2 DEF Refers
<1>5. Refers(a, f, n)'
  BY <1>2, <1>4 DEF Refers, SamePage, IsMapped, SliceOf
<1> QED BY <1>2, <1>3, <1>5 DEF Live

\* No two slices overlap as long as no source gets other metadata.
LEMMA MetaFrame ==
  ASSUME MetaInv, length' = length,
         \A s \in Sources : IsMapped(s)' => SamePage(page'[s][1], page[s][1])
  PROVE  MetaInv'
  BY DEF MetaInv, SamePage, IsMapped

\* The root pointers in the files refer to objects as long as there is no new one.
LEMMA RootsFrame ==
  ASSUME \A a : Live(a) => Live(a)',
         \A f \in Files, n \in {0, 1} : page'[f][n].root \in {page[f][n].root, None, Half}
  PROVE  LiveKept
  BY DEF LiveKept, LiveInv, PersistedRoots

\* What is not in a file is gone: if the pages that are left can be read, what is known
\* of the store holds for them.
LEMMA ForgetStructure ==
  ASSUME TypeOK, MetaInv, Forget, UNCHANGED <<length, roots, kept>>,
         NEW q, Readable(q), ForgetMemory(q)
  PROVE  /\ Structure'
         /\ \A f \in Files, n \in Pages : page'[f][n] = q[f][n]
<1> USE FirstPages
<1>1. /\ page' \in [Sources -> [Pages -> Page]]
      /\ \A f \in Files, n \in Pages : page'[f][n] = q[f][n]
      /\ \A m \in Memories, n \in Pages : page'[m][n] = Zero
  BY NewPages DEF ForgetMemory, Readable
<1>2. TypeOK'
  <2>1. base' \in [Sources -> Nat \cup {None}] /\ free' \in [Sources -> SUBSET Nat]
    BY DEF Forget
  <2>2. todo' \in Seq(Sources) /\ unallocated' \in Seq(Sources)
    BY DEF Forget
  <2>3. \A s \in Sources : free'[s] = {}
    BY DEF Forget
  <2> QED BY <1>1, <2>1, <2>2, <2>3 DEF TypeOK, Forget
<1>3. PagesInside'
  BY <1>1 DEF PagesInside, Readable
<1>4. RootPagesValid'
  BY <1>1 DEF RootPagesValid, Readable, HasHeader, IsMapped
<1>5. \A s \in Sources : IsMapped(s)' => s \in Files /\ SamePage(page'[s][1], page[s][1])
  BY <1>1, NewPages DEF Readable, IsMapped, Sources
<1>6. MetaInv'
  BY <1>5, MetaFrame
<1>7. Mapped' = {} /\ pc' = "closed" /\ unallocated' = <<>> /\ root' = None
  BY DEF Forget, Mapped
<1>8. SpaceInv' /\ ScanInv' /\ RootInv' /\ ObjectInv'
  BY <1>5, <1>7 DEF SpaceInv, ScanInv, RootInv, ObjectInv
<1> QED BY <1>1, <1>2, <1>3, <1>4, <1>6, <1>8 DEF Structure

\* The open ends, or the process: what is in the files is left.
LEMMA CloseInductive ==
  ASSUME Structure, Forget, UNCHANGED <<length, roots, kept>>,
         NEW q, Overwrites(q), ForgetMemory(q)
  PROVE  StepKeeps
<1> USE FirstPages
<1>1. Readable(q)
  <2>1. ASSUME NEW f \in Files, NEW n \in Pages, n >= length[f] PROVE q[f][n] = Zero
    <3>1. page[f][n] = Zero /\ ~(n < length[f])
      BY <2>1 DEF Structure, TypeOK, PagesInside
    <3> QED BY <3>1, Zenon DEF Overwrites
  <2>2. \A f \in Files : /\ q[f][0].root # None => q[f][0].kind = "header"
                         /\ q[f][1].root # None => q[f][1].kind = "meta"
    BY DEF Structure, RootPagesValid, Overwrites, HasHeader, IsMapped
  <2>3. \A f \in Files : q[f][1].kind = "meta" => q[f][1] = page[f][1]
    BY DEF Overwrites
  <2> QED BY <2>1, <2>2, <2>3 DEF Readable, Overwrites, SamePage
<1>2. Structure' /\ \A f \in Files, n \in Pages : page'[f][n] = q[f][n]
  BY <1>1, ForgetStructure DEF Structure
<1>3. \A a : Live(a) => Live(a)'
  <2>1. \A f \in Files : IsMapped(f) => page'[f][1] = page[f][1]
    BY <1>2 DEF Overwrites
  <2>2. \A f \in Files, n \in Pages : n >= 2 => page'[f][n] = page[f][n]
    BY <1>2 DEF Overwrites
  <2>3. \A f \in Files : free'[f] = {}
    BY DEF Forget
  <2> QED BY <2>1, <2>2, <2>3, LiveFrame DEF SamePage
<1>4. LiveKept
  BY <1>2, <1>3, RootsFrame DEF Overwrites
<1>5. RootsKept /\ MetaKept
  BY <1>2 DEF Structure, RootPagesValid, Overwrites, RootsKept, MetaKept, SamePage,
     IsMapped, Pointer
<1> QED BY <1>2, <1>4, <1>5 DEF StepKeeps

\* SourceAllocator::initialize writes the header of a source that has none.
LEMMA InitializedFacts ==
  ASSUME Structure, NEW s \in Sources, Looking(s), length[s] > 0
  PROVE  /\ Overwrites(Initialized(s))
         /\ Initialized(s)[s][0].kind = "header"
         /\ \A r \in Sources, n \in Pages :
               r # s \/ n # 0 \/ HasHeader(s) => Initialized(s)[r][n] = page[r][n]
<1> USE FirstPages
<1>1. page \in [Sources -> [Pages -> Page]] /\ pagesize \in PageSizes
  BY DEF Structure, TypeOK, ScanInv, Looking
<1>2. CASE HasHeader(s)
  BY <1>1, <1>2 DEF Initialized, Overwrites, HasHeader
<1>3. CASE ~HasHeader(s)
  <2>1. Initialized(s) = [page EXCEPT ![s][0] = SourceHeader(pagesize)]
    BY <1>3 DEF Initialized
  <2>2. /\ Initialized(s) \in [Sources -> [Pages -> Page]]
        /\ Initialized(s)[s][0] = SourceHeader(pagesize)
        /\ \A r \in Sources, n \in Pages :
              r # s \/ n # 0 => Initialized(s)[r][n] = page[r][n]
    BY <1>1, <2>1, NewPages
  <2> QED BY <1>1, <1>3, <2>2, NewPages DEF Overwrites
<1> QED BY <1>2, <1>3

\* A crash, and errors and short writes that end the open.
LEMMA EndInductive ==
  ASSUME Structure,
         \/ Crash
         \/ \E s \in Sources : ScanFails(s)
         \/ \E f \in Files : ShortHeader(f) \/ ShortMeta(f)
  PROVE  StepKeeps
<1> USE FirstPages
<1>0. page \in [Sources -> [Pages -> Page]]
  BY DEF Structure, TypeOK
<1>1. Overwrites(page)
  BY <1>0 DEF Overwrites
<1>2. CASE Crash
  BY <1>1, <1>2, CloseInductive DEF Crash
<1>3. ASSUME NEW s \in Sources, ScanFails(s) PROVE StepKeeps
  <2>1. CASE ForgetMemory(page)
    BY <1>1, <1>3, <2>1, CloseInductive DEF ScanFails
  <2>2. CASE length[s] > 0 /\ ForgetMemory(Initialized(s))
    BY <1>3, <2>2, CloseInductive, InitializedFacts DEF ScanFails
  <2> QED BY <1>3, <2>1, <2>2 DEF ScanFails
<1>4. ASSUME NEW f \in Files, ShortHeader(f) PROVE StepKeeps
  <2>1. Overwrites([page EXCEPT ![f][0] = Torn])
    BY <1>0, <1>4, NewPages DEF ShortHeader, Overwrites
  <2> QED BY <1>4, <2>1, CloseInductive DEF ShortHeader
<1>5. ASSUME NEW f \in Files, ShortMeta(f) PROVE StepKeeps
  <2>1. f \in Elements(unallocated)
    <3>1. unallocated \in Seq(Sources) /\ unallocated # <<>> /\ Distinct(unallocated)
      BY <1>5 DEF ShortMeta, Structure, TypeOK, ScanInv
    <3> QED BY <1>5, <3>1, TailFacts DEF ShortMeta
  <2>2. ~IsMapped(f) /\ length[f] >= 2 /\ length[f] \in Nat
    BY <1>5, <2>1 DEF ShortMeta, Structure, ScanInv, TypeOK
  <2>3. Overwrites([page EXCEPT ![f][1] = Torn])
    BY <1>0, <2>2, NewPages DEF Overwrites
  <2> QED BY <1>5, <2>3, CloseInductive DEF ShortMeta
<1> QED BY <1>2, <1>3, <1>4, <1>5

-----------------------------------------------------------------------------
(***************************************************************************)
(* Opening.                                                                *)
(***************************************************************************)

\* The invariant holds for sources that have never been used.
LEMMA InitInductive == Init => Inductive
<1> SUFFICES ASSUME Init PROVE Inductive
  OBVIOUS
<1> USE StoreAssumption, FirstPages
<1>1. \A s \in Sources, n \in Pages : page[s][n] = Zero
  BY DEF Init
<1>2. TypeOK
  <2>1. length \in [Sources -> Nat]
    BY DEF Init
  <2>2. \A s \in Sources : 0 .. (length[s] - 1) \subseteq Pages
    BY DEF Init
  <2>3. page \in [Sources -> [Pages -> Page]]
    BY NewPages DEF Init
  <2>4. todo \in Seq(Sources) /\ unallocated \in Seq(Sources)
    BY DEF Init
  <2> QED BY <2>1, <2>2, <2>3, <2>4 DEF Init, TypeOK
<1>3. PagesInside /\ RootPagesValid
  BY <1>1, NewPages DEF PagesInside, RootPagesValid
<1>4. \A s \in Sources : ~IsMapped(s)
  BY <1>1, NewPages DEF IsMapped
<1>5. MetaInv /\ SpaceInv /\ ScanInv /\ RootInv /\ ObjectInv
  BY <1>4 DEF Init, MetaInv, SpaceInv, ScanInv, RootInv, ObjectInv, Mapped
<1>6. LiveInv
  BY <1>1, NewPages DEF LiveInv, PersistedRoots
<1> QED BY <1>2, <1>3, <1>5, <1>6 DEF Inductive, Structure

\* LibrariusBuilder::open with all files of the heap: every slice in use is in the list.
LEMMA OpenInductive ==
  ASSUME Structure, NEW srcs \in Orders, NEW c \in BOOLEAN, NEW z \in PageSizes,
         WholeHeap(srcs), Open(srcs, c, z)
  PROVE  StepKeeps
<1> USE FirstPages
<1>1. srcs \in Seq(Sources) /\ DOMAIN srcs = 1 .. Len(srcs) /\ Distinct(srcs)
  <2>1. PICK n \in 1 .. MaxSources : srcs \in [1 .. n -> Sources]
    BY DEF Orders
  <2>2. n \in Nat
    BY <2>1, StoreAssumption
  <2>3. srcs \in Seq(Sources)
    BY <2>1, <2>2, SeqDef
  <2>4. DOMAIN srcs = 1 .. Len(srcs)
    BY <2>3
  <2> QED BY <2>3, <2>4 DEF Orders, Distinct
<1>2. /\ UNCHANGED <<length, page, unallocated, base, free, root, copy, object, roots, kept>>
      /\ pc = "closed" /\ pc' = "scan" /\ todo' = srcs /\ pagesize' = z /\ create' = c
  BY DEF Open
<1>3. TypeOK'
  BY <1>1, <1>2 DEF Structure, TypeOK
<1>4. PagesInside' /\ RootPagesValid' /\ MetaInv' /\ LiveKept
  BY <1>2 DEF Structure, PagesInside, RootPagesValid, HasHeader, IsMapped, MetaInv, LiveKept,
     LiveInv, PersistedRoots, Live, Refers
<1>5. Mapped = {} /\ Mapped' = {} /\ unallocated = <<>> /\ root = None
  BY <1>2 DEF Structure, SpaceInv, Mapped
<1>6. SpaceInv'
  BY <1>2, <1>5 DEF Structure, SpaceInv, IsMapped
<1>7. \A s \in Sources : IsMapped(s) => s \in Elements(srcs)
  BY <1>1, <1>5 DEF Structure, SpaceInv, WholeHeap, Elements, Sources
<1>8. Elements(unallocated) = {} /\ Distinct(unallocated)
  BY <1>5 DEF Elements, Distinct
<1>9. ScanInv'
  BY <1>1, <1>2, <1>5, <1>7, <1>8 DEF ScanInv, IsMapped
<1>10. RootsKept /\ MetaKept
  BY <1>2 DEF RootsKept, MetaKept, SamePage, IsMapped
<1> QED BY <1>2, <1>3, <1>4, <1>6, <1>9, <1>10 DEF StepKeeps, Structure, RootInv, ObjectInv

\* A source is looked at: its header may be new, its metadata and its objects are not.
LEMMA LookInductive ==
  ASSUME Structure, NEW s \in Sources, Looking(s), Usable(s), page' = Initialized(s),
         free' = [free EXCEPT ![s] = FreePages(s)], length' = length
  PROVE  /\ RootsKept /\ MetaKept /\ page' \in [Sources -> [Pages -> Page]]
         /\ free' \in [Sources -> SUBSET Nat]
         /\ \A r \in Sources : free'[r] \subseteq 2 .. (length[r] - 1)
         /\ PagesInside' /\ RootPagesValid' /\ MetaInv' /\ LiveKept
         /\ \A r \in Sources : page'[r][1] = page[r][1] /\ (IsMapped(r)' <=> IsMapped(r))
         /\ \A r \in Sources : r = s \/ HasHeader(r) => HasHeader(r)'
         /\ length[s] >= 2
<1> USE FirstPages
<1>1. length[s] >= 2 /\ length[s] > 0 /\ length \in [Sources -> Nat]
  BY DEF Usable, Structure, TypeOK
<1>2. Overwrites(page') /\ page'[s][0].kind = "header"
  BY <1>1, InitializedFacts
<1>3. \A r \in Sources, n \in Pages : r # s \/ n # 0 \/ HasHeader(s) => page'[r][n] = page[r][n]
  BY <1>1, InitializedFacts
<1>4. \A r \in Sources : page'[r][1] = page[r][1] /\ (IsMapped(r)' <=> IsMapped(r))
  BY <1>3 DEF IsMapped
<1>5. \A r \in Sources : r = s \/ HasHeader(r) => HasHeader(r)'
  BY <1>2, <1>3 DEF HasHeader
<1>6. FreePages(s) \subseteq 2 .. (length[s] - 1) /\ FreePages(s) \subseteq Nat
  BY <1>1 DEF FreePages
<1>7. /\ free' \in [Sources -> SUBSET Nat]
      /\ \A r \in Sources : free'[r] \subseteq 2 .. (length[r] - 1)
      /\ \A r \in Sources : free'[r] \subseteq free[r] \cup FreePages(r)
  BY <1>6 DEF Structure, TypeOK
<1>8. PagesInside'
  BY <1>1, <1>2 DEF Structure, PagesInside, Overwrites
<1>9. RootPagesValid'
  BY <1>2, <1>4, <1>5 DEF Structure, RootPagesValid, Overwrites
<1>10. MetaInv'
  BY <1>4, MetaFrame DEF Structure, SamePage
<1>11. \A a : Live(a) => Live(a)'
  <2>1. \A f \in Files : SamePage(page[f][1], page'[f][1])
    BY <1>4 DEF SamePage
  <2>2. \A f \in Files, n \in Pages : n >= 2 => page'[f][n] = page[f][n]
    BY <1>3
  <2> QED BY <1>7, <2>1, <2>2, LiveFrame
<1>12. LiveKept
  BY <1>2, <1>11, RootsFrame DEF Overwrites
<1>13. RootsKept /\ MetaKept
  BY <1>2 DEF Structure, RootPagesValid, Overwrites, RootsKept, MetaKept, SamePage,
     IsMapped, Pointer
<1> QED BY <1>1, <1>2, <1>4, <1>5, <1>7, <1>8, <1>9, <1>10, <1>12, <1>13 DEF Overwrites

\* A new mapping keeps a last one.
LEMMA LastMapped ==
  ASSUME TypeOK, SpaceInv, NEW s \in Sources, s \notin Mapped, NEW b \in Nat,
         base' = [base EXCEPT ![s] = b]
  PROVE  /\ Mapped' = Mapped \cup {s} /\ base'[s] = b /\ \A r \in Mapped : base'[r] = base[r]
         /\ \E x \in Mapped' : IsLast(x, Mapped)'
         /\ base' \in [Sources -> Nat \cup {None}]
<1> USE FirstPages
<1>1. /\ base'[s] = b /\ \A r \in Sources : r # s => base'[r] = base[r]
      /\ base' \in [Sources -> Nat \cup {None}]
  BY DEF TypeOK
<1>2. Mapped' = Mapped \cup {s} /\ \A r \in Mapped : r \in Sources /\ r # s
  BY <1>1 DEF Mapped
<1>3. \A r \in Mapped : base'[r] = base[r] /\ base[r] \in Nat
  BY <1>1, <1>2 DEF Mapped, TypeOK
<1>4. \E x \in Mapped' : IsLast(x, Mapped)'
  <2>1. CASE Mapped = {}
    BY <1>1, <1>2, <2>1 DEF IsLast
  <2>2. CASE Mapped # {}
    <3>1. PICK l \in Mapped : IsLast(l, Mapped)
      BY <2>2 DEF SpaceInv
    <3>2. \A r \in Mapped : base[r] <= base[l] /\ base[l] \in Nat /\ base[r] \in Nat
      BY <1>3, <3>1 DEF IsLast
    <3>3. CASE b <= base[l]
      BY <1>1, <1>2, <1>3, <3>2, <3>3 DEF IsLast
    <3>4. CASE base[l] <= b
      <4>1. \A r \in Mapped' : base'[r] <= base'[s]
        BY <1>1, <1>2, <1>3, <3>2, <3>4
      <4> QED BY <1>2, <4>1 DEF IsLast
    <3> QED BY <3>2, <3>3, <3>4
  <2> QED BY <2>1, <2>2
<1> QED BY <1>1, <1>2, <1>3, <1>4

\* A source with metadata is mapped.
LEMMA ScanMappedInductive ==
  ASSUME Structure, NEW s \in Sources, ScanMapped(s)
  PROVE  StepKeeps
<1> USE FirstPages
<1>1. /\ Looking(s) /\ Usable(s) /\ IsMapped(s) /\ page' = Initialized(s)
      /\ free' = [free EXCEPT ![s] = FreePages(s)] /\ base' = [base EXCEPT ![s] = page[s][1].offset]
      /\ root' = (IF page[s][1].root = None THEN root ELSE page[s][1].offset)
      /\ todo' = Tail(todo) /\ pc = "scan"
      /\ UNCHANGED <<length, pc, create, pagesize, unallocated, copy, object, roots, kept>>
  BY DEF ScanMapped, Looking
<1>2. page[s][1].offset \in Nat
  BY <1>1, PageFacts DEF Structure, TypeOK, IsMapped
<1>3. /\ todo \in Seq(Sources) /\ todo # <<>> /\ Distinct(todo) /\ s = Head(todo)
      /\ Elements(todo) \cap (Mapped \cup Elements(unallocated)) = {}
  BY <1>1 DEF Structure, TypeOK, ScanInv, Looking
<1>4. /\ todo' \in Seq(Sources) /\ Distinct(todo') /\ s \in Elements(todo)
      /\ Elements(todo') = Elements(todo) \ {s}
  BY <1>1, <1>3, TailFacts
<1>5. s \notin Mapped /\ s \notin Elements(unallocated)
  BY <1>3, <1>4
<1>6. /\ Mapped' = Mapped \cup {s} /\ base'[s] = page[s][1].offset
      /\ \A r \in Mapped : base'[r] = base[r]
      /\ \E x \in Mapped' : IsLast(x, Mapped)'
      /\ base' \in [Sources -> Nat \cup {None}]
  BY <1>1, <1>2, <1>5, LastMapped DEF Structure
<1>7. TypeOK'
  <2>1. /\ page' \in [Sources -> [Pages -> Page]] /\ free' \in [Sources -> SUBSET Nat]
        /\ \A r \in Sources : free'[r] \subseteq 2 .. (length[r] - 1)
    BY <1>1, LookInductive
  <2>2. root' \in Nat \cup {None}
    BY <1>1, <1>2 DEF Structure, TypeOK
  <2> QED BY <1>1, <1>4, <1>6, <2>1, <2>2 DEF Structure, TypeOK
<1>8. /\ PagesInside' /\ RootPagesValid' /\ MetaInv' /\ LiveKept
      /\ \A r \in Sources : page'[r][1] = page[r][1] /\ (IsMapped(r)' <=> IsMapped(r))
      /\ \A r \in Sources : r = s \/ HasHeader(r) => HasHeader(r)'
  BY <1>1, LookInductive
<1>9. SpaceInv'
  <2>1. Mapped \subseteq Sources
    BY DEF Mapped
  <2>2. \A r \in Mapped' : HasHeader(r)' /\ IsMapped(r)' /\ base'[r] = page'[r][1].offset
    BY <1>1, <1>6, <1>8, <2>1 DEF Structure, SpaceInv
  <2>3. \A m \in Memories : IsMapped(m)' => m \in Mapped'
    BY <1>6, <1>8 DEF Structure, SpaceInv
  <2> QED BY <1>1, <1>6, <2>2, <2>3 DEF SpaceInv
<1>10. ScanInv'
  <2>1. root' # None => \E r \in Mapped' : root' = base'[r]
    BY <1>1, <1>6 DEF Structure, ScanInv
  <2>2. \A r \in Sources : IsMapped(r)' => r \in Mapped' \cup Elements(todo')
    BY <1>1, <1>4, <1>6, <1>8 DEF Structure, ScanInv
  <2>3. \A r \in Elements(unallocated) :
           HasHeader(r)' /\ ~IsMapped(r)' /\ length'[r] >= 2 /\ r \notin Mapped'
    <3>1. \A r \in Elements(unallocated) : r \in Sources
      BY DEF Structure, TypeOK, Elements
    <3> QED BY <1>1, <1>5, <1>6, <1>8, <3>1 DEF Structure, ScanInv
  <2> QED BY <1>1, <1>3, <1>4, <1>6, <2>1, <2>2, <2>3 DEF Structure, ScanInv
<1>11. RootsKept /\ MetaKept
  BY <1>1, LookInductive
<1> QED BY <1>1, <1>7, <1>8, <1>9, <1>10, <1>11 DEF StepKeeps, Structure, RootInv, ObjectInv

\* A source without metadata is put aside.
LEMMA ScanUnallocatedInductive ==
  ASSUME Structure, NEW s \in Sources, ScanUnallocated(s)
  PROVE  StepKeeps
<1> USE FirstPages
<1>1. /\ Looking(s) /\ Usable(s) /\ ~IsMapped(s) /\ page' = Initialized(s)
      /\ free' = [free EXCEPT ![s] = FreePages(s)]
      /\ unallocated' = Append(unallocated, s) /\ todo' = Tail(todo) /\ pc = "scan"
      /\ UNCHANGED <<length, pc, create, pagesize, base, root, copy, object, roots, kept>>
  BY DEF ScanUnallocated, Looking
<1>2. /\ todo \in Seq(Sources) /\ todo # <<>> /\ Distinct(todo) /\ s = Head(todo)
      /\ unallocated \in Seq(Sources) /\ Distinct(unallocated)
      /\ Elements(todo) \cap (Mapped \cup Elements(unallocated)) = {}
  BY <1>1 DEF Structure, TypeOK, ScanInv, Looking
<1>3. /\ todo' \in Seq(Sources) /\ Distinct(todo') /\ s \in Elements(todo)
      /\ Elements(todo') = Elements(todo) \ {s}
  BY <1>1, <1>2, TailFacts
<1>4. s \notin Mapped /\ s \notin Elements(unallocated)
  BY <1>2, <1>3
<1>5. /\ unallocated' \in Seq(Sources) /\ Distinct(unallocated')
      /\ Elements(unallocated') = Elements(unallocated) \cup {s}
  BY <1>1, <1>2, <1>4, AppendFacts
<1>6. TypeOK'
  BY <1>1, <1>3, <1>5, LookInductive DEF Structure, TypeOK
<1>7. /\ PagesInside' /\ RootPagesValid' /\ MetaInv' /\ LiveKept
      /\ \A r \in Sources : page'[r][1] = page[r][1] /\ (IsMapped(r)' <=> IsMapped(r))
      /\ \A r \in Sources : r = s \/ HasHeader(r) => HasHeader(r)'
      /\ length[s] >= 2
  BY <1>1, LookInductive
<1>8. Mapped' = Mapped /\ Mapped \subseteq Sources
  BY <1>1 DEF Mapped
<1>9. SpaceInv'
  BY <1>1, <1>7, <1>8 DEF Structure, SpaceInv, IsLast
<1>10. ScanInv'
  <2>1. \A r \in Sources : IsMapped(r)' => r \in Mapped' \cup Elements(todo')
    BY <1>1, <1>3, <1>7, <1>8 DEF Structure, ScanInv
  <2>2. \A r \in Elements(unallocated) : r \in Sources
    BY DEF Structure, TypeOK, Elements
  <2>3. \A r \in Elements(unallocated') :
           HasHeader(r)' /\ ~IsMapped(r)' /\ length'[r] >= 2 /\ r \notin Mapped'
    BY <1>1, <1>4, <1>5, <1>7, <1>8, <2>2 DEF Structure, ScanInv
  <2> QED BY <1>1, <1>2, <1>3, <1>5, <1>8, <2>1, <2>3 DEF Structure, ScanInv
<1>11. RootsKept /\ MetaKept
  BY <1>1, LookInductive
<1> QED BY <1>1, <1>6, <1>7, <1>9, <1>10, <1>11 DEF StepKeeps, Structure, RootInv, ObjectInv

\* Behind the last mapping the address space is empty.
LEMMA NextOffsetFacts ==
  ASSUME TypeOK, MetaInv, SpaceInv
  PROVE  NextOffset \in Nat /\ \A r \in Mapped : base[r] + length[r] <= NextOffset
<1> USE FirstPages
<1>1. CASE Mapped = {}
  BY <1>1 DEF NextOffset
<1>2. CASE Mapped # {}
  <2>1. \A r \in Mapped : r \in Sources /\ base[r] \in Nat /\ length[r] \in Nat /\ length[r] >= 2
    BY DEF TypeOK, Mapped, SpaceInv, MetaInv
  <2>2. PICK x \in Sources : IsLast(x, Mapped) /\ NextOffset = base[x] + length[x]
    <3>1. \E x \in Sources : IsLast(x, Mapped)
      BY <1>2, <2>1 DEF SpaceInv
    <3> QED BY <1>2, <3>1 DEF NextOffset
  <2>3. x \in Mapped /\ \A r \in Mapped : base[r] <= base[x]
    BY <2>2 DEF IsLast
  <2>4. ASSUME NEW r \in Mapped, r # x PROVE base[r] + length[r] <= base[x]
    <3>1. base[r] + length[r] <= base[x] \/ base[x] + length[x] <= base[r]
      BY <2>1, <2>3, <2>4 DEF SpaceInv, MetaInv
    <3> QED BY <2>1, <2>3, <3>1
  <2> QED BY <2>1, <2>2, <2>3, <2>4
<1> QED BY <1>1, <1>2

\* A source that was put aside gets the slice behind the last one.
LEMMA AllocateInductive ==
  ASSUME Structure, NEW s \in Sources, Allocate(s)
  PROVE  StepKeeps
<1> USE FirstPages
<1>0. PICK b \in Nat : b = NextOffset /\ \A r \in Mapped : base[r] + length[r] <= b
  BY NextOffsetFacts DEF Structure
<1>1. /\ pc = "scan" /\ todo = <<>> /\ unallocated # <<>> /\ s = Head(unallocated)
      /\ page' = [page EXCEPT ![s][1] = Meta(b, length[s])]
      /\ base' = [base EXCEPT ![s] = b] /\ unallocated' = Tail(unallocated)
      /\ UNCHANGED <<length, pc, create, pagesize, todo, free, root, copy, object, roots, kept>>
  BY <1>0 DEF Allocate
<1>2. unallocated \in Seq(Sources) /\ Distinct(unallocated)
  BY <1>1 DEF Structure, TypeOK, ScanInv
<1>3. /\ unallocated' \in Seq(Sources) /\ Distinct(unallocated') /\ s \in Elements(unallocated)
      /\ Elements(unallocated') = Elements(unallocated) \ {s}
  BY <1>1, <1>2, TailFacts
<1>4. /\ HasHeader(s) /\ ~IsMapped(s) /\ length[s] >= 2 /\ s \notin Mapped
      /\ length \in [Sources -> Nat]
  BY <1>1, <1>3 DEF Structure, TypeOK, ScanInv
<1>5. /\ Mapped' = Mapped \cup {s} /\ base'[s] = b /\ \A r \in Mapped : base'[r] = base[r]
      /\ \E x \in Mapped' : IsLast(x, Mapped)'
      /\ base' \in [Sources -> Nat \cup {None}]
  BY <1>0, <1>1, <1>4, LastMapped DEF Structure
<1>6. /\ page' \in [Sources -> [Pages -> Page]] /\ page'[s][1] = Meta(b, length[s])
      /\ \A r \in Sources, n \in Pages : r # s \/ n # 1 => page'[r][n] = page[r][n]
  BY <1>0, <1>1, <1>4, NewPages DEF Structure, TypeOK
<1>7. /\ page'[s][1].kind = "meta" /\ page'[s][1].offset = b /\ page'[s][1].len = length[s]
      /\ page'[s][1].root = None
  <2>1. PICK l \in Nat : l = length[s] /\ page'[s][1] = Meta(b, l)
    BY <1>4, <1>6
  <2> QED BY <2>1, NewPages
<1>8. TypeOK'
  BY <1>1, <1>3, <1>5, <1>6 DEF Structure, TypeOK
<1>9. PagesInside'
  BY <1>1, <1>4, <1>6 DEF Structure, PagesInside
<1>10. /\ IsMapped(s)' /\ \A r \in Sources : HasHeader(r) => HasHeader(r)'
       /\ \A r \in Sources : r # s => page'[r][1] = page[r][1] /\ (IsMapped(r)' <=> IsMapped(r))
  BY <1>6, <1>7 DEF IsMapped, HasHeader
<1>11. RootPagesValid'
  BY <1>6, <1>7, <1>10 DEF Structure, RootPagesValid
<1>12. \A r \in Sources : IsMapped(r) => r \in Mapped
  <2>1. Elements(todo) = {}
    BY <1>1 DEF Elements
  <2> QED BY <1>1, <2>1 DEF Structure, ScanInv
<1>13. MetaInv'
  <2>1. \A r \in Sources : IsMapped(r) => page[r][1].offset + length[r] <= b
    BY <1>0, <1>12 DEF Structure, SpaceInv
  <2>2. \A r \in Sources : IsMapped(r)' => page'[r][1].len = length'[r] /\ length'[r] >= 2
    BY <1>1, <1>4, <1>7, <1>10 DEF Structure, MetaInv
  <2>3. ASSUME NEW q \in Sources, NEW r \in Sources, q # r, IsMapped(q)', IsMapped(r)'
        PROVE  \/ page'[q][1].offset + length'[q] <= page'[r][1].offset
               \/ page'[r][1].offset + length'[r] <= page'[q][1].offset
    <3>1. CASE q = s
      BY <1>1, <1>7, <1>10, <2>1, <2>3, <3>1
    <3>2. CASE r = s
      BY <1>1, <1>7, <1>10, <2>1, <2>3, <3>2
    <3>3. CASE q # s /\ r # s
      BY <1>1, <1>10, <2>3, <3>3 DEF Structure, MetaInv
    <3> QED BY <3>1, <3>2, <3>3
  <2> QED BY <2>2, <2>3 DEF MetaInv
<1>14. SpaceInv'
  <2>1. Mapped \subseteq Sources
    BY DEF Mapped
  <2>2. \A r \in Mapped' : HasHeader(r)' /\ IsMapped(r)' /\ base'[r] = page'[r][1].offset
    BY <1>4, <1>5, <1>7, <1>10, <2>1 DEF Structure, SpaceInv
  <2>3. \A m \in Memories : IsMapped(m)' => m \in Mapped'
    BY <1>5, <1>10 DEF Structure, SpaceInv
  <2> QED BY <1>1, <1>5, <2>2, <2>3 DEF SpaceInv
<1>15. ScanInv'
  <2>1. \A r \in Sources : IsMapped(r)' => r \in Mapped' \cup Elements(todo')
    BY <1>5, <1>10, <1>12
  <2>2. \A r \in Elements(unallocated) : r \in Sources
    BY DEF Structure, TypeOK, Elements
  <2>3. \A r \in Elements(unallocated') :
           HasHeader(r)' /\ ~IsMapped(r)' /\ length'[r] >= 2 /\ r \notin Mapped'
    BY <1>1, <1>3, <1>5, <1>10, <2>2 DEF Structure, ScanInv
  <2>4. root' # None => \E r \in Mapped' : root' = base'[r]
    BY <1>1, <1>5 DEF Structure, ScanInv
  <2>5. Elements(todo') = {} /\ Distinct(todo')
    BY <1>1 DEF Elements, Distinct
  <2> QED BY <1>1, <1>3, <2>1, <2>3, <2>4, <2>5 DEF Structure, ScanInv
<1>16. LiveKept
  <2>1. \A f \in Files : IsMapped(f) => SamePage(page[f][1], page'[f][1])
    BY <1>4, <1>10 DEF SamePage
  <2>2. ASSUME NEW f \in Files, NEW n \in Pages, n >= 2 PROVE page'[f][n] = page[f][n]
    <3>1. f \in Sources /\ n # 1
      BY <2>2
    <3> QED BY <1>6, <3>1, Zenon
  <2>3. \A a : Live(a) => Live(a)'
    BY <1>1, <2>1, <2>2, LiveFrame
  <2>4. \A f \in Files, n \in {0, 1} : page'[f][n].root \in {page[f][n].root, None, Half}
    BY <1>6, <1>7
  <2> QED BY <2>3, <2>4, RootsFrame
<1>17. RootsKept /\ MetaKept
  BY <1>4, <1>6 DEF Structure, RootPagesValid, RootsKept, MetaKept, SamePage,
     IsMapped, Pointer
<1> QED BY <1>1, <1>8, <1>9, <1>11, <1>13, <1>14, <1>15, <1>16, <1>17
   DEF StepKeeps, Structure, RootInv, ObjectInv

-----------------------------------------------------------------------------
(***************************************************************************)
(* The root.                                                               *)
(***************************************************************************)

\* Addresses stay what they are.
LEMMA SpaceFrame ==
  ASSUME Structure, base' = base, length' = length, pc' # "closed",
         \A s \in Sources, n \in {0, 1} : SamePage(page'[s][n], page[s][n])
  PROVE  /\ MetaInv' /\ SpaceInv'
         /\ \A a : SourceAt(a)' = SourceAt(a)
         /\ \A a, s, n : IsAt(a, s, n)' <=> IsAt(a, s, n)
         /\ \A s \in Sources : (HasHeader(s)' <=> HasHeader(s)) /\ (IsMapped(s)' <=> IsMapped(s))
<1>1. \A s \in Sources : (HasHeader(s)' <=> HasHeader(s)) /\ (IsMapped(s)' <=> IsMapped(s))
  BY DEF SamePage, HasHeader, IsMapped
<1>2. Mapped' = Mapped /\ Mapped \subseteq Sources
  BY DEF Mapped
<1>3. MetaInv'
  BY <1>1, MetaFrame DEF Structure
<1>4. \A s \in Sources : IsMapped(s) => page'[s][1].offset = page[s][1].offset
  BY DEF SamePage, IsMapped
<1>5. SpaceInv'
  BY <1>1, <1>2, <1>4, FirstPages DEF Structure, SpaceInv, IsLast
<1>6. \A a : SourceAt(a)' = SourceAt(a)
  BY <1>2 DEF SourceAt, IsLast
<1>7. \A a, s, n : IsAt(a, s, n)' <=> IsAt(a, s, n)
  BY <1>2 DEF IsAt
<1> QED BY <1>1, <1>3, <1>5, <1>6, <1>7

\* A page that can be allocated: nothing else is there.
LEMMA NextFreeFacts ==
  ASSUME Structure, NEW S, S \subseteq Sources, NEW s, CanAllocate(s, S)
  PROVE  /\ s \in S /\ s \in Sources /\ NextFree(s) \in free[s] /\ NextFree(s) \in Pages
         /\ NextFree(s) >= 2 /\ NextFree(s) \in Nat /\ NextFree(s) < length[s]
         /\ IsAt(base[s] + NextFree(s), s, NextFree(s))
<1>1. s \in Mapped /\ s \in S /\ s \in Sources /\ free[s] # {}
  BY DEF CanAllocate, IsFirst, Mapped
<1>2. free[s] \subseteq 2 .. (length[s] - 1) /\ length[s] \in Nat /\ free[s] \subseteq Nat
  BY <1>1 DEF Structure, TypeOK
<1>3. \E n \in free[s] : \A m \in free[s] : n <= m
  BY <1>1, <1>2, Minimum
<1>4. NextFree(s) \in free[s]
  BY <1>3 DEF NextFree
<1>5. PICK n \in Nat : n = NextFree(s) /\ n >= 2 /\ n < length[s] /\ n \in 0 .. (length[s] - 1)
  BY <1>2, <1>4
<1>6. n \in Pages
  BY <1>1, <1>5 DEF Structure, TypeOK
<1> QED BY <1>1, <1>4, <1>5, <1>6 DEF IsAt

\* Only free pages of the files are written, and no page becomes free.
LEMMA AllocFrame ==
  ASSUME Structure, length' = length,
         \A s \in Sources, n \in {0, 1} : SamePage(page'[s][n], page[s][n]),
         \A f \in Files, n \in Pages : page'[f][n] = page[f][n] \/ n \in free[f],
         \A f \in Files : free'[f] \subseteq free[f]
  PROVE  /\ RootsKept /\ MetaKept /\ PagesInside' /\ RootPagesValid' /\ LiveKept
         /\ \A a : Live(a) => Live(a)'
<1> USE FirstPages
<1>1. \A f \in Files : free[f] \subseteq 2 .. (length[f] - 1) /\ length[f] \in Nat
  BY DEF Structure, TypeOK
<1>2. \A f \in Files, n \in Pages : n < 2 \/ n >= length[f] => page'[f][n] = page[f][n]
  BY <1>1
<1>3. PagesInside'
  BY <1>1, <1>2 DEF Structure, PagesInside
<1>4. \A f \in Files : page'[f][0] = page[f][0] /\ page'[f][1] = page[f][1]
  BY <1>2
<1>5. RootPagesValid'
  BY <1>4 DEF Structure, RootPagesValid, HasHeader, IsMapped
<1>6. \A a : Live(a) => Live(a)'
  BY <1>4, LiveFrame DEF SamePage
<1>7. LiveKept
  BY <1>4, <1>6, RootsFrame
<1>8. RootsKept /\ MetaKept
  BY <1>4 DEF RootsKept, MetaKept, SamePage, IsMapped
<1> QED BY <1>3, <1>5, <1>6, <1>7, <1>8

\* The page of the root location and the page in memory it is accessed in.
LEMMA RootFacts ==
  ASSUME Structure, pc \in {"root", "flush_object", "flush_root"}
  PROVE  /\ \E s \in Sources, n \in {0, 1} : IsAt(root, s, n)
         /\ \E c \in Memories, k \in Pages : IsAt(copy, c, k) /\ k \notin free[c]
  BY DEF Structure, RootInv, InUse, Mapped

\* Only the progress of the open changes.
LEMMA StayInductive ==
  ASSUME Structure, UNCHANGED <<length, page, opened, roots, kept>>, pc' \in {"open", "panic"}
  PROVE  StepKeeps
<1>1. TypeOK'
  BY DEF Structure, TypeOK, opened
<1>2. MetaInv' /\ SpaceInv'
  BY SpaceFrame DEF opened, SamePage
<1>3. PagesInside' /\ RootPagesValid' /\ LiveKept
  BY DEF Structure, PagesInside, RootPagesValid, HasHeader, IsMapped, LiveKept, LiveInv,
     PersistedRoots, Live, Refers, opened
<1>4. RootsKept /\ MetaKept
  BY DEF RootsKept, MetaKept, SamePage, IsMapped
<1> QED BY <1>1, <1>2, <1>3, <1>4 DEF StepKeeps, Structure, ScanInv, RootInv, ObjectInv

\* LogicalAddressSpace::new finds the root location.
LEMMA RootLocationFacts ==
  ASSUME Structure, AllMapped, NEW a, IsRootLocation(a)
  PROVE  \E s \in Sources : \E n \in {0, 1} : IsAt(a, s, n)
<1>1. PICK s \in Mapped, n \in {0, 1} : a = base[s] + n
  <2>1. \A s \in Mapped : base[s] \in Nat
    BY DEF Mapped, Structure, TypeOK
  <2>2. CASE root # None
    BY <2>1, <2>2 DEF IsRootLocation, AllMapped, Structure, ScanInv
  <2>3. CASE root = None
    BY <2>3 DEF IsRootLocation
  <2> QED BY <2>2, <2>3
<1>2. s \in Sources /\ length[s] \in Nat /\ length[s] >= 2
  BY DEF Mapped, Structure, TypeOK, SpaceInv, MetaInv
<1> QED BY <1>1, <1>2 DEF IsAt

\* The root location is in memory.
LEMMA RootInMemoryInductive ==
  ASSUME Structure, NEW a, RootInMemory(a)
  PROVE  StepKeeps
<1> USE FirstPages
<1>1. /\ AllMapped /\ IsRootLocation(a) /\ SourceAt(a) \in Memories
      /\ root' = a /\ copy' = a /\ pc' = "root"
      /\ UNCHANGED <<length, page, create, pagesize, todo, unallocated, base, free, object,
                     roots, kept>>
  BY DEF RootInMemory
<1>2. PICK s \in Sources : \E n \in {0, 1} : IsAt(a, s, n)
  BY <1>1, RootLocationFacts
<1>3. PICK n \in {0, 1} : IsAt(a, s, n)
  BY <1>2
<1>4. SourceAt(a) = s /\ a \in Nat /\ n \in Pages
  BY <1>3, Resolve DEF Structure
<1>5. TypeOK'
  BY <1>1, <1>4 DEF Structure, TypeOK
<1>6. MetaInv' /\ SpaceInv' /\ (\A x : SourceAt(x)' = SourceAt(x)) /\ IsAt(a, s, n)'
  BY <1>1, <1>3, SpaceFrame DEF SamePage
<1>7. RootsKept /\ MetaKept /\ PagesInside' /\ RootPagesValid' /\ LiveKept
  BY <1>1, AllocFrame DEF SamePage
<1>8. RootInv'
  <2>1. n \notin free'[s]
    BY <1>1, <1>3 DEF Structure, TypeOK
  <2>2. InUse(a, Memories)'
    BY <1>1, <1>4, <1>6, <2>1 DEF InUse
  <2>3. s \in Mapped'
    BY <1>6 DEF IsAt
  <2> QED BY <1>1, <1>6, <2>2, <2>3 DEF RootInv, SamePage
<1> QED BY <1>1, <1>5, <1>6, <1>7, <1>8 DEF StepKeeps, Structure, ScanInv, ObjectInv

\* The page with the root location is fetched into memory.
LEMMA FetchRootInductive ==
  ASSUME Structure, NEW a, NEW m \in Memories, FetchRoot(a, m)
  PROVE  StepKeeps
<1> USE FirstPages
<1>0. PICK n \in Pages : /\ n = NextFree(m) /\ n \in free[m] /\ n >= 2 /\ n \in Nat
                         /\ IsAt(base[m] + n, m, n)
  BY NextFreeFacts DEF FetchRoot
<1>1. /\ AllMapped /\ IsRootLocation(a) /\ SourceAt(a) \in Files
      /\ free' = [free EXCEPT ![m] = @ \ {n}]
      /\ page' = [page EXCEPT ![m][n] = PageAt(a)]
      /\ root' = a /\ copy' = base[m] + n /\ pc' = "root"
      /\ UNCHANGED <<length, create, pagesize, todo, unallocated, base, object, roots, kept>>
  BY <1>0 DEF FetchRoot, AllocatePage
<1>2. PICK s \in Sources : \E i \in {0, 1} : IsAt(a, s, i)
  BY <1>1, RootLocationFacts
<1>3. PICK i \in {0, 1} : IsAt(a, s, i)
  BY <1>2
<1>4. SourceAt(a) = s /\ PageAt(a) = page[s][i] /\ a \in Nat /\ i \in Pages /\ s \in Files /\ s # m
  BY <1>1, <1>3, Resolve DEF Structure
<1>5. SourceAt(base[m] + n) = m /\ (base[m] + n) - base[m] = n /\ base[m] + n \in Nat
  BY <1>0, Resolve DEF Structure
<1>6. /\ page' \in [Sources -> [Pages -> Page]] /\ page'[m][n] = page[s][i]
      /\ \A r \in Sources, k \in Pages : r # m \/ k # n => page'[r][k] = page[r][k]
  BY <1>1, <1>4 DEF Structure, TypeOK
<1>7. /\ free' \in [Sources -> SUBSET Nat] /\ n \notin free'[m]
      /\ \A r \in Sources : free'[r] \subseteq free[r]
  BY <1>1 DEF Structure, TypeOK
<1>8. TypeOK'
  BY <1>1, <1>4, <1>5, <1>6, <1>7 DEF Structure, TypeOK
<1>9. /\ MetaInv' /\ SpaceInv' /\ (\A x : SourceAt(x)' = SourceAt(x)) /\ IsAt(a, s, i)'
      /\ IsAt(base[m] + n, m, n)'
      /\ \A r \in Sources : (HasHeader(r)' <=> HasHeader(r)) /\ (IsMapped(r)' <=> IsMapped(r))
  <2>1. \A r \in Sources, k \in {0, 1} : SamePage(page'[r][k], page[r][k])
    BY <1>0, <1>6 DEF SamePage
  <2>2. PICK b : b = base[m] + n
    OBVIOUS
  <2> QED BY <1>0, <1>1, <1>3, <2>1, <2>2, SpaceFrame
<1>10. \A f \in Files, k \in Pages : page'[f][k] = page[f][k]
  BY <1>6
<1>11. PagesInside' /\ RootPagesValid'
  BY <1>1, <1>9, <1>10 DEF Structure, PagesInside, RootPagesValid
<1>12. LiveKept
  BY <1>1, <1>7, <1>10, LiveFrame, RootsFrame DEF SamePage
<1>13. RootInv'
  <2>1. PICK b \in Nat : b = base[m] + n /\ copy' = b /\ SourceAt(b) = m /\ b - base[m] = n
                         /\ IsAt(b, m, n)'
    BY <1>1, <1>5, <1>9
  <2>2. PageAt(copy)' = page[s][i]
    BY <1>1, <1>6, <1>9, <2>1 DEF PageAt
  <2>3. a - base[s] = i
    BY <1>3, Resolve DEF Structure
  <2>4. PageAt(root)' = page[s][i]
    BY <1>1, <1>4, <1>9, <1>10, <2>3 DEF PageAt
  <2>5. InUse(copy, Memories)'
    BY <1>7, <2>1 DEF InUse
  <2>6. s \in Mapped' /\ IsAt(root, s, i)'
    BY <1>1, <1>9 DEF IsAt
  <2> QED BY <1>1, <2>2, <2>4, <2>5, <2>6 DEF RootInv, SamePage
<1>14. RootsKept /\ MetaKept
  BY <1>10 DEF RootsKept, MetaKept, SamePage, IsMapped
<1> QED BY <1>1, <1>8, <1>9, <1>11, <1>12, <1>13, <1>14 DEF StepKeeps, Structure, ScanInv, ObjectInv

\* Two pages that are alike.
LEMMA SameTransitive ==
  ASSUME NEW p, NEW q, NEW r, SamePage(p, q), SamePage(q, r)
  PROVE  SamePage(p, r)
  BY DEF SamePage

\* One page is replaced.
LEMMA OnePage ==
  ASSUME NEW g \in [Sources -> [Pages -> Page]], NEW m \in Sources, NEW n \in Pages, NEW p \in Page,
         NEW h, h = [g EXCEPT ![m][n] = p]
  PROVE  /\ h \in [Sources -> [Pages -> Page]] /\ h[m][n] = p
         /\ \A s \in Sources, i \in Pages : s # m \/ i # n => h[s][i] = g[s][i]
  OBVIOUS

\* Page p is written to page n of m, and the root location in page k of c is set to a.
Points(m, n, p, c, k, a) == page' = [page EXCEPT ![m][n] = p, ![c][k].root = a]

\* One page is written and the root location in another one is set.
LEMMA TwoPages ==
  ASSUME page \in [Sources -> [Pages -> Page]],
         NEW m \in Sources, NEW n \in Pages, NEW c \in Sources, NEW k \in Pages,
         m # c \/ n # k, NEW p \in Page, NEW a \in Location, Points(m, n, p, c, k, a)
  PROVE  /\ page' \in [Sources -> [Pages -> Page]]
         /\ page'[m][n] = p
         /\ page'[c][k].root = a /\ SamePage(page'[c][k], page[c][k])
         /\ \A s \in Sources, i \in Pages :
               (s # m \/ i # n) /\ (s # c \/ i # k) => page'[s][i] = page[s][i]
<1>1. PICK g : g = [page EXCEPT ![m][n] = p]
  OBVIOUS
<1>2. /\ g \in [Sources -> [Pages -> Page]] /\ g[m][n] = p
      /\ \A s \in Sources, i \in Pages : s # m \/ i # n => g[s][i] = page[s][i]
  BY <1>1, OnePage
<1>3. g[c][k] = page[c][k]
  BY <1>2
<1>4. PICK q : q = [page[c][k] EXCEPT !.root = a]
  OBVIOUS
<1>5. page' = [g EXCEPT ![c][k] = q]
  BY <1>1, <1>3, <1>4 DEF Points
<1>6. q \in Page /\ q.root = a /\ SamePage(q, page[c][k])
  BY <1>4, SetRoot
<1>7. /\ page' \in [Sources -> [Pages -> Page]] /\ page'[c][k] = q
      /\ \A s \in Sources, i \in Pages : s # c \/ i # k => page'[s][i] = g[s][i]
  BY <1>2, <1>5, <1>6, OnePage
<1> QED BY <1>2, <1>6, <1>7

\* A page is allocated and written, and the root location in memory is set to its address.
LEMMA AllocPoint ==
  ASSUME Structure, pc \in {"root", "flush_object"}, pc' \in {"flush_object", "flush_root"},
         NEW m \in Sources, NEW n \in Pages, n \in free[m], n >= 2, IsAt(base[m] + n, m, n),
         free' = [free EXCEPT ![m] = @ \ {n}],
         NEW c \in Memories, NEW k \in Pages, IsAt(copy, c, k), k \notin free[c],
         NEW p \in Page, Points(m, n, p, c, k, base[m] + n),
         SourceAt(root) \in Files => Pointer(PageAt(root).root) = None,
         UNCHANGED <<length, create, pagesize, todo, unallocated, base, root, copy, kept>>,
         object' \in Nat, roots' \in Nat
  PROVE  /\ RootsKept /\ MetaKept /\ LiveKept
         /\ TypeOK' /\ PagesInside' /\ RootPagesValid' /\ MetaInv' /\ SpaceInv' /\ ScanInv' /\ RootInv'
         /\ page'[m][n] = p /\ n \notin free'[m] /\ (m # c \/ n # k)
         /\ PageAt(copy)'.root = base[m] + n
         /\ \A x : SourceAt(x)' = SourceAt(x)
<1> USE FirstPages
<1>1. m \in Sources /\ n \in free[m] /\ n \in Pages /\ n >= 2 /\ n \in Nat
  OBVIOUS
<1>2. (m # c \/ n # k) /\ base[m] + n \in Nat /\ c \in Sources
  BY <1>1, Resolve DEF Structure
<1>3. /\ page' \in [Sources -> [Pages -> Page]] /\ page'[m][n] = p
      /\ page'[c][k].root = base[m] + n /\ SamePage(page'[c][k], page[c][k])
      /\ \A s \in Sources, i \in Pages :
            (s # m \/ i # n) /\ (s # c \/ i # k) => page'[s][i] = page[s][i]
  <2>1. page \in [Sources -> [Pages -> Page]] /\ c \in Sources /\ (m # c \/ n # k)
    BY <1>2 DEF Structure, TypeOK
  <2>2. PICK a \in Location : a = base[m] + n /\ Points(m, n, p, c, k, a)
    BY <1>2
  <2> HIDE FirstPages
  <2>3. /\ page' \in [Sources -> [Pages -> Page]] /\ page'[m][n] = p
        /\ page'[c][k].root = a /\ SamePage(page'[c][k], page[c][k])
        /\ \A s \in Sources, i \in Pages :
              (s # m \/ i # n) /\ (s # c \/ i # k) => page'[s][i] = page[s][i]
    BY <2>1, <2>2, TwoPages
  <2> QED BY <2>2, <2>3
<1>4. /\ free' \in [Sources -> SUBSET Nat] /\ n \notin free'[m]
      /\ \A r \in Sources : free'[r] \subseteq free[r]
  BY <1>1 DEF Structure, TypeOK
<1>5. TypeOK'
  <2>1. \A r \in Sources : free'[r] \subseteq 2 .. (length[r] - 1)
    BY <1>4 DEF Structure, TypeOK
  <2> QED BY <1>3, <1>4, <2>1 DEF Structure, TypeOK
<1>6. \A s \in Sources, i \in {0, 1} : SamePage(page'[s][i], page[s][i])
  <2> SUFFICES ASSUME NEW s \in Sources, NEW i \in {0, 1}
               PROVE  SamePage(page'[s][i], page[s][i])
    OBVIOUS
  <2>1. CASE s = c /\ i = k
    BY <1>3, <2>1
  <2>2. CASE s # c \/ i # k
    <3>1. page'[s][i] = page[s][i]
      BY <1>1, <1>3, <2>2
    <3> QED BY <3>1 DEF SamePage
  <2> QED BY <2>1, <2>2
<1>7. /\ MetaInv' /\ SpaceInv' /\ \A x : SourceAt(x)' = SourceAt(x)
      /\ \A x, s, i : IsAt(x, s, i)' <=> IsAt(x, s, i)
  BY <1>6, SpaceFrame
<1>8. \A f \in Files, i \in Pages : page'[f][i] = page[f][i] \/ i \in free[f]
  BY <1>1, <1>3
<1>9. RootsKept /\ MetaKept /\ PagesInside' /\ RootPagesValid' /\ LiveKept
  BY <1>4, <1>6, <1>8, AllocFrame
<1>10. PICK s \in Sources, i \in {0, 1} : IsAt(root, s, i)
  BY RootFacts
<1>11. /\ SourceAt(root) = s /\ root - base[s] = i /\ PageAt(root) = page[s][i] /\ i \in Pages
       /\ SourceAt(copy) = c /\ copy - base[c] = k /\ PageAt(copy) = page[c][k]
  BY <1>2, <1>10, Resolve DEF Structure
<1>12. PageAt(root)' = page'[s][i] /\ PageAt(copy)' = page'[c][k]
  BY <1>7, <1>11 DEF PageAt
<1>13. RootInv'
  <2>1. s \in Mapped' /\ IsAt(root, s, i)' /\ IsAt(copy, c, k)'
    BY <1>7, <1>10 DEF IsAt
  <2>2. InUse(copy, Memories)'
    BY <1>2, <1>4, <2>1 DEF InUse
  <2>3. SamePage(page[c][k], page[s][i])
    BY <1>11 DEF Structure, RootInv
  <2>4. CASE s = c /\ i = k
    <3>1. SamePage(PageAt(copy)', PageAt(root)')
      BY <1>12, <2>4 DEF SamePage
    <3>2. SourceAt(root)' \notin Files
      BY <1>7, <1>11, <2>4
    <3> QED BY <2>1, <2>2, <3>1, <3>2 DEF RootInv
  <2>5. CASE s # c \/ i # k
    <3>1. page'[s][i] = page[s][i]
      BY <1>1, <1>3, <1>11, <2>5
    <3>2. SamePage(PageAt(copy)', PageAt(root)')
      BY <1>3, <1>12, <2>3, <3>1, SameTransitive
    <3>3. SourceAt(root)' \in Files => Pointer(PageAt(root)'.root) = None
      BY <1>7, <1>11, <1>12, <3>1
    <3> QED BY <2>1, <2>2, <3>2, <3>3 DEF RootInv, Pointer
  <2> QED BY <2>4, <2>5
<1> QED BY <1>1, <1>2, <1>3, <1>4, <1>5, <1>7, <1>9, <1>12, <1>13 DEF ScanInv

\* A root object is constructed in memory.
LEMMA RootAllocInductive ==
  ASSUME Structure, NEW m \in Memories, RootAlloc(m)
  PROVE  StepKeeps
<1> USE FirstPages
<1>1. PICK c \in Memories, k \in Pages : IsAt(copy, c, k) /\ k \notin free[c]
  BY RootFacts DEF RootAlloc
<1>2. SourceAt(copy) = c /\ copy - base[c] = k /\ PageAt(copy) = page[c][k] /\ copy \in Nat
  BY <1>1, Resolve DEF Structure
<1>3. PICK n : n = NextFree(m)
  OBVIOUS
<1>4. /\ pc = "root" /\ RootPointer = None /\ CanAllocate(m, Memories) /\ AllocatePage(m)
      /\ object' = base[m] + n /\ roots' = roots + 1 /\ pc' = "flush_object"
      /\ Points(m, n, Object(roots + 1), c, k, base[m] + n)
      /\ UNCHANGED <<length, create, pagesize, todo, unallocated, base, root, copy, kept>>
  BY <1>2, <1>3 DEF RootAlloc, Points
<1>5. /\ IsAt(base[m] + n, m, n) /\ base[m] + n \in Nat /\ SourceAt(base[m] + n) = m
      /\ (base[m] + n) - base[m] = n /\ n \in Pages /\ n \in free[m] /\ n >= 2
      /\ free' = [free EXCEPT ![m] = @ \ {n}]
  BY <1>3, <1>4, NextFreeFacts, Resolve DEF Structure, AllocatePage
<1>6. roots + 1 \in Nat /\ Object(roots + 1) \in Page /\ Object(roots + 1).kind = "object"
  BY NewPages DEF Structure, TypeOK
<1>7. SourceAt(root) \in Files => Pointer(PageAt(root).root) = None
  BY <1>4 DEF Structure, RootInv, RootPointer
<1>8. /\ RootsKept /\ MetaKept /\ LiveKept
      /\ TypeOK' /\ PagesInside' /\ RootPagesValid' /\ MetaInv' /\ SpaceInv' /\ ScanInv' /\ RootInv'
      /\ n \in Pages /\ page'[m][n] = Object(roots + 1) /\ n \notin free'[m]
      /\ (m # c \/ n # k) /\ \A x : SourceAt(x)' = SourceAt(x)
  <2>1. PICK p \in Page : p = Object(roots + 1) /\ Points(m, n, p, c, k, base[m] + n)
    BY <1>4, <1>6
  <2>2. object' \in Nat /\ roots' \in Nat /\ m \in Sources
    BY <1>4, <1>5, <1>6
  <2>3. pc \in {"root", "flush_object"} /\ pc' \in {"flush_object", "flush_root"}
    BY <1>4
  <2> HIDE FirstPages
  <2> QED BY <1>1, <1>4, <1>5, <1>7, <2>1, <2>2, <2>3, AllocPoint
<1>9. ObjectInv'
  <2>1. PICK b : b = base[m] + n /\ IsAt(b, m, n) /\ SourceAt(b) = m /\ b - base[m] = n
    BY <1>5
  <2>2. object' = b /\ IsAt(object, m, n)'
    BY <1>4, <2>1 DEF IsAt, Mapped
  <2>3. object' # copy'
    BY <1>2, <1>4, <1>8, <2>1, <2>2
  <2>4. PageAt(object)' = page'[m][n]
    BY <1>4, <1>8, <2>1, <2>2 DEF PageAt
  <2>5. InUse(object, Memories)'
    BY <1>8, <2>2 DEF InUse
  <2> QED BY <1>4, <1>6, <1>8, <2>3, <2>4, <2>5 DEF ObjectInv
<1> QED BY <1>8, <1>9 DEF StepKeeps, Structure

\* The root object is written to a file.
LEMMA FlushObjectInductive ==
  ASSUME Structure, NEW f \in Files, FlushObject(f)
  PROVE  StepKeeps
<1> USE FirstPages
<1>1. PICK c \in Memories, k \in Pages : IsAt(copy, c, k) /\ k \notin free[c]
  BY RootFacts DEF FlushObject
<1>2. SourceAt(copy) = c /\ copy - base[c] = k /\ PageAt(copy) = page[c][k] /\ copy \in Nat
  BY <1>1, Resolve DEF Structure
<1>3. PICK n : n = NextFree(f)
  OBVIOUS
<1>4. pc = "flush_object" /\ CanAllocate(f, Files) /\ AllocatePage(f) /\ pc' = "flush_root"
  BY DEF FlushObject
<1>5. /\ IsAt(base[f] + n, f, n) /\ base[f] + n \in Nat /\ SourceAt(base[f] + n) = f
      /\ (base[f] + n) - base[f] = n /\ n \in Pages /\ n \in free[f] /\ n >= 2
      /\ free' = [free EXCEPT ![f] = @ \ {n}]
  BY <1>3, <1>4, NextFreeFacts, Resolve DEF Structure, AllocatePage
<1>6. /\ Points(f, n, PageAt(object), c, k, base[f] + n)
      /\ UNCHANGED <<length, create, pagesize, todo, unallocated, base, root, copy, object,
                     roots, kept>>
  BY <1>2, <1>3, <1>5 DEF FlushObject, Points
<1>7. PICK p \in Page : p = PageAt(object) /\ p.kind = "object" /\ object \in Nat /\ roots \in Nat
  <2>1. PICK s \in Memories, i \in Pages : IsAt(object, s, i)
    BY <1>4 DEF Structure, ObjectInv, InUse
  <2>2. PageAt(object) = page[s][i] /\ object \in Nat
    BY <2>1, Resolve DEF Structure
  <2> QED BY <1>4, <2>2 DEF Structure, TypeOK, ObjectInv
<1>8. SourceAt(root) \in Files => Pointer(PageAt(root).root) = None
  BY <1>4 DEF Structure, RootInv
<1>9. /\ RootsKept /\ MetaKept /\ LiveKept
      /\ TypeOK' /\ PagesInside' /\ RootPagesValid' /\ MetaInv' /\ SpaceInv' /\ ScanInv' /\ RootInv'
      /\ n \in Pages /\ n >= 2 /\ page'[f][n] = p /\ n \notin free'[f]
      /\ PageAt(copy)'.root = base[f] + n
  <2>1. Points(f, n, p, c, k, base[f] + n) /\ f \in Sources
    BY <1>6, <1>7
  <2>2. object' \in Nat /\ roots' \in Nat
    BY <1>6, <1>7
  <2>3. pc \in {"root", "flush_object"} /\ pc' \in {"flush_object", "flush_root"}
    BY <1>4
  <2> HIDE FirstPages
  <2> QED BY <1>1, <1>4, <1>5, <1>6, <1>8, <2>1, <2>2, <2>3, AllocPoint
<1>10. ObjectInv'
  <2>1. PICK b : b = base[f] + n /\ IsAt(b, f, n) /\ b \in Nat
    BY <1>5
  <2>2. f \in Mapped' /\ n \in 0 .. (length[f] - 1) /\ base[f] \in Nat /\ length[f] \in Nat
    BY <1>6, <2>1 DEF IsAt, Mapped, Structure, TypeOK
  <2>3. /\ IsMapped(f)' /\ page'[f][1].offset = base[f] /\ page'[f][1].len = length[f]
    BY <1>6, <1>9, <2>2 DEF SpaceInv, MetaInv
  <2>4. b \in base[f] .. (base[f] + length[f] - 1) /\ n = b - base[f]
    BY <2>1, <2>2
  <2>5. Refers(b, f, n)'
    BY <2>3, <2>4 DEF Refers, SliceOf
  <2>6. Live(b)'
    BY <1>7, <1>9, <2>5 DEF Live
  <2>7. PageAt(copy)'.root = b
    BY <1>9, <2>1
  <2>8. Live(PageAt(copy).root)'
    BY <2>6, <2>7 DEF Live, Refers
  <2> QED BY <1>4, <2>8 DEF ObjectInv
<1> QED BY <1>9, <1>10 DEF StepKeeps, Structure

\* A part of the root object is written to a file.
LEMMA ShortObjectInductive ==
  ASSUME Structure, NEW f \in Files, NEW p \in {Partial, Torn}, ShortObject(f, p)
  PROVE  StepKeeps
<1> USE FirstPages
<1>1. PICK n : n = NextFree(f)
  OBVIOUS
<1>2. pc = "flush_object" /\ CanAllocate(f, Files) /\ AllocatePage(f) /\ pc' = "open"
  BY DEF ShortObject
<1>3. /\ IsAt(base[f] + n, f, n) /\ base[f] + n \in Nat /\ SourceAt(base[f] + n) = f
      /\ (base[f] + n) - base[f] = n /\ n \in Pages /\ n \in free[f] /\ n >= 2
  BY <1>1, <1>2, NextFreeFacts, Resolve DEF Structure
<1>4. /\ page' = [page EXCEPT ![f][n] = p]
      /\ UNCHANGED <<length, create, pagesize, todo, unallocated, base, root, copy, object,
                     roots, kept>>
  BY <1>1, <1>3 DEF ShortObject, WritePage
<1>5. p \in Page /\ page \in [Sources -> [Pages -> Page]]
  BY NewPages DEF Structure, TypeOK
<1>6. /\ page' \in [Sources -> [Pages -> Page]]
      /\ \A s \in Sources, i \in Pages : s # f \/ i # n => page'[s][i] = page[s][i]
  BY <1>3, <1>4, <1>5, OnePage
<1>7. free' \in [Sources -> SUBSET Nat] /\ \A r \in Sources : free'[r] \subseteq free[r]
  BY <1>3 DEF AllocatePage, ShortObject, Structure, TypeOK
<1>8. TypeOK'
  BY <1>2, <1>4, <1>6, <1>7 DEF Structure, TypeOK
<1>9. \A s \in Sources, i \in {0, 1} : SamePage(page'[s][i], page[s][i])
  BY <1>3, <1>6 DEF SamePage
<1>10. MetaInv' /\ SpaceInv'
  BY <1>2, <1>4, <1>9, SpaceFrame
<1>11. RootsKept /\ MetaKept /\ PagesInside' /\ RootPagesValid' /\ LiveKept
  BY <1>3, <1>4, <1>6, <1>7, <1>9, AllocFrame
<1> QED BY <1>2, <1>8, <1>10, <1>11 DEF StepKeeps, Structure, ScanInv, RootInv, ObjectInv

\* The page with the root location is written back, all of the location or a part of it.
LEMMA WriteRootInductive ==
  ASSUME Structure, pc = "flush_root", NEW p \in Page, SamePage(p, PageAt(copy)),
         p.root \in {Half, PageAt(copy).root}, WritePage(root, p), pc' = "open",
         kept' \in Nat, UNCHANGED <<length, opened, roots>>
  PROVE  StepKeeps
<1> USE FirstPages
<1>1. PICK s \in Sources, i \in {0, 1} : IsAt(root, s, i)
  BY RootFacts
<1>2. /\ SourceAt(root) = s /\ root - base[s] = i /\ PageAt(root) = page[s][i] /\ i \in Pages
      /\ i < length[s] /\ s \in Mapped /\ length[s] \in Nat
  <2>1. SourceAt(root) = s /\ root - base[s] = i /\ PageAt(root) = page[s][i] /\ i \in Pages
    BY <1>1, Resolve DEF Structure
  <2>2. i \in 0 .. (length[s] - 1) /\ s \in Mapped
    BY <1>1 DEF IsAt
  <2>3. length[s] \in Nat
    BY DEF Structure, TypeOK
  <2> QED BY <2>1, <2>2, <2>3
<1>3. page' = [page EXCEPT ![s][i] = p] /\ page \in [Sources -> [Pages -> Page]]
  BY <1>2 DEF WritePage, Structure, TypeOK
<1>4. /\ page' \in [Sources -> [Pages -> Page]] /\ page'[s][i] = p
      /\ \A r \in Sources, k \in Pages : r # s \/ k # i => page'[r][k] = page[r][k]
  BY <1>2, <1>3, OnePage
<1>5. SamePage(p, page[s][i])
  BY <1>2, SameTransitive DEF Structure, RootInv
<1>6. \A r \in Sources, k \in Pages : SamePage(page'[r][k], page[r][k])
  BY <1>4, <1>5 DEF SamePage
<1>7. TypeOK'
  BY <1>4 DEF Structure, TypeOK, opened
<1>8. /\ MetaInv' /\ SpaceInv'
      /\ \A r \in Sources : (HasHeader(r)' <=> HasHeader(r)) /\ (IsMapped(r)' <=> IsMapped(r))
  BY <1>6, SpaceFrame DEF opened
<1>9. PagesInside'
  <2>1. length \in [Sources -> Nat] /\ length' = length
    BY DEF Structure, TypeOK
  <2>2. \A f \in Files, k \in Pages : k >= length[f] => page'[f][k] = page[f][k]
    BY <1>2, <1>4, <2>1
  <2> QED BY <2>1, <2>2 DEF Structure, PagesInside
<1>10. RootPagesValid'
  <2>1. HasHeader(s)' /\ IsMapped(s)'
    BY <1>2, <1>8 DEF Structure, SpaceInv
  <2> QED BY <1>4, <1>8, <2>1 DEF Structure, RootPagesValid
<1>11. \A a : Live(a) => Live(a)'
  <2>1. \A f \in Files : IsMapped(f) => SamePage(page[f][1], page'[f][1])
    BY <1>6 DEF SamePage
  <2>2. \A f \in Files, k \in Pages : page'[f][k].kind = page[f][k].kind
    BY <1>6 DEF SamePage
  <2>3. free' = free
    BY DEF opened
  <2> QED BY <2>1, <2>2, <2>3, LiveFrame
<1>12. LiveKept
  <2> SUFFICES ASSUME LiveInv PROVE LiveInv'
    BY DEF LiveKept
  <2>1. Live(PageAt(copy).root)
    BY DEF Structure, ObjectInv
  <2>2. ASSUME NEW f \in Files, NEW k \in {0, 1}, page'[f][k].root \notin {None, Half}
        PROVE  Live(page'[f][k].root)
    <3>1. CASE f = s /\ k = i
      BY <1>4, <2>1, <2>2, <3>1
    <3>2. CASE f # s \/ k # i
      <4>1. page'[f][k] = page[f][k]
        BY <1>4, <3>2
      <4> QED BY <2>2, <4>1 DEF LiveInv, PersistedRoots
    <3> QED BY <3>1, <3>2
  <2>3. \A a \in PersistedRoots' : Live(a)
    BY <2>2 DEF PersistedRoots
  <2> QED BY <1>11, <2>3 DEF LiveInv
<1>13. RootsKept /\ MetaKept
  <2>1. s \in Files => Pointer(page[s][i].root) = None
    BY <1>2 DEF Structure, RootInv
  <2> QED BY <1>4, <1>6, <2>1 DEF RootsKept, MetaKept
<1> QED BY <1>7, <1>8, <1>9, <1>10, <1>12, <1>13
   DEF StepKeeps, Structure, ScanInv, RootInv, ObjectInv

\* Every step keeps the invariant and the root pointers in the files.
LEMMA NextInductive ==
  ASSUME Structure, [Next]_vars
  PROVE  StepKeeps
<1> USE FirstPages
<1>1. CASE UNCHANGED vars
  <2>1. UNCHANGED <<length, page, pc, create, pagesize, todo, unallocated, base, free, root,
                    copy, object, roots, kept>>
    BY <1>1 DEF vars, opened
  <2>2. TypeOK' /\ PagesInside' /\ RootPagesValid' /\ MetaInv' /\ LiveKept
    BY <2>1 DEF Structure, TypeOK, PagesInside, RootPagesValid, HasHeader, IsMapped, MetaInv,
       LiveKept, LiveInv, PersistedRoots, Live, Refers
  <2>3. Mapped' = Mapped /\ \A a : SourceAt(a)' = SourceAt(a)
    BY <2>1 DEF Mapped, SourceAt, IsLast
  <2>4. SpaceInv' /\ ScanInv'
    BY <2>1, <2>3 DEF Structure, SpaceInv, ScanInv, IsLast, HasHeader, IsMapped
  <2>5. /\ PageAt(root)' = PageAt(root) /\ PageAt(copy)' = PageAt(copy)
        /\ PageAt(object)' = PageAt(object)
    BY <2>1, <2>3 DEF PageAt
  <2>6. \A a, S : InUse(a, S)' <=> InUse(a, S)
    BY <2>1, <2>3 DEF InUse, IsAt
  <2>7. RootInv'
    BY <2>1, <2>3, <2>5, <2>6 DEF Structure, RootInv, IsAt
  <2>8. ObjectInv'
    BY <2>1, <2>5, <2>6 DEF Structure, ObjectInv, Live, Refers, IsMapped
  <2> QED BY <2>1, <2>2, <2>4, <2>7, <2>8 DEF StepKeeps, Structure, RootsKept, MetaKept,
     SamePage, IsMapped
<1>2. CASE Opening
  <2>1. CASE \/ Crash
             \/ \E s \in Sources : ScanFails(s)
             \/ \E f \in Files : ShortHeader(f) \/ ShortMeta(f)
    BY <2>1, EndInductive
  <2>2. CASE \E s \in Sources : ScanMapped(s) \/ ScanUnallocated(s) \/ Allocate(s)
    BY <2>2, ScanMappedInductive, ScanUnallocatedInductive, AllocateInductive
  <2>3. CASE CreateAssertionFails \/ RootRead \/ FlushFails
    BY <2>3, StayInductive DEF CreateAssertionFails, RootRead, FlushFails
  <2>4. CASE \E a \in 0 .. NextOffset : RootInMemory(a) \/ \E m \in Memories : FetchRoot(a, m)
    BY <2>4, RootInMemoryInductive, FetchRootInductive
  <2>5. CASE \E m \in Memories : RootAlloc(m)
    BY <2>5, RootAllocInductive
  <2>6. CASE \E f \in Files : FlushObject(f) \/ \E p \in {Partial, Torn} : ShortObject(f, p)
    BY <2>6, FlushObjectInductive, ShortObjectInductive
  <2>7. ASSUME pc = "flush_root"
        PROVE  PageAt(copy) \in Page /\ PageAt(copy).root \in Location
    <3>1. PICK c \in Memories, k \in Pages : IsAt(copy, c, k)
      BY <2>7, RootFacts
    <3>2. PageAt(copy) = page[c][k]
      BY <3>1, Resolve DEF Structure
    <3> QED BY <3>2, PageFacts DEF Structure, TypeOK
  <2>8. CASE FlushRoot
    <3>1. kept' \in Nat
      BY <2>8 DEF FlushRoot, Structure, TypeOK
    <3> QED BY <2>7, <2>8, <3>1, WriteRootInductive DEF FlushRoot, SamePage
  <2>9. ASSUME pc = "flush_root", NEW r \in {Half, PageAt(copy).root}, ShortRoot(r)
        PROVE  StepKeeps
    <3>1. PICK q : q = [PageAt(copy) EXCEPT !.root = r]
      OBVIOUS
    <3>2. q \in Page /\ q.root = r /\ SamePage(q, PageAt(copy))
      BY <2>7, <2>9, <3>1, SetRoot
    <3>3. WritePage(root, q) /\ pc' = "open" /\ kept' \in Nat /\ UNCHANGED <<length, opened, roots>>
      BY <2>9, <3>1 DEF ShortRoot, Structure, TypeOK
    <3> QED BY <2>9, <3>2, <3>3, WriteRootInductive
  <2> QED BY <1>2, <2>1, <2>2, <2>3, <2>4, <2>5, <2>6, <2>8, <2>9 DEF Opening, ShortWrite
<1>3. CASE \E srcs \in Orders, c \in BOOLEAN, z \in PageSizes : WholeHeap(srcs) /\ Open(srcs, c, z)
  BY <1>3, OpenInductive
<1> QED BY <1>1, <1>2, <1>3 DEF StepKeeps, Next

-----------------------------------------------------------------------------

\* The metadata in the files, the address space built from it and the root pointers fit
\* together in every reachable state, whatever crashes and short writes there were.
THEOREM InductiveInvariant == Spec => []Inductive
<1>1. Inductive /\ [Next]_vars => Inductive'
  BY NextInductive DEF Inductive, StepKeeps, LiveKept
<1> QED BY <1>1, InitInductive, PTL DEF Spec

\* Every variable keeps its type; in particular the free pages lie inside of their source.
THEOREM TypeCorrect == Spec => []TypeOK
<1>1. Inductive => TypeOK
  BY DEF Inductive, Structure
<1> QED BY <1>1, InductiveInvariant, PTL

\* A root pointer in a file refers to a complete object in a file at any time, so after
\* any crash: root_alloc flushes the object before the location (librarius.rs, vos.rs).
THEOREM RootsNeverDangle == Spec => []RootNeverDangles
<1>1. Inductive => RootNeverDangles
  BY DEF Inductive, LiveInv, Live, RootNeverDangles
<1> QED BY <1>1, InductiveInvariant, PTL

\* The page of a persisted root object is in no free list (SourceAllocator::initialize).
THEOREM LivePagesKept == Spec => []LivePagesNotFree
<1>1. Inductive => LivePagesNotFree
  <2> SUFFICES ASSUME Inductive, NEW a \in PersistedRoots, NEW f \in Files, NEW n \in Pages,
                      Refers(a, f, n)
               PROVE  n \notin free[f]
    BY DEF LivePagesNotFree
  <2> USE FirstPages
  <2>1. PICK g \in Files : \E k \in Pages : Refers(a, g, k) /\ k \notin free[g]
    BY DEF Inductive, LiveInv, Live
  <2>2. PICK k \in Pages : Refers(a, g, k) /\ k \notin free[g]
    BY <2>1
  <2>3. \A h \in Files : IsMapped(h) => /\ page[h][1].offset \in Nat /\ page[h][1].len \in Nat
                                        /\ page[h][1].len = length[h]
    BY PageFacts DEF Inductive, Structure, TypeOK, MetaInv, IsMapped
  <2>4. /\ IsMapped(f) /\ a \in page[f][1].offset .. (page[f][1].offset + page[f][1].len - 1)
        /\ IsMapped(g) /\ a \in page[g][1].offset .. (page[g][1].offset + page[g][1].len - 1)
        /\ n = a - page[f][1].offset /\ k = a - page[g][1].offset
    BY <2>2 DEF Refers, SliceOf
  <2>5. f = g
    <3> SUFFICES ASSUME f # g PROVE FALSE
      OBVIOUS
    <3>1. \/ page[f][1].offset + length[f] <= page[g][1].offset
          \/ page[g][1].offset + length[g] <= page[f][1].offset
      BY <2>4 DEF Inductive, Structure, MetaInv
    <3> QED BY <2>3, <2>4, <3>1
  <2> QED BY <2>2, <2>4, <2>5
<1> QED BY <1>1, InductiveInvariant, PTL

\* Nothing is ever written behind the end of a file.
THEOREM NothingBehindTheEnd == Spec => []PagesInside
<1>1. Inductive => PagesInside
  BY DEF Inductive, Structure
<1> QED BY <1>1, InductiveInvariant, PTL

\* The address space resolves what it maps.
LEMMA StructureResolves == Structure => AddressesResolve
<1> SUFFICES ASSUME Structure, NEW s \in Mapped, NEW n \in 0 .. (length[s] - 1)
             PROVE  SourceAt(base[s] + n) = s
  BY DEF AddressesResolve
<1>1. s \in Sources /\ IsAt(base[s] + n, s, n)
  BY DEF Mapped, IsAt
<1> QED BY <1>1, Resolve DEF Structure

\* with_source finds the source of every address of every page that is mapped: no two
\* sources of a heap share an address (las.rs).
THEOREM EveryAddressResolves == Spec => []AddressesResolve
<1>1. Inductive => AddressesResolve
  BY StructureResolves DEF Inductive
<1> QED BY <1>1, InductiveInvariant, PTL

\* A root pointer in a file is never replaced by another, in this or a later open.
THEOREM RootsNeverReplaced == Spec => RootNotReplaced
<1>1. Inductive /\ [Next]_vars =>
         [\A f \in Files, n \in {0, 1} :
             Pointer(page[f][n].root) # None => page'[f][n].root = page[f][n].root]_vars
  BY NextInductive DEF Inductive, StepKeeps, RootsKept
<1> QED BY <1>1, InductiveInvariant, PTL DEF Spec, RootNotReplaced

-----------------------------------------------------------------------------
(***************************************************************************)
(* Power failures.                                                         *)
(***************************************************************************)

\* No step of the store changes the length of a source.
LEMMA LengthKept == [Next]_vars => length' = length
<1>1. Opening => length' = length
  BY DEF Opening, Crash, ScanMapped, ScanUnallocated, ScanFails, Allocate, CreateAssertionFails,
     RootInMemory, FetchRoot, RootRead, RootAlloc, FlushObject, FlushRoot, FlushFails,
     ShortWrite, ShortHeader, ShortMeta, ShortObject, ShortRoot
<1> QED BY <1>1 DEF Next, Open, vars

\* What is on the disk can still be read after a step of the store, which changes no
\* page of the disk and keeps the metadata that the disk may have.
LEMMA NextPower ==
  ASSUME PowerInductive, Next,
         disk' = [s \in Sources |-> IF s \in Files THEN disk[s] ELSE page'[s]]
  PROVE  PowerInductive'
<1> USE FirstPages
<1>1. Structure' /\ MetaKept /\ length' = length
  BY NextInductive, LengthKept DEF PowerInductive, StepKeeps
<1>2. \A f \in Files : disk'[f] = disk[f]
  OBVIOUS
<1>3. disk' \in [Sources -> [Pages -> Page]]
  <2>1. page' \in [Sources -> [Pages -> Page]] /\ disk \in [Sources -> [Pages -> Page]]
    BY <1>1 DEF Structure, TypeOK, PowerInductive, Readable
  <2> QED BY <2>1
<1>4. \A f \in Files : disk'[f][1].kind = "meta" => SamePage(disk'[f][1], page'[f][1])
  BY <1>1, <1>2 DEF PowerInductive, Readable, MetaKept, SamePage, IsMapped
<1> QED BY <1>1, <1>2, <1>3, <1>4 DEF PowerInductive, Readable

\* A page that is written back is one of the file.
LEMMA WriteBackPower ==
  ASSUME PowerInductive, NEW f \in Files, NEW n \in Pages, WriteBack(f, n)
  PROVE  PowerInductive'
<1> USE FirstPages
<1>1. Structure' /\ length' = length /\ page' = page
  BY NextInductive DEF WriteBack, PowerInductive, StepKeeps, vars
<1>2. page \in [Sources -> [Pages -> Page]] /\ disk \in [Sources -> [Pages -> Page]]
  BY DEF PowerInductive, Structure, TypeOK, Readable
<1>3. /\ disk' \in [Sources -> [Pages -> Page]] /\ disk'[f][n] = page[f][n]
      /\ \A s \in Sources, i \in Pages : s # f \/ i # n => disk'[s][i] = disk[s][i]
  BY <1>2, OnePage DEF WriteBack
<1>4. \A g \in Files, i \in Pages : disk'[g][i] \in {disk[g][i], page[g][i]}
  BY <1>3
<1>5. ASSUME NEW g \in Files, NEW i \in Pages, i >= length[g] PROVE disk'[g][i] = Zero
  <2>1. disk[g][i] = Zero /\ page[g][i] = Zero
    BY <1>5 DEF PowerInductive, Structure, PagesInside, Readable
  <2> QED BY <1>4, <2>1
<1>6. \A g \in Files : /\ disk'[g][0].root # None => disk'[g][0].kind = "header"
                       /\ disk'[g][1].root # None => disk'[g][1].kind = "meta"
                       /\ disk'[g][1].kind = "meta" => SamePage(disk'[g][1], page[g][1])
  BY <1>4 DEF PowerInductive, Structure, RootPagesValid, HasHeader, IsMapped, Readable, SamePage
<1> QED BY <1>1, <1>3, <1>5, <1>6 DEF PowerInductive, Readable

\* After a power failure the disk is what the files have.
LEMMA PowerFailPower ==
  ASSUME PowerInductive, PowerFail
  PROVE  PowerInductive'
<1> USE FirstPages
<1>1. Structure'
  BY ForgetStructure DEF PowerFail, PowerInductive, Structure
<1>2. disk' = page'
  BY DEF PowerFail
<1>3. Readable(disk)'
  BY <1>1, <1>2 DEF Readable, Structure, TypeOK, PagesInside, RootPagesValid, HasHeader, IsMapped,
     SamePage
<1> QED BY <1>1, <1>3 DEF PowerInductive

\* Whatever pages the operating system has written back when the power fails, and
\* however often it fails, the metadata in the files fits together, and so does the
\* address space that is built from it.
THEOREM PowerInvariant == PowerSpec => []PowerInductive
<1> USE FirstPages
<1>1. PowerInit => PowerInductive
  <2> SUFFICES ASSUME Init, disk = page PROVE Structure /\ Readable(disk)
    BY DEF PowerInit, PowerInductive
  <2>1. Structure
    BY InitInductive DEF Inductive
  <2> QED BY <2>1 DEF Readable, Structure, TypeOK, PagesInside, RootPagesValid, HasHeader, IsMapped,
        SamePage
<1>2. PowerInductive /\ [PowerNext]_powerVars => PowerInductive'
  <2> SUFFICES ASSUME PowerInductive, [PowerNext]_powerVars PROVE PowerInductive'
    OBVIOUS
  <2>1. CASE UNCHANGED powerVars
    <3>1. Structure' /\ UNCHANGED <<length, page, disk>>
      BY <2>1, NextInductive DEF powerVars, vars, PowerInductive, StepKeeps
    <3> QED BY <3>1 DEF PowerInductive, Readable
  <2> QED BY <2>1, NextPower, WriteBackPower, PowerFailPower DEF PowerNext
<1> QED BY <1>1, <1>2, PTL DEF PowerSpec

\* After power failures, too, with_source finds the source of every address of every
\* page that is mapped (las.rs): Allocate writes the metadata of one file at a time, and
\* what reaches the disk of it never makes two slices overlap.
THEOREM AddressesSurvivePowerFailure == PowerSpec => []AddressesResolve
<1>1. PowerInductive => AddressesResolve
  BY StructureResolves DEF PowerInductive
<1> QED BY <1>1, PowerInvariant, PTL

=============================================================================
