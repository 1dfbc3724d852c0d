-------------------------- MODULE AllocatorProofs --------------------------
(***************************************************************************)
(* Proofs for Allocator: slices of memory never overlap and never leave    *)
(* their page, for any number of allocators and sources, any page size     *)
(* and any requests.                                                       *)
(***************************************************************************)
EXTENDS Allocator, TLAPS

-----------------------------------------------------------------------------
(***************************************************************************)
(* The pages of the sources.                                               *)
(***************************************************************************)

\* Whole pages fit into the length they were counted from.
LEMMA WholePages ==
  ASSUME NEW l \in Nat, NEW s \in Nat \ {0}
  PROVE  l \div s \in Nat /\ (l \div s) * s <= l
  OBVIOUS

\* A remainder is a number.
LEMMA Remainder ==
  ASSUME NEW l \in Nat, NEW s \in Nat \ {0}
  PROVE  l % s \in Nat
  OBVIOUS

\* A page that comes later begins behind the end of an earlier one.
LEMMA PageStep ==
  ASSUME NEW i \in Nat, NEW j \in Nat, i < j, NEW s \in Nat
  PROVE  i * s + s <= j * s
<1>1. PICK d \in Nat : j = i + 1 + d
  OBVIOUS
<1>2. j * s = i * s + s + d * s /\ d * s \in Nat /\ i * s \in Nat
  BY <1>1
<1> QED BY <1>2

\* An address of a page is the address of its source and a number of pages.
LEMMA PageFacts ==
  ASSUME NEW m \in Memories, NEW p \in Pages(m)
  PROVE  /\ p \in Nat
         /\ Offset[m] <= p /\ p + PageSize <= Offset[m] + Length[m]
         /\ \E i \in Nat : p = Offset[m] + i * PageSize
<1> USE AllocatorAssumption
<1> DEFINE k == Length[m] \div PageSize
<1>1. k \in Nat /\ k * PageSize <= Length[m] /\ k * PageSize \in Nat
  BY WholePages
<1>2. PICK i \in 2 .. (k - 1) : p = Offset[m] + i * PageSize
  BY DEF Pages
<1>3. i \in Nat /\ i < k /\ i * PageSize \in Nat
  BY <1>1, <1>2
<1>4. i * PageSize + PageSize <= k * PageSize
  BY <1>1, <1>3, PageStep
<1> HIDE DEF k
<1> QED BY <1>1, <1>2, <1>3, <1>4

\* Different pages do not overlap, whether they are in one source or in two that are
\* mapped to different slices of the address space.
LEMMA PagesApart ==
  ASSUME NEW m \in Memories, NEW n \in Memories, NEW p \in Pages(m), NEW q \in Pages(n),
         p # q
  PROVE  p + PageSize <= q \/ q + PageSize <= p
<1> USE AllocatorAssumption
<1>1. /\ p \in Nat /\ q \in Nat
      /\ Offset[m] <= p /\ p + PageSize <= Offset[m] + Length[m]
      /\ Offset[n] <= q /\ q + PageSize <= Offset[n] + Length[n]
  BY PageFacts
<1>2. CASE m # n
  BY <1>1, <1>2
<1>3. CASE m = n
  <2>1. PICK i \in Nat : p = Offset[m] + i * PageSize
    BY PageFacts
  <2>2. PICK j \in Nat : q = Offset[m] + j * PageSize
    BY <1>3, PageFacts
  <2>3. i * PageSize \in Nat /\ j * PageSize \in Nat /\ i # j
    BY <2>1, <2>2
  <2>4. CASE i < j
    BY <2>1, <2>2, <2>3, <2>4, PageStep
  <2>5. CASE j < i
    BY <2>1, <2>2, <2>3, <2>5, PageStep
  <2> QED BY <2>3, <2>4, <2>5
<1> QED BY <1>2, <1>3

\* A page that is still free overlaps nothing that lies in a taken page.
LEMMA FreePageApart ==
  ASSUME Inductive, NEW m \in Memories, NEW p \in free[m], NEW x \in Slice, InTakenPage(x)
  PROVE  p + PageSize <= x.offset \/ x.offset + x.len <= p
<1> USE AllocatorAssumption
<1>0. PICK n \in Memories : \E q \in Pages(n) \ free[n] :
         q <= x.offset /\ x.offset + x.len <= q + PageSize
  BY DEF InTakenPage
<1>1. PICK q \in Pages(n) \ free[n] :
         q <= x.offset /\ x.offset + x.len <= q + PageSize
  BY <1>0
<1>2. p \in Pages(m)
  BY DEF Inductive
<1>3. p # q
  <2>1. CASE m = n
    BY <1>1, <2>1
  <2>2. CASE m # n
    <3>1. /\ p \in Nat /\ q \in Nat
          /\ Offset[m] <= p /\ p + PageSize <= Offset[m] + Length[m]
          /\ Offset[n] <= q /\ q + PageSize <= Offset[n] + Length[n]
      BY <1>1, <1>2, PageFacts
    <3> QED BY <2>2, <3>1
  <2> QED BY <2>1, <2>2
<1>4. p + PageSize <= q \/ q + PageSize <= p
  BY <1>1, <1>2, <1>3, PagesApart
<1>5. p \in Nat /\ q \in Nat /\ x.offset \in Nat /\ x.len \in Nat
  BY <1>1, <1>2, PageFacts DEF Slice
<1> QED BY <1>1, <1>4, <1>5

-----------------------------------------------------------------------------
(***************************************************************************)
(* The steps.                                                              *)
(***************************************************************************)

\* The invariant holds when the sources have just been initialized.
LEMMA InitInductive == Init => Inductive
<1> SUFFICES ASSUME Init PROVE Inductive
  OBVIOUS
<1>1. free \in [Memories -> SUBSET Nat]
  BY PageFacts DEF Init
<1> QED BY <1>1 DEF Init, Inductive, TypeOK, SlicesDisjoint

\* What is in a taken page stays there when the free lists do not grow.
LEMMA TakenStays ==
  ASSUME \A m \in Memories : free'[m] \subseteq free[m], NEW x, InTakenPage(x)
  PROVE  InTakenPage(x)'
  BY DEF InTakenPage

\* A request that begins keeps the invariant, and so does one that ends with an error.
LEMMA RequestInductive ==
  ASSUME Inductive, NEW a \in Allocators,
         \/ \E n \in Sizes : Alloc(a, n)
         \/ NoPage(a) \/ TooLarge(a)
  PROVE  Inductive'
<1> USE AllocatorAssumption
<1>1. UNCHANGED <<free, active, out>>
  BY DEF Alloc, NoPage, TooLarge, Fails
<1>2. req' \in [Allocators -> [want : Nat, size : Nat] \cup {None}]
  <2>1. \A n \in Sizes : n \in Nat /\ U32(n) \in Nat
    BY Remainder DEF U32
  <2>2. \A n \in Sizes : [want |-> n + Overhead[a], size |-> U32(n) + Overhead[a]]
                             \in [want : Nat, size : Nat]
    BY <2>1
  <2>3. CASE \E n \in Sizes : Alloc(a, n)
    BY <2>2, <2>3 DEF Inductive, TypeOK, Alloc
  <2>4. CASE NoPage(a) \/ TooLarge(a)
    BY <2>4 DEF Inductive, TypeOK, NoPage, TooLarge, Fails
  <2> QED BY <2>3, <2>4
<1>3. full' \in [Allocators -> BOOLEAN]
  BY DEF Inductive, TypeOK, Alloc, NoPage, TooLarge, Fails
<1>4. \A b \in Allocators : req'[b] # None /\ full'[b] => req[b] # None /\ full[b]
  BY DEF Inductive, TypeOK, Alloc, NoPage, TooLarge, Fails
<1>5. TypeOK'
  <2>1. error' \in [Allocators -> {None, "NoAvailableMemory", "AllocationTooLarge"}]
    BY DEF Inductive, TypeOK, Alloc, NoPage, TooLarge, Fails
  <2> QED BY <1>1, <1>2, <1>3, <2>1 DEF Inductive, TypeOK
<1>6. SlicesDisjoint'
  BY <1>1 DEF Inductive, SlicesDisjoint, Disjoint
<1>7. \A x : InTakenPage(x)' <=> InTakenPage(x)
  BY <1>1 DEF InTakenPage
<1> QED BY <1>1, <1>4, <1>5, <1>6, <1>7 DEF Inductive


\* Taking a page keeps the invariant: nobody has memory in a page that is free.
LEMMA TakePageInductive ==
  ASSUME Inductive, NEW a \in Allocators, NEW m \in Memories, TakePage(a, m)
  PROVE  Inductive'
<1> USE AllocatorAssumption
<1>1. PICK p \in free[m] :
        /\ free' = [free EXCEPT ![m] = @ \ {p}]
        /\ active' = [active EXCEPT ![a] = [offset |-> p, len |-> PageSize]]
  BY DEF TakePage
<1>2. full' = [full EXCEPT ![a] = TRUE] /\ UNCHANGED <<req, out, error>>
  BY DEF TakePage
<1> DEFINE new == [offset |-> p, len |-> PageSize]
<1>3. p \in Pages(m) /\ p \in Nat /\ new \in Slice
  BY PageFacts DEF Inductive, Slice
<1>4. /\ active'[a] = new /\ new # None
      /\ \A b \in Allocators : b # a => active'[b] = active[b]
      /\ free'[m] = free[m] \ {p}
      /\ \A n \in Memories : free'[n] \subseteq free[n]
  BY <1>1, <1>3 DEF Inductive, TypeOK, Slice
<1>5. TypeOK'
  <2>1. free' \in [Memories -> SUBSET Nat]
    BY <1>1 DEF Inductive, TypeOK
  <2>2. active' \in [Allocators -> Slice \cup {None}]
    BY <1>1, <1>3 DEF Inductive, TypeOK
  <2> QED BY <1>2, <2>1, <2>2 DEF Inductive, TypeOK
<1>6. InTakenPage(new)'
  BY <1>3, <1>4 DEF InTakenPage
<1>7. \A x \in Slice : InTakenPage(x) => Disjoint(x, new) /\ Disjoint(new, x)
  <2> SUFFICES ASSUME NEW x \in Slice, InTakenPage(x)
               PROVE  Disjoint(x, new) /\ Disjoint(new, x)
    OBVIOUS
  <2>1. p + PageSize <= x.offset \/ x.offset + x.len <= p
    BY FreePageApart
  <2> QED BY <2>1 DEF Disjoint
<1>8. \A x \in out : InTakenPage(x) /\ Disjoint(x, new)
  <2> SUFFICES ASSUME NEW x \in out PROVE InTakenPage(x) /\ Disjoint(x, new)
    OBVIOUS
  <2>1. InTakenPage(x) /\ x.offset \in Nat /\ x.len \in Nat
    BY DEF Inductive, TypeOK
  <2> DEFINE y == [offset |-> x.offset, len |-> x.len]
  <2>2. y \in Slice /\ y.offset = x.offset /\ y.len = x.len
    BY <2>1 DEF Slice
  <2>3. InTakenPage(y)
    BY <2>1, <2>2 DEF InTakenPage
  <2>4. Disjoint(y, new)
    BY <1>7, <2>2, <2>3
  <2> QED BY <2>1, <2>2, <2>4 DEF Disjoint
<1>9. \A b \in Allocators : b # a /\ active[b] # None =>
         /\ InTakenPage(active[b]) /\ active[b] \in Slice
         /\ Disjoint(active[b], new) /\ Disjoint(new, active[b])
  BY <1>7 DEF Inductive, TypeOK
<1> HIDE DEF new
<1>10. SlicesDisjoint'
  <2>1. \A x, y \in out : x # y => Disjoint(x, y)
    BY DEF Inductive, SlicesDisjoint
  <2>2. \A x \in out, b \in Allocators : active'[b] # None => Disjoint(x, active'[b])
    BY <1>4, <1>8 DEF Inductive, SlicesDisjoint
  <2>3. \A b, c \in Allocators : b # c /\ active'[b] # None /\ active'[c] # None =>
           Disjoint(active'[b], active'[c])
    BY <1>4, <1>9 DEF Inductive, SlicesDisjoint
  <2> QED BY <1>2, <2>1, <2>2, <2>3 DEF SlicesDisjoint, Disjoint
<1>11. \A b \in Allocators : active'[b] # None => InTakenPage(active[b])'
  BY <1>4, <1>6, <1>9, TakenStays
<1>12. \A x \in out' : InTakenPage(x)'
  BY <1>2, <1>4, <1>8, TakenStays
<1>13. \A b \in Allocators : req'[b] # None /\ full'[b] =>
          active'[b] # None /\ active'[b].len = PageSize
  BY <1>2, <1>4 DEF Inductive, TypeOK, new
<1>14. \A n \in Memories : free'[n] \subseteq Pages(n)
  BY <1>4 DEF Inductive
<1> QED BY <1>5, <1>10, <1>11, <1>12, <1>13, <1>14 DEF Inductive

\* Handing out the front of a page keeps the invariant.
LEMMA ConsumeInductive ==
  ASSUME Inductive, NEW a \in Allocators, Consume(a)
  PROVE  Inductive'
<1> USE AllocatorAssumption
<1>1. PICK o \in Nat, l \in Nat, w \in Nat, s \in Nat :
        /\ active[a] = [offset |-> o, len |-> l] /\ active[a] # None
        /\ req[a] = [want |-> w, size |-> s] /\ req[a] # None
        /\ s <= l
  BY DEF Inductive, TypeOK, Slice, Consume, Fits
<1> DEFINE x == [offset |-> o, len |-> s, want |-> w]
           rest == [offset |-> o + s, len |-> l - s]
<1>2. /\ active' = [active EXCEPT ![a] = rest]
      /\ out' = out \cup {x}
      /\ req' = [req EXCEPT ![a] = None]
      /\ UNCHANGED <<free, full, error>>
  BY <1>1 DEF Consume
<1>3. l - s \in Nat /\ rest \in Slice /\ rest # None
  BY <1>1 DEF Slice
<1>4. TypeOK'
  BY <1>1, <1>2, <1>3 DEF Inductive, TypeOK
<1>5. /\ active'[a] = rest /\ req'[a] = None
      /\ \A b \in Allocators : b # a => active'[b] = active[b] /\ req'[b] = req[b]
  BY <1>2, <1>3 DEF Inductive, TypeOK
<1>6. InTakenPage(active[a]) /\ active[a].offset = o /\ active[a].len = l
  BY <1>1 DEF Inductive
<1>7. InTakenPage(x)' /\ InTakenPage(rest)'
  <2>1. PICK m \in Memories : \E p \in Pages(m) \ free[m] : p <= o /\ o + l <= p + PageSize
    BY <1>6 DEF InTakenPage
  <2>2. PICK p \in Pages(m) \ free[m] : p <= o /\ o + l <= p + PageSize
    BY <2>1
  <2>3. p \in Nat
    BY <2>2, PageFacts
  <2>4. /\ p <= o /\ o + s <= p + PageSize
        /\ p <= o + s /\ (o + s) + (l - s) <= p + PageSize
    BY <1>1, <2>2, <2>3
  <2> QED BY <1>2, <2>2, <2>4 DEF InTakenPage
<1>8. \A y : y.offset \in Nat /\ y.len \in Nat =>
         /\ Disjoint(y, active[a]) =>
               Disjoint(y, x) /\ Disjoint(x, y) /\ Disjoint(y, rest) /\ Disjoint(rest, y)
         /\ Disjoint(x, rest)
  BY <1>1, <1>6 DEF Disjoint
<1> HIDE DEF x, rest
<1>9. SlicesDisjoint'
  <2>1. \A y \in out : y.offset \in Nat /\ y.len \in Nat /\ Disjoint(y, active[a])
    BY <1>1 DEF Inductive, TypeOK, SlicesDisjoint
  <2>2. \A b \in Allocators : b # a /\ active[b] # None =>
           /\ active[b].offset \in Nat /\ active[b].len \in Nat
           /\ Disjoint(active[b], active[a])
    BY <1>1 DEF Inductive, TypeOK, Slice, SlicesDisjoint
  <2>3. \A y, z \in out' : y # z => Disjoint(y, z)
    BY <1>2, <1>8, <2>1 DEF Inductive, SlicesDisjoint
  <2>4. Disjoint(x, rest)
    BY <1>1, <1>6, <1>8
  <2>5. \A y \in out', b \in Allocators : active'[b] # None => Disjoint(y, active'[b])
    <3>1. \A b \in Allocators : b # a /\ active[b] # None => Disjoint(x, active[b])
      BY <1>8, <2>2
    <3>2. \A y \in out : Disjoint(y, rest)
      BY <1>8, <2>1
    <3> QED BY <1>2, <1>5, <2>4, <3>1, <3>2 DEF Inductive, SlicesDisjoint
  <2>6. \A b, c \in Allocators : b # c /\ active'[b] # None /\ active'[c] # None =>
           Disjoint(active'[b], active'[c])
    <3>1. \A b \in Allocators : b # a /\ active[b] # None =>
             Disjoint(active[b], rest) /\ Disjoint(rest, active[b])
      BY <1>8, <2>2
    <3> QED BY <1>5, <3>1 DEF Inductive, SlicesDisjoint
  <2> QED BY <2>3, <2>5, <2>6 DEF SlicesDisjoint, Disjoint
<1>10. \A n \in Memories : free'[n] \subseteq free[n]
  BY <1>2
<1>11. \A b \in Allocators : active'[b] # None => InTakenPage(active[b])'
  BY <1>5, <1>7, <1>10, TakenStays DEF Inductive
<1>12. \A y \in out' : InTakenPage(y)'
  BY <1>2, <1>7, <1>10, TakenStays DEF Inductive
<1> QED BY <1>2, <1>4, <1>5, <1>9, <1>11, <1>12 DEF Inductive

\* Giving up what is left of a page keeps the invariant.
LEMMA GiveUpInductive ==
  ASSUME Inductive, NEW a \in Allocators, Discard(a) \/ Drop(a)
  PROVE  Inductive'
<1>1. /\ active' = [active EXCEPT ![a] = None] /\ UNCHANGED <<free, req, full, out, error>>
      /\ req[a] # None => ~full[a]
  BY DEF Discard, Drop
<1>2. TypeOK'
  BY <1>1 DEF Inductive, TypeOK
<1>3. /\ \A b \in Allocators : active'[b] # None => b # a /\ active'[b] = active[b]
      /\ \A b \in Allocators : b # a => active'[b] = active[b]
  BY <1>1 DEF Inductive, TypeOK
<1>4. \A x : InTakenPage(x)' <=> InTakenPage(x)
  BY <1>1 DEF InTakenPage
<1>5. SlicesDisjoint'
  BY <1>1, <1>3 DEF Inductive, SlicesDisjoint, Disjoint
<1> QED BY <1>1, <1>2, <1>3, <1>4, <1>5 DEF Inductive

\* Every step keeps the invariant.
LEMMA NextInductive == Inductive /\ [Next]_vars => Inductive'
<1> SUFFICES ASSUME Inductive, [Next]_vars PROVE Inductive'
  OBVIOUS
<1>1. CASE UNCHANGED vars
  BY <1>1 DEF vars, Inductive, TypeOK, InTakenPage, SlicesDisjoint, Disjoint
<1>2. CASE Next
  BY <1>2, RequestInductive, TakePageInductive, ConsumeInductive, GiveUpInductive DEF Next
<1> QED BY <1>1, <1>2

-----------------------------------------------------------------------------

\* The free lists, the pages in use and the slices that were handed out fit together in
\* every reachable state of the allocators (vos.rs, las.rs, source/mod.rs).
THEOREM InductiveInvariant == Spec => []Inductive
<1> QED BY InitInductive, NextInductive, PTL DEF Spec

\* Every variable keeps its type.
THEOREM TypeCorrect == Spec => []TypeOK
<1>1. Inductive => TypeOK
  BY DEF Inductive
<1> QED BY <1>1, InductiveInvariant, PTL

\* There is only one live mutable reference for a memory location: no two slices
\* that GenericAllocator::alloc handed out overlap.
THEOREM NoOverlap == Spec => []SlicesDisjoint
<1>1. Inductive => SlicesDisjoint
  BY DEF Inductive
<1> QED BY <1>1, InductiveInvariant, PTL

\* A slice lies in one page, so that LogicalSlice::to_page can translate it.
THEOREM StaysInPage == Spec => []SlicesInPage
<1>1. Inductive => SlicesInPage
  BY DEF Inductive, InTakenPage, SlicesInPage
<1> QED BY <1>1, InductiveInvariant, PTL

\* AllocationTooLarge is the answer to a request for more than a page only.
THEOREM TooLargeIsTooLarge == Spec => TooLargeOnlyIfLarger
<1>1. Inductive /\ [Next]_vars =>
         [\A a \in Allocators : error[a] = None /\ error'[a] = "AllocationTooLarge" =>
             req[a].size > PageSize]_vars
  <2> SUFFICES ASSUME Inductive, Next, NEW a \in Allocators,
                      error[a] = None, error'[a] = "AllocationTooLarge"
               PROVE  req[a].size > PageSize
    OBVIOUS
  <2>1. TooLarge(a)
    <3>1. PICK b \in Allocators :
             \/ \E n \in Sizes : Alloc(b, n)
             \/ \E m \in Memories : TakePage(b, m)
             \/ NoPage(b) \/ Consume(b) \/ Discard(b) \/ TooLarge(b) \/ Drop(b)
      BY DEF Next
    <3>2. error' # error
      BY AllocatorAssumption
    <3>3. (\E n \in Sizes : Alloc(b, n)) \/ NoPage(b) \/ TooLarge(b)
      BY <3>1, <3>2 DEF TakePage, Consume, Discard, Drop
    <3>4. /\ ~ \E n \in Sizes : Alloc(b, n)
          /\ ~ NoPage(b)
          /\ a = b
      BY <3>3, AllocatorAssumption DEF Inductive, TypeOK, Alloc, NoPage, TooLarge, Fails
    <3> QED BY <3>3, <3>4
  <2>2. req[a] # None /\ active[a] # None /\ full[a] /\ ~(req[a].size <= active[a].len)
    BY <2>1 DEF TooLarge, Fits
  <2>3. active[a].len = PageSize /\ req[a].size \in Nat
    BY <2>2 DEF Inductive, TypeOK
  <2> QED BY <2>2, <2>3, AllocatorAssumption
<1> QED BY <1>1, InductiveInvariant, PTL DEF Spec, TooLargeOnlyIfLarger


============================================================================
