------------------------------- MODULE Layout -------------------------------
(***************************************************************************)
(* Addresses: LogicalSlice and its translation to a page of a source       *)
(* (src/src/las.rs), align_up and align_down (src/src/utils.rs), and the   *)
(* words that UntypedPointer and Version pack an address, a tag and a      *)
(* version number into (src/src/vos.rs).                                   *)
(*                                                                         *)
(* The slices are those that the allocators of Allocator have handed out.  *)
(* The widths are scaled down: AddressBits stands for 54, CountBits for    *)
(* the 8 bits of the reference count; the 2 tag bits are between them.     *)
(***************************************************************************)
EXTENDS Allocator

CONSTANTS AddressBits, CountBits

\* LogicalAddressSpace.sources is a map from offsets to sources.
ASSUME LayoutAssumption ==
    /\ AddressBits \in Nat \ {0} /\ CountBits \in Nat \ {0}
    /\ \A m, n \in Memories : m # n => Offset[m] # Offset[n]

-----------------------------------------------------------------------------
(***************************************************************************)
(* The bitwise operators of usize. They are recursive functions, about     *)
(* which theorems can be proved; MCLayout compares them with Bitwise.      *)
(***************************************************************************)

PowerOfTwo[n \in Nat] == IF n = 0 THEN 1 ELSE 2 * PowerOfTwo[n - 1]

CommonBits[p \in Nat \X Nat] ==
    IF p[1] = 0 \/ p[2] = 0 THEN 0
    ELSE 2 * CommonBits[<<p[1] \div 2, p[2] \div 2>>] + (p[1] % 2) * (p[2] % 2)

BitAnd(x, y) == CommonBits[<<x, y>>]
BitOr(x, y) == (x + y) - BitAnd(x, y)

-----------------------------------------------------------------------------
(***************************************************************************)
(* Alignment, on words of the width of usize.                              *)
(***************************************************************************)

Word == PowerOfTwo[AddressBits + 2 + CountBits]
Complement(n) == (Word - 1) - n

\* Deliberately wrong, for the mutation runs: the alignment is added in full.
AlignUpTooFar(v, a) == BitAnd(v + a, Complement(a - 1))

align_up(v, a) == BitAnd((v + a) - 1, Complement(a - 1))
align_down(v, a) == BitAnd(v, Complement(a - 1))

-----------------------------------------------------------------------------
(***************************************************************************)
(* Slices and pages.                                                       *)
(***************************************************************************)

\* with_source: the source that is mapped last at or before an address.
SourceAt(a) ==
    CHOOSE m \in Memories : /\ Offset[m] <= a
                            /\ \A n \in Memories : Offset[n] <= a => Offset[n] <= Offset[m]

\* LogicalSlice::to_page, without its assertion.
ToPage(s) ==
    [offset |-> align_down(s.offset - Offset[SourceAt(s.offset)], PageSize),
     len |-> align_up(s.len, PageSize)]

\* LogicalSlice::page_offset
PageOffset(s, p) == s.offset - Offset[SourceAt(s.offset)] - p.offset

\* LogicalSlice::page_aligned
PageAligned(s) ==
    [offset |-> align_down(s.offset, PageSize), len |-> align_up(s.len, PageSize)]

-----------------------------------------------------------------------------
(***************************************************************************)
(* UntypedPointer and Version.                                             *)
(***************************************************************************)

TypeMask == 3 * PowerOfTwo[AddressBits]
CountMask == (PowerOfTwo[CountBits] - 1) * PowerOfTwo[AddressBits + 2]
AddressMask == Complement(BitOr(TypeMask, CountMask))

PointerBlock == PowerOfTwo[AddressBits]
NewByte(a) == a

\* Deliberately wrong, for the mutation runs: the tag is forgotten.
NewBlockUntagged(a) == a

NewBlock(a) == BitOr(a, PointerBlock)
TypeBits(w) == BitAnd(w, TypeMask)
IsByteAddressable(w) == TypeBits(w) = 0
IsBlock(w) == TypeBits(w) = PointerBlock

\* Deliberately wrong, for the mutation runs: the tag is left in the address.
AddressWithTag(w) == BitAnd(w, Complement(CountMask))

\* UntypedPointer::address; 0 is no address (is_some).
Address(w) == BitAnd(w, AddressMask)

\* Version: the top bit tells a version number from a pointer to one.
VersionTypeMask == Word \div 2
NewIndirect(w) == BitOr(w, VersionTypeMask)
IsIndirect(v) == BitAnd(v, VersionTypeMask) # 0
DataBits(v) == BitAnd(v, Complement(VersionTypeMask))

\* What the address a is stored in: a pointer to memory, a pointer to a block, or
\* the version word of an object.
WordKinds == {"byte", "block", "version"}

StoreWord(kind, a) ==
    CASE kind = "byte" -> NewByte(a)
      [] kind = "block" -> NewBlock(a)
      [] kind = "version" -> NewIndirect(NewByte(a))

PointerOf(kind, w) == IF kind = "version" THEN DataBits(w) ELSE w

\* UntypedPointer::into_stored_slice of the pointer in a word.
LoadWord(kind, w, len) == [offset |-> Address(PointerOf(kind, w)), len |-> len]

-----------------------------------------------------------------------------
(***************************************************************************)
(* Properties.                                                             *)
(***************************************************************************)

\* "a single page can't span two locations" (assert_eq! in LogicalSlice::to_page,
\* las.rs:61): rounded up to pages, a slice that was handed out is one page long.
PageAssertion == \A s \in out : ToPage(s).len = PageSize

\* A slice is translated to the page it was carved from, and to an offset at which it
\* fits into the page, wherever the source is mapped and whatever word its address
\* went through (LogicalAddressSpace::read and write; flush looks the page up by its
\* aligned address).
TranslatesHome ==
    \A x \in out, kind \in WordKinds :
       LET s == LoadWord(kind, StoreWord(kind, x.offset), x.len)
           p == ToPage(s)
           src == SourceAt(s.offset)
       IN  /\ Offset[src] + p.offset \in Pages(src)
           /\ Offset[src] + p.offset + PageOffset(s, p) = x.offset
           /\ PageOffset(s, p) + s.len <= p.len
           /\ ToPage(PageAligned(s)) = p

\* A word says what it is: a pointer has the tag it was made with and is not null,
\* a version that refers to a cell is not taken for a number, and the pointer in
\* it has no tag ("assert_eq!(... VERSION_TYPE_MASK, 0)", vos.rs:204).
WordsDistinct ==
    \A x \in out, kind \in WordKinds :
       LET w == StoreWord(kind, x.offset)
       IN  /\ IsBlock(PointerOf(kind, w)) <=> kind = "block"
           /\ IsByteAddressable(PointerOf(kind, w)) <=> kind # "block"
           /\ IsIndirect(w) <=> kind = "version"
           /\ Address(PointerOf(kind, w)) # 0

\* What these properties rest on. The page size is a power of two, as align_up and
\* align_down ask for; sources are mapped one behind the other, by the length that
\* SourceAllocator::length rounds down to pages (source/mod.rs:259); addresses fit
\* into the 54 bits of a pointer; and no size wraps to 0 on its way to a u32.
LayoutFits ==
    /\ \E k \in 0 .. PageSize : PageSize = PowerOfTwo[k]
    /\ \A m \in Memories : /\ Offset[m] % PageSize = 0
                           /\ Offset[m] + Length[m] <= PowerOfTwo[AddressBits]
    /\ \A a \in Allocators, n \in Sizes : U32(n) + Overhead[a] # 0

(***************************************************************************)
(* What the documentation says and the code does not do.                   *)
(***************************************************************************)

\* "0..56 bits are for address, 56..58 bits are tags" (DESIGN.md:203): what is
\* stored in a word is an address and comes back as the same address.
AddressKept ==
    \A x \in out, kind \in WordKinds :
       Address(PointerOf(kind, StoreWord(kind, x.offset))) = x.offset

=============================================================================
