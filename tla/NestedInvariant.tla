-------------------------- MODULE NestedInvariant --------------------------
(***************************************************************************)
(* The inductive invariants behind the properties of Nested. Inductive     *)
(* holds whatever pointers the closures write through; OwnInductive adds   *)
(* what holds if they write children through their own copy of the root    *)
(* only. NestedProofs.tla and NestedOwnProofs.tla prove them; the run of   *)
(* Nested checks them first.                                               *)
(***************************************************************************)
EXTENDS Nested

Types ==
    /\ clock \in Nat \ {0}
    /\ ptr \in [Loc -> Obj \cup {None}]
    /\ owner \in [Obj -> Txs \cup {Base, Free}]
    /\ other \in [Obj -> Obj \cup {None}]
    /\ cell \in [Txs -> Nat]
    /\ pc \in [Txs -> {"idle", "run", "copy", "abort", "done"}]
    /\ snap \in [Txs -> Nat]
    /\ parent \in [Txs -> Obj \cup {None}]
    /\ op \in [Txs -> TransactionWrite \cup {None}]
    /\ left \in [Txs -> SUBSET Cells]
    /\ wset \in [Txs -> SUBSET TransactionWrite]
    /\ ways \subseteq {"read", "own"}

Live == {o \in Obj : owner[o] # Free}
Committed == {o \in Live : VerNum(o) # 0}

\* A transaction gets its number when it is done, and nobody has seen that number before.
TxInv ==
    \A x \in Txs :
       /\ snap[x] <= clock /\ cell[x] <= clock
       /\ cell[x] # 0 => pc[x] = "done" /\ cell[x] > 1
       /\ pc[x] \in {"idle", "done"} => wset[x] = {}
       /\ pc[x] = "idle" => parent[x] = None
       /\ pc[x] \in {"run", "copy", "abort"} => snap[x] >= 1
       /\ parent[x] # None => parent[x] \in Live /\ Visible(x, parent[x])

\* A copy leads to a version that was committed before; what is not allocated has no
\* pointers to it or in it.
HeapInv ==
    /\ \A o \in Live : owner[o] = Base => other[o] = None
    /\ \A o \in Live : other[o] # None =>
          other[o] \in Committed /\ (VerNum(o) # 0 => VerNum(other[o]) < VerNum(o))
    /\ \A l \in Loc : ptr[l] # None => ptr[l] \in Live
    /\ \A o \in Obj \ Live, c \in Cells : ptr[<<o, c>>] = None

\* The pointer l can be written by x: it is in an object that is committed or its own.
Writable(x, l) == l # Root => l[1] \in Live /\ (l[1] \in Committed \/ owner[l[1]] = x)

\* What a transaction has swapped in is there, and leads to what it replaced.
WriteInv ==
    \A x \in Txs : \A w \in wset[x] :
       /\ ptr[w.dst] = w.new
       /\ owner[w.new] = x /\ other[w.new] = w.current
       /\ Writable(x, w.dst)

\* A copy that is being made belongs to its transaction, and nothing else knows of it.
OpInv ==
    \A x \in Txs : pc[x] = "copy" =>
       /\ op[x] \in TransactionWrite
       /\ owner[op[x].new] = x /\ other[op[x].new] = op[x].current
       /\ op[x].current \in Committed
       /\ Writable(x, op[x].dst)
       /\ op[x].dst # Root => op[x].dst[1] # op[x].new
       /\ \A w \in wset[x] : w.dst # Root => w.dst[1] # op[x].new
       /\ left[x] # {} => op[x].dst = Root

\* The oldest version of an object.
Origin(o) ==
    LET walk[v \in Obj] == IF other[v] = None THEN v ELSE walk[other[v]]
    IN  walk[o]

\* Object b is as old as r, or older.
AsOld(r, b) ==
    \/ owner[b] = owner[r]
    \/ b \in Committed /\ (VerNum(r) = 0 \/ VerNum(b) <= VerNum(r))

\* A child is not younger than the object it is in.
AnchorInv ==
    \A r \in Live, c \in Cells :
       LET o == ptr[<<r, c>>] IN o # None => Origin(o) \in Live /\ AsOld(r, Origin(o))

\* The inductive invariant of nested objects.
Inductive == Types /\ TxInv /\ HeapInv /\ WriteInv /\ OpInv /\ AnchorInv

-----------------------------------------------------------------------------
(***************************************************************************)
(* Children are written through the own copy of their parent only.         *)
(***************************************************************************)

\* The versions of the root object.
Roots == {o \in Live : Origin(o) = FirstRoot}
CommittedRoots == Roots \cap Committed

\* The newest committed root object.
NewestRoot == IF VerNum(ptr[Root]) = 0 THEN other[ptr[Root]] ELSE ptr[Root]

\* The root objects form one chain that starts with the first root and ends in the root
\* pointer; a root object that is not committed is there because it was swapped in.
RootChain ==
    /\ owner[FirstRoot] = Base
    /\ ptr[Root] \in Roots
    /\ NewestRoot \in CommittedRoots
    /\ \A s \in CommittedRoots : VerNum(s) <= VerNum(NewestRoot)
    /\ VerNum(ptr[Root]) = 0 => ptr[Root] \in OwnRoot(owner[ptr[Root]])
    /\ \A o, s \in CommittedRoots :
          o # FirstRoot /\ VerNum(s) < VerNum(o) => VerNum(s) <= VerNum(other[o])
    /\ \A x \in Txs : pc[x] = "copy" /\ op[x].dst = Root => op[x].current \in Roots
    /\ \A l \in Loc : l # Root /\ ptr[l] # None => l[1] \in Roots /\ ptr[l] \notin Roots

\* What a transaction that has not failed has done to the root and its children: it
\* writes the root first, once, and then the children of its copy, where the children it
\* has not written are those of the original.
OwnRootInv(x) ==
    /\ \A w \in wset[x] : w.dst # Root => w.dst[1] \in OwnRoot(x)
    /\ pc[x] = "copy" /\ op[x].dst # Root => op[x].dst[1] \in OwnRoot(x)
    /\ \A r \in Roots : owner[r] = x =>
          r \in OwnRoot(x) \/ (pc[x] = "copy" /\ op[x].dst = Root /\ r = op[x].new)
    /\ wset[x] # {} => OwnRoot(x) # {}
    /\ \A r \in OwnRoot(x), c \in Cells :
          LET o == ptr[<<r, c>>] IN
          (o # None /\ owner[o] = x) \/ o = ptr[<<other[r], c>>]
    /\ pc[x] = "copy" /\ op[x].dst = Root =>
          /\ OwnRoot(x) = {}
          /\ \A c \in Cells \ left[x] : ptr[<<op[x].new, c>>] = ptr[<<op[x].current, c>>]

OwnRoots ==
    \A x \in Txs :
       /\ \A w \in wset[x] : w.dst # Root => owner[w.dst[1]] = x
       /\ pc[x] \in {"idle", "run", "copy"} => OwnRootInv(x)

\* Version o of child c is the last one that was committed before root object r was.
LastChild(r, c, o) ==
    /\ o # None => o \in Committed /\ VerNum(o) <= VerNum(r)
    /\ \E h \in hist[c] : /\ h[2] = o /\ h[1] <= VerNum(r)
                          /\ \A g \in hist[c] : g[1] <= VerNum(r) => g[1] <= h[1]

\* Behind a committed root object there are the children that were committed last, and
\* children are committed with a root object.
ChildrenInv ==
    /\ \A r \in CommittedRoots, c \in Cells : LastChild(r, c, ptr[<<r, c>>])
    /\ \A c \in Cells : \A g \in hist[c] : \E s \in CommittedRoots : VerNum(s) = g[1]

\* The root object that a transaction has read is the newest one of its snapshot.
ParentInv ==
    \A x \in Txs : parent[x] # None =>
       /\ parent[x] \in CommittedRoots
       /\ \A s \in CommittedRoots : VerNum(s) <= snap[x] => VerNum(s) <= VerNum(parent[x])

\* The invariant of applications that write children through their own copies only,
\* inductive together with Inductive.
OwnInductive == ways = {"own"} => RootChain /\ OwnRoots /\ ChildrenInv /\ ParentInv

=============================================================================
