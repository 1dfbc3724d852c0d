-------------------------- MODULE NestedOwnProofs --------------------------
(***************************************************************************)
(* Proofs for Nested, for applications that write children through their   *)
(* own copy of the root only: OwnInductive of NestedInvariant is an        *)
(* invariant, and no committed update of a child is lost.                  *)
(***************************************************************************)
EXTENDS NestedProofs

OwnInv == RootChain /\ OwnRoots /\ ChildrenInv /\ ParentInv

\* What a step of transaction x leaves alone: objects that are there, pointers in objects
\* of others, and the other transactions.
Quiet(x) ==
    /\ \A v \in Live : v \in Live' /\ owner'[v] = owner[v] /\ other'[v] = other[v]
    /\ \A v \in Live' : v \in Live \/ (owner'[v] = x /\ v \in Obj)
    /\ \A o \in Live, c \in Cells : owner[o] # x => ptr'[<<o, c>>] = ptr[<<o, c>>]
    /\ \A y \in Txs : y # x =>
          /\ pc'[y] = pc[y] /\ op'[y] = op[y] /\ left'[y] = left[y] /\ wset'[y] = wset[y]
          /\ parent'[y] = parent[y] /\ snap'[y] = snap[y]
    /\ cell[x] = 0

-----------------------------------------------------------------------------
(***************************************************************************)
(* Frames.                                                                 *)
(***************************************************************************)

\* The copy of the root that a transaction has made is behind the root pointer, in front
\* of the newest committed root.
LEMMA OwnRootIsRoot ==
  ASSUME Inductive, NEW x \in Txs, NEW r \in OwnRoot(x)
  PROVE  /\ r = ptr[Root] /\ r \in Obj /\ r \in Live /\ owner[r] = x /\ Running(x)
         /\ VerNum(r) = 0 /\ r \notin Committed /\ other[r] = NewestRoot
         /\ other[r] \in Committed
<1> USE DEF Inductive
<1>1. PICK w \in wset[x] : w.dst = Root /\ w.new = r
  BY DEF OwnRoot
<1>2. r = ptr[Root] /\ owner[r] = x /\ other[r] = w.current
  BY <1>1 DEF WriteInv
<1>3. w.current \in Obj /\ r \in Obj
  BY <1>1 DEF Types, TransactionWrite
<1>4. Running(x)
  BY <1>1 DEF TxInv, Types, Running
<1>5. VerNum(r) = 0 /\ r \in Live /\ r \notin Committed
  BY <1>2, <1>3, <1>4, OwnedUncommitted
<1>6. other[r] \in Committed
  BY <1>2, <1>3, <1>5, NestedAssumption DEF HeapInv
<1> QED BY <1>2, <1>3, <1>4, <1>5, <1>6 DEF NewestRoot

\* A step without a commit keeps the numbers and the committed roots.
LEMMA QuietFrame ==
  ASSUME Inductive, Inductive', NEW x \in Txs, Quiet(x), UNCHANGED cell
  PROVE  /\ \A v \in Live : VerNum(v)' = VerNum(v) /\ Origin(v)' = Origin(v)
         /\ \A v \in Live' : v \in Live \/ VerNum(v)' = 0
         /\ Committed' = Committed
         /\ \A v \in Live : v \in Roots' <=> v \in Roots
         /\ CommittedRoots' = CommittedRoots
<1>1. \A v \in Live : VerNum(v)' = VerNum(v)
  BY DEF Quiet, VerNum
<1>2. \A v \in Live : Origin(v)' = Origin(v)
  BY OriginFrame DEF Inductive, Quiet
<1>3. \A v \in Live' : v \in Live \/ VerNum(v)' = 0
  BY NestedAssumption DEF Quiet, VerNum
<1>4. Committed' = Committed
  BY <1>1, <1>3 DEF Committed, Quiet
<1>5. \A v \in Live : v \in Roots' <=> v \in Roots
  BY <1>2 DEF Roots, Quiet
<1>6. CommittedRoots' = CommittedRoots
  BY <1>4, <1>5 DEF CommittedRoots, Committed, Roots
<1> QED BY <1>1, <1>2, <1>3, <1>4, <1>5, <1>6

\* The other transactions keep their part of OwnRoots.
LEMMA OthersOwn ==
  ASSUME Inductive, Inductive', OwnRoots, NEW x \in Txs, Quiet(x), NEW y \in Txs, y # x
  PROVE  /\ \A w \in wset'[y] : w.dst # Root => owner'[w.dst[1]] = y
         /\ pc'[y] \in {"idle", "run", "copy"} => OwnRootInv(y)'
<1> USE DEF Inductive
<1>0. /\ pc'[y] = pc[y] /\ op'[y] = op[y] /\ left'[y] = left[y] /\ wset'[y] = wset[y]
      /\ OwnRoot(y)' = OwnRoot(y)
  BY DEF Quiet, OwnRoot
<1>1. \A w \in wset'[y] : w.dst # Root => owner'[w.dst[1]] = y
  BY <1>0 DEF OwnRoots, Quiet, WriteInv, Writable
<1>2. ASSUME pc[y] \in {"idle", "run", "copy"} PROVE OwnRootInv(y)'
  <2>1. OwnRootInv(y)
    BY <1>2 DEF OwnRoots
  <2>2. ASSUME NEW o \in Live, owner[o] = y \/ o \in Committed, NEW c \in Cells
        PROVE  ptr'[<<o, c>>] = ptr[<<o, c>>]
    <3>1. owner[o] # x
      BY <2>2, NestedAssumption DEF Quiet, Committed, VerNum
    <3> QED BY <3>1 DEF Quiet
  <2>3. \A r \in Roots' : owner'[r] = y => r \in Roots /\ owner[r] = y
    <3>1. \A v \in Live : Origin(v)' = Origin(v)
      BY OriginFrame DEF Quiet
    <3> QED BY <3>1 DEF Roots, Quiet
  <2>4. ASSUME NEW r \in OwnRoot(y), NEW c \in Cells
        PROVE  LET o == ptr'[<<r, c>>] IN
               (o # None /\ owner'[o] = y) \/ o = ptr'[<<other'[r], c>>]
    <3>1. r \in Live /\ r \in Obj /\ owner[r] = y /\ other[r] \in Committed /\ other'[r] = other[r]
      BY OwnRootIsRoot DEF Quiet
    <3>2. ptr'[<<r, c>>] = ptr[<<r, c>>]
      BY <2>2, <3>1
    <3>3. ptr'[<<other[r], c>>] = ptr[<<other[r], c>>]
      BY <2>2, <3>1 DEF Committed
    <3>4. ptr[<<r, c>>] # None => ptr[<<r, c>>] \in Live
      BY <3>1, Locations DEF HeapInv
    <3> QED BY <2>1, <3>1, <3>2, <3>3, <3>4 DEF OwnRootInv, Quiet
  <2>5. ASSUME pc[y] = "copy", NEW c \in Cells
        PROVE  /\ ptr'[<<op[y].new, c>>] = ptr[<<op[y].new, c>>]
               /\ ptr'[<<op[y].current, c>>] = ptr[<<op[y].current, c>>]
    <3>1. owner[op[y].new] = y /\ op[y].new \in Obj /\ op[y].current \in Committed
      BY <2>5 DEF OpInv, TransactionWrite
    <3>2. op[y].new \in Live /\ op[y].current \in Live
      BY <3>1, NestedAssumption DEF Live, Committed
    <3> QED BY <2>2, <3>1, <3>2
  <2>6. \A r \in Roots' : owner'[r] = y =>
          r \in OwnRoot(y)' \/ (pc'[y] = "copy" /\ op'[y].dst = Root /\ r = op'[y].new)
    BY <1>0, <2>1, <2>3 DEF OwnRootInv
  <2>7. pc'[y] = "copy" /\ op'[y].dst = Root =>
          /\ OwnRoot(y)' = {}
          /\ \A c \in Cells \ left'[y] : ptr'[<<op'[y].new, c>>] = ptr'[<<op'[y].current, c>>]
    BY <1>0, <2>1, <2>5 DEF OwnRootInv
  <2>8. /\ \A w \in wset'[y] : w.dst # Root => w.dst[1] \in OwnRoot(y)'
        /\ pc'[y] = "copy" /\ op'[y].dst # Root => op'[y].dst[1] \in OwnRoot(y)'
        /\ wset'[y] # {} => OwnRoot(y)' # {}
    BY <1>0, <2>1 DEF OwnRootInv
  <2> QED BY <1>0, <2>4, <2>6, <2>7, <2>8 DEF OwnRootInv
<1> QED BY <1>0, <1>1, <1>2

\* The chain of roots, if no root is committed.
LEMMA RootChainFrame ==
  ASSUME Inductive, Inductive', RootChain, NEW x \in Txs, Quiet(x), UNCHANGED cell,
         ptr'[Root] \in Roots', NewestRoot' = NewestRoot,
         (VerNum(ptr[Root]) = 0 => ptr[Root] \in OwnRoot(owner[ptr[Root]]))',
         pc'[x] = "copy" /\ op'[x].dst = Root => op'[x].current \in Roots,
         \A l \in Loc : l # Root /\ ptr'[l] # None /\ ptr'[l] # ptr[l] =>
            l[1] \in Roots' /\ ptr'[l] \notin Roots'
  PROVE  RootChain'
<1> USE DEF Inductive
<1>1. /\ \A v \in Live : VerNum(v)' = VerNum(v) /\ Origin(v)' = Origin(v)
      /\ \A v \in Live : v \in Roots' <=> v \in Roots
      /\ Committed' = Committed /\ CommittedRoots' = CommittedRoots
  BY QuietFrame
<1>2. FirstRoot \in Live /\ owner'[FirstRoot] = Base
  BY NestedAssumption DEF RootChain, Quiet, Live
<1>3. \A s \in CommittedRoots : VerNum(s)' = VerNum(s)
  BY <1>1 DEF CommittedRoots, Roots
<1>4. NewestRoot' \in CommittedRoots' /\ \A s \in CommittedRoots' : VerNum(s)' <= VerNum(NewestRoot)'
  BY <1>1, <1>3 DEF RootChain
<1>5. ASSUME NEW o \in CommittedRoots', NEW s \in CommittedRoots', o # FirstRoot,
             VerNum(s)' < VerNum(o)'
      PROVE  VerNum(s)' <= VerNum(other[o])'
  <2>1. o \in CommittedRoots /\ s \in CommittedRoots
    BY <1>1
  <2>2. other'[o] = other[o] /\ o \in Live /\ o \in Obj
    BY <2>1 DEF CommittedRoots, Roots, Quiet, Live
  <2>3. other[o] # None
    BY <1>5, <2>1, <2>2, Steps DEF OriginSteps, CommittedRoots, Roots
  <2>4. PICK p \in Live : p = other[o]
    BY <2>2, <2>3 DEF HeapInv, Committed
  <2>5. VerNum(s) <= VerNum(p)
    BY <1>3, <1>5, <2>1, <2>4 DEF RootChain
  <2> QED BY <1>1, <1>3, <2>1, <2>2, <2>4, <2>5
<1>6. ASSUME NEW y \in Txs, pc'[y] = "copy", op'[y].dst = Root PROVE op'[y].current \in Roots'
  <2>1. op'[y].current \in Roots
    BY <1>6 DEF Quiet, RootChain
  <2> QED BY <1>1, <2>1 DEF Roots
<1>7. ASSUME NEW l \in Loc, l # Root, ptr'[l] # None PROVE l[1] \in Roots' /\ ptr'[l] \notin Roots'
  <2>1. CASE ptr'[l] # ptr[l]
    BY <1>7, <2>1
  <2>2. CASE ptr'[l] = ptr[l]
    <3>1. l[1] \in Roots /\ ptr[l] \notin Roots /\ ptr[l] \in Live
      BY <1>7, <2>2 DEF RootChain, HeapInv
    <3> QED BY <1>1, <2>2, <3>1 DEF Roots
  <2> QED BY <2>1, <2>2
<1> QED BY <1>2, <1>4, <1>5, <1>6, <1>7 DEF RootChain

\* The root pointer stays where it is.
LEMMA SameRoot ==
  ASSUME Inductive, Inductive', RootChain, NEW x \in Txs, Quiet(x), UNCHANGED cell,
         ptr'[Root] = ptr[Root], OwnRoot(x) \subseteq OwnRoot(x)'
  PROVE  /\ ptr'[Root] \in Roots' /\ NewestRoot' = NewestRoot
         /\ (VerNum(ptr[Root]) = 0 => ptr[Root] \in OwnRoot(owner[ptr[Root]]))'
<1>1. /\ \A v \in Live : VerNum(v)' = VerNum(v)
      /\ \A v \in Live : v \in Roots' <=> v \in Roots
  BY QuietFrame
<1>2. PICK r \in Live : r = ptr[Root] /\ r \in Roots
  BY DEF RootChain, Roots
<1>3. owner'[r] = owner[r] /\ other'[r] = other[r]
  BY DEF Quiet
<1>4. NewestRoot' = NewestRoot
  BY <1>1, <1>2, <1>3 DEF NewestRoot
<1>5. ASSUME VerNum(r)' = 0 PROVE r \in OwnRoot(owner[r])'
  <2>1. PICK y : y = owner[r] /\ y = owner'[r]
    BY <1>3
  <2>2. VerNum(r) = 0 /\ r \in OwnRoot(y)
    BY <1>1, <1>2, <1>5, <2>1 DEF RootChain
  <2>3. y \in Txs
    <3>1. owner[r] \in Txs \cup {Base} /\ (owner[r] = Base => VerNum(r) = 1)
      BY Numbers DEF Inductive
    <3> QED BY <2>1, <2>2, <3>1
  <2>4. y # x => OwnRoot(y)' = OwnRoot(y)
    BY <2>3 DEF Quiet, OwnRoot
  <2> QED BY <2>1, <2>2, <2>4
<1> QED BY <1>1, <1>2, <1>4, <1>5

\* The children of the committed roots, if no root is committed.
LEMMA ChildrenFrame ==
  ASSUME Inductive, Inductive', ChildrenInv, NEW x \in Txs, Quiet(x), UNCHANGED <<cell, hist>>
  PROVE  ChildrenInv'
<1> USE DEF Inductive
<1>1. /\ \A v \in Live : VerNum(v)' = VerNum(v)
      /\ Committed' = Committed /\ CommittedRoots' = CommittedRoots
  BY QuietFrame
<1>2. \A s \in CommittedRoots : s \in Committed /\ s \in Live /\ VerNum(s)' = VerNum(s)
  BY <1>1 DEF CommittedRoots, Roots
<1>3. ASSUME NEW r \in CommittedRoots, NEW c \in Cells
      PROVE  ptr'[<<r, c>>] = ptr[<<r, c>>]
  <2>1. owner[r] # x
    BY <1>2, NestedAssumption DEF Quiet, Committed, VerNum
  <2> QED BY <1>2, <2>1 DEF Quiet
<1>4. \A v \in Committed : VerNum(v)' = VerNum(v)
  BY <1>1 DEF Committed
<1>5. ASSUME NEW r \in CommittedRoots', NEW c \in Cells, NEW o, o = ptr'[<<r, c>>]
      PROVE  LastChild(r, c, o)'
  <2>0. r \in CommittedRoots
    BY <1>1
  <2>1. o = ptr[<<r, c>>] /\ VerNum(r)' = VerNum(r)
    BY <1>2, <1>3, <1>5, <2>0
  <2>2. LastChild(r, c, o)
    BY <2>0, <2>1 DEF ChildrenInv
  <2> QED BY <1>1, <1>4, <2>1, <2>2 DEF LastChild
<1>6. \A c \in Cells : \A g \in hist'[c] : \E s \in CommittedRoots' : VerNum(s)' = g[1]
  BY <1>1, <1>2 DEF ChildrenInv
<1> HIDE DEF Inductive
<1> QED BY <1>5, <1>6 DEF ChildrenInv

\* What was read before, if no root is committed.
LEMMA ParentFrame ==
  ASSUME Inductive, Inductive', ParentInv, NEW x \in Txs, Quiet(x), UNCHANGED cell,
         parent'[x] # None => parent'[x] = parent[x] /\ snap'[x] = snap[x]
  PROVE  ParentInv'
<1>1. /\ \A v \in Live : VerNum(v)' = VerNum(v)
      /\ CommittedRoots' = CommittedRoots
  BY QuietFrame
<1>2. \A s \in CommittedRoots : VerNum(s)' = VerNum(s)
  BY <1>1 DEF CommittedRoots, Roots
<1> SUFFICES ASSUME NEW y \in Txs, parent'[y] # None
             PROVE  /\ parent'[y] \in CommittedRoots'
                    /\ \A s \in CommittedRoots' : VerNum(s)' <= snap'[y] =>
                          VerNum(s)' <= VerNum(parent[y])'
  BY DEF ParentInv
<1>3. PICK p : p = parent[y] /\ p = parent'[y] /\ snap'[y] = snap[y]
  BY DEF Quiet
<1>4. p \in CommittedRoots /\ \A s \in CommittedRoots : VerNum(s) <= snap[y] => VerNum(s) <= VerNum(p)
  BY <1>3 DEF ParentInv
<1> QED BY <1>1, <1>2, <1>3, <1>4

-----------------------------------------------------------------------------
(***************************************************************************)
(* What a step leaves alone.                                               *)
(***************************************************************************)

\* The pointers a closure can write, if it does not write through what it has read.
LEMMA OwnReach ==
  ASSUME ways = {"own"}, NEW x \in Txs, NEW l \in Reach(x), l # Root
  PROVE  \E r \in OwnRoot(x), c \in Cells : l = <<r, c>>
BY DEF Reach

\* A step that changes pointers in objects of x only.
LEMMA QuietPointers ==
  ASSUME Inductive, NEW x \in Txs, UNCHANGED <<owner, other>>, cell[x] = 0,
         \A o \in Live, c \in Cells : owner[o] # x => ptr'[<<o, c>>] = ptr[<<o, c>>],
         \A y \in Txs : y # x =>
          /\ pc'[y] = pc[y] /\ op'[y] = op[y] /\ left'[y] = left[y] /\ wset'[y] = wset[y]
          /\ parent'[y] = parent[y] /\ snap'[y] = snap[y]
  PROVE  Quiet(x)
BY DEF Quiet, Live

\* The other transactions are left alone.
LEMMA OthersAlone ==
  ASSUME Types, NEW x \in Txs, Step(x), NEW y \in Txs, y # x
  PROVE  /\ pc'[y] = pc[y] /\ op'[y] = op[y] /\ left'[y] = left[y] /\ wset'[y] = wset[y]
         /\ parent'[y] = parent[y] /\ snap'[y] = snap[y]
BY DEF Types, Step, Begin, ReadRoot, Perform, Commit, Fail, AbortDone, Write, WriteFails,
       CopyPointer, Alloc, AllocIn, Rollback, Goto

LEMMA StepQuiet ==
  ASSUME Inductive, ways = {"own"}, OwnRoots, NEW x \in Txs, Step(x) PROVE Quiet(x)
<1> USE DEF Inductive
<1>1. cell[x] = 0
  BY DEF Step, TxInv, Begin, ReadRoot, Perform, Commit, Fail, AbortDone, Write, WriteFails,
         CopyPointer, Alloc, AllocIn, Rollback
<1>2. \A y \in Txs : y # x =>
          /\ pc'[y] = pc[y] /\ op'[y] = op[y] /\ left'[y] = left[y] /\ wset'[y] = wset[y]
          /\ parent'[y] = parent[y] /\ snap'[y] = snap[y]
  BY OthersAlone
<1>3. ASSUME UNCHANGED heapVars PROVE Quiet(x)
  BY <1>1, <1>2, <1>3, QuietPointers DEF heapVars
<1>4. ASSUME UNCHANGED <<owner, other>>, NEW k \in Loc, NEW v, ptr' = [ptr EXCEPT ![k] = v],
             k = Root \/ (k # Root /\ owner[k[1]] = x)
      PROVE  Quiet(x)
  <2>1. ASSUME NEW o \in Live, NEW c \in Cells, owner[o] # x PROVE ptr'[<<o, c>>] = ptr[<<o, c>>]
    <3>1. <<o, c>> \in Loc /\ <<o, c>> # Root
      BY Locations DEF Live
    <3>2. <<o, c>> # k
      BY <1>4, <2>1, <3>1
    <3> QED BY <1>4, <3>1, <3>2 DEF Types
  <2> QED BY <1>1, <1>2, <1>4, <2>1, QuietPointers
<1>5. ASSUME NEW p \in Committed \cup {None}, Fresh # {},
             InitObject(Allocated, x, p), UNCHANGED cell,
             \A o \in Live, c \in Cells : owner[o] # x => ptr'[<<o, c>>] = ptr[<<o, c>>]
      PROVE  Quiet(x)
  <2>1. PICK a \in Obj \ Live :
         /\ owner'[a] = x
         /\ \A o \in Obj : o # a => owner'[o] = owner[o] /\ other'[o] = other[o]
         /\ Live' = Live \cup {a}
    BY <1>1, <1>5, NewObject
  <2> QED BY <1>1, <1>2, <1>5, <2>1 DEF Quiet, Live
<1>6. ASSUME NEW l \in Reach(x), Write(x, l) PROVE Quiet(x)
  <2>1. ptr[l] \in Committed
    BY <1>6, ReachFacts DEF Write, HeapInv, Visible, Committed
  <2> QED BY <1>5, <1>6, <2>1 DEF Write
<1>7. ASSUME NEW c \in Cells, Alloc(x, c) PROVE Quiet(x)
  <2>1. PICK r \in OwnRoot(x) : AllocIn(x, r, c)
    BY <1>7 DEF Alloc
  <2>2. r \in Obj /\ owner[r] = x
    BY OwnRootIsRoot
  <2>3. ASSUME NEW o \in Live, NEW d \in Cells, owner[o] # x PROVE ptr'[<<o, d>>] = ptr[<<o, d>>]
    <3>1. <<o, d>> # <<r, c>> /\ <<o, d>> \in Loc
      BY <2>2, <2>3, Locations DEF Live
    <3> QED BY <2>1, <3>1 DEF AllocIn, Types
  <2> QED BY <1>5, <2>1, <2>3 DEF AllocIn
<1>8. ASSUME NEW c \in Cells, CopyPointer(x, c) PROVE Quiet(x)
  <2>1. op[x].new \in Obj /\ owner[op[x].new] = x
    BY <1>8 DEF CopyPointer, OpInv, TransactionWrite
  <2>2. PICK k \in Loc : k = <<op[x].new, c>> /\ k # Root /\ k[1] = op[x].new
    BY <2>1, Locations
  <2> QED BY <1>4, <1>8, <2>1, <2>2 DEF CopyPointer
<1>9. ASSUME Perform(x) PROVE Quiet(x)
  <2>1. op[x].dst \in Loc
    BY <1>9 DEF Perform, OpInv, TransactionWrite
  <2>2. op[x].dst # Root => owner[op[x].dst[1]] = x
    BY <1>9, OwnRootIsRoot DEF Perform, OwnRoots, OwnRootInv
  <2>3. CASE ptr[op[x].dst] = op[x].current
    BY <1>4, <1>9, <2>1, <2>2, <2>3 DEF Perform
  <2>4. CASE ptr[op[x].dst] # op[x].current
    BY <1>3, <1>9, <2>4 DEF Perform, heapVars
  <2> QED BY <2>3, <2>4
<1>10. ASSUME NEW w \in wset[x], Rollback(x, w) PROVE Quiet(x)
  <2>1. w.dst \in Loc /\ ptr[w.dst] = w.new /\ (w.dst # Root => owner[w.dst[1]] = x)
    BY DEF Types, TransactionWrite, WriteInv, OwnRoots
  <2> QED BY <1>4, <1>10, <2>1 DEF Rollback
<1>11. Begin(x) \/ ReadRoot(x) \/ Commit(x) \/ Fail(x) \/ AbortDone(x)
       \/ (\E l \in Reach(x) : WriteFails(x, l)) => UNCHANGED heapVars
  BY DEF Begin, ReadRoot, Commit, Fail, AbortDone, WriteFails
<1> QED BY <1>3, <1>6, <1>7, <1>8, <1>9, <1>10, <1>11 DEF Step

-----------------------------------------------------------------------------
(***************************************************************************)
(* The initial states, and every action.                                   *)
(***************************************************************************)

LEMMA InitOwn == Init => OwnInv
<1> SUFFICES ASSUME Init PROVE OwnInv
  OBVIOUS
<1>1. Inductive
  BY InitInductive
<1> USE DEF Inductive
<1>2. /\ \A x \in Txs : wset[x] = {} /\ pc[x] = "idle" /\ parent[x] = None
      /\ \A o \in Live : o \in Obj /\ owner[o] = Base /\ other[o] = None /\ VerNum(o) = 1
      /\ owner[FirstRoot] = Base /\ FirstRoot \in Live
  BY NestedAssumption DEF Init, Live, VerNum
<1>3. \A o \in Live : Origin(o) = o
  BY <1>1, <1>2, Steps DEF OriginSteps
<1>4. Roots = {FirstRoot} /\ CommittedRoots = {FirstRoot} /\ FirstRoot \in Committed
  BY <1>2, <1>3 DEF Roots, CommittedRoots, Committed
<1>5. ptr[Root] = FirstRoot /\ NewestRoot = FirstRoot
  <2>1. ptr[Root] = FirstRoot
    <3>1. Root \in Loc
      BY Locations
    <3> QED BY <3>1 DEF Init
  <2> QED BY <1>2, <2>1 DEF NewestRoot
<1>6. \A l \in Loc : l # Root /\ ptr[l] # None =>
         l[1] = FirstRoot /\ ptr[l] = First[l[2]] /\ l[2] \in Cells
  BY Locations DEF Init
<1>7. \A c \in Cells : First[c] # FirstRoot
  BY NestedAssumption
<1>8. RootChain
  BY <1>2, <1>4, <1>5, <1>6, <1>7 DEF RootChain
<1>9. OwnRoots
  <2>1. \A x \in Txs : OwnRoot(x) = {}
    BY <1>2 DEF OwnRoot
  <2>2. \A x \in Txs : owner[FirstRoot] # x
    BY <1>2, NestedAssumption
  <2> QED BY <1>2, <1>4, <2>1, <2>2 DEF OwnRoots, OwnRootInv
<1>10. \A c \in Cells : hist[c] = {<<1, First[c]>>}
  BY DEF Init
<1>11. ASSUME NEW c \in Cells PROVE LastChild(FirstRoot, c, ptr[<<FirstRoot, c>>])
  <2>1. <<FirstRoot, c>> \in Loc /\ <<FirstRoot, c>> # Root
    BY <1>2, Locations
  <2>2. ptr[<<FirstRoot, c>>] = First[c]
    BY <2>1 DEF Init
  <2>3. First[c] # None => First[c] \in Live
    BY <1>1, <2>1, <2>2 DEF HeapInv
  <2>4. <<1, First[c]>> \in hist[c] /\ \A g \in hist[c] : g[1] = 1
    BY <1>10
  <2> QED BY <1>2, <2>2, <2>3, <2>4 DEF LastChild, Committed
<1>12. ChildrenInv
  <2>1. ASSUME NEW c \in Cells, NEW g \in hist[c] PROVE VerNum(FirstRoot) = g[1]
    BY <1>2, <1>10
  <2> QED BY <1>4, <1>11, <2>1 DEF ChildrenInv
<1>13. ParentInv
  BY <1>2 DEF ParentInv
<1> QED BY <1>8, <1>9, <1>12, <1>13 DEF OwnInv

\* The parts of OwnInv after a step of x that commits nothing.
LEMMA OwnParts ==
  ASSUME Inductive, Inductive', OwnInv, NEW x \in Txs, Quiet(x), UNCHANGED <<cell, hist>>,
         RootChain', ParentInv',
         \A w \in wset'[x] : w.dst # Root => owner'[w.dst[1]] = x,
         pc'[x] \in {"idle", "run", "copy"} => OwnRootInv(x)'
  PROVE  OwnInv'
<1>1. ChildrenInv'
  BY ChildrenFrame DEF OwnInv
<1>2. OwnRoots'
  <2>1. ASSUME NEW y \in Txs
        PROVE  /\ \A w \in wset'[y] : w.dst # Root => owner'[w.dst[1]] = y
               /\ pc'[y] \in {"idle", "run", "copy"} => OwnRootInv(y)'
    BY OthersOwn DEF OwnInv
  <2> QED BY <2>1 DEF OwnRoots
<1> QED BY <1>1, <1>2 DEF OwnInv

\* Steps of x that change no object and no pointer.
LEMMA SameHeapOwn ==
  ASSUME Inductive, Inductive', OwnInv, NEW x \in Txs, Quiet(x), UNCHANGED <<heapVars, cell, hist>>,
         wset'[x] = wset[x], pc'[x] # "copy", ParentInv',
         pc'[x] \in {"idle", "run"} => pc[x] \in {"idle", "run"}
  PROVE  OwnInv'
<1> USE DEF OwnInv
<1>1. OwnRoot(x)' = OwnRoot(x)
  BY DEF OwnRoot
<1>2. /\ ptr'[Root] \in Roots' /\ NewestRoot' = NewestRoot
      /\ (VerNum(ptr[Root]) = 0 => ptr[Root] \in OwnRoot(owner[ptr[Root]]))'
  BY <1>1, SameRoot DEF heapVars
<1>3. RootChain'
  BY <1>2, RootChainFrame DEF heapVars
<1>4. \A w \in wset'[x] : w.dst # Root => owner'[w.dst[1]] = x
  BY DEF OwnRoots, heapVars
<1>5. ASSUME pc'[x] \in {"idle", "run", "copy"} PROVE OwnRootInv(x)'
  <2>1. OwnRootInv(x) /\ pc[x] # "copy" /\ pc'[x] # "copy"
    BY <1>5 DEF OwnRoots
  <2>2. Roots' = Roots
    BY SameHeap DEF Roots
  <2> QED BY <1>1, <2>1, <2>2 DEF OwnRootInv, heapVars
<1> QED BY <1>3, <1>4, <1>5, OwnParts

LEMMA BeginOwn ==
  ASSUME Inductive, Inductive', OwnInv, NEW x \in Txs, Quiet(x),
         Begin(x) \/ Fail(x) \/ AbortDone(x) \/ \E l \in Reach(x) : WriteFails(x, l)
  PROVE  OwnInv'
<1>1. UNCHANGED <<heapVars, cell, hist, parent, wset>>
  BY DEF Begin, Fail, AbortDone, WriteFails
<1>2. /\ pc'[x] # "copy"
      /\ pc'[x] \in {"idle", "run"} => pc[x] \in {"idle", "run"}
  BY DEF Begin, Fail, AbortDone, WriteFails, Goto, Inductive, Types
<1>3. parent'[x] # None => parent'[x] = parent[x] /\ snap'[x] = snap[x]
  BY <1>1 DEF Begin, Fail, AbortDone, WriteFails, Inductive, TxInv
<1>4. ParentInv'
  BY <1>1, <1>3, ParentFrame DEF OwnInv
<1> QED BY <1>1, <1>2, <1>4, SameHeapOwn

\* VersionedReader::read of the root pointer gives the newest root object of the snapshot.
LEMMA SeenRoot ==
  ASSUME Inductive, RootChain, NEW x \in Txs, snap[x] >= 1
  PROVE  LET p == Seen(x, ptr[Root]) IN
         /\ p \in CommittedRoots
         /\ \A s \in CommittedRoots : VerNum(s) <= snap[x] => VerNum(s) <= VerNum(p)
<1> USE DEF Inductive
<1> DEFINE Newest(v) == \A s \in CommittedRoots : VerNum(s) <= snap[x] => VerNum(s) <= VerNum(v)
           Good(v) == Seen(x, v) \in CommittedRoots /\ Newest(Seen(x, v))
           B == {v \in Live : v \in CommittedRoots /\ Newest(v) /\ ~Good(v)}
<1>0. \A s \in CommittedRoots : s \in Live /\ s \in Obj /\ s # None /\ s \in Committed
                                /\ VerNum(s) \in Nat /\ VerNum(s) # 0 /\ Origin(s) = FirstRoot
  BY Numbers DEF CommittedRoots, Roots, Committed
<1>1. ASSUME NEW v \in B PROVE other[v] # None /\ other[v] \in B
  <2>0. v \in CommittedRoots /\ Newest(v) /\ snap[x] \in Nat
    BY DEF Types
  <2>1. v \in Live /\ v \in Obj /\ v # None /\ VerNum(v) \in Nat /\ VerNum(v) # 0
    BY <1>0, <2>0
  <2>2. ~Visible(x, v) /\ Seen(x, v) = Seen(x, other[v])
    BY <2>0, <2>1, Steps DEF SeenSteps
  <2>3. VerNum(v) > snap[x]
    BY <2>0, <2>1, <2>2 DEF Visible
  <2>4. v # FirstRoot
    BY <2>0, <2>3, Numbers DEF RootChain, VerNum
  <2>5. other[v] # None /\ Origin(other[v]) = FirstRoot
    BY <1>0, <2>0, <2>1, <2>4, Steps DEF OriginSteps
  <2>6. other[v] \in Committed /\ other[v] \in CommittedRoots /\ other[v] \in Live
    BY <2>1, <2>5 DEF HeapInv, Committed, CommittedRoots, Roots
  <2>7. Newest(other[v])
    <3> SUFFICES ASSUME NEW s \in CommittedRoots, VerNum(s) <= snap[x]
                 PROVE  VerNum(s) <= VerNum(other[v])
      OBVIOUS
    <3>1. VerNum(s) < VerNum(v)
      BY <1>0, <2>0, <2>1, <2>3
    <3> QED BY <2>0, <2>4, <3>1 DEF RootChain
  <2> HIDE DEF Newest
  <2> QED BY <2>2, <2>5, <2>6, <2>7
<1>2. B = {}
  <2> HIDE DEF B
  <2>1. B \in SUBSET Live
    BY DEF B
  <2> QED BY <1>1, <2>1, ChainsEnd
<1>3. NewestRoot \in CommittedRoots /\ Newest(NewestRoot)
  BY DEF RootChain
<1>4. Good(NewestRoot)
  <2> HIDE DEF Newest, Good
  <2> QED BY <1>0, <1>2, <1>3
<1>5. Seen(x, ptr[Root]) = Seen(x, NewestRoot)
  <2>1. ptr[Root] \in Obj /\ ptr[Root] # None
    BY Numbers DEF RootChain, Roots
  <2>2. CASE VerNum(ptr[Root]) = 0
    BY <2>1, <2>2, Steps DEF SeenSteps, NewestRoot, Visible
  <2>3. CASE VerNum(ptr[Root]) # 0
    BY <2>3 DEF NewestRoot
  <2> QED BY <2>2, <2>3
<1> QED BY <1>4, <1>5

LEMMA ReadRootOwn ==
  ASSUME Inductive, Inductive', OwnInv, NEW x \in Txs, Quiet(x), ReadRoot(x)
  PROVE  OwnInv'
<1>1. UNCHANGED <<heapVars, cell, hist, pc, wset, snap>> /\ pc[x] = "run"
  BY DEF ReadRoot
<1>2. parent'[x] = Seen(x, ptr[Root]) /\ snap[x] >= 1
  BY <1>1 DEF ReadRoot, Inductive, Types, TxInv
<1>3. Live' = Live /\ CommittedRoots' = CommittedRoots /\ \A o : VerNum(o)' = VerNum(o)
  BY <1>1, SameHeap DEF CommittedRoots, Roots
<1>4. ParentInv'
  <2> SUFFICES ASSUME NEW y \in Txs, NEW p, p = parent'[y], p # None
               PROVE  /\ p \in CommittedRoots
                      /\ \A s \in CommittedRoots : VerNum(s) <= snap[y] => VerNum(s) <= VerNum(p)
    BY <1>1, <1>3 DEF ParentInv
  <2>1. CASE y = x
    BY <1>2, <2>1, SeenRoot DEF OwnInv
  <2>2. CASE y # x
    <3>1. p = parent[y]
      BY <2>2 DEF Quiet
    <3> QED BY <3>1 DEF OwnInv, ParentInv
  <2> QED BY <2>1, <2>2
<1> QED BY <1>1, <1>4, SameHeapOwn

LEMMA WriteOwn ==
  ASSUME Inductive, Inductive', OwnInv, ways = {"own"}, NEW x \in Txs, Quiet(x),
         NEW l \in Reach(x), Write(x, l)
  PROVE  OwnInv'
<1> USE DEF Inductive, OwnInv
<1>1. l \in Loc /\ ptr[l] \in Committed /\ Visible(x, ptr[l]) /\ ptr[l] # None /\ pc[x] = "run"
  BY ReachFacts DEF Write, HeapInv, Visible, Committed
<1>2. UNCHANGED <<ptr, cell, hist, wset, parent, snap>>
  BY DEF Write
<1>3. OwnRoot(x)' = OwnRoot(x)
  BY <1>2 DEF OwnRoot
<1>4. PICK a \in Obj \ Live : a = Allocated /\ Live' = Live \cup {a} /\ other'[a] = ptr[l]
  BY <1>1, NewObject DEF Write, TxInv
<1>5. /\ pc'[x] = "copy" /\ op'[x] = [dst |-> l, current |-> ptr[l], new |-> a]
      /\ left'[x] = IF l = Root THEN Cells ELSE {}
  BY <1>4 DEF Write, Goto, Types
<1>6. /\ ptr'[Root] \in Roots' /\ NewestRoot' = NewestRoot
      /\ (VerNum(ptr[Root]) = 0 => ptr[Root] \in OwnRoot(owner[ptr[Root]]))'
  BY <1>2, <1>3, SameRoot
<1>7. RootChain'
  <2>1. pc'[x] = "copy" /\ op'[x].dst = Root => op'[x].current \in Roots
    BY <1>5 DEF RootChain
  <2> QED BY <1>2, <1>6, <2>1, RootChainFrame
<1>8. ParentInv'
  BY <1>2, ParentFrame
<1>9. \A w \in wset'[x] : w.dst # Root => owner'[w.dst[1]] = x
  BY <1>2 DEF OwnRoots, Quiet, WriteInv, Writable
<1>10. OwnRootInv(x)
  BY <1>1 DEF OwnRoots
<1>11. OwnRootInv(x)'
  <2>1. /\ \A w \in wset'[x] : w.dst # Root => w.dst[1] \in OwnRoot(x)'
        /\ wset'[x] # {} => OwnRoot(x)' # {}
    BY <1>2, <1>3, <1>10 DEF OwnRootInv
  <2>2. op'[x].dst # Root => op'[x].dst[1] \in OwnRoot(x)'
    <3> SUFFICES ASSUME l # Root PROVE l[1] \in OwnRoot(x)
      BY <1>3, <1>5
    <3>1. PICK r \in OwnRoot(x), c \in Cells : l = <<r, c>>
      BY OwnReach
    <3> QED BY <3>1
  <2>3. ASSUME NEW r \in Roots', owner'[r] = x
        PROVE  r \in OwnRoot(x)' \/ (pc'[x] = "copy" /\ op'[x].dst = Root /\ r = op'[x].new)
    <3>1. CASE r \in Live
      <4>1. r \in Roots /\ owner[r] = x
        BY <1>2, <2>3, <3>1, QuietFrame DEF Quiet
      <4> QED BY <1>1, <1>3, <1>10, <4>1 DEF OwnRootInv
    <3>2. CASE r \notin Live
      <4>1. r = a
        BY <1>4, <3>2 DEF Roots
      <4>2. PICK p \in Live : p = ptr[l]
        BY <1>1 DEF Committed
      <4>3. Origin(a)' = Origin(p)'
        BY <1>1, <1>4, <4>2, Steps DEF OriginSteps
      <4>4. Origin(p) = FirstRoot
        BY <1>2, <2>3, <4>1, <4>2, <4>3, QuietFrame DEF Roots
      <4>5. p \in Roots
        BY <4>4 DEF Roots
      <4>6. l = Root
        BY <1>1, <4>2, <4>5 DEF RootChain
      <4> QED BY <1>5, <4>1, <4>6
    <3> QED BY <3>1, <3>2
  <2>4. ASSUME NEW r \in OwnRoot(x)', NEW c \in Cells
        PROVE  LET o == ptr'[<<r, c>>] IN
               (o # None /\ owner'[o] = x) \/ o = ptr'[<<other'[r], c>>]
    <3>1. r \in OwnRoot(x) /\ r \in Live /\ r \in Obj /\ other'[r] = other[r]
      BY <1>3, OwnRootIsRoot DEF Quiet
    <3>2. ptr[<<r, c>>] # None => ptr[<<r, c>>] \in Live
      BY <3>1, Locations DEF HeapInv
    <3> QED BY <1>2, <1>10, <3>1, <3>2 DEF OwnRootInv, Quiet
  <2>5. ASSUME op'[x].dst = Root PROVE OwnRoot(x)' = {} /\ Cells \ left'[x] = {}
    <3>1. l = Root
      BY <1>5, <2>5
    <3>2. OwnRoot(x) = {}
      BY <1>1, <3>1, OwnRootIsRoot DEF Visible
    <3> QED BY <1>3, <1>5, <3>1, <3>2
  <2> QED BY <2>1, <2>2, <2>3, <2>4, <2>5 DEF OwnRootInv
<1> QED BY <1>2, <1>7, <1>8, <1>9, <1>11, OwnParts

LEMMA CopyPointerOwn ==
  ASSUME Inductive, Inductive', OwnInv, NEW x \in Txs, Quiet(x),
         NEW c \in Cells, CopyPointer(x, c)
  PROVE  OwnInv'
<1> USE DEF Inductive, OwnInv
<1>1. PICK n \in Obj, p \in Obj : n = op[x].new /\ p = op[x].current
  BY DEF OpInv, CopyPointer, TransactionWrite
<1>2. /\ pc[x] = "copy" /\ owner[n] = x /\ p \in Committed /\ op[x].dst = Root /\ other[n] = p
      /\ c \in left[x]
  BY <1>1 DEF OpInv, CopyPointer
<1>3. n \in Live /\ n \notin Committed /\ p \in Roots
  BY <1>1, <1>2, OwnedUncommitted DEF Running, RootChain
<1>4. PICK k \in Loc : k = <<n, c>> /\ k # Root /\ k[1] = n
  BY Locations
<1>5. PICK v \in Obj \cup {None} : v = ptr[<<p, c>>]
  BY Locations DEF Types
<1>6. /\ ptr' = [ptr EXCEPT ![k] = v] /\ UNCHANGED <<owner, other, cell, hist, pc, op, wset, parent, snap>>
      /\ left'[x] = left[x] \ {c}
  BY <1>1, <1>4, <1>5 DEF CopyPointer, Types
<1>7. ptr'[k] = v /\ \A l \in Loc : l # k => ptr'[l] = ptr[l]
  BY <1>6 DEF Types
<1>8. OwnRoot(x)' = OwnRoot(x) /\ OwnRootInv(x) /\ OwnRoot(x) = {} /\ wset[x] = {}
  BY <1>2, <1>6 DEF OwnRoot, OwnRoots, OwnRootInv
<1>9. Live' = Live /\ Roots' = Roots
  BY <1>6, SameObjects DEF Roots
<1>10. /\ ptr'[Root] \in Roots' /\ NewestRoot' = NewestRoot
       /\ (VerNum(ptr[Root]) = 0 => ptr[Root] \in OwnRoot(owner[ptr[Root]]))'
  BY <1>4, <1>6, <1>7, <1>8, Locations, SameRoot
<1>11. RootChain'
  <2>1. n \in Roots
    BY <1>2, <1>3, NestedAssumption, SameOrigin DEF Roots
  <2>2. v # None => v \notin Roots
    BY <1>5, Locations DEF RootChain
  <2>3. \A l \in Loc : l # Root /\ ptr'[l] # None /\ ptr'[l] # ptr[l] =>
            l[1] \in Roots' /\ ptr'[l] \notin Roots'
    BY <1>4, <1>7, <1>9, <2>1, <2>2
  <2>4. pc'[x] = "copy" /\ op'[x].dst = Root => op'[x].current \in Roots
    BY <1>1, <1>3, <1>6
  <2> QED BY <1>6, <1>10, <2>3, <2>4, RootChainFrame
<1>12. ParentInv'
  BY <1>6, ParentFrame
<1>13. OwnRootInv(x)'
  <2>1. ASSUME NEW d \in Cells \ left'[x] PROVE ptr'[<<n, d>>] = ptr'[<<p, d>>]
    <3>1. <<n, d>> \in Loc /\ <<p, d>> \in Loc /\ <<p, d>> # k
      BY <1>2, <1>3, <1>4, Locations
    <3>2. CASE d = c
      BY <1>4, <1>5, <1>7, <3>1, <3>2
    <3>3. CASE d # c
      <4>1. ptr[<<n, d>>] = ptr[<<p, d>>]
        BY <1>1, <1>2, <1>6, <1>8, <3>3 DEF OwnRootInv
      <4>2. <<n, d>> # k
        BY <1>4, <3>3
      <4> QED BY <1>7, <3>1, <4>1, <4>2
    <3> QED BY <3>2, <3>3
  <2> QED BY <1>1, <1>2, <1>6, <1>8, <1>9, <2>1 DEF OwnRootInv
<1> QED BY <1>6, <1>8, <1>11, <1>12, <1>13, OwnParts

\* A pointer in the own copy of the root gets a version of its own transaction.
LEMMA OwnPointer ==
  ASSUME Inductive, Inductive', OwnInv, NEW x \in Txs, Quiet(x), pc[x] \in {"run", "copy"},
         pc'[x] = "run", NEW r \in OwnRoot(x), NEW c \in Cells, NEW n \in Live',
         n \in Live \/ other'[n] = None, owner'[n] = x, n \notin Roots',
         ptr' = [ptr EXCEPT ![<<r, c>>] = n], UNCHANGED <<cell, hist, parent, snap>>,
         \A w \in wset'[x] : w \in wset[x] \/ w.dst = <<r, c>>, wset[x] \subseteq wset'[x],
         \A v \in Live' : v \in Live \/ v \notin Roots',
         pc[x] = "copy" => op[x].dst # Root
  PROVE  OwnInv'
<1> USE DEF Inductive, OwnInv
<1>1. /\ r = ptr[Root] /\ r \in Obj /\ r \in Live /\ owner[r] = x /\ r \in Roots
      /\ other[r] \in Committed /\ r \notin Committed /\ other'[r] = other[r] /\ owner'[r] = x
  BY OwnRootIsRoot DEF RootChain, Quiet
<1>2. PICK k \in Loc : k = <<r, c>> /\ k # Root /\ k[1] = r
  BY <1>1, Locations
<1>3. ptr'[k] = n /\ \A l \in Loc : l # k => ptr'[l] = ptr[l]
  BY <1>2 DEF Types
<1>4. OwnRoot(x)' = OwnRoot(x)
  BY <1>2 DEF OwnRoot
<1>5. /\ ptr'[Root] \in Roots' /\ NewestRoot' = NewestRoot
      /\ (VerNum(ptr[Root]) = 0 => ptr[Root] \in OwnRoot(owner[ptr[Root]]))'
  BY <1>2, <1>3, <1>4, Locations, SameRoot
<1>6. \A v \in Live : v \in Roots' <=> v \in Roots
  BY QuietFrame
<1>7. RootChain'
  <2>1. \A l \in Loc : l # Root /\ ptr'[l] # None /\ ptr'[l] # ptr[l] =>
            l[1] \in Roots' /\ ptr'[l] \notin Roots'
    BY <1>1, <1>2, <1>3, <1>6
  <2> QED BY <1>5, <2>1, RootChainFrame
<1>8. ParentInv'
  BY ParentFrame
<1>9. OwnRootInv(x)
  BY DEF OwnRoots
<1>10. \A w \in wset'[x] : w.dst # Root => owner'[w.dst[1]] = x /\ w.dst[1] \in OwnRoot(x)'
  <2> SUFFICES ASSUME NEW w \in wset'[x], w.dst # Root
               PROVE  owner'[w.dst[1]] = x /\ w.dst[1] \in OwnRoot(x)'
    OBVIOUS
  <2>1. CASE w \in wset[x]
    <3>1. w.dst[1] \in OwnRoot(x)
      BY <1>9, <2>1 DEF OwnRootInv
    <3> QED BY <1>1, <1>4, <3>1, OwnRootIsRoot
  <2>2. CASE w.dst = <<r, c>>
    BY <1>1, <1>4, <2>2
  <2> QED BY <2>1, <2>2
<1>11. OwnRootInv(x)'
  <2>1. \A s \in Roots' : owner'[s] = x => s \in OwnRoot(x)'
    <3> SUFFICES ASSUME NEW s \in Roots', owner'[s] = x PROVE s \in OwnRoot(x)
      BY <1>4
    <3>1. s \in Live'
      BY DEF Roots
    <3>2. s \in Live /\ s \in Roots /\ owner[s] = x
      BY <1>6, <3>1 DEF Quiet
    <3> QED BY <1>9, <3>2 DEF OwnRootInv
  <2>2. ASSUME NEW s \in OwnRoot(x)', NEW d \in Cells
        PROVE  LET o == ptr'[<<s, d>>] IN
               (o # None /\ owner'[o] = x) \/ o = ptr'[<<other'[s], d>>]
    <3>1. s = r /\ <<r, d>> \in Loc /\ other[r] \in Obj /\ other[r] # r /\ other[r] # None
      BY <1>1, <1>4, OwnRootIsRoot, Locations, Numbers DEF Committed
    <3>2. CASE d = c
      BY <1>2, <1>3, <3>1, <3>2, NestedAssumption DEF Live
    <3>3. CASE d # c
      <4>1. <<r, d>> # k /\ <<other[r], d>> # k /\ <<other[r], d>> \in Loc
        BY <1>2, <3>1, <3>3, Locations
      <4>2. ptr[<<r, d>>] # None => ptr[<<r, d>>] \in Live
        BY <3>1 DEF HeapInv
      <4>3. ptr'[<<r, d>>] = ptr[<<r, d>>] /\ ptr'[<<other'[r], d>>] = ptr[<<other[r], d>>]
        BY <1>1, <1>3, <3>1, <4>1
      <4> QED BY <1>9, <3>1, <4>2, <4>3 DEF OwnRootInv, Quiet
    <3> QED BY <3>2, <3>3
  <2>3. OwnRoot(x)' # {}
    BY <1>4
  <2> QED BY <1>10, <2>1, <2>2, <2>3 DEF OwnRootInv
<1> QED BY <1>7, <1>8, <1>10, <1>11, OwnParts

LEMMA PerformOwn ==
  ASSUME Inductive, Inductive', OwnInv, NEW x \in Txs, Quiet(x), Perform(x) PROVE OwnInv'
<1> USE DEF Inductive, OwnInv
<1>1. PICK w \in TransactionWrite : w = op[x]
  BY DEF OpInv, Perform
<1>2. w.new \in Obj /\ w.current \in Obj /\ w.dst \in Loc
  BY DEF TransactionWrite
<1>3. /\ pc[x] = "copy" /\ left[x] = {} /\ owner[w.new] = x /\ other[w.new] = w.current
      /\ w.current \in Committed
  BY <1>1 DEF OpInv, Perform
<1>4. w.new \in Live /\ w.new \notin Committed /\ VerNum(w.new) = 0
  BY <1>2, <1>3, OwnedUncommitted DEF Running
<1>5. UNCHANGED <<owner, other, cell, hist, parent, snap, left>>
  BY DEF Perform
<1>6. Live' = Live /\ Roots' = Roots /\ \A o : VerNum(o)' = VerNum(o)
  BY <1>5, SameObjects DEF Roots
<1>7. Origin(w.new) = Origin(w.current)
  BY <1>2, <1>3, NestedAssumption, SameOrigin
<1>8. OwnRootInv(x)
  BY <1>3 DEF OwnRoots
<1>9. ParentInv'
  BY <1>5, ParentFrame
<1>10. CASE ptr[w.dst] # w.current
  <2>1. UNCHANGED <<heapVars, wset>> /\ pc'[x] = "abort"
    BY <1>1, <1>10 DEF Perform, Goto, heapVars, Types
  <2> QED BY <1>5, <1>9, <2>1, SameHeapOwn
<1>11. CASE ptr[w.dst] = w.current /\ w.dst = Root
  <2>1. /\ ptr' = [ptr EXCEPT ![Root] = w.new]
        /\ wset'[x] = wset[x] \cup {w} /\ pc'[x] = "run"
    BY <1>1, <1>11 DEF Perform, Goto, Types
  <2>2. ptr'[Root] = w.new /\ \A l \in Loc : l # Root => ptr'[l] = ptr[l]
    BY <2>1, Locations DEF Types
  <2>3. OwnRoot(x) = {} /\ wset[x] = {}
    BY <1>1, <1>3, <1>8, <1>11 DEF OwnRootInv
  <2>4. wset'[x] = {w} /\ OwnRoot(x)' = {w.new}
    BY <1>11, <2>1, <2>3 DEF OwnRoot
  <2>5. w.new \in Roots
    BY <1>4, <1>7, <1>11 DEF RootChain, Roots
  <2>6. NewestRoot' = NewestRoot
    <3>1. NewestRoot = w.current
      BY <1>3, <1>11 DEF NewestRoot, Committed
    <3>2. NewestRoot' = w.current
      BY <1>3, <1>4, <1>5, <1>6, <2>2 DEF NewestRoot
    <3> QED BY <3>1, <3>2
  <2>7. RootChain'
    <3>1. ptr'[Root] \in Roots'
      BY <1>6, <2>2, <2>5
    <3>2. (VerNum(ptr[Root]) = 0 => ptr[Root] \in OwnRoot(owner[ptr[Root]]))'
      BY <1>3, <1>5, <2>2, <2>4
    <3>3. \A l \in Loc : l # Root /\ ptr'[l] # None /\ ptr'[l] # ptr[l] =>
              l[1] \in Roots' /\ ptr'[l] \notin Roots'
      BY <2>2
    <3> QED BY <1>5, <2>1, <2>6, <3>1, <3>2, <3>3, RootChainFrame
  <2>8. OwnRootInv(x)'
    <3>1. \A r \in Roots' : owner'[r] = x => r \in OwnRoot(x)'
      BY <1>1, <1>3, <1>5, <1>6, <1>8, <2>3, <2>4 DEF OwnRootInv
    <3>2. ASSUME NEW c \in Cells PROVE ptr'[<<w.new, c>>] = ptr'[<<w.current, c>>]
      <4>1. ptr[<<w.new, c>>] = ptr[<<w.current, c>>]
        BY <1>1, <1>3, <1>8, <1>11 DEF OwnRootInv
      <4> QED BY <1>2, <2>2, <4>1, Locations
    <3> QED BY <1>3, <1>5, <1>11, <2>1, <2>4, <3>1, <3>2 DEF OwnRootInv
  <2> QED BY <1>5, <1>9, <1>11, <2>4, <2>7, <2>8, OwnParts
<1>12. CASE ptr[w.dst] = w.current /\ w.dst # Root
  <2>1. /\ ptr' = [ptr EXCEPT ![w.dst] = w.new]
        /\ wset'[x] = wset[x] \cup {w} /\ pc'[x] = "run"
    BY <1>1, <1>12 DEF Perform, Goto, Types
  <2>2. PICK r \in OwnRoot(x), c \in Cells : w.dst = <<r, c>>
    BY <1>1, <1>2, <1>3, <1>8, <1>12, Locations DEF OwnRootInv
  <2>3. w.new \notin Roots'
    <3>1. w.current \notin Roots /\ w.current \in Live
      BY <1>2, <1>3, <1>12, NestedAssumption DEF RootChain, Committed
    <3> QED BY <1>6, <1>7, <3>1 DEF Roots
  <2>4. /\ \A v \in wset'[x] : v \in wset[x] \/ v.dst = <<r, c>>
        /\ wset[x] \subseteq wset'[x]
    BY <2>1, <2>2
  <2> QED BY <1>1, <1>3, <1>4, <1>5, <1>6, <1>12, <2>1, <2>2, <2>3, <2>4, OwnPointer
<1> QED BY <1>10, <1>11, <1>12

LEMMA AllocOwn ==
  ASSUME Inductive, Inductive', OwnInv, NEW x \in Txs, Quiet(x), NEW c \in Cells, Alloc(x, c)
  PROVE  OwnInv'
<1> USE DEF Inductive, OwnInv
<1>1. PICK r \in OwnRoot(x) : AllocIn(x, r, c)
  BY DEF Alloc
<1>2. UNCHANGED <<cell, hist, parent, snap, wset, pc>> /\ pc[x] = "run"
  BY <1>1 DEF AllocIn
<1>3. PICK a \in Obj \ Live : /\ a = Allocated /\ Live' = Live \cup {a}
                              /\ owner'[a] = x /\ other'[a] = None
  BY <1>1, <1>2, NewObject DEF AllocIn, TxInv
<1>4. ptr' = [ptr EXCEPT ![<<r, c>>] = a]
  BY <1>1, <1>3 DEF AllocIn
<1>5. Origin(a)' = a
  BY <1>3, Steps DEF OriginSteps
<1>6. a \notin Roots'
  BY <1>3, <1>5, NestedAssumption DEF Roots, RootChain, Live
<1> QED BY <1>2, <1>3, <1>4, <1>6, OwnPointer

LEMMA RollbackOwn ==
  ASSUME Inductive, Inductive', OwnInv, NEW x \in Txs, Quiet(x), NEW w \in wset[x], Rollback(x, w)
  PROVE  OwnInv'
<1> USE DEF Inductive, OwnInv
<1>1. w.new \in Obj /\ w.current \in Obj /\ w.dst \in Loc
  BY DEF Types, TransactionWrite
<1>2. ptr[w.dst] = w.new /\ owner[w.new] = x /\ other[w.new] = w.current
  BY DEF WriteInv
<1>3. /\ ptr' = [ptr EXCEPT ![w.dst] = w.current] /\ wset'[x] = wset[x] \ {w}
      /\ UNCHANGED <<owner, other, cell, pc, hist, parent, snap, op>> /\ pc[x] = "abort"
  BY <1>2 DEF Rollback, Types
<1>4. w.new \in Live /\ VerNum(w.new) = 0 /\ w.new \notin Committed
  BY <1>1, <1>2, <1>3, OwnedUncommitted DEF Running
<1>5. w.current \in Committed /\ Origin(w.new) = Origin(w.current)
  BY <1>1, <1>2, <1>4, NestedAssumption, SameOrigin DEF HeapInv
<1>6. Live' = Live /\ Roots' = Roots /\ \A o : VerNum(o)' = VerNum(o)
  BY <1>3, SameObjects DEF Roots
<1>7. ptr'[w.dst] = w.current /\ \A l \in Loc : l # w.dst => ptr'[l] = ptr[l]
  BY <1>1, <1>3 DEF Types
<1>8. ParentInv'
  BY <1>3, ParentFrame
<1>9. \A v \in wset'[x] : v.dst # Root => owner'[v.dst[1]] = x
  BY <1>3 DEF OwnRoots
<1>10. CASE w.dst = Root
  <2>1. NewestRoot' = NewestRoot
    <3>1. NewestRoot = w.current
      BY <1>2, <1>4, <1>10 DEF NewestRoot
    <3>2. NewestRoot' = w.current
      BY <1>5, <1>6, <1>7, <1>10 DEF NewestRoot, Committed
    <3> QED BY <3>1, <3>2
  <2>2. ptr'[Root] \in Roots'
    <3>1. w.new \in Roots
      BY <1>2, <1>10 DEF RootChain
    <3> QED BY <1>5, <1>6, <1>7, <1>10, <3>1 DEF Roots, Committed
  <2>3. (VerNum(ptr[Root]) = 0 => ptr[Root] \in OwnRoot(owner[ptr[Root]]))'
    BY <1>5, <1>6, <1>7, <1>10 DEF Committed
  <2>4. RootChain'
    <3>1. \A l \in Loc : l # Root /\ ptr'[l] # None /\ ptr'[l] # ptr[l] =>
              l[1] \in Roots' /\ ptr'[l] \notin Roots'
      BY <1>7, <1>10
    <3> QED BY <1>3, <2>1, <2>2, <2>3, <3>1, RootChainFrame
  <2> QED BY <1>3, <1>8, <1>9, <2>4, OwnParts
<1>11. CASE w.dst # Root
  <2>1. OwnRoot(x) \subseteq OwnRoot(x)'
    BY <1>3, <1>11 DEF OwnRoot
  <2>2. /\ ptr'[Root] \in Roots' /\ NewestRoot' = NewestRoot
        /\ (VerNum(ptr[Root]) = 0 => ptr[Root] \in OwnRoot(owner[ptr[Root]]))'
    BY <1>3, <1>7, <1>11, <2>1, Locations, SameRoot
  <2>3. w.dst[1] \in Roots /\ w.new \notin Roots
    BY <1>1, <1>2, <1>11, NestedAssumption DEF RootChain
  <2>4. w.current \notin Roots
    BY <1>4, <1>5, <2>3 DEF Roots
  <2>5. \A l \in Loc : l # Root /\ ptr'[l] # None /\ ptr'[l] # ptr[l] =>
            l[1] \in Roots' /\ ptr'[l] \notin Roots'
    BY <1>6, <1>7, <2>3, <2>4
  <2>6. RootChain'
    BY <1>3, <2>2, <2>5, RootChainFrame
  <2> QED BY <1>3, <1>8, <1>9, <2>6, OwnParts
<1> QED BY <1>10, <1>11

\* A commit without writes changes nothing that others can see.
LEMMA CommitNothingOwn ==
  ASSUME Inductive, Inductive', OwnInv, NEW x \in Txs, Quiet(x), Commit(x), wset[x] = {}
  PROVE  OwnInv'
<1>1. UNCHANGED <<heapVars, cell, hist, parent, snap>> /\ wset'[x] = wset[x] /\ pc'[x] = "done"
  BY DEF Commit, Goto, Inductive, Types
<1>2. ParentInv'
  BY <1>1, ParentFrame DEF OwnInv
<1> QED BY <1>1, <1>2, SameHeapOwn

\* A commit makes the copy of the root the newest root object, with all its children.
LEMMA CommitOwn ==
  ASSUME Inductive, Inductive', OwnInv, NEW x \in Txs, Quiet(x), Commit(x), wset[x] # {}
  PROVE  OwnInv'
<1> USE DEF Inductive, OwnInv
<1>1. /\ UNCHANGED <<ptr, owner, other, snap, parent, op, left>> /\ pc[x] = "run"
      /\ pc'[x] = "done" /\ wset'[x] = {}
      /\ clock' = clock + 1 /\ cell' = [cell EXCEPT ![x] = clock + 1]
      /\ hist' = [c \in Cells |-> hist[c] \cup ({clock + 1} \X Written(x, c))]
  BY DEF Commit, Goto, heapVars, Types
<1>2. Live' = Live /\ Roots' = Roots /\ \A o : Origin(o)' = Origin(o)
  BY <1>1 DEF Live, Roots, Origin
<1>3. clock \in Nat /\ cell[x] = 0
  BY DEF Types, Quiet
<1>4. \A o \in Live : /\ owner[o] = x => VerNum(o) = 0 /\ VerNum(o)' = clock + 1
                      /\ owner[o] # x => VerNum(o)' = VerNum(o)
  BY <1>1, <1>3, NestedAssumption DEF Types, VerNum, Live
<1>5. \A o \in Live : VerNum(o) \in Nat /\ VerNum(o) <= clock
  BY Numbers DEF TxInv, Types
<1>6. \A o \in Committed : o \in Live /\ o \in Committed' /\ VerNum(o)' = VerNum(o)
  BY <1>2, <1>4 DEF Committed
<1>7. OwnRootInv(x)
  BY <1>1 DEF OwnRoots
<1>8. PICK r \in OwnRoot(x) : TRUE
  BY <1>7 DEF OwnRootInv
<1>9. /\ r = ptr[Root] /\ r \in Live /\ r \in Obj /\ owner[r] = x /\ other[r] = NewestRoot
      /\ r \in Roots /\ VerNum(r) = 0 /\ r \notin Committed
  BY OwnRootIsRoot DEF RootChain
<1>10. OwnRoot(x) = {r}
  BY <1>9, OwnRootIsRoot
<1>11. VerNum(r)' = clock + 1 /\ r \in Committed'
  BY <1>2, <1>3, <1>4, <1>9 DEF Committed
<1>12. CommittedRoots' = CommittedRoots \cup {r}
  <2>1. ASSUME NEW s \in CommittedRoots', s # r PROVE s \in CommittedRoots
    <3>1. s \in Roots /\ s \in Live /\ VerNum(s)' # 0
      BY <1>2 DEF CommittedRoots, Roots, Committed
    <3>2. owner[s] # x
      BY <1>1, <1>7, <1>10, <2>1, <3>1 DEF OwnRootInv
    <3> QED BY <1>4, <3>1, <3>2 DEF CommittedRoots, Committed
  <2>2. ASSUME NEW s \in CommittedRoots PROVE s \in CommittedRoots'
    BY <1>2, <1>6 DEF CommittedRoots
  <2>3. r \in CommittedRoots'
    BY <1>2, <1>9, <1>11 DEF CommittedRoots
  <2> QED BY <2>1, <2>2, <2>3
<1>13. \A s \in CommittedRoots : /\ s \in Live /\ s # r /\ VerNum(s)' = VerNum(s)
                                 /\ VerNum(s) \in Nat /\ VerNum(s) <= clock
  BY <1>5, <1>6, <1>9 DEF CommittedRoots
<1>14. NewestRoot' = r
  BY <1>1, <1>3, <1>9, <1>11 DEF NewestRoot
<1>15. NewestRoot \in CommittedRoots /\ \A s \in CommittedRoots : VerNum(s) <= VerNum(NewestRoot)
  BY DEF RootChain
<1>16. RootChain'
  <2>1. owner'[FirstRoot] = Base /\ ptr'[Root] \in Roots' /\ NewestRoot' \in CommittedRoots'
    BY <1>1, <1>2, <1>9, <1>12, <1>14 DEF RootChain
  <2>2. \A s \in CommittedRoots' : VerNum(s)' <= VerNum(NewestRoot)'
    BY <1>3, <1>11, <1>12, <1>13, <1>14
  <2>3. (VerNum(ptr[Root]) = 0 => ptr[Root] \in OwnRoot(owner[ptr[Root]]))'
    BY <1>1, <1>3, <1>9, <1>11
  <2>4. ASSUME NEW o \in CommittedRoots', NEW s \in CommittedRoots', o # FirstRoot,
               VerNum(s)' < VerNum(o)'
        PROVE  VerNum(s)' <= VerNum(other[o])'
    <3>1. s \in CommittedRoots
      BY <1>3, <1>11, <1>12, <1>13, <2>4
    <3>2. CASE o = r
      <4>1. PICK p \in CommittedRoots : p = other[o] /\ p = NewestRoot
        BY <1>9, <1>15, <3>2
      <4> QED BY <1>1, <1>13, <1>15, <3>1, <4>1
    <3>3. CASE o # r
      <4>1. o \in CommittedRoots /\ VerNum(s) <= VerNum(other[o])
        BY <1>12, <1>13, <2>4, <3>1, <3>3 DEF RootChain
      <4>2. other[o] # None
        BY <2>4, <4>1, Steps DEF OriginSteps, CommittedRoots, Roots, Live
      <4>3. PICK p \in Committed : p = other[o]
        BY <4>1, <4>2 DEF HeapInv, CommittedRoots, Roots
      <4> QED BY <1>1, <1>6, <1>13, <3>1, <4>1, <4>3
    <3> QED BY <3>2, <3>3
  <2>5. \A y \in Txs : pc'[y] = "copy" /\ op'[y].dst = Root => op'[y].current \in Roots'
    BY <1>1, <1>2 DEF RootChain, Quiet
  <2>6. \A l \in Loc : l # Root /\ ptr'[l] # None => l[1] \in Roots' /\ ptr'[l] \notin Roots'
    BY <1>1, <1>2 DEF RootChain
  <2> QED BY <2>1, <2>2, <2>3, <2>4, <2>5, <2>6 DEF RootChain
<1>17. OwnRoots'
  <2>1. ASSUME NEW y \in Txs
        PROVE  /\ \A w \in wset'[y] : w.dst # Root => owner'[w.dst[1]] = y
               /\ pc'[y] \in {"idle", "run", "copy"} => OwnRootInv(y)'
    BY <1>1, OthersOwn
  <2> QED BY <2>1 DEF OwnRoots
<1>18. ParentInv'
  <2> SUFFICES ASSUME NEW y \in Txs, NEW p, p = parent[y], p # None
               PROVE  /\ p \in CommittedRoots'
                      /\ \A s \in CommittedRoots' : VerNum(s)' <= snap[y] => VerNum(s)' <= VerNum(p)'
    BY <1>1 DEF ParentInv
  <2>1. p \in CommittedRoots /\ \A s \in CommittedRoots : VerNum(s) <= snap[y] => VerNum(s) <= VerNum(p)
    BY DEF ParentInv
  <2>2. snap[y] <= clock /\ snap[y] \in Nat
    BY DEF TxInv, Types
  <2> QED BY <1>3, <1>11, <1>12, <1>13, <2>1, <2>2
<1>19. ASSUME NEW c \in Cells, NEW o \in Written(x, c) PROVE o = ptr[<<r, c>>] /\ o # None
  <2>1. o \in Obj /\ owner[o] = x /\
           (\/ \E w \in wset[x] : w.new = o /\ w.dst # Root /\ w.dst[2] = c
            \/ \E s \in OwnRoot(x) : ptr[<<s, c>>] = o)
    BY <1>19 DEF Written
  <2>2. CASE \E w \in wset[x] : w.new = o /\ w.dst # Root /\ w.dst[2] = c
    <3>1. PICK w \in wset[x] : w.new = o /\ w.dst # Root /\ w.dst[2] = c
      BY <2>2
    <3>2. w.dst[1] = r /\ w.dst \in Loc /\ ptr[w.dst] = o
      BY <1>7, <1>10, <3>1 DEF OwnRootInv, WriteInv, Types, TransactionWrite
    <3>3. w.dst = <<r, c>>
      BY <3>1, <3>2, Locations
    <3> QED BY <2>1, <3>2, <3>3, NestedAssumption
  <2>3. CASE \E s \in OwnRoot(x) : ptr[<<s, c>>] = o
    BY <1>10, <2>1, <2>3, NestedAssumption
  <2> QED BY <2>1, <2>2, <2>3
<1>20. ASSUME NEW c \in Cells, NEW g \in hist[c] PROVE g[1] \in Nat /\ g[1] <= VerNum(NewestRoot)
  BY <1>13, <1>15 DEF ChildrenInv
<1>21. ASSUME NEW s \in CommittedRoots, NEW c \in Cells, NEW o, o = ptr[<<s, c>>]
       PROVE  LastChild(s, c, o)'
  <2>1. LastChild(s, c, o)
    BY <1>21 DEF ChildrenInv
  <2>2. hist'[c] = hist[c] \cup ({clock + 1} \X Written(x, c))
    BY <1>1
  <2>3. PICK h \in hist[c] : /\ h[2] = o /\ h[1] <= VerNum(s)
                             /\ \A g \in hist[c] : g[1] <= VerNum(s) => g[1] <= h[1]
    BY <2>1 DEF LastChild
  <2>4. \A g \in hist'[c] : g[1] <= VerNum(s)' => g[1] <= h[1]
    BY <1>3, <1>13, <2>2, <2>3
  <2>5. o # None => o \in Committed' /\ VerNum(o)' <= VerNum(s)'
    BY <1>6, <1>13, <2>1 DEF LastChild
  <2> QED BY <1>13, <2>2, <2>3, <2>4, <2>5 DEF LastChild
<1>22. ASSUME NEW c \in Cells, NEW o, o = ptr[<<r, c>>] PROVE LastChild(r, c, o)'
  <2>1. hist'[c] = hist[c] \cup ({clock + 1} \X Written(x, c))
    BY <1>1
  <2>2. o # None => o \in Live /\ o \in Obj
    BY <1>9, <1>22, Locations DEF HeapInv, Live
  <2>3. CASE o # None /\ owner[o] = x
    <3>1. o \in Written(x, c)
      BY <1>10, <1>22, <2>2, <2>3 DEF Written
    <3>2. <<clock + 1, o>> \in hist'[c]
      BY <2>1, <3>1
    <3>3. \A g \in hist'[c] : g[1] <= VerNum(r)' => g[1] <= <<clock + 1, o>>[1]
      BY <1>11
    <3>4. o \in Committed' /\ VerNum(o)' <= VerNum(r)'
      BY <1>2, <1>3, <1>4, <1>11, <2>2, <2>3 DEF Committed
    <3>5. <<clock + 1, o>>[2] = o /\ <<clock + 1, o>>[1] <= VerNum(r)'
      BY <1>3, <1>11
    <3> QED BY <3>2, <3>3, <3>4, <3>5 DEF LastChild
  <2>4. CASE ~(o # None /\ owner[o] = x)
    <3>1. o = ptr[<<NewestRoot, c>>]
      BY <1>7, <1>9, <1>22, <2>4 DEF OwnRootInv
    <3>2. LastChild(NewestRoot, c, o)
      BY <1>15, <3>1 DEF ChildrenInv
    <3>3. hist'[c] = hist[c]
      <4>1. Written(x, c) = {}
        <5> SUFFICES ASSUME NEW q \in Written(x, c) PROVE FALSE
          OBVIOUS
        <5>1. q = o /\ o # None
          BY <1>19, <1>22
        <5> QED BY <2>4, <5>1 DEF Written
      <4> QED BY <2>1, <4>1
    <3>4. PICK h \in hist[c] : /\ h[2] = o /\ h[1] <= VerNum(NewestRoot)
             /\ \A g \in hist[c] : g[1] <= VerNum(NewestRoot) => g[1] <= h[1]
      BY <3>2 DEF LastChild
    <3>5. VerNum(NewestRoot) \in Nat /\ VerNum(NewestRoot) <= clock
      BY <1>13, <1>15
    <3>6. o # None => o \in Committed' /\ VerNum(o)' <= VerNum(r)'
      <4>1. o # None => o \in Committed /\ VerNum(o) <= VerNum(NewestRoot) /\ VerNum(o) \in Nat
        BY <1>5, <2>2, <3>2 DEF LastChild
      <4> QED BY <1>3, <1>6, <1>11, <3>5, <4>1
    <3>7. h[1] <= VerNum(r)' /\ \A g \in hist[c] : g[1] <= VerNum(r)' => g[1] <= h[1]
      BY <1>3, <1>11, <1>20, <3>4, <3>5
    <3> QED BY <3>3, <3>4, <3>6, <3>7 DEF LastChild
  <2> QED BY <2>3, <2>4
<1>23. ASSUME NEW c \in Cells, NEW g \in hist'[c] PROVE \E s \in CommittedRoots' : VerNum(s)' = g[1]
  <2>1. CASE g \in hist[c]
    BY <1>12, <1>13, <2>1 DEF ChildrenInv
  <2>2. CASE g \notin hist[c]
    <3>1. g[1] = clock + 1
      BY <1>1, <1>23, <2>2
    <3> QED BY <1>11, <1>12, <3>1
  <2> QED BY <2>1, <2>2
<1>24. ChildrenInv'
  <2> HIDE DEF Inductive, OwnInv
  <2>1. ASSUME NEW s \in CommittedRoots', NEW c \in Cells, NEW o, o = ptr'[<<s, c>>]
        PROVE  LastChild(s, c, o)'
    BY <1>1, <1>12, <1>21, <1>22, <2>1
  <2> QED BY <1>23, <2>1 DEF ChildrenInv
<1> QED BY <1>16, <1>17, <1>18, <1>24

LEMMA NextOwn ==
  ASSUME Inductive, Inductive', OwnInv, ways = {"own"}, [Next]_vars PROVE OwnInv'
<1>1. CASE UNCHANGED vars
  <2>1. /\ Live' = Live /\ Committed' = Committed
        /\ \A o : VerNum(o)' = VerNum(o) /\ Origin(o)' = Origin(o)
    BY <1>1, SameHeap DEF vars, heapVars
  <2>2. Roots' = Roots /\ CommittedRoots' = CommittedRoots
    BY <2>1 DEF Roots, CommittedRoots
  <2>3. \A x : OwnRoot(x)' = OwnRoot(x)
    BY <1>1 DEF vars, OwnRoot
  <2>4. NewestRoot' = NewestRoot
    BY <1>1, <2>1 DEF vars, heapVars, NewestRoot
  <2>5. RootChain => RootChain'
    BY <1>1, <2>1, <2>2, <2>3, <2>4 DEF vars, heapVars, RootChain
  <2>6. OwnRoots => OwnRoots'
    BY <1>1, <2>2, <2>3 DEF vars, heapVars, OwnRoots, OwnRootInv
  <2>7. ChildrenInv => ChildrenInv'
    BY <1>1, <2>1, <2>2 DEF vars, heapVars, ChildrenInv, LastChild
  <2>8. ParentInv => ParentInv'
    BY <1>1, <2>1, <2>2 DEF vars, ParentInv
  <2> QED BY <2>5, <2>6, <2>7, <2>8 DEF OwnInv
<1>2. CASE Next
  <2>1. PICK x \in Txs : Step(x)
    BY <1>2 DEF Next
  <2>2. Quiet(x)
    BY <2>1, StepQuiet DEF OwnInv
  <2> QED BY <2>1, <2>2, BeginOwn, ReadRootOwn, PerformOwn, CommitOwn, CommitNothingOwn, WriteOwn,
             CopyPointerOwn, AllocOwn, RollbackOwn DEF Step
<1> QED BY <1>1, <1>2

\* If children are written through the own copy of their parent only, the root objects
\* form one chain, each with the children that were committed last.
THEOREM OwnInvariant == Spec => []OwnInductive
<1>1. Init => OwnInductive
  BY InitOwn DEF OwnInv, OwnInductive
<1>2. Inductive /\ Inductive' /\ OwnInductive /\ [Next]_vars => OwnInductive'
  <2> SUFFICES ASSUME Inductive, Inductive', OwnInductive, [Next]_vars, ways' = {"own"}
               PROVE  OwnInv'
    BY DEF OwnInductive, OwnInv
  <2>1. ways = {"own"}
    BY DEF Next, vars
  <2>2. OwnInv
    BY <2>1 DEF OwnInductive, OwnInv
  <2> QED BY <2>1, <2>2, NextOwn
<1> QED BY <1>1, <1>2, InductiveInvariant, PTL DEF Spec

\* No committed update of a child is lost when its parent is copied, replaced or rolled
\* back, as long as children are written through the own copy of their parent only.
THEOREM OwnUpdatesAreKept == Spec => []OwnUpdatesKept
<1>1. Inductive /\ OwnInductive => OwnUpdatesKept
  <2> SUFFICES ASSUME Inductive, RootChain, ChildrenInv, ParentInv,
                      NEW x \in Txs, Reading(x), NEW c \in Cells
               PROVE  \E h \in hist[c] : /\ SeenChild(x, c) = h[2] /\ h[1] <= snap[x]
                                         /\ \A g \in hist[c] : g[1] <= snap[x] => g[1] <= h[1]
    BY DEF OwnInductive, OwnUpdatesKept, NewestChildren
  <2> USE DEF Inductive
  <2>1. PICK p \in CommittedRoots : p = parent[x]
    BY DEF Reading, ParentInv
  <2>2. /\ \A s \in CommittedRoots : VerNum(s) <= snap[x] => VerNum(s) <= VerNum(p)
        /\ VerNum(p) <= snap[x] /\ snap[x] \in Nat
    BY <2>1 DEF Reading, ParentInv, TxInv, Visible, Types
  <2>3. \A s \in CommittedRoots : VerNum(s) \in Nat /\ s \in Live /\ s \in Obj
    BY Numbers DEF CommittedRoots, Roots
  <2>4. PICK o : o = ptr[<<p, c>>]
    OBVIOUS
  <2>5. LastChild(p, c, o)
    BY <2>4 DEF ChildrenInv
  <2>6. SeenChild(x, c) = o
    <3>1. SeenChild(x, c) = Seen(x, o)
      BY <2>1, <2>4 DEF SeenChild
    <3>2. CASE o = None
      BY <3>1, <3>2, Steps DEF SeenSteps
    <3>3. CASE o # None
      <4>1. o \in Live /\ VerNum(o) # 0 /\ VerNum(o) <= VerNum(p)
        BY <2>5, <3>3 DEF LastChild, Committed
      <4>2. VerNum(o) \in Nat /\ o \in Obj
        BY <4>1, Numbers
      <4>3. Visible(x, o)
        BY <2>2, <2>3, <4>1, <4>2 DEF Visible
      <4> QED BY <3>1, <4>2, <4>3, Steps DEF SeenSteps
    <3> QED BY <3>2, <3>3
  <2>7. PICK h \in hist[c] : /\ h[2] = o /\ h[1] <= VerNum(p)
                             /\ \A g \in hist[c] : g[1] <= VerNum(p) => g[1] <= h[1]
    BY <2>5 DEF LastChild
  <2>8. \A g \in hist[c] : \E s \in CommittedRoots : VerNum(s) = g[1]
    BY DEF ChildrenInv
  <2>9. h[1] <= snap[x]
    BY <2>2, <2>3, <2>7, <2>8
  <2>10. \A g \in hist[c] : g[1] <= snap[x] => g[1] <= h[1]
    BY <2>2, <2>7, <2>8
  <2> QED BY <2>6, <2>7, <2>9, <2>10
<1> QED BY <1>1, InductiveInvariant, OwnInvariant, PTL

\* No latch on a child outlives its transaction, as long as children are written through
\* the own copy of their parent only.
THEOREM OwnLatchesHeld == Spec => []OwnLatchHeld
<1>1. OwnInductive => OwnLatchHeld
  BY DEF OwnInductive, OwnLatchHeld, ChildLatchHeld, RootChain, ChildrenInv, LastChild,
         CommittedRoots, Committed, NewestRoot
<1> QED BY <1>1, OwnInvariant, PTL

=============================================================================
