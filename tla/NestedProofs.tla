---------------------------- MODULE NestedProofs ----------------------------
(***************************************************************************)
(* Proofs for Nested: Inductive of NestedInvariant is an invariant, and    *)
(* the properties of pointers inside objects that hold for all closures    *)
(* follow from it, for any number of transactions, children and objects.   *)
(***************************************************************************)
EXTENDS NestedInvariant, WellFoundedInduction, TLAPS

-----------------------------------------------------------------------------
(***************************************************************************)
(* Walking down a chain of versions.                                       *)
(***************************************************************************)

\* What can be reached from v in D by following n until an element of T is reached.
Reached(D, T, n, v) ==
    {w \in D : \A S \in SUBSET D :
                  v \in S /\ (\A u \in S : u \notin T => n[u] \in S) => w \in S}

\* The function g follows n from every element of D until it is in T.
IsWalk(D, T, n, g) ==
    (\E S : g \in [D -> S]) /\ \A v \in D : g[v] = IF v \in T THEN v ELSE g[n[v]]

\* A walk that stops in T is a well-defined recursive function, although nothing is said
\* here about whether it ends: it gives one of the elements of T it can reach.
LEMMA WalkExists ==
  ASSUME NEW D, NEW T, T \subseteq D, NEW n, \A v \in D : v \notin T => n[v] \in D
  PROVE  \E g : IsWalk(D, T, n, g)
<1> DEFINE R(v) == Reached(D, T, n, v)
           E(v) == CHOOSE w : w \in R(v) \cap T
           g == [v \in D |-> E(v)]
<1>1. ASSUME NEW v \in T PROVE E(v) = v
  <2>1. v \in R(v)
    BY DEF Reached
  <2>2. ASSUME NEW w \in R(v) PROVE w = v
    <3>1. {v} \in SUBSET D /\ v \in {v} /\ \A u \in {v} : u \notin T => n[u] \in {v}
      OBVIOUS
    <3>2. w \in {v}
      BY <3>1 DEF Reached
    <3> QED BY <3>2
  <2>3. R(v) \cap T = {v}
    BY <2>1, <2>2
  <2> HIDE DEF R
  <2> QED BY <2>3
<1>2. ASSUME NEW v \in D, v \notin T PROVE E(v) = E(n[v])
  <2>0. n[v] \in D
    BY <1>2
  <2>1. ASSUME NEW w \in R(v), w \in T PROVE w \in R(n[v])
    <3> SUFFICES ASSUME NEW S \in SUBSET D, n[v] \in S, \A u \in S : u \notin T => n[u] \in S
                 PROVE  w \in S
      BY DEF Reached
    <3>1. S \cup {v} \in SUBSET D /\ \A u \in S \cup {v} : u \notin T => n[u] \in S \cup {v}
      OBVIOUS
    <3>2. w \in S \cup {v}
      BY <3>1 DEF Reached
    <3> QED BY <1>2, <2>1, <3>2
  <2>2. ASSUME NEW w \in R(n[v]) PROVE w \in R(v)
    BY <1>2, <2>0 DEF Reached
  <2>3. R(v) \cap T = R(n[v]) \cap T
    BY <2>1, <2>2
  <2> HIDE DEF R
  <2> QED BY <2>3
<1> HIDE DEF E
<1>3. \A v \in D : g[v] = IF v \in T THEN v ELSE g[n[v]]
  BY <1>1, <1>2
<1>4. g \in [D -> {E(v) : v \in D}]
  OBVIOUS
<1> HIDE DEF g
<1>5. IsWalk(D, T, n, g)
  BY <1>3, <1>4 DEF IsWalk
<1> QED BY <1>5

\* VersionedReader::read stops at a version of the snapshot or at the end of the chain.
LEMMA SeenStep ==
  ASSUME Types, NEW x \in Txs, NEW o \in Obj \cup {None}
  PROVE  Seen(x, o) = IF o = None \/ (o \in Obj /\ Visible(x, o)) THEN o ELSE Seen(x, other[o])
<1> DEFINE D == Obj \cup {None}
           T == {v \in D : v = None \/ (v \in Obj /\ Visible(x, v))}
           Is(g) == g = [v \in D |-> IF v = None \/ (v \in Obj /\ Visible(x, v)) THEN v
                                     ELSE g[other[v]]]
           walk == CHOOSE g : Is(g)
<1>1. \E g : Is(g)
  <2>1. \A v \in D : v \notin T => other[v] \in D
    BY DEF Types
  <2>2. T \subseteq D
    OBVIOUS
  <2>3. PICK g : IsWalk(D, T, other, g)
    <3> HIDE DEF D, T
    <3> QED BY <2>1, <2>2, WalkExists, Zenon
  <2>4. Is(g)
    BY <2>3 DEF IsWalk
  <2> QED BY <2>4
<1>2. Is(walk)
  BY <1>1
<1>3. \A v : Seen(x, v) = walk[v]
  BY DEF Seen
<1>4. walk[o] = IF o = None \/ (o \in Obj /\ Visible(x, o)) THEN o ELSE walk[other[o]]
  <2> HIDE DEF walk
  <2> QED BY <1>2
<1> HIDE DEF walk
<1> QED BY <1>3, <1>4

\* The oldest version of an object is that of the version it was copied from.
LEMMA OriginStep ==
  ASSUME Types, NEW o \in Obj
  PROVE  Origin(o) = IF other[o] = None THEN o ELSE Origin(other[o])
<1> DEFINE T == {v \in Obj : other[v] = None}
           Is(g) == g = [v \in Obj |-> IF other[v] = None THEN v ELSE g[other[v]]]
           walk == CHOOSE g : Is(g)
<1>1. \E g : Is(g)
  <2>1. \A v \in Obj : v \notin T => other[v] \in Obj
    BY DEF Types
  <2>2. T \subseteq Obj
    OBVIOUS
  <2>3. PICK g : IsWalk(Obj, T, other, g)
    <3> HIDE DEF T
    <3> QED BY <2>1, <2>2, WalkExists, Zenon
  <2>4. Is(g)
    BY <2>3 DEF IsWalk
  <2> QED BY <2>4
<1>2. Is(walk)
  BY <1>1
<1>3. \A v : Origin(v) = walk[v]
  BY DEF Origin
<1>4. walk[o] = IF other[o] = None THEN o ELSE walk[other[o]]
  <2> HIDE DEF walk
  <2> QED BY <1>2
<1> HIDE DEF walk
<1> QED BY <1>3, <1>4

\* The two walks, one version at a time.
SeenSteps ==
    \A x \in Txs, o \in Obj \cup {None} :
       Seen(x, o) = IF o = None \/ (o \in Obj /\ Visible(x, o)) THEN o ELSE Seen(x, other[o])
OriginSteps ==
    \A o \in Obj : Origin(o) = IF other[o] = None THEN o ELSE Origin(other[o])

\* They hold before and after a step.
LEMMA Steps == (Types => SeenSteps /\ OriginSteps) /\ (Types' => SeenSteps' /\ OriginSteps')
<1>1. Types => SeenSteps
  BY SeenStep DEF SeenSteps
<1>2. Types => OriginSteps
  BY OriginStep DEF OriginSteps
<1> QED BY <1>1, <1>2, PTL

\* A set of numbers has a smallest element.
LEMMA Minimum ==
  ASSUME NEW S, S \subseteq Nat, S # {}
  PROVE  \E m \in S : \A n \in S : m <= n
<1>1. PICK m \in S : \A y \in S : ~(<<y, m>> \in OpToRel(<, Nat))
  BY NatLessThanWellFounded, WFMin, Zenon
<1>2. \A y \in S : ~(y < m)
  BY <1>1 DEF OpToRel
<1> QED BY <1>2

\* The number of a version.
LEMMA Numbers ==
  ASSUME Types, NEW o \in Live
  PROVE  /\ o \in Obj /\ o # None /\ owner[o] \in Txs \cup {Base}
         /\ VerNum(o) \in Nat
         /\ owner[o] = Base => VerNum(o) = 1
         /\ owner[o] # Base => owner[o] \in Txs /\ VerNum(o) = cell[owner[o]]
BY NestedAssumption DEF Types, Live, VerNum

\* Chains end: no set of versions is closed under following them.
LEMMA ChainsEnd ==
  ASSUME Types, HeapInv, NEW B \in SUBSET Live,
         \A v \in B : other[v] # None /\ other[v] \in B
  PROVE  B = {}
<1> SUFFICES ASSUME B # {} PROVE FALSE
  OBVIOUS
<1> DEFINE C == B \cap Committed
           N == {VerNum(v) : v \in C}
<1>1. \A v \in B : other[v] \in C
  BY DEF HeapInv
<1>2. N \in SUBSET Nat /\ N # {}
  BY <1>1, Numbers
<1>3. PICK m \in N : \A n \in N : m <= n
  BY <1>2, Minimum
<1>4. PICK v \in C : m = VerNum(v)
  OBVIOUS
<1>5. VerNum(other[v]) \in N /\ VerNum(other[v]) < VerNum(v)
  BY <1>1 DEF HeapInv, Committed
<1> QED BY <1>2, <1>3, <1>4, <1>5
\* What a transaction sees is a version of its snapshot.
LEMMA SeenFacts ==
  ASSUME Types, HeapInv, NEW x \in Txs, NEW o \in Live, Seen(x, o) # None
  PROVE  Seen(x, o) \in Live /\ Visible(x, Seen(x, o))
<1> DEFINE Good(v) == Seen(x, v) # None => Seen(x, v) \in Live /\ Visible(x, Seen(x, v))
           B == {v \in Live : ~Good(v)}
<1>1. ASSUME NEW v \in B PROVE other[v] # None /\ other[v] \in B
  <2>1. v \in Obj /\ v # None /\ other[v] \in Obj \cup {None}
    BY Numbers DEF Types
  <2>2. ~Visible(x, v) /\ Seen(x, v) = Seen(x, other[v])
    BY <2>1, Steps DEF SeenSteps
  <2>3. other[v] # None
    BY <2>2, Steps DEF SeenSteps
  <2> QED BY <2>2, <2>3 DEF HeapInv, Committed
<1> HIDE DEF Good
<1>2. B = {}
  BY <1>1, ChainsEnd
<1>3. Good(o)
  BY <1>2
<1> QED BY <1>3 DEF Good

\* The oldest version is live and was not copied.
LEMMA OriginFacts ==
  ASSUME Types, HeapInv, NEW o \in Live
  PROVE  Origin(o) \in Live /\ other[Origin(o)] = None
<1> DEFINE Good(v) == Origin(v) \in Live /\ other[Origin(v)] = None
           B == {v \in Live : ~Good(v)}
<1>1. ASSUME NEW v \in B PROVE other[v] # None /\ other[v] \in B
  <2>1. v \in Obj
    BY Numbers
  <2>2. other[v] # None /\ Origin(v) = Origin(other[v])
    BY <2>1, Steps DEF OriginSteps
  <2> QED BY <2>2 DEF HeapInv, Committed
<1> HIDE DEF Good
<1>2. B = {}
  BY <1>1, ChainsEnd
<1>3. Good(o)
  BY <1>2
<1> QED BY <1>3 DEF Good

\* A chain that ends in a version of the snapshot can be read.
LEMMA SeenIfOriginVisible ==
  ASSUME Types, HeapInv, NEW x \in Txs, NEW o \in Live, Visible(x, Origin(o))
  PROVE  Seen(x, o) # None
<1> DEFINE B == {v \in Live : Visible(x, Origin(v)) /\ Seen(x, v) = None}
<1>1. ASSUME NEW v \in B PROVE other[v] # None /\ other[v] \in B
  <2>1. v \in Obj /\ v # None
    BY Numbers
  <2>2. ~Visible(x, v) /\ Seen(x, v) = Seen(x, other[v])
    BY <2>1, Steps DEF SeenSteps
  <2>3. other[v] # None /\ Origin(v) = Origin(other[v])
    BY <2>1, <2>2, Steps DEF OriginSteps
  <2> QED BY <2>2, <2>3 DEF HeapInv, Committed
<1>2. B = {}
  BY <1>1, ChainsEnd
<1> QED BY <1>2

\* Origin does not change while the links of live versions do not.
LEMMA OriginFrame ==
  ASSUME Types, Types', HeapInv, \A v \in Live : other'[v] = other[v]
  PROVE  \A o \in Live : Origin(o)' = Origin(o)
<1> DEFINE B == {v \in Live : Origin(v)' # Origin(v)}
<1>1. ASSUME NEW v \in B PROVE other[v] # None /\ other[v] \in B
  <2>1. v \in Obj
    BY Numbers
  <2>2. /\ Origin(v) = IF other[v] = None THEN v ELSE Origin(other[v])
        /\ Origin(v)' = IF other'[v] = None THEN v ELSE Origin(other[v])'
    BY <2>1, Steps DEF OriginSteps
  <2> QED BY <2>2 DEF HeapInv, Committed
<1>2. B = {}
  BY <1>1, ChainsEnd
<1> QED BY <1>2

-----------------------------------------------------------------------------
(***************************************************************************)
(* The initial states, and steps that leave the objects alone.             *)
(***************************************************************************)

\* The pointer in an object is not the root pointer.
LEMMA Locations ==
  /\ Root \in Loc
  /\ \A o \in Obj, c \in Cells : <<o, c>> \in Loc /\ <<o, c>> # Root
  /\ \A l \in Loc : l # Root => l \in Obj \X Cells /\ l[1] \in Obj /\ l = <<l[1], l[2]>> /\ l[2] \in Cells
BY NestedAssumption DEF Loc

LEMMA InitInductive == Init => Inductive
<1> SUFFICES ASSUME Init PROVE Inductive
  OBVIOUS
<1> USE NestedAssumption DEF Init
<1>1. ptr \in [Loc -> Obj \cup {None}]
  <2>1. ASSUME NEW l \in Loc PROVE ptr[l] \in Obj \cup {None}
    BY Locations
  <2> QED BY <2>1
<1>2. Types
  BY <1>1 DEF Types
<1>3. TxInv
  <2>1. \A x \in Txs : /\ snap[x] = 0 /\ cell[x] = 0 /\ pc[x] = "idle" /\ wset[x] = {}
                      /\ parent[x] = None /\ clock = 1
    OBVIOUS
  <2> HIDE DEF Init
  <2>2. ASSUME NEW x \in Txs
        PROVE  /\ snap[x] <= clock /\ cell[x] <= clock /\ cell[x] = 0 /\ wset[x] = {}
               /\ parent[x] = None /\ pc[x] \notin {"run", "copy", "abort"}
    BY <2>1
  <2> QED BY <2>2 DEF TxInv
<1>4. HeapInv
  <2>1. \A o \in Live : other[o] = None
    BY DEF Live
  <2>2. ASSUME NEW l \in Loc, ptr[l] # None PROVE ptr[l] \in Live
    <3>1. CASE l = Root
      BY <3>1, Locations DEF Live
    <3>2. CASE l # Root
      BY <2>2, <3>2, Locations DEF Live
    <3> QED BY <3>1, <3>2
  <2>3. ASSUME NEW o \in Obj \ Live, NEW c \in Cells PROVE ptr[<<o, c>>] = None
    <3>1. <<o, c>> \in Loc /\ <<o, c>> # Root /\ o # FirstRoot
      BY Locations DEF Live
    <3> QED BY <3>1
  <2> QED BY <2>1, <2>2, <2>3 DEF HeapInv
<1>5. WriteInv /\ OpInv
  BY DEF WriteInv, OpInv
<1>6. AnchorInv
  <2> SUFFICES ASSUME NEW r \in Live, NEW c \in Cells, ptr[<<r, c>>] # None
               PROVE  Origin(ptr[<<r, c>>]) \in Live /\ AsOld(r, Origin(ptr[<<r, c>>]))
    BY DEF AnchorInv
  <2>1. ptr[<<r, c>>] \in Live
    BY <1>4, Locations DEF HeapInv, Live
  <2>2. Origin(ptr[<<r, c>>]) = ptr[<<r, c>>]
    BY <1>2, <2>1, Steps DEF OriginSteps, Live
  <2>3. owner[r] = Base /\ owner[ptr[<<r, c>>]] = Base
    BY <2>1 DEF Live
  <2> QED BY <2>1, <2>2, <2>3 DEF AsOld
<1> QED BY <1>2, <1>3, <1>4, <1>5, <1>6 DEF Inductive

\* Steps that change no object and no number.
LEMMA SameHeap ==
  ASSUME UNCHANGED <<heapVars, cell>>
  PROVE  /\ Live' = Live /\ Committed' = Committed
         /\ \A o : VerNum(o)' = VerNum(o) /\ Origin(o)' = Origin(o)
         /\ \A x, l : Writable(x, l)' = Writable(x, l)
         /\ HeapInv => HeapInv'
         /\ AnchorInv => AnchorInv'
<1> USE DEF heapVars
<1>1. \A o : VerNum(o)' = VerNum(o)
  BY DEF VerNum
<1>2. \A o : Origin(o)' = Origin(o)
  BY DEF Origin
<1>3. Live' = Live /\ Committed' = Committed
  BY <1>1 DEF Live, Committed
<1>4. \A x, l : Writable(x, l)' = Writable(x, l)
  BY <1>3 DEF Writable
<1>5. HeapInv => HeapInv'
  BY <1>1, <1>3 DEF HeapInv
<1>6. AnchorInv => AnchorInv'
  BY <1>1, <1>2, <1>3 DEF AnchorInv, AsOld
<1> QED BY <1>1, <1>2, <1>3, <1>4, <1>5, <1>6

LEMMA BeginInductive ==
  ASSUME Inductive, UNCHANGED ways, NEW x \in Txs, Begin(x) PROVE Inductive'
<1> USE DEF Inductive, Begin, Goto, heapVars
<1>1. UNCHANGED <<heapVars, cell>>
  OBVIOUS
<1>2. Types'
  BY DEF Types
<1>3. TxInv'
  BY <1>1, SameHeap DEF TxInv, Types, Visible
<1>4. HeapInv' /\ AnchorInv'
  BY <1>1, SameHeap
<1>5. WriteInv'
  BY <1>1, SameHeap DEF WriteInv
<1>6. OpInv'
  BY <1>1, SameHeap DEF OpInv, Types
<1> QED BY <1>2, <1>3, <1>4, <1>5, <1>6

LEMMA ReadRootInductive ==
  ASSUME Inductive, UNCHANGED ways, NEW x \in Txs, ReadRoot(x) PROVE Inductive'
<1> USE DEF Inductive, ReadRoot, heapVars
<1>1. UNCHANGED <<heapVars, cell>>
  OBVIOUS
<1>2. Seen(x, ptr[Root]) # None =>
         Seen(x, ptr[Root]) \in Live /\ Visible(x, Seen(x, ptr[Root]))
  <2>1. CASE ptr[Root] = None
    BY <2>1, Steps DEF SeenSteps
  <2>2. CASE ptr[Root] # None
    BY <2>2, Locations, SeenFacts DEF HeapInv
  <2> QED BY <2>1, <2>2
<1>3. Types'
  BY <1>2 DEF Types, Live
<1>4. TxInv'
  BY <1>1, <1>2, SameHeap DEF TxInv, Types, Visible
<1>5. HeapInv' /\ AnchorInv'
  BY <1>1, SameHeap
<1>6. WriteInv'
  BY <1>1, SameHeap DEF WriteInv
<1>7. OpInv'
  BY <1>1, SameHeap DEF OpInv, Types
<1> QED BY <1>3, <1>4, <1>5, <1>6, <1>7

\* A transaction that fails, or has rolled everything back.
LEMMA FailInductive ==
  ASSUME Inductive, UNCHANGED ways, NEW x \in Txs, NEW l \in Reach(x),
         WriteFails(x, l) \/ Fail(x) \/ AbortDone(x)
  PROVE  Inductive'
<1> USE DEF Inductive, WriteFails, Fail, AbortDone, Goto, heapVars
<1>1. UNCHANGED <<heapVars, cell>>
  OBVIOUS
<1>2. Types'
  BY DEF Types
<1>3. TxInv'
  BY <1>1, SameHeap DEF TxInv, Types, Visible
<1>4. HeapInv' /\ AnchorInv'
  BY <1>1, SameHeap
<1>5. WriteInv'
  BY <1>1, SameHeap DEF WriteInv
<1>6. OpInv'
  BY <1>1, SameHeap DEF OpInv, Types
<1> QED BY <1>2, <1>3, <1>4, <1>5, <1>6

LEMMA StutterInductive == ASSUME Inductive, UNCHANGED vars PROVE Inductive'
<1> USE DEF Inductive, vars, heapVars
<1>1. UNCHANGED <<heapVars, cell>>
  OBVIOUS
<1>2. Types'
  BY DEF Types
<1>3. TxInv'
  BY <1>1, SameHeap DEF TxInv, Types, Visible
<1>4. HeapInv' /\ AnchorInv'
  BY <1>1, SameHeap
<1>5. WriteInv' /\ OpInv'
  BY <1>1, SameHeap DEF WriteInv, OpInv
<1> QED BY <1>2, <1>3, <1>4, <1>5

-----------------------------------------------------------------------------
(***************************************************************************)
(* Steps that change objects, pointers or numbers.                         *)
(***************************************************************************)

\* What a running transaction owns is not committed.
LEMMA OwnedUncommitted ==
  ASSUME Types, TxInv, NEW x \in Txs, Running(x), NEW o \in Obj, owner[o] = x
  PROVE  cell[x] = 0 /\ VerNum(o) = 0 /\ o \in Live /\ o \notin Committed
BY NestedAssumption DEF Types, TxInv, Running, VerNum, Committed, Live

\* A copy of the root that a transaction has made.
LEMMA OwnRootFacts ==
  ASSUME Types, WriteInv, NEW x \in Txs, NEW r \in OwnRoot(x)
  PROVE  r \in Live /\ owner[r] = x
BY NestedAssumption DEF Types, WriteInv, OwnRoot, Live, TransactionWrite

\* The pointers a closure can write.
LEMMA ReachFacts ==
  ASSUME Types, TxInv, WriteInv, NEW x \in Txs, NEW l \in Reach(x)
  PROVE  l \in Loc /\ Writable(x, l)
<1>1. CASE l = Root
  BY <1>1, Locations DEF Writable
<1>2. CASE l # Root
  <2>1. PICK o \in Obj, c \in Cells : /\ l = <<o, c>>
                              /\ (o \in OwnRoot(x) \/ (o = parent[x] /\ o # None))
    BY <1>2, OwnRootFacts DEF Reach, Types, Live
  <2>0. l \in Loc /\ l[1] = o
    BY <2>1, Locations
  <2>2. CASE o \in OwnRoot(x)
    BY <2>0, <2>2, OwnRootFacts DEF Writable
  <2>3. CASE o = parent[x] /\ o # None
    <3>1. o \in Committed
      BY <2>3 DEF TxInv, Visible, Committed
    <3> QED BY <2>0, <3>1 DEF Writable, Committed
  <2> QED BY <2>1, <2>2, <2>3
<1> QED BY <1>1, <1>2

\* A new object: what was there before stays as it is.
LEMMA NewObject ==
  ASSUME Types, TxInv, HeapInv, NEW x \in Txs, cell[x] = 0, NEW p \in Committed \cup {None},
         Fresh # {}, InitObject(Allocated, x, p), UNCHANGED cell
  PROVE  \E a \in Obj \ Live :
         /\ a = Allocated
         /\ owner' \in [Obj -> Txs \cup {Base, Free}] /\ other' \in [Obj -> Obj \cup {None}]
         /\ owner'[a] = x /\ other'[a] = p /\ VerNum(a)' = 0
         /\ \A o \in Obj : o # a =>
               owner'[o] = owner[o] /\ other'[o] = other[o] /\ VerNum(o)' = VerNum(o)
         /\ Live' = Live \cup {a} /\ Committed' = Committed
         /\ \A y, l : Writable(y, l) => Writable(y, l)'
<1>1. PICK a \in Fresh : a = Allocated
  BY DEF Allocated
<1>2. a \in Obj \ Live
  BY <1>1 DEF Fresh, Live
<1>3. owner' \in [Obj -> Txs \cup {Base, Free}] /\ other' \in [Obj -> Obj \cup {None}]
  BY <1>1, <1>2 DEF InitObject, Types, Committed, Live
<1>4. owner'[a] = x /\ other'[a] = p
  BY <1>1, <1>2 DEF InitObject, Types
<1>5. VerNum(a)' = 0
  BY <1>4, NestedAssumption DEF VerNum
<1>6. \A o \in Obj : o # a =>
         owner'[o] = owner[o] /\ other'[o] = other[o] /\ VerNum(o)' = VerNum(o)
  BY <1>1, <1>2 DEF InitObject, Types, VerNum
<1>7. Live' = Live \cup {a}
  BY <1>2, <1>4, <1>6, NestedAssumption DEF Live
<1>8. Committed' = Committed
  BY <1>2, <1>5, <1>6, <1>7 DEF Committed, Live
<1>9. ASSUME NEW y, NEW l, Writable(y, l) PROVE Writable(y, l)'
  BY <1>2, <1>6, <1>7, <1>8, <1>9 DEF Writable, Live
<1> QED BY <1>1, <1>2, <1>3, <1>4, <1>5, <1>6, <1>7, <1>8, <1>9

\* Origins and ages of what was there before a new object.
LEMMA NewObjectFrame ==
  ASSUME Types, Types', HeapInv, NEW a \in Obj \ Live, Live' = Live \cup {a}, Committed' = Committed,
         \A o \in Obj : o # a =>
            owner'[o] = owner[o] /\ other'[o] = other[o] /\ VerNum(o)' = VerNum(o)
  PROVE  /\ \A o \in Live : Origin(o)' = Origin(o)
         /\ \A r, b \in Live : AsOld(r, b) => AsOld(r, b)'
<1>1. \A o \in Live : o \in Obj /\ o # a
  BY DEF Live
<1>2. \A o \in Live : Origin(o)' = Origin(o)
  BY <1>1, OriginFrame
<1>3. ASSUME NEW r \in Live, NEW b \in Live, AsOld(r, b) PROVE AsOld(r, b)'
  BY <1>1, <1>3 DEF AsOld
<1> QED BY <1>2, <1>3

LEMMA WriteInductive ==
  ASSUME Inductive, UNCHANGED ways, NEW x \in Txs, NEW l \in Reach(x), Write(x, l)
  PROVE  Inductive'
<1> USE DEF Inductive
<1>1. l \in Loc /\ Writable(x, l)
  BY ReachFacts
<1>2. ptr[l] \in Committed /\ ptr[l] # None
  BY <1>1 DEF Write, HeapInv, Visible, Committed
<1>3. cell[x] = 0
  BY DEF Write, TxInv
<1>4. PICK a \in Obj \ Live :
      /\ a = Allocated
      /\ owner' \in [Obj -> Txs \cup {Base, Free}] /\ other' \in [Obj -> Obj \cup {None}]
      /\ owner'[a] = x /\ other'[a] = ptr[l] /\ VerNum(a)' = 0
      /\ \A o \in Obj : o # a =>
            owner'[o] = owner[o] /\ other'[o] = other[o] /\ VerNum(o)' = VerNum(o)
      /\ Live' = Live \cup {a} /\ Committed' = Committed
      /\ \A y, m : Writable(y, m) => Writable(y, m)'
  BY <1>2, <1>3, NewObject DEF Write
<1>5. UNCHANGED <<clock, ptr, cell, snap, parent, wset>>
  BY DEF Write
<1>6. /\ pc' = [pc EXCEPT ![x] = "copy"] /\ pc[x] = "run"
      /\ op' = [op EXCEPT ![x] = [dst |-> l, current |-> ptr[l], new |-> a]]
      /\ left' = [left EXCEPT ![x] = IF l = Root THEN Cells ELSE {}]
  BY <1>4 DEF Write, Goto
<1>7. Types'
  <2>1. [dst |-> l, current |-> ptr[l], new |-> a] \in TransactionWrite
    BY <1>1, <1>2, <1>4 DEF TransactionWrite, Committed, Live
  <2> QED BY <1>4, <1>5, <1>6, <2>1 DEF Types
<1>8. TxInv'
  <2>1. ASSUME NEW y \in Txs, parent[y] # None PROVE parent[y] \in Live' /\ Visible(y, parent[y])'
    BY <1>4, <1>5, <2>1 DEF TxInv, Visible, Live
  <2> QED BY <1>5, <1>6, <2>1 DEF TxInv, Types
<1>9. HeapInv'
  <2>1. ASSUME NEW o \in Live' PROVE /\ (owner[o] = Base => other[o] = None)'
                                     /\ (other[o] # None => other[o] \in Committed
                                           /\ (VerNum(o) # 0 => VerNum(other[o]) < VerNum(o)))'
    <3>1. CASE o = a
      BY <1>2, <1>4, <3>1, NestedAssumption
    <3>2. CASE o # a
      <4>1. o \in Live /\ o \in Obj
        BY <1>4, <3>2 DEF Live
      <4>2. \A p \in Committed : VerNum(p)' = VerNum(p)
        BY <1>4 DEF Committed, Live
      <4> QED BY <1>4, <3>2, <4>1, <4>2 DEF HeapInv
    <3> QED BY <3>1, <3>2
  <2>2. /\ \A m \in Loc : ptr'[m] # None => ptr'[m] \in Live'
        /\ \A o \in Obj \ Live', c \in Cells : ptr'[<<o, c>>] = None
    BY <1>4, <1>5 DEF HeapInv
  <2> QED BY <2>1, <2>2 DEF HeapInv
<1>10. WriteInv'
  <2> SUFFICES ASSUME NEW y \in Txs, NEW w \in wset[y]
               PROVE  /\ ptr'[w.dst] = w.new
                      /\ owner'[w.new] = y /\ other'[w.new] = w.current
                      /\ Writable(y, w.dst)'
    BY <1>5 DEF WriteInv
  <2>1. w.new \in Obj /\ w.new # a
    BY <1>4, NestedAssumption DEF WriteInv, Types, TransactionWrite, Live
  <2> QED BY <1>4, <1>5, <2>1 DEF WriteInv
<1>11. OpInv'
  <2> SUFFICES ASSUME NEW y \in Txs, pc'[y] = "copy"
               PROVE  /\ op'[y] \in TransactionWrite
                      /\ owner'[op'[y].new] = y /\ other'[op'[y].new] = op'[y].current
                      /\ op'[y].current \in Committed
                      /\ Writable(y, op[y].dst)'
                      /\ op'[y].dst # Root => op'[y].dst[1] # op'[y].new
                      /\ \A w \in wset[y] : w.dst # Root => w.dst[1] # op'[y].new
                      /\ left'[y] # {} => op'[y].dst = Root
    BY <1>4, <1>5 DEF OpInv
  <2>1. CASE y = x
    <3>1. op'[x] = [dst |-> l, current |-> ptr[l], new |-> a] /\ left'[x] = IF l = Root THEN Cells ELSE {}
      BY <1>6 DEF Types
    <3>2. op'[x] \in TransactionWrite
      BY <1>1, <1>2, <1>4, <3>1 DEF TransactionWrite, Committed, Live
    <3>3. l # Root => l[1] # a
      BY <1>1, <1>4 DEF Writable
    <3>4. \A w \in wset[x] : w.dst # Root => w.dst[1] # a
      BY <1>4 DEF WriteInv, Writable
    <3> QED BY <1>1, <1>2, <1>4, <2>1, <3>1, <3>2, <3>3, <3>4
  <2>2. CASE y # x
    <3>1. pc[y] = "copy" /\ op'[y] = op[y] /\ left'[y] = left[y]
      BY <1>6, <2>2 DEF Types
    <3>2. op[y].new \in Obj /\ op[y].new # a
      BY <1>4, <3>1, NestedAssumption DEF OpInv, Types, TransactionWrite, Live
    <3> QED BY <1>4, <3>1, <3>2 DEF OpInv
  <2> QED BY <2>1, <2>2
<1>12. AnchorInv'
  <2> SUFFICES ASSUME NEW r \in Live', NEW c \in Cells, ptr[<<r, c>>] # None
               PROVE  Origin(ptr[<<r, c>>])' \in Live' /\ AsOld(r, Origin(ptr[<<r, c>>]))'
    BY <1>5 DEF AnchorInv
  <2>1. r \in Live
    BY <1>4 DEF HeapInv
  <2>2. ptr[<<r, c>>] \in Live
    BY <2>1, Locations DEF HeapInv, Live
  <2>3. Origin(ptr[<<r, c>>]) \in Live /\ AsOld(r, Origin(ptr[<<r, c>>]))
    BY <2>1 DEF AnchorInv
  <2>4. /\ \A o \in Live : Origin(o)' = Origin(o)
        /\ \A s, b \in Live : AsOld(s, b) => AsOld(s, b)'
    BY <1>4, <1>7, NewObjectFrame
  <2> QED BY <1>4, <1>5, <2>1, <2>2, <2>3, <2>4
<1> QED BY <1>7, <1>8, <1>9, <1>10, <1>11, <1>12

LEMMA AllocInductive ==
  ASSUME Inductive, UNCHANGED ways, NEW x \in Txs, NEW c \in Cells, Alloc(x, c)
  PROVE  Inductive'
<1> USE DEF Inductive
<1>1. PICK r \in OwnRoot(x) : (\A w \in wset[x] : w.dst \notin {r} \X Cells) /\ AllocIn(x, r, c)
  BY DEF Alloc
<1>2. r \in Live /\ r \in Obj /\ owner[r] = x
  BY OwnRootFacts DEF Live
<1>3. pc[x] = "run" /\ cell[x] = 0 /\ r \notin Committed /\ VerNum(r) = 0
  BY <1>1, <1>2, OwnedUncommitted DEF AllocIn, Running
<1>4. PICK a \in Obj \ Live :
      /\ a = Allocated
      /\ owner' \in [Obj -> Txs \cup {Base, Free}] /\ other' \in [Obj -> Obj \cup {None}]
      /\ owner'[a] = x /\ other'[a] = None /\ VerNum(a)' = 0
      /\ \A o \in Obj : o # a =>
            owner'[o] = owner[o] /\ other'[o] = other[o] /\ VerNum(o)' = VerNum(o)
      /\ Live' = Live \cup {a} /\ Committed' = Committed
      /\ \A y, m : Writable(y, m) => Writable(y, m)'
  BY <1>1, <1>3, NewObject DEF AllocIn
<1>5. UNCHANGED <<clock, cell, pc, snap, parent, op, left, wset>>
  BY <1>1 DEF AllocIn
<1>6. ptr' = [ptr EXCEPT ![<<r, c>>] = a]
  BY <1>1, <1>4 DEF AllocIn
<1>7. <<r, c>> \in Loc /\ <<r, c>> # Root
  BY <1>2, Locations
<1>8. ptr' \in [Loc -> Obj \cup {None}] /\ ptr'[<<r, c>>] = a
      /\ \A l \in Loc : l # <<r, c>> => ptr'[l] = ptr[l]
  BY <1>4, <1>6, <1>7 DEF Types
<1>9. Types'
  BY <1>4, <1>5, <1>8 DEF Types
<1>10. TxInv'
  <2>1. ASSUME NEW y \in Txs, parent[y] # None PROVE parent[y] \in Live' /\ Visible(y, parent[y])'
    BY <1>4, <1>5, <2>1 DEF TxInv, Visible, Live
  <2> QED BY <1>5, <2>1 DEF TxInv, Types, Visible
<1>11. HeapInv'
  <2>1. ASSUME NEW o \in Live' PROVE /\ (owner[o] = Base => other[o] = None)'
                                     /\ (other[o] # None => other[o] \in Committed
                                           /\ (VerNum(o) # 0 => VerNum(other[o]) < VerNum(o)))'
    <3>1. CASE o = a
      BY <1>4, <3>1
    <3>2. CASE o # a
      <4>1. o \in Live /\ o \in Obj
        BY <1>4, <3>2 DEF Live
      <4>2. \A p \in Committed : VerNum(p)' = VerNum(p)
        BY <1>4 DEF Committed, Live
      <4> QED BY <1>4, <3>2, <4>1, <4>2 DEF HeapInv
    <3> QED BY <3>1, <3>2
  <2>2. \A m \in Loc : ptr'[m] # None => ptr'[m] \in Live'
    BY <1>4, <1>8 DEF HeapInv
  <2>3. ASSUME NEW o \in Obj \ Live', NEW d \in Cells PROVE ptr'[<<o, d>>] = None
    <3>1. o \in Obj \ Live /\ o # r
      BY <1>2, <1>4
    <3>2. <<o, d>> \in Loc /\ <<o, d>> # <<r, c>>
      BY <3>1, Locations
    <3> QED BY <1>8, <3>1, <3>2 DEF HeapInv
  <2> QED BY <2>1, <2>2, <2>3 DEF HeapInv
<1>12. WriteInv'
  <2> SUFFICES ASSUME NEW y \in Txs, NEW w \in wset[y]
               PROVE  /\ ptr'[w.dst] = w.new
                      /\ owner'[w.new] = y /\ other'[w.new] = w.current
                      /\ Writable(y, w.dst)'
    BY <1>5 DEF WriteInv
  <2>1. w.new \in Obj /\ w.new # a /\ w.dst \in Loc
    BY <1>4, NestedAssumption DEF WriteInv, Types, TransactionWrite, Live
  <2>2. w.dst # <<r, c>>
    <3>1. CASE y = x
      <4>1. <<r, c>> \in {r} \X Cells
        OBVIOUS
      <4> QED BY <1>1, <3>1, <4>1
    <3>2. CASE y # x
      BY <1>2, <1>3, <1>7, <3>2 DEF WriteInv, Writable
    <3> QED BY <3>1, <3>2
  <2> QED BY <1>4, <1>8, <2>1, <2>2 DEF WriteInv
<1>13. OpInv'
  <2> SUFFICES ASSUME NEW y \in Txs, pc[y] = "copy"
               PROVE  /\ op[y] \in TransactionWrite
                      /\ owner'[op[y].new] = y /\ other'[op[y].new] = op[y].current
                      /\ op[y].current \in Committed
                      /\ Writable(y, op[y].dst)'
                      /\ op[y].dst # Root => op[y].dst[1] # op[y].new
                      /\ \A w \in wset[y] : w.dst # Root => w.dst[1] # op[y].new
                      /\ left[y] # {} => op[y].dst = Root
    BY <1>4, <1>5 DEF OpInv
  <2>1. op[y].new \in Obj /\ op[y].new # a
    BY <1>4, NestedAssumption DEF OpInv, Types, TransactionWrite, Live
  <2> QED BY <1>4, <1>5, <2>1 DEF OpInv
<1>14. AnchorInv'
  <2> SUFFICES ASSUME NEW s \in Live', NEW d \in Cells, NEW o, o = ptr'[<<s, d>>], o # None
               PROVE  Origin(o)' \in Live' /\ AsOld(s, Origin(o))'
    BY DEF AnchorInv
  <2>1. CASE s = r /\ d = c
    <3>1. o = a
      BY <1>8, <2>1
    <3>2. Origin(o)' = a
      BY <1>4, <1>9, <3>1, Steps DEF OriginSteps
    <3> QED BY <1>2, <1>4, <2>1, <3>2 DEF AsOld
  <2>2. CASE ~(s = r /\ d = c)
    <3>1. s \in Obj /\ o = ptr[<<s, d>>]
      BY <1>4, <1>8, <2>2, Locations DEF Live
    <3>2. s \in Live
      BY <1>4, <3>1 DEF HeapInv
    <3>3. o \in Live
      BY <3>1, Locations DEF HeapInv
    <3>4. Origin(o) \in Live /\ AsOld(s, Origin(o))
      BY <3>1, <3>2 DEF AnchorInv
    <3>5. /\ \A v \in Live : Origin(v)' = Origin(v)
          /\ \A v, b \in Live : AsOld(v, b) => AsOld(v, b)'
      BY <1>4, <1>9, NewObjectFrame
    <3> QED BY <1>4, <3>2, <3>3, <3>4, <3>5
  <2> QED BY <2>1, <2>2
<1> QED BY <1>9, <1>10, <1>11, <1>12, <1>13, <1>14

\* Steps that change pointers only.
LEMMA SameObjects ==
  ASSUME UNCHANGED <<owner, other, cell>>
  PROVE  /\ Live' = Live /\ Committed' = Committed
         /\ \A o : VerNum(o)' = VerNum(o) /\ Origin(o)' = Origin(o)
         /\ \A x, l : Writable(x, l)' = Writable(x, l)
         /\ \A r, b : AsOld(r, b)' = AsOld(r, b)
<1>1. \A o : VerNum(o)' = VerNum(o)
  BY DEF VerNum
<1>2. \A o : Origin(o)' = Origin(o)
  BY DEF Origin
<1>3. Live' = Live /\ Committed' = Committed
  BY <1>1 DEF Live, Committed
<1>4. \A x, l : Writable(x, l)' = Writable(x, l)
  BY <1>3 DEF Writable
<1>5. \A r, b : AsOld(r, b)' = AsOld(r, b)
  BY <1>1, <1>3 DEF AsOld
<1> QED BY <1>1, <1>2, <1>3, <1>4, <1>5

\* One pointer is replaced by a pointer to a live object that is not younger.
LEMMA PointerChange ==
  ASSUME Types, HeapInv, AnchorInv, UNCHANGED <<owner, other, cell>>,
         NEW k \in Loc, NEW v \in Live \cup {None}, ptr' = [ptr EXCEPT ![k] = v],
         k # Root => k[1] \in Live,
         k # Root /\ v # None => Origin(v) \in Live /\ AsOld(k[1], Origin(v))
  PROVE  /\ ptr' \in [Loc -> Obj \cup {None}] /\ ptr'[k] = v
         /\ \A l \in Loc : l # k => ptr'[l] = ptr[l]
         /\ HeapInv' /\ AnchorInv'
<1>1. /\ ptr' \in [Loc -> Obj \cup {None}] /\ ptr'[k] = v
      /\ \A l \in Loc : l # k => ptr'[l] = ptr[l]
  BY DEF Types, Live
<1>2. HeapInv'
  <2>1. /\ \A o \in Live' : owner'[o] = Base => other'[o] = None
        /\ \A o \in Live' : other'[o] # None =>
             other'[o] \in Committed' /\ (VerNum(o)' # 0 => VerNum(other[o])' < VerNum(o)')
    BY SameObjects DEF HeapInv
  <2>2. \A l \in Loc : ptr'[l] # None => ptr'[l] \in Live'
    BY <1>1, SameObjects DEF HeapInv
  <2>3. ASSUME NEW o \in Obj \ Live', NEW d \in Cells PROVE ptr'[<<o, d>>] = None
    <3>1. <<o, d>> \in Loc /\ <<o, d>> # Root /\ o \in Obj \ Live
      BY Locations, SameObjects
    <3>2. <<o, d>> # k
      BY <3>1
    <3> QED BY <1>1, <3>1, <3>2 DEF HeapInv
  <2> QED BY <2>1, <2>2, <2>3 DEF HeapInv
<1>3. AnchorInv'
  <2> SUFFICES ASSUME NEW s \in Live', NEW d \in Cells, NEW o, o = ptr'[<<s, d>>], o # None
               PROVE  Origin(o)' \in Live' /\ AsOld(s, Origin(o))'
    BY DEF AnchorInv
  <2>0. s \in Live /\ Origin(o)' = Origin(o)
    BY SameObjects
  <2> SUFFICES Origin(o) \in Live /\ AsOld(s, Origin(o))
    BY <2>0, SameObjects DEF AsOld
  <2>1. <<s, d>> \in Loc /\ <<s, d>> # Root
    BY <2>0, Locations DEF Live
  <2>2. CASE <<s, d>> = k
    BY <1>1, <2>1, <2>2
  <2>3. CASE <<s, d>> # k
    BY <1>1, <2>0, <2>1, <2>3 DEF AnchorInv
  <2> QED BY <2>2, <2>3
<1> QED BY <1>1, <1>2, <1>3

LEMMA CopyPointerInductive ==
  ASSUME Inductive, UNCHANGED ways, NEW x \in Txs, NEW c \in Cells, CopyPointer(x, c)
  PROVE  Inductive'
<1> USE DEF Inductive
<1>1. PICK n \in Obj : n = op[x].new
  BY DEF OpInv, CopyPointer, TransactionWrite
<1>2. PICK p \in Obj : p = op[x].current
  BY DEF OpInv, CopyPointer, TransactionWrite
<1>3. pc[x] = "copy" /\ owner[n] = x /\ p \in Committed /\ op[x].dst = Root
  BY <1>1, <1>2 DEF OpInv, CopyPointer
<1>4. n \in Live /\ n \notin Committed /\ VerNum(n) = 0
  BY <1>3, OwnedUncommitted DEF Running
<1>5. PICK v \in Obj \cup {None} : v = ptr[<<p, c>>]
  BY Locations DEF Types
<1>6. PICK k \in Loc : k = <<n, c>> /\ k # Root /\ k[1] = n
  BY Locations
<1>7. ptr' = [ptr EXCEPT ![k] = v] /\ UNCHANGED <<owner, other, cell>>
  BY <1>1, <1>2, <1>5, <1>6 DEF CopyPointer
<1>8. v # None => v \in Live /\ Origin(v) \in Live /\ AsOld(n, Origin(v))
  <2> SUFFICES ASSUME v # None PROVE v \in Live /\ Origin(v) \in Live /\ AsOld(n, Origin(v))
    OBVIOUS
  <2>1. v \in Live
    BY <1>5, Locations DEF HeapInv
  <2>2. Origin(v) \in Live /\ AsOld(p, Origin(v))
    BY <1>3, <1>5 DEF AnchorInv, Committed
  <2>3. owner[Origin(v)] = owner[p] => VerNum(Origin(v)) = VerNum(p)
    BY DEF VerNum
  <2> QED BY <1>3, <1>4, <2>1, <2>2, <2>3 DEF AsOld, Committed
<1>9. /\ ptr' \in [Loc -> Obj \cup {None}] /\ ptr'[k] = v
      /\ \A l \in Loc : l # k => ptr'[l] = ptr[l]
      /\ HeapInv' /\ AnchorInv'
  BY <1>4, <1>6, <1>7, <1>8, PointerChange
<1>10. Types'
  BY <1>9 DEF Types, CopyPointer
<1>11. TxInv'
  BY <1>7, SameObjects DEF TxInv, CopyPointer, Visible
<1>12. WriteInv'
  <2> SUFFICES ASSUME NEW y \in Txs, NEW w \in wset[y]
               PROVE  ptr'[w.dst] = w.new
    BY <1>7, SameObjects DEF WriteInv, CopyPointer
  <2>1. w.dst \in Loc /\ Writable(y, w.dst) /\ ptr[w.dst] = w.new
    BY DEF Types, TransactionWrite, WriteInv
  <2>2. w.dst # k
    <3>1. CASE y = x
      BY <1>1, <1>3, <1>6, <3>1 DEF OpInv
    <3>2. CASE y # x
      BY <1>3, <1>4, <1>6, <2>1, <3>2 DEF Writable
    <3> QED BY <3>1, <3>2
  <2> QED BY <1>9, <2>1, <2>2
<1>13. OpInv'
  <2>1. UNCHANGED <<pc, op, wset>> /\ \A y \in Txs : left'[y] \subseteq left[y]
    BY DEF CopyPointer, Types
  <2> QED BY <1>7, <2>1, SameObjects DEF OpInv
<1> QED BY <1>9, <1>10, <1>11, <1>12, <1>13

\* A version and the version it was copied from have the same origin.
LEMMA SameOrigin ==
  ASSUME Types, NEW n \in Obj, other[n] # None PROVE Origin(n) = Origin(other[n])
BY Steps DEF OriginSteps

LEMMA PerformInductive ==
  ASSUME Inductive, UNCHANGED ways, NEW x \in Txs, Perform(x) PROVE Inductive'
<1> USE DEF Inductive
<1>1. PICK w \in TransactionWrite : w = op[x]
  BY DEF OpInv, Perform
<1>2. w.new \in Obj /\ w.current \in Obj /\ w.dst \in Loc
  BY DEF TransactionWrite
<1>3. /\ pc[x] = "copy" /\ owner[w.new] = x /\ other[w.new] = w.current
      /\ w.current \in Committed /\ Writable(x, w.dst)
  BY <1>1 DEF OpInv, Perform
<1>4. w.new \in Live /\ w.new \notin Committed
  BY <1>2, <1>3, OwnedUncommitted DEF Running
<1>5. UNCHANGED <<owner, other, cell>>
  BY DEF Perform
<1>6. CASE ptr[w.dst] = w.current
  <2>1. /\ ptr' = [ptr EXCEPT ![w.dst] = w.new]
        /\ wset' = [wset EXCEPT ![x] = @ \cup {w}]
        /\ pc' = [pc EXCEPT ![x] = "run"]
    BY <1>1, <1>6 DEF Perform, Goto
  <2>2. Origin(w.new) = Origin(w.current)
    BY <1>2, <1>3, NestedAssumption, SameOrigin
  <2>3. w.dst # Root => /\ w.dst[1] \in Live /\ Origin(w.new) \in Live
                        /\ AsOld(w.dst[1], Origin(w.new))
    BY <1>2, <1>3, <1>6, <2>2, NestedAssumption, Locations DEF Writable, AnchorInv
  <2>4. /\ ptr' \in [Loc -> Obj \cup {None}] /\ ptr'[w.dst] = w.new
        /\ \A l \in Loc : l # w.dst => ptr'[l] = ptr[l]
        /\ HeapInv' /\ AnchorInv'
    BY <1>2, <1>4, <1>5, <2>1, <2>3, PointerChange
  <2>5. Types'
    BY <2>1, <2>4 DEF Types, Perform
  <2>6. TxInv'
    <3>1. \A y \in Txs : Visible(y, parent[y])' = Visible(y, parent[y])
      BY <1>5, SameObjects DEF Visible, Perform
    <3> QED BY <1>3, <1>5, <2>1, <3>1, SameObjects DEF TxInv, Perform, Types
  <2>7. WriteInv'
    <3> SUFFICES ASSUME NEW y \in Txs, NEW v \in wset'[y]
                 PROVE  /\ ptr'[v.dst] = v.new
                        /\ owner[v.new] = y /\ other[v.new] = v.current
                        /\ Writable(y, v.dst)
      BY <1>5, SameObjects DEF WriteInv
    <3>1. CASE v \in wset[y]
      <4>1. v.dst \in Loc /\ v.new \in Obj /\ ptr[v.dst] = v.new /\ owner[v.new] = y
        BY <3>1 DEF WriteInv, Types, TransactionWrite
      <4>2. Running(y)
        BY <3>1 DEF TxInv, Types, Running
      <4>3. v.dst # w.dst
        BY <1>3, <1>6, <4>1, <4>2, OwnedUncommitted
      <4> QED BY <2>4, <3>1, <4>1, <4>3 DEF WriteInv
    <3>2. CASE v \notin wset[y]
      <4>1. y = x /\ v = w
        BY <2>1, <3>2 DEF Types
      <4> QED BY <1>3, <2>4, <4>1
    <3> QED BY <3>1, <3>2
  <2>8. OpInv'
    <3>1. \A y \in Txs : pc'[y] = "copy" =>
             y # x /\ pc[y] = "copy" /\ op'[y] = op[y] /\ left'[y] = left[y] /\ wset'[y] = wset[y]
      BY <2>1 DEF Perform, Types
    <3> QED BY <1>5, <3>1, SameObjects DEF OpInv
  <2> QED BY <2>4, <2>5, <2>6, <2>7, <2>8
<1>7. CASE ptr[w.dst] # w.current
  <2>1. UNCHANGED <<heapVars, cell, wset>> /\ pc' = [pc EXCEPT ![x] = "abort"]
    BY <1>1, <1>7 DEF Perform, Goto, heapVars
  <2>2. Types'
    BY <2>1 DEF Types, Perform, heapVars
  <2>3. TxInv'
    <3>1. \A y \in Txs : Visible(y, parent[y])' = Visible(y, parent[y])
      BY <1>5, SameObjects DEF Visible, Perform
    <3> QED BY <1>3, <2>1, <3>1, SameHeap DEF TxInv, Perform, Types
  <2>4. HeapInv' /\ AnchorInv'
    BY <2>1, SameHeap
  <2>5. WriteInv'
    BY <2>1, SameHeap DEF WriteInv, heapVars
  <2>6. OpInv'
    <3>1. \A y \in Txs : pc'[y] = "copy" =>
             y # x /\ pc[y] = "copy" /\ op'[y] = op[y] /\ left'[y] = left[y] /\ wset'[y] = wset[y]
      BY <2>1 DEF Perform, Types
    <3> QED BY <1>5, <3>1, SameObjects DEF OpInv
  <2> QED BY <2>2, <2>3, <2>4, <2>5, <2>6
<1> QED BY <1>6, <1>7

LEMMA RollbackInductive ==
  ASSUME Inductive, UNCHANGED ways, NEW x \in Txs, NEW w \in wset[x], Rollback(x, w)
  PROVE  Inductive'
<1> USE DEF Inductive
<1>1. w \in TransactionWrite /\ w.new \in Obj /\ w.current \in Obj /\ w.dst \in Loc
  BY DEF Types, TransactionWrite
<1>2. /\ ptr[w.dst] = w.new /\ owner[w.new] = x /\ other[w.new] = w.current
      /\ Writable(x, w.dst)
  BY DEF WriteInv
<1>3. /\ ptr' = [ptr EXCEPT ![w.dst] = w.current]
      /\ wset' = [wset EXCEPT ![x] = @ \ {w}]
      /\ UNCHANGED <<clock, owner, other, cell, pc, snap, parent, op, left>>
  BY <1>2 DEF Rollback
<1>4. w.new \in Live /\ w.current \in Live /\ Origin(w.new) = Origin(w.current)
  <2>1. w.new \in Live
    BY <1>1, <1>2, NestedAssumption DEF Live
  <2> QED BY <1>1, <1>2, <2>1, NestedAssumption, SameOrigin DEF HeapInv, Committed
<1>5. w.dst # Root => /\ w.dst[1] \in Live /\ Origin(w.current) \in Live
                      /\ AsOld(w.dst[1], Origin(w.current))
  BY <1>1, <1>2, <1>4, NestedAssumption, Locations DEF Writable, AnchorInv
<1>6. /\ ptr' \in [Loc -> Obj \cup {None}] /\ ptr'[w.dst] = w.current
      /\ \A l \in Loc : l # w.dst => ptr'[l] = ptr[l]
      /\ HeapInv' /\ AnchorInv'
  BY <1>1, <1>3, <1>4, <1>5, PointerChange
<1>7. Types'
  BY <1>3, <1>6 DEF Types
<1>8. TxInv'
  <2>1. \A y \in Txs : Visible(y, parent[y])' = Visible(y, parent[y])
    BY <1>3, SameObjects DEF Visible
  <2> QED BY <1>3, <2>1, SameObjects DEF TxInv, Types
<1>9. WriteInv'
  <2> SUFFICES ASSUME NEW y \in Txs, NEW v \in wset'[y]
               PROVE  /\ ptr'[v.dst] = v.new
                      /\ owner[v.new] = y /\ other[v.new] = v.current
                      /\ Writable(y, v.dst)
    BY <1>3, SameObjects DEF WriteInv
  <2>1. v \in wset[y] /\ (y = x => v # w)
    BY <1>3 DEF Types
  <2>2. v \in TransactionWrite /\ v.dst \in Loc
    BY <2>1 DEF Types, TransactionWrite
  <2>3. v.dst # w.dst
    <3> SUFFICES ASSUME v.dst = w.dst PROVE FALSE
      OBVIOUS
    <3>1. v.new = w.new /\ v.current = w.current /\ y = x
      BY <1>2, <2>1 DEF WriteInv
    <3>2. v = w
      BY <1>1, <2>2, <3>1 DEF TransactionWrite
    <3> QED BY <2>1, <3>1, <3>2
  <2> QED BY <1>6, <2>1, <2>2, <2>3 DEF WriteInv
<1>10. OpInv'
  <2>1. \A y \in Txs : wset'[y] \subseteq wset[y]
    BY <1>3 DEF Types
  <2> QED BY <1>3, <2>1, SameObjects DEF OpInv
<1> QED BY <1>6, <1>7, <1>8, <1>9, <1>10

LEMMA CommitInductive ==
  ASSUME Inductive, UNCHANGED ways, NEW x \in Txs, Commit(x) PROVE Inductive'
<1> USE DEF Inductive
<1>0. UNCHANGED <<heapVars, snap, parent, op, left>>
      /\ pc' = [pc EXCEPT ![x] = "done"] /\ wset' = [wset EXCEPT ![x] = {}] /\ pc[x] = "run"
  BY DEF Commit, Goto
<1>1. \A y \in Txs : pc'[y] = "copy" => pc[y] = "copy" /\ wset'[y] = wset[y]
  BY <1>0 DEF Types
<1>2. CASE wset[x] = {}
  <2>1. UNCHANGED <<heapVars, cell, clock>>
    BY <1>2 DEF Commit
  <2>2. Types'
    BY <1>0, <2>1 DEF Types, heapVars
  <2>3. TxInv'
    <3>1. \A y \in Txs : Visible(y, parent[y])' = Visible(y, parent[y])
      BY <1>0, <2>1, SameHeap DEF Visible
    <3> QED BY <1>0, <2>1, <3>1, SameHeap DEF TxInv, Types
  <2>4. HeapInv' /\ AnchorInv'
    BY <2>1, SameHeap
  <2>5. WriteInv'
    BY <1>0, <2>1, SameHeap DEF WriteInv, heapVars, Types
  <2>6. OpInv'
    BY <1>0, <1>1, <2>1, SameHeap DEF OpInv, heapVars
  <2> QED BY <2>2, <2>3, <2>4, <2>5, <2>6
<1>3. CASE wset[x] # {}
  <2>1. clock' = clock + 1 /\ cell' = [cell EXCEPT ![x] = clock + 1]
    BY <1>3 DEF Commit
  <2>2. cell[x] = 0
    BY <1>0 DEF TxInv
  <2>3. Types'
    BY <1>0, <2>1 DEF Types, heapVars
  <2>4. Live' = Live /\ UNCHANGED <<ptr, owner, other>> /\ \A o : Origin(o)' = Origin(o)
    BY <1>0 DEF heapVars, Live, Origin
  <2>5. \A o \in Live : /\ owner[o] = x => VerNum(o) = 0 /\ VerNum(o)' = clock + 1
                        /\ owner[o] # x => VerNum(o)' = VerNum(o)
    BY <2>1, <2>2, <2>4, NestedAssumption DEF Types, VerNum, Live
  <2>6. \A o \in Live : VerNum(o) \in Nat /\ VerNum(o) <= clock
    BY Numbers DEF TxInv, Types
  <2>7. \A o \in Committed : o \in Live /\ o \in Committed' /\ VerNum(o)' = VerNum(o)
    BY <2>4, <2>5 DEF Committed
  <2>8. TxInv'
    <3>1. ASSUME NEW y \in Txs, parent[y] # None
          PROVE  parent'[y] \in Live' /\ Visible(y, parent[y])'
      <4>1. parent[y] \in Committed
        BY <3>1 DEF TxInv, Visible, Committed
      <4> QED BY <1>0, <2>4, <2>7, <3>1, <4>1 DEF TxInv, Visible
    <3> QED BY <1>0, <2>1, <3>1 DEF TxInv, Types
  <2>9. HeapInv'
    <3>1. ASSUME NEW o \in Live, other[o] # None
          PROVE  /\ other[o] \in Committed'
                 /\ VerNum(o)' # 0 => VerNum(other[o])' < VerNum(o)'
      <4>1. PICK p \in Committed : p = other[o]
        BY <3>1 DEF HeapInv
      <4>2. VerNum(p)' = VerNum(p) /\ VerNum(p) <= clock /\ VerNum(p) \in Nat /\ clock \in Nat
        BY <2>6, <2>7 DEF Types
      <4>3. owner[o] # x => VerNum(o)' = VerNum(o)
        BY <2>5
      <4>4. owner[o] = x => VerNum(o)' = clock + 1
        BY <2>5
      <4>5. VerNum(o) # 0 => VerNum(p) < VerNum(o)
        BY <3>1, <4>1 DEF HeapInv
      <4>6. VerNum(other[o])' = VerNum(p)'
        BY <2>4, <4>1
      <4> QED BY <2>7, <4>1, <4>2, <4>3, <4>4, <4>5, <4>6
    <3> QED BY <2>4, <3>1 DEF HeapInv
  <2>10. \A y, l : Writable(y, l) => Writable(y, l)'
    BY <2>4, <2>7 DEF Writable
  <2>11. WriteInv'
    BY <1>0, <2>4, <2>10 DEF WriteInv, Types
  <2>12. OpInv'
    BY <1>0, <1>1, <2>4, <2>7, <2>10 DEF OpInv
  <2>13. AnchorInv'
    <3> SUFFICES ASSUME NEW s \in Live, NEW d \in Cells, NEW o, o = ptr[<<s, d>>], o # None
                 PROVE  Origin(o)' \in Live' /\ AsOld(s, Origin(o))'
      BY <2>4 DEF AnchorInv
    <3>1. PICK b \in Live : b = Origin(o) /\ AsOld(s, b)
      BY DEF AnchorInv
    <3>2. AsOld(s, b)'
      BY <2>4, <2>5, <2>6, <2>7, <3>1 DEF AsOld, Types
    <3> QED BY <2>4, <3>1, <3>2
  <2> QED BY <2>3, <2>8, <2>9, <2>11, <2>12, <2>13
<1> QED BY <1>2, <1>3

LEMMA NextInductive == Inductive /\ [Next]_vars => Inductive'
<1> SUFFICES ASSUME Inductive, [Next]_vars PROVE Inductive'
  OBVIOUS
<1>1. CASE UNCHANGED vars
  BY <1>1, StutterInductive
<1>2. CASE Next
  <2>1. PICK x \in Txs : Step(x)
    BY <1>2 DEF Next
  <2>2. UNCHANGED ways
    BY <1>2 DEF Next
  <2>3. Root \in Reach(x)
    BY DEF Reach
  <2>4. CASE Fail(x) \/ AbortDone(x)
    BY <2>2, <2>3, <2>4, FailInductive
  <2> QED BY <2>1, <2>2, <2>4, BeginInductive, ReadRootInductive, PerformInductive,
             CommitInductive, FailInductive, WriteInductive, CopyPointerInductive,
             AllocInductive, RollbackInductive DEF Step
<1> QED BY <1>1, <1>2

\* Whatever pointers the closures write through, the heap of nested objects keeps its
\* inductive invariant.
THEOREM InductiveInvariant == Spec => []Inductive
BY InitInductive, NextInductive, PTL DEF Spec

\* "assert!(success)" of TransactionWrite::rollback (tx.rs:32) never fails for a pointer
\* inside an object.
THEOREM RollbackAlwaysFinds == Spec => []RollbackFinds
<1>1. Inductive => RollbackFinds
  BY DEF Inductive, WriteInv, RollbackFinds
<1> QED BY <1>1, InductiveInvariant, PTL

\* VersionedReader::read of a child never fails with InvalidLogicalAddress if its parent
\* was read in the same transaction, whoever replaces the child or the parent meanwhile.
THEOREM ChildrenReadable == Spec => []ChildReadable
<1>1. Inductive => ChildReadable
  <2> SUFFICES ASSUME Inductive, NEW x \in Txs, Reading(x), NEW c \in Cells,
                      NEW o, o = ptr[<<parent[x], c>>], o # None
               PROVE  Seen(x, o) # None
    BY DEF ChildReadable, SeenChild
  <2> USE DEF Inductive
  <2>1. PICK p \in Live : p = parent[x] /\ Visible(x, p)
    BY DEF Reading, TxInv
  <2>2. o \in Live
    BY <2>1, Locations DEF HeapInv, Live
  <2>3. Origin(o) \in Live /\ AsOld(p, Origin(o))
    BY <2>1 DEF AnchorInv
  <2>4. owner[Origin(o)] = owner[p] => VerNum(Origin(o)) = VerNum(p)
    BY DEF VerNum
  <2>5. VerNum(Origin(o)) \in Nat /\ VerNum(p) \in Nat /\ snap[x] \in Nat
    BY <2>3, Numbers DEF Types
  <2>6. Visible(x, Origin(o))
    BY <2>1, <2>3, <2>4, <2>5 DEF AsOld, Visible, Committed
  <2> QED BY <2>2, <2>6, SeenIfOriginVisible
<1> QED BY <1>1, InductiveInvariant, PTL

-----------------------------------------------------------------------------
(***************************************************************************)
(* Repeatable reads.                                                       *)
(***************************************************************************)

\* What a transaction sees of an object depends on the versions that are there only.
LEMMA SeenFrame ==
  ASSUME Types, Types', HeapInv, NEW x \in Txs,
         \A v \in Live : other'[v] = other[v] /\ Visible(x, v)' = Visible(x, v)
  PROVE  \A o \in Live : Seen(x, o)' = Seen(x, o)
<1> DEFINE B == {v \in Live : Seen(x, v)' # Seen(x, v)}
<1>1. ASSUME NEW v \in B PROVE other[v] # None /\ other[v] \in B
  <2>1. v \in Obj /\ v # None /\ other[v] \in Obj \cup {None}
    BY Numbers DEF Types
  <2>2. /\ Seen(x, v) = IF Visible(x, v) THEN v ELSE Seen(x, other[v])
        /\ Seen(x, v)' = IF Visible(x, v)' THEN v ELSE Seen(x, other[v])'
    BY <2>1, Steps DEF SeenSteps
  <2>3. Seen(x, None) = None /\ Seen(x, None)' = None
    BY Steps DEF SeenSteps
  <2>4. PICK p \in Obj \cup {None} : p = other[v] /\ p = other'[v]
    BY <2>1
  <2>5. Seen(x, p)' # Seen(x, p)
    BY <2>2, <2>4
  <2> QED BY <2>3, <2>4, <2>5 DEF HeapInv, Committed
<1>2. B = {}
  BY <1>1, ChainsEnd
<1> QED BY <1>2

\* No step changes an object, or gives a version a number that is in a snapshot.
LEMMA ObjectsKept ==
  ASSUME Inductive, Next
  PROVE  \A v \in Live : /\ other'[v] = other[v]
                         /\ VerNum(v)' = VerNum(v) \/ (VerNum(v) = 0 /\ VerNum(v)' = clock + 1)
<1> USE DEF Inductive
<1>1. PICK y \in Txs : Step(y)
  BY DEF Next
<1>2. CASE UNCHANGED <<owner, other, cell>>
  BY <1>2, SameObjects
<1>3. ASSUME NEW p \in Committed \cup {None}, pc[y] = "run", Fresh # {},
             InitObject(Allocated, y, p), UNCHANGED cell
      PROVE  \A v \in Live : other'[v] = other[v] /\ VerNum(v)' = VerNum(v)
  <2>1. cell[y] = 0
    BY <1>3 DEF TxInv
  <2> QED BY <1>3, <2>1, NewObject DEF Live
<1>4. CASE \E l \in Reach(y) : Write(y, l)
  <2>1. PICK l \in Reach(y) : Write(y, l)
    BY <1>4
  <2>2. ptr[l] \in Committed
    BY <2>1, ReachFacts DEF Write, HeapInv, Visible, Committed
  <2> QED BY <1>3, <2>1, <2>2 DEF Write
<1>5. CASE \E c \in Cells : Alloc(y, c)
  BY <1>3, <1>5 DEF Alloc, AllocIn
<1>6. CASE Commit(y) /\ wset[y] # {}
  <2>1. cell' = [cell EXCEPT ![y] = clock + 1] /\ UNCHANGED <<owner, other>> /\ cell[y] = 0
    BY <1>6 DEF Commit, TxInv, heapVars
  <2> QED BY <2>1, NestedAssumption DEF VerNum, Types, Live
<1>7. CASE Commit(y) /\ wset[y] = {}
  BY <1>2, <1>7 DEF Commit, heapVars
<1>8. Begin(y) \/ ReadRoot(y) \/ Perform(y) \/ Fail(y) \/ AbortDone(y)
      \/ (\E l \in Reach(y) : WriteFails(y, l)) \/ (\E c \in Cells : CopyPointer(y, c))
      \/ (\E w \in wset[y] : Rollback(y, w)) => UNCHANGED <<owner, other, cell>>
  BY DEF Begin, ReadRoot, Perform, Fail, AbortDone, WriteFails, CopyPointer, Rollback, heapVars
<1> QED BY <1>1, <1>2, <1>4, <1>5, <1>6, <1>7, <1>8 DEF Step

\* A pointer in a committed object is swapped to a copy of what it points to and back,
\* and nothing else happens to it.
LEMMA PointerMoves ==
  ASSUME Inductive, Next, NEW p \in Committed, NEW c \in Cells
  PROVE  \/ ptr'[<<p, c>>] = ptr[<<p, c>>]
         \/ \E n \in Live : /\ VerNum(n) = 0 /\ other[n] # None
                            /\ {ptr[<<p, c>>], ptr'[<<p, c>>]} = {n, other[n]}
<1> USE DEF Inductive
<1>1. PICK y \in Txs : Step(y)
  BY DEF Next
<1>2. PICK k \in Loc : k = <<p, c>> /\ k # Root /\ k[1] = p
  BY Locations DEF Committed, Live
<1>3. ASSUME NEW n \in Obj, owner[n] = y, Running(y), NEW d \in Cells
      PROVE  <<n, d>> # k
  BY <1>2, <1>3, OwnedUncommitted
<1>4. CASE \E d \in Cells : CopyPointer(y, d)
  <2>1. PICK d \in Cells : CopyPointer(y, d)
    BY <1>4
  <2>2. op[y].new \in Obj /\ owner[op[y].new] = y /\ Running(y)
    BY <2>1 DEF CopyPointer, OpInv, TransactionWrite, Running
  <2>3. <<op[y].new, d>> # k
    BY <1>3, <2>2
  <2>4. ptr'[k] = ptr[k]
    BY <2>1, <2>3 DEF CopyPointer, Types
  <2> QED BY <1>2, <2>4
<1>5. CASE \E d \in Cells : Alloc(y, d)
  <2>1. PICK d \in Cells, r \in OwnRoot(y) : AllocIn(y, r, d)
    BY <1>5 DEF Alloc
  <2>2. r \in Obj /\ owner[r] = y /\ Running(y)
    BY <2>1, OwnRootFacts DEF AllocIn, Running, Live
  <2>3. <<r, d>> # k
    BY <1>3, <2>2
  <2>4. ptr'[k] = ptr[k]
    BY <2>1, <2>3 DEF AllocIn, Types
  <2> QED BY <1>2, <2>4
<1>6. CASE Perform(y)
  <2>1. PICK w \in TransactionWrite : w = op[y]
    BY <1>6 DEF OpInv, Perform
  <2>2. w.new \in Obj /\ w.current \in Obj /\ w.dst \in Loc
    BY DEF TransactionWrite
  <2>3. owner[w.new] = y /\ other[w.new] = w.current /\ Running(y)
    BY <1>6, <2>1 DEF OpInv, Perform, Running
  <2>4. w.new \in Live /\ VerNum(w.new) = 0 /\ other[w.new] # None
    BY <2>2, <2>3, OwnedUncommitted, NestedAssumption
  <2>5. CASE ptr[w.dst] = w.current /\ w.dst = k
    <3>1. ptr'[k] = w.new
      BY <1>6, <2>1, <2>5 DEF Perform, Types
    <3> QED BY <1>2, <2>3, <2>4, <2>5, <3>1
  <2>6. CASE ~(ptr[w.dst] = w.current /\ w.dst = k)
    <3>1. ptr'[k] = ptr[k]
      BY <1>6, <2>1, <2>6 DEF Perform, Types
    <3> QED BY <1>2, <3>1
  <2> QED BY <2>5, <2>6
<1>7. CASE \E w \in wset[y] : Rollback(y, w)
  <2>1. PICK w \in wset[y] : Rollback(y, w)
    BY <1>7
  <2>2. w.new \in Obj /\ w.current \in Obj /\ w.dst \in Loc
    BY DEF Types, TransactionWrite
  <2>3. owner[w.new] = y /\ other[w.new] = w.current /\ ptr[w.dst] = w.new /\ Running(y)
    BY <2>1 DEF WriteInv, Rollback, Running
  <2>4. w.new \in Live /\ VerNum(w.new) = 0 /\ other[w.new] # None
    BY <2>2, <2>3, OwnedUncommitted, NestedAssumption
  <2>5. CASE w.dst = k
    <3>1. ptr'[k] = w.current
      BY <2>1, <2>3, <2>5 DEF Rollback, Types
    <3> QED BY <1>2, <2>3, <2>4, <2>5, <3>1
  <2>6. CASE w.dst # k
    <3>1. ptr'[k] = ptr[k]
      BY <2>1, <2>3, <2>6 DEF Rollback, Types
    <3> QED BY <1>2, <3>1
  <2> QED BY <2>5, <2>6
<1>8. Begin(y) \/ ReadRoot(y) \/ Commit(y) \/ Fail(y) \/ AbortDone(y)
      \/ (\E l \in Reach(y) : Write(y, l) \/ WriteFails(y, l)) => UNCHANGED ptr
  BY DEF Begin, ReadRoot, Commit, Fail, AbortDone, Write, WriteFails, heapVars
<1> QED BY <1>1, <1>4, <1>5, <1>6, <1>7, <1>8 DEF Step

\* A running transaction keeps its snapshot and its parent.
LEMMA ReaderKept ==
  ASSUME Inductive, Next, NEW x \in Txs, Reading(x), Reading(x)'
  PROVE  snap'[x] = snap[x] /\ parent'[x] = parent[x]
<1>1. PICK y \in Txs : Step(y)
  BY DEF Next
<1>2. Types /\ pc[x] # "idle" /\ parent[x] # None
  BY DEF Reading, Running, Inductive
<1> QED
  BY <1>1, <1>2 DEF Step, Types, Begin, ReadRoot, Perform, Commit, Fail, AbortDone, Write,
                    WriteFails, CopyPointer, Alloc, AllocIn, Rollback

\* One step of RepeatableChild.
LEMMA RepeatableStep ==
  ASSUME Inductive, Inductive', [Next]_vars, NEW x \in Txs, Reading(x), Reading(x)', NEW c \in Cells
  PROVE  SeenChild(x, c)' = SeenChild(x, c)
<1> USE DEF Inductive
<1>1. CASE UNCHANGED vars
  BY <1>1 DEF vars, heapVars, SeenChild, Seen, Visible, VerNum
<1>2. CASE Next
  <2>1. snap'[x] = snap[x] /\ parent'[x] = parent[x]
    BY <1>2, ReaderKept
  <2>2. PICK p \in Committed : p = parent[x]
    BY DEF Reading, TxInv, Visible, Committed
  <2>3. ASSUME NEW v \in Live PROVE other'[v] = other[v] /\ Visible(x, v)' = Visible(x, v)
    <3>1. /\ other'[v] = other[v]
          /\ VerNum(v)' = VerNum(v) \/ (VerNum(v) = 0 /\ VerNum(v)' = clock + 1)
      BY <1>2, ObjectsKept
    <3>2. snap[x] <= clock /\ snap[x] \in Nat /\ clock \in Nat
      BY DEF TxInv, Types
    <3> QED BY <2>1, <3>1, <3>2 DEF Visible
  <2>4. \A o \in Live : Seen(x, o)' = Seen(x, o)
    BY <2>3, SeenFrame
  <2>5. Seen(x, None) = None /\ Seen(x, None)' = None
    BY Steps DEF SeenSteps
  <2>6. PICK o : o = ptr[<<p, c>>]
    OBVIOUS
  <2>7. PICK q : q = ptr'[<<p, c>>]
    OBVIOUS
  <2>8. o \in Live \cup {None} /\ Seen(x, o)' = Seen(x, o)
    BY <2>4, <2>5, <2>6, Locations DEF HeapInv, Committed, Live
  <2>9. SeenChild(x, c) = Seen(x, o) /\ SeenChild(x, c)' = Seen(x, q)'
    BY <2>1, <2>2, <2>6, <2>7 DEF SeenChild
  <2>10. CASE q = o
    BY <2>8, <2>9, <2>10
  <2>11. CASE q # o
    <3>1. PICK n \in Live : /\ VerNum(n) = 0 /\ other[n] # None /\ {o, q} = {n, other[n]}
      BY <1>2, <2>6, <2>7, <2>11, PointerMoves
    <3>2. n \in Obj /\ n # None /\ other[n] \in Live
      BY <3>1, Numbers DEF HeapInv, Committed
    <3>3. Seen(x, n) = Seen(x, other[n])
      BY <3>1, <3>2, Steps DEF SeenSteps, Visible
    <3>4. Seen(x, q) = Seen(x, o) /\ q \in Live
      BY <2>11, <3>1, <3>2, <3>3
    <3> QED BY <2>4, <2>8, <2>9, <3>4
  <2> QED BY <2>10, <2>11
<1> QED BY <1>1, <1>2

\* Reading a child of the same parent again gives the same version, although the pointers
\* were swapped, rolled back and copied meanwhile.
THEOREM ReadsRepeatable == Spec => RepeatableChild
<1>1. Inductive /\ Inductive' /\ [Next]_vars =>
         [\A x \in Txs : Reading(x) /\ Reading(x)' => \A c \in Cells :
             SeenChild(x, c)' = SeenChild(x, c)]_vars
  BY RepeatableStep
<1> QED BY <1>1, InductiveInvariant, PTL DEF Spec, RepeatableChild

=============================================================================
