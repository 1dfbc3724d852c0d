----------------------------- MODULE MvccProofs -----------------------------
(***************************************************************************)
(* Proofs for Mvcc: the conjunction Inductive of MvccInvariant is an       *)
(* inductive invariant, and the safety properties follow from it, for any  *)
(* number of threads, pointers, objects and version cells.                 *)
(*                                                                         *)
(* One lemma per action (or group of actions that change the same state).  *)
(* Three frame lemmas carry what most actions share: HeapFrame for steps   *)
(* that leave the heap alone, LocalFrame for steps that change only the    *)
(* operation in progress, AllocFrame for steps that take fresh memory.     *)
(***************************************************************************)
EXTENDS MvccInvariant, TLAPS

\* The invariant holds when the store has just been opened (vos.rs:536).
LEMMA InitInductive == Init => Inductive
<1> SUFFICES ASSUME Init PROVE Inductive
  OBVIOUS
<1> USE ConstantsAssumption
<1>1. TypeOK
  <2>1. chain \in [Obj -> Ptrs \cup {None}]
    BY DEF Init
  <2>2. vword \in [Obj -> Log \cup {Base, Free}]
    BY DEF Init
  <2> QED BY <2>1, <2>2 DEF Init, TypeOK, Labels
<1>2. ClockInv /\ ThreadInv /\ OpInv /\ WriteInv
  BY DEF Init, ClockInv, ThreadInv, OpInv, WriteInv
<1>3. \A p \in Ptrs : First[p] # Block => chain[First[p]] = p /\ vword[First[p]] = Base
  BY DEF Init
<1>4. \A o \in Obj : chain[o] # None => First[chain[o]] = o /\ vword[o] = Base
  BY DEF Init
<1>5. \A o \in Obj : vword[o] \in {Base, Free} /\ other[o] = None
  BY DEF Init
<1>6. HeapInv
  BY <1>4, <1>5 DEF HeapInv, Init
<1>7. HeadInv
  BY <1>3, <1>4, <1>5 DEF HeadInv, Init, Newest, VerNum
<1>8. NoLostUpdate
  BY <1>5 DEF NoLostUpdate
<1> QED BY <1>1, <1>2, <1>6, <1>7, <1>8 DEF Inductive

\* A step that leaves the heap alone, and keeps the writes of the transactions
\* that still have some, keeps what the invariant says of chains and writes.
LEMMA HeapFrame ==
  ASSUME Inductive, UNCHANGED heapVars,
         \A t \in Threads : wset'[t] # {} =>
            wset'[t] = wset[t] /\ tlog'[t] = tlog[t] /\ snap'[t] = snap[t]
  PROVE  HeapInv' /\ HeadInv' /\ NoLostUpdate' /\ WriteInv'
<1> USE DEF heapVars
<1>1. \A o : VerNum(o)' = VerNum(o)
  BY DEF VerNum
<1>2. \A p : Newest(p)' = Newest(p)
  BY <1>1 DEF Newest
<1>3. HeapInv'
  BY <1>1 DEF Inductive, HeapInv
<1>4. HeadInv'
  BY <1>1, <1>2 DEF Inductive, HeadInv
<1>5. NoLostUpdate'
  BY <1>1 DEF Inductive, NoLostUpdate, Committed
<1>6. WriteInv'
  BY <1>1 DEF Inductive, WriteInv
<1> QED BY <1>3, <1>4, <1>5, <1>6

\* Transaction::new keeps the invariant: the snapshot is taken without a commit
\* in progress.
LEMMA BeginInductive ==
  ASSUME Inductive, NEW t \in Threads, Begin(t)
  PROVE  Inductive'
<1> USE ConstantsAssumption
<1>1. TypeOK'
  BY DEF Inductive, TypeOK, Begin, Goto, Labels, heapVars, opVars
<1>2. ClockInv'
  BY DEF Inductive, TypeOK, ClockInv, Begin, Goto, heapVars
<1>3. ThreadInv'
  BY DEF Inductive, TypeOK, ClockInv, ThreadInv, Begin, Goto, heapVars
<1>4. HeapInv' /\ HeadInv' /\ NoLostUpdate' /\ WriteInv'
  BY HeapFrame DEF Inductive, TypeOK, ThreadInv, Begin
<1>5. OpInv'
  BY DEF Inductive, TypeOK, OpInv, Begin, Goto, heapVars, opVars, Visible, VerNum
<1> QED BY <1>1, <1>2, <1>3, <1>4, <1>5 DEF Inductive

\* A step that changes only the operation in progress of some thread keeps the
\* invariant.
LEMMA LocalFrame ==
  ASSUME Inductive, TypeOK', OpInv',
         UNCHANGED <<clock, lock, heapVars, snap, tlog, wset>>,
         \A t \in Threads : /\ pc'[t] = "validate" <=> pc[t] = "validate"
                            /\ pc'[t] = "idle" <=> pc[t] = "idle"
                            /\ pc'[t] \in {"write", "swap"} => tlog[t] # None
  PROVE  Inductive'
<1>1. ClockInv'
  BY DEF Inductive, ClockInv, heapVars
<1>2. ThreadInv'
  BY DEF Inductive, ThreadInv, heapVars
<1>3. HeapInv' /\ HeadInv' /\ NoLostUpdate' /\ WriteInv'
  BY HeapFrame
<1> QED BY <1>1, <1>2, <1>3 DEF Inductive

\* The first steps of Transaction::read and read_for_write keep the invariant.
LEMMA CallInductive ==
  ASSUME Inductive, NEW t \in Threads, NEW p \in Ptrs,
         Read(t, p) \/ ReadForWrite(t, p)
  PROVE  Inductive'
<1> USE ConstantsAssumption
<1>1. TypeOK'
  <2>1. rset' \in [Threads -> SUBSET Ptrs]
    BY DEF Inductive, TypeOK, Read, ReadForWrite
  <2>2. pc' \in [Threads -> Labels]
    BY DEF Inductive, TypeOK, Read, ReadForWrite, Call, Goto, Labels
  <2>3. /\ arg' \in [Threads -> Ptrs \cup {None}]
        /\ cur' \in [Threads -> Obj \cup {None, Block}]
        /\ ret' \in [Threads -> Obj \cup {None}]
    BY DEF Inductive, TypeOK, Read, ReadForWrite, Call
  <2> QED BY <2>1, <2>2, <2>3 DEF Inductive, TypeOK, Read, ReadForWrite, Call
<1>2. OpInv'
  <2>1. cur'[t] \in Obj => vword[cur'[t]] # Free
    BY DEF Inductive, TypeOK, HeapInv, HeadInv, Read, ReadForWrite, Call
  <2> QED BY <2>1 DEF Inductive, TypeOK, OpInv, Read, ReadForWrite, Call, Goto, Visible, VerNum
<1>3. UNCHANGED <<clock, lock, heapVars, snap, tlog, wset>>
  BY DEF Read, ReadForWrite, Call, heapVars
<1>4. pc[t] = "run" /\ pc' = [pc EXCEPT ![t] = pc'[t]] /\ pc'[t] \in {"read", "rfw"}
  BY DEF Inductive, TypeOK, Read, ReadForWrite, Call, Goto
<1> QED BY <1>1, <1>2, <1>3, <1>4, LocalFrame DEF Inductive, TypeOK, ThreadInv

\* An operation that ends without having changed the heap keeps the invariant.
LEMMA ReturnInductive ==
  ASSUME Inductive, NEW t \in Threads, NEW e \in {"abort", "run"},
         \E o \in Obj \cup {None} : Return(t, e, o),
         pc[t] \notin {"idle", "validate"},
         UNCHANGED <<clock, lock, heapVars, txVars, todo, commits>>
  PROVE  Inductive'
<1> USE ConstantsAssumption
<1>1. TypeOK'
  BY DEF Inductive, TypeOK, Return, Goto, Labels, heapVars, txVars
<1>2. OpInv'
  BY DEF Inductive, TypeOK, OpInv, Return, Goto, Visible, VerNum, heapVars, txVars
<1> QED BY <1>1, <1>2, LocalFrame DEF Inductive, TypeOK, ThreadInv, Return, Goto, txVars

\* Successful reads and failed operations keep the invariant.
LEMMA FailureInductive ==
  ASSUME Inductive, NEW t \in Threads, NEW e \in OnError,
         ReadReturns(t) \/ OperationFails(t, e) \/ NoAvailableMemory(t, e)
            \/ PerformFails(t, e)
  PROVE  Inductive'
<1>1. e \in {"abort", "run"}
  BY DEF OnError, Propagate
<1> QED BY <1>1, ReturnInductive
        DEF ReadReturns, OperationFails, NoAvailableMemory, PerformFails

\* A read that starts over or goes on to an older version keeps the invariant.
LEMMA ReloadInductive ==
  ASSUME Inductive, NEW t \in Threads, Reload(t) \/ ReadOlder(t)
  PROVE  Inductive'
<1> USE ConstantsAssumption
<1>1. pc[t] \in {"read", "rfw"}
  BY DEF Reload, ReadOlder
<1>2. cur'[t] \in Obj => vword[cur'[t]] # Free
  BY DEF Inductive, TypeOK, OpInv, HeapInv, HeadInv, Reload, ReadOlder
<1>3. TypeOK'
  BY <1>1 DEF Inductive, TypeOK, OpInv, Reload, ReadOlder, heapVars, txVars
<1>4. OpInv'
  BY <1>1, <1>2
     DEF Inductive, TypeOK, OpInv, Reload, ReadOlder, Visible, VerNum, heapVars, txVars
<1> QED BY <1>3, <1>4, LocalFrame
        DEF Inductive, TypeOK, ThreadInv, Reload, ReadOlder, txVars

\* Validating one pointer of the readset keeps the invariant.
LEMMA ValidateInductive ==
  ASSUME Inductive, NEW t \in Threads, NEW p \in Ptrs, Validate(t, p)
  PROVE  Inductive'
<1>1. TypeOK'
  BY DEF Inductive, TypeOK, Validate, heapVars, txVars, opVars
<1>2. OpInv'
  BY DEF Inductive, TypeOK, OpInv, Validate, Visible, VerNum, heapVars, txVars, opVars
<1> QED BY <1>1, <1>2, LocalFrame DEF Inductive, TypeOK, ThreadInv, Validate, txVars

\* A closure that returns an error keeps the invariant.
LEMMA ClosureFailsInductive ==
  ASSUME Inductive, NEW t \in Threads, ClosureFails(t)
  PROVE  Inductive'
<1>1. TypeOK'
  BY DEF Inductive, TypeOK, ClosureFails, Goto, Labels, heapVars, txVars, opVars
<1>2. OpInv'
  BY DEF Inductive, TypeOK, OpInv, ClosureFails, Goto, Visible, VerNum, heapVars, txVars, opVars
<1> QED BY <1>1, <1>2, LocalFrame DEF Inductive, TypeOK, ThreadInv, ClosureFails, Goto, txVars

\* The first step of Transaction::write keeps the invariant: a new version cell
\* is the version of no object yet.
LEMMA WriteInductive ==
  ASSUME Inductive, NEW t \in Threads, NEW p \in Ptrs, Write(t, p)
  PROVE  Inductive'
<1> USE ConstantsAssumption
<1>1. tlog'[t] \in Log /\ tlog' = [tlog EXCEPT ![t] = tlog'[t]]
  BY DEF Inductive, TypeOK, Write, WriteVersion
<1>2. \/ UNCHANGED <<logs, cell, tlog>>
      \/ /\ tlog[t] = None /\ tlog'[t] \notin logs
         /\ logs' = logs \cup {tlog'[t]} /\ cell' = [cell EXCEPT ![tlog'[t]] = 0]
  BY DEF Inductive, TypeOK, Write, WriteVersion
<1>3. UNCHANGED <<clock, lock, ptr, vword, other, chain, snap, wset>>
  BY DEF Write, Call
<1>4. TypeOK'
  <2>1. pc' \in [Threads -> Labels]
    BY DEF Inductive, TypeOK, Write, Call, Goto, Labels
  <2>2. /\ logs' \in SUBSET Log /\ cell' \in [Log -> Nat]
        /\ tlog' \in [Threads -> Log \cup {None}]
    BY <1>1, <1>2 DEF Inductive, TypeOK
  <2> QED BY <2>1, <2>2 DEF Inductive, TypeOK, Write, Call
<1>5. pc[t] = "run" /\ pc' = [pc EXCEPT ![t] = "write"]
  BY DEF Write, Call, Goto
<1>6. ClockInv'
  <2>1. \A l \in Log : cell'[l] = cell[l] \/ cell'[l] = 0
    BY <1>1, <1>2 DEF Inductive, TypeOK
  <2>2. \A u \in Threads : pc'[u] = "validate" <=> pc[u] = "validate"
    BY <1>5 DEF Inductive, TypeOK
  <2>3. clock \in Nat /\ clock >= 1
    BY DEF Inductive, TypeOK, ClockInv
  <2>4. \A l \in Log : cell'[l] <= clock /\ (lock # None => cell'[l] < clock)
    BY <2>1, <2>3 DEF Inductive, ClockInv
  <2> QED BY <1>3, <2>2, <2>4 DEF Inductive, ClockInv
<1>7. ThreadInv'
  BY <1>1, <1>2, <1>3, <1>5 DEF Inductive, TypeOK, ThreadInv
<1>8. \A o \in Obj : vword[o] # Free => VerNum(o)' = VerNum(o)
  BY <1>1, <1>2, <1>3 DEF Inductive, TypeOK, HeapInv, VerNum
<1>9. HeapInv'
  BY <1>2, <1>3, <1>8 DEF Inductive, TypeOK, HeapInv
<1>10. HeadInv'
  <2>1. \A x \in Ptrs : ptr[x] # Block => ptr[x] \in Obj /\ vword[ptr[x]] # Free
    BY DEF Inductive, TypeOK, HeapInv, HeadInv
  <2>2. \A x \in Ptrs : ptr[x] # Block =>
           Newest(x)' = Newest(x) /\ Newest(x) \in Obj /\ vword[Newest(x)] # Free
    BY <1>3, <1>8, <2>1 DEF Inductive, TypeOK, HeapInv, Newest, VerNum
  <2> QED BY <1>3, <1>8, <2>2 DEF Inductive, TypeOK, HeapInv, HeadInv
<1>11. NoLostUpdate'
  BY <1>3, <1>8 DEF Inductive, TypeOK, HeapInv, NoLostUpdate, Committed
<1>12. WriteInv'
  <2>1. \A u \in Threads : wset[u] # {} => tlog'[u] = tlog[u]
    BY <1>1, <1>2 DEF Inductive, TypeOK, ThreadInv
  <2>2. \A u \in Threads : \A w \in wset[u] :
           /\ w.new \in Obj /\ vword[w.new] \in Log
           /\ w.current \in Obj /\ vword[w.current] # Free
    BY DEF Inductive, TypeOK, TransactionWrite, ThreadInv, WriteInv, HeapInv
  <2> QED BY <1>3, <1>8, <2>1, <2>2 DEF Inductive, TypeOK, WriteInv
<1>13. OpInv'
  <2>1. cur'[t] \in Obj => vword[cur'[t]] # Free
    BY DEF Inductive, TypeOK, HeapInv, HeadInv, Write, Call
  <2>2. cur' = [cur EXCEPT ![t] = ptr[p]] /\ addr' = [addr EXCEPT ![t] = ptr[p]]
        /\ arg' = [arg EXCEPT ![t] = p] /\ new' = new
    BY DEF Write, Call
  <2>3. ptr[p] # None
    BY DEF Inductive, TypeOK
  <2> QED BY <1>1, <1>3, <1>5, <1>8, <2>1, <2>2, <2>3
          DEF Inductive, TypeOK, OpInv, Visible
<1> QED BY <1>4, <1>6, <1>7, <1>9, <1>10, <1>11, <1>12, <1>13 DEF Inductive

\* Nothing refers to memory that has not been allocated.
LEMMA AllocFacts ==
  ASSUME Inductive, NEW o \in Fresh
  PROVE  /\ chain[o] = None
         /\ \A p \in Ptrs : ptr[p] # o
         /\ \A x \in Obj : vword[x] \in Log => other[x] # o
         /\ \A t \in Threads : cur[t] # o
         /\ \A t \in Threads : pc[t] = "swap" => new[t] # o
         /\ \A t \in Threads : \A w \in wset[t] : w.new # o /\ w.current # o
<1> USE ConstantsAssumption DEF Fresh
<1>1. chain[o] = None /\ \A p \in Ptrs : ptr[p] # o
  BY DEF Inductive, TypeOK, HeapInv, HeadInv
<1>2. \A x \in Obj : vword[x] \in Log => other[x] # o
  BY DEF Inductive, HeapInv
<1>3. \A t \in Threads : cur[t] # o
  BY DEF Inductive, OpInv
<1>4. \A t \in Threads : pc[t] = "swap" => new[t] # o
  BY DEF Inductive, TypeOK, OpInv, ThreadInv
<1>5. \A t \in Threads : \A w \in wset[t] : w.new # o /\ w.current # o
  BY <1>2 DEF Inductive, TypeOK, TransactionWrite, WriteInv, ThreadInv, HeapInv
<1> QED BY <1>1, <1>2, <1>3, <1>4, <1>5

\* The newest committed version of a pointer stays what it is when only an
\* object changes that was not allocated.
LEMMA NewestStable ==
  ASSUME Inductive, NEW o, o \in Obj => vword[o] = Free,
         NEW p \in Ptrs, ptr[p] # Block, ptr'[p] = ptr[p],
         \A x \in Obj : x # o => other'[x] = other[x] /\ VerNum(x)' = VerNum(x)
  PROVE  /\ Newest(p)' = Newest(p) /\ VerNum(Newest(p))' = VerNum(Newest(p))
         /\ ptr[p] \in Obj /\ ptr[p] # o
<1> USE ConstantsAssumption
<1>1. ptr[p] \in Obj /\ chain[ptr[p]] = p /\ p # None
  BY DEF Inductive, TypeOK, HeadInv
<1>2. ptr[p] # o /\ vword[ptr[p]] \in Log \cup {Base}
  BY <1>1 DEF Inductive, TypeOK, HeapInv
<1>3. VerNum(ptr[p]) = 0 => other[ptr[p]] \in Obj /\ vword[other[ptr[p]]] # Free
  BY <1>1, <1>2 DEF Inductive, HeapInv, VerNum
<1>4. Newest(p) \in Obj /\ Newest(p) # o
  BY <1>1, <1>2, <1>3 DEF Newest
<1> DEFINE h == ptr[p]
<1>5. VerNum(h)' = VerNum(h) /\ other'[h] = other[h] /\ h' = h
  BY <1>1, <1>2
<1>6. Newest(p)' = Newest(p)
  BY <1>5 DEF Newest, VerNum
<1>7. VerNum(Newest(p))' = VerNum(Newest(p))
  BY <1>4, <1>6 DEF VerNum
<1> QED BY <1>1, <1>2, <1>6, <1>7

\* Initialising fresh memory (init_object) keeps what the invariant says of chains
\* and writes, and changes no other object.
LEMMA AllocFrame ==
  ASSUME Inductive, NEW o \in Fresh, NEW v \in Log \cup {Base}, NEW prev \in Obj \cup {None},
         InitObject(o, v, prev), UNCHANGED <<ptr, chain, logs, cell, snap, tlog, wset>>,
         v = Base => prev = None,
         v \in Log => /\ v \in logs
                      /\ prev \in Obj /\ vword[prev] # Free /\ VerNum(prev) # 0
  PROVE  /\ HeapInv' /\ HeadInv' /\ NoLostUpdate' /\ WriteInv'
         /\ \A x \in Obj : x # o => /\ vword'[x] = vword[x] /\ other'[x] = other[x]
                                    /\ VerNum(x)' = VerNum(x)
<1> USE ConstantsAssumption
<1>0. o \in Obj /\ vword[o] = Free /\ vword'[o] = v /\ other'[o] = prev
  BY DEF Inductive, TypeOK, Fresh, InitObject
<1>1. \A x \in Obj : x # o => vword'[x] = vword[x] /\ other'[x] = other[x]
  BY DEF Inductive, TypeOK, InitObject
<1>2. \A x \in Obj : x # o => VerNum(x)' = VerNum(x)
  BY <1>1 DEF VerNum
<1>3. HeapInv'
  BY <1>0, <1>1, <1>2, AllocFacts DEF Inductive, TypeOK, HeapInv
<1>4. HeadInv'
  <2>1. \A p \in Ptrs : ptr[p] # Block => Newest(p)' = Newest(p) /\ VerNum(Newest(p))' = VerNum(Newest(p))
    BY <1>0, <1>1, <1>2, NewestStable
  <2> QED BY <1>0, <1>1, <1>2, <2>1, AllocFacts DEF Inductive, TypeOK, HeadInv
<1>5. NoLostUpdate'
  BY <1>0, <1>1, <1>2, AllocFacts DEF Inductive, TypeOK, HeapInv, NoLostUpdate, Committed
<1>6. WriteInv'
  BY <1>1, <1>2, AllocFacts DEF Inductive, TypeOK, TransactionWrite, WriteInv, ThreadInv, HeapInv
<1> QED BY <1>1, <1>2, <1>3, <1>4, <1>5, <1>6

\* Initialising fresh memory does not disturb the operations of other threads.
LEMMA AllocOps ==
  ASSUME Inductive, NEW o \in Fresh, NEW t \in Threads,
         \A x \in Obj : x # o => /\ vword'[x] = vword[x] /\ other'[x] = other[x]
                                 /\ VerNum(x)' = VerNum(x)
                                 /\ chain'[x] = chain[x],
         snap' = snap, tlog' = tlog,
         \A u \in Threads : u # t => /\ pc'[u] = pc[u] /\ arg'[u] = arg[u]
                                     /\ addr'[u] = addr[u] /\ cur'[u] = cur[u]
                                     /\ new'[u] = new[u]
  PROVE  \A u \in Threads : u # t =>
            /\ pc'[u] \in {"read", "rfw", "write", "swap"} => arg'[u] \in Ptrs
            /\ cur'[u] \in Obj => vword'[cur'[u]] # Free
            /\ pc'[u] \in {"write", "swap"} =>
                  /\ addr'[u] # None /\ cur'[u] # None
                  /\ addr'[u] \in Obj => cur'[u] = addr'[u]
            /\ pc'[u] = "swap" =>
                  /\ cur'[u] \in Obj /\ Visible(u, cur[u])'
                  /\ new'[u] \in Obj /\ vword'[new'[u]] = tlog'[u]
                  /\ other'[new'[u]] = cur'[u] /\ chain'[new'[u]] = None
  BY AllocFacts DEF Inductive, OpInv, Visible

\* Swizzling the private pointer of Transaction::write keeps the invariant.
LEMMA SwizzleCloneInductive ==
  ASSUME Inductive, NEW t \in Threads, SwizzleClone(t)
  PROVE  Inductive'
<1> USE ConstantsAssumption
<1>1. PICK o \in Fresh : InitObject(o, Base, None) /\ cur' = [cur EXCEPT ![t] = o]
  BY DEF SwizzleClone
<1>2. o \in Obj /\ vword'[o] = Base /\ vword[o] = Free
  BY <1>1 DEF Fresh, InitObject, Inductive, TypeOK
<1>3. TypeOK'
  BY <1>1, <1>2 DEF Inductive, TypeOK, SwizzleClone, InitObject, txVars
<1>4. ClockInv' /\ ThreadInv'
  BY DEF Inductive, ClockInv, ThreadInv, SwizzleClone, txVars
<1>5. /\ HeapInv' /\ HeadInv' /\ NoLostUpdate' /\ WriteInv'
      /\ \A x \in Obj : x # o => /\ vword'[x] = vword[x] /\ other'[x] = other[x]
                                 /\ VerNum(x)' = VerNum(x)
  BY <1>1, AllocFrame DEF SwizzleClone, txVars
<1>6. OpInv'
  <2>1. \A u \in Threads : u # t => cur'[u] = cur[u]
    BY <1>1 DEF Inductive, TypeOK
  <2>2. pc[t] = "write" /\ cur'[t] = o /\ cur[t] = Block
    BY <1>1 DEF Inductive, TypeOK, SwizzleClone
  <2> QED BY <1>2, <1>5, <2>1, <2>2, AllocOps
          DEF Inductive, TypeOK, OpInv, SwizzleClone, txVars, Visible
<1> QED BY <1>3, <1>4, <1>5, <1>6 DEF Inductive

\* Allocating the copy in Transaction::write keeps the invariant.
LEMMA CopyOnWriteInductive ==
  ASSUME Inductive, NEW t \in Threads, CopyOnWrite(t)
  PROVE  Inductive'
<1> USE ConstantsAssumption
<1>1. PICK o \in Fresh : InitObject(o, tlog[t], cur[t]) /\ new' = [new EXCEPT ![t] = o]
  BY DEF CopyOnWrite
<1>2. /\ pc[t] = "write" /\ pc' = [pc EXCEPT ![t] = "swap"]
      /\ cur[t] \in Obj /\ vword[cur[t]] # Free /\ Visible(t, cur[t])
  BY DEF Inductive, OpInv, CopyOnWrite, Goto
<1>3. tlog[t] \in Log /\ tlog[t] \in logs
  BY <1>2 DEF Inductive, TypeOK, ThreadInv
<1>4. /\ o \in Obj /\ vword[o] = Free
      /\ vword'[o] = tlog[t] /\ other'[o] = cur[t] /\ cur[t] # o
  BY <1>1, <1>2 DEF Fresh, InitObject, Inductive, TypeOK
<1>5. TypeOK'
  <2>1. pc' \in [Threads -> Labels]
    BY <1>2 DEF Inductive, TypeOK, Labels
  <2> QED BY <1>1, <1>2, <1>3, <1>4, <2>1
          DEF Inductive, TypeOK, CopyOnWrite, InitObject, txVars
<1>6. ClockInv' /\ ThreadInv'
  BY <1>2, <1>3 DEF Inductive, TypeOK, ClockInv, ThreadInv, CopyOnWrite, txVars
<1>7. /\ HeapInv' /\ HeadInv' /\ NoLostUpdate' /\ WriteInv'
      /\ \A x \in Obj : x # o => /\ vword'[x] = vword[x] /\ other'[x] = other[x]
                                 /\ VerNum(x)' = VerNum(x)
  BY <1>1, <1>2, <1>3, AllocFrame DEF CopyOnWrite, txVars, Visible
<1>8. OpInv'
  <2>1. \A u \in Threads : u # t => new'[u] = new[u] /\ pc'[u] = pc[u]
    BY <1>1, <1>2 DEF Inductive, TypeOK
  <2>2. pc'[t] = "swap" /\ new'[t] = o
    BY <1>1, <1>2 DEF Inductive, TypeOK
  <2>3. chain[o] = None
    BY AllocFacts
  <2> QED BY <1>2, <1>4, <1>7, <2>1, <2>2, <2>3, AllocOps
          DEF Inductive, TypeOK, OpInv, CopyOnWrite, txVars, Visible
<1> QED BY <1>5, <1>6, <1>7, <1>8 DEF Inductive

\* Swizzling a block pointer keeps the invariant: the fetched object starts the
\* version chain of the pointer, or is leaked.
LEMMA SwizzleInductive ==
  ASSUME Inductive, NEW t \in Threads, Swizzle(t)
  PROVE  Inductive'
<1> USE ConstantsAssumption
<1>1. PICK o \in Fresh :
        /\ InitObject(o, Base, None)
        /\ \/ /\ ptr[arg[t]] = Block
              /\ ptr' = [ptr EXCEPT ![arg[t]] = o]
              /\ chain' = [chain EXCEPT ![o] = arg[t]]
           \/ UNCHANGED <<ptr, chain>>
  BY DEF Swizzle
<1>2. o \in Obj /\ vword'[o] = Base /\ vword[o] = Free /\ other'[o] = None
  BY <1>1 DEF Fresh, InitObject, Inductive, TypeOK
<1>3. pc[t] \in {"read", "rfw"} /\ arg[t] \in Ptrs /\ cur' = [cur EXCEPT ![t] = None]
  BY DEF Swizzle, Inductive, OpInv
<1>4. UNCHANGED <<clock, lock, logs, cell, pc, snap, tlog, wset, arg, addr, new>>
  BY DEF Swizzle, txVars
<1>5. TypeOK'
  <2>1. /\ vword' \in [Obj -> Log \cup {Base, Free}]
        /\ other' \in [Obj -> Obj \cup {None}]
    BY <1>1, <1>2 DEF Inductive, TypeOK, InitObject
  <2>2. ptr' \in [Ptrs -> Obj \cup {Block}] /\ chain' \in [Obj -> Ptrs \cup {None}]
    BY <1>1, <1>2, <1>3 DEF Inductive, TypeOK
  <2>3. cur' \in [Threads -> Obj \cup {None, Block}]
    BY <1>3 DEF Inductive, TypeOK
  <2> QED BY <1>4, <2>1, <2>2, <2>3 DEF Inductive, TypeOK, Swizzle, txVars
<1>6. ClockInv' /\ ThreadInv'
  BY <1>4 DEF Inductive, ClockInv, ThreadInv
<1>7. \A x \in Obj : x # o => /\ vword'[x] = vword[x] /\ other'[x] = other[x]
                              /\ VerNum(x)' = VerNum(x) /\ chain'[x] = chain[x]
  BY <1>1, <1>4 DEF Inductive, TypeOK, InitObject, VerNum
<1>8. OpInv'
  <2>1. \A u \in Threads : u # t => cur'[u] = cur[u]
    BY <1>3 DEF Inductive, TypeOK
  <2>2. cur'[t] = None
    BY <1>3 DEF Inductive, TypeOK
  <2>3. \A u \in Threads : pc[u] = "swap" => new[u] # o
    BY AllocFacts
  <2>4. \A u \in Threads : u # t =>
           /\ cur'[u] \in Obj => cur[u] # o /\ vword'[cur'[u]] # Free
           /\ pc'[u] = "swap" => Visible(u, cur[u])'
    BY <1>4, <1>7, <2>1, AllocFacts DEF Inductive, OpInv, Visible
  <2> QED BY <1>3, <1>4, <1>7, <2>1, <2>2, <2>3, <2>4
          DEF Inductive, TypeOK, OpInv, Visible
<1>9. HeapInv' /\ HeadInv' /\ NoLostUpdate' /\ WriteInv'
  <2>1. CASE UNCHANGED <<ptr, chain>>
    BY <1>1, <1>4, <2>1, AllocFrame
  <2>2. CASE /\ ptr[arg[t]] = Block
             /\ ptr' = [ptr EXCEPT ![arg[t]] = o]
             /\ chain' = [chain EXCEPT ![o] = arg[t]]
    <3>1. /\ ptr'[arg[t]] = o /\ chain'[o] = arg[t] /\ arg[t] # None
          /\ \A p \in Ptrs : p # arg[t] => ptr'[p] = ptr[p]
          /\ \A x \in Obj : x # o => chain'[x] = chain[x] /\ chain[x] # arg[t]
      BY <1>2, <1>3, <2>2 DEF Inductive, TypeOK, HeadInv
    <3>2. VerNum(o)' = 1
      BY <1>2 DEF VerNum
    <3>3. HeapInv'
      BY <1>2, <1>4, <1>7, <3>1, AllocFacts DEF Inductive, TypeOK, HeapInv
    <3>4. \A p \in Ptrs : p # arg[t] /\ ptr[p] # Block =>
             Newest(p)' = Newest(p) /\ VerNum(Newest(p))' = VerNum(Newest(p))
      BY <1>2, <1>7, <3>1, NewestStable
    <3>5. \A p \in Ptrs : p = arg[t] => Newest(p)' = o
      BY <3>1, <3>2 DEF Newest
    <3>6. HeadInv'
      <4> SUFFICES ASSUME NEW p \in Ptrs
                   PROVE  /\ ptr'[p] = Block => \A x \in Obj : chain'[x] # p
                          /\ ptr'[p] # Block =>
                                /\ chain'[ptr'[p]] = p
                                /\ \A x \in Obj : chain'[x] = p =>
                                      VerNum(x)' <= VerNum(Newest(p))'
        BY DEF HeadInv
      <4>1. CASE p = arg[t]
        BY <1>2, <3>1, <3>2, <3>5, <4>1
      <4>2. CASE p # arg[t]
        <5>1. ptr'[p] = ptr[p] /\ chain'[o] # p
          BY <3>1, <4>2
        <5>2. ptr[p] # Block => ptr[p] \in Obj /\ ptr[p] # o /\ chain[ptr[p]] = p
          BY <1>2, <4>2 DEF Inductive, TypeOK, HeadInv, HeapInv
        <5>3. \A x \in Obj : chain'[x] = p => x # o /\ chain[x] = p /\ VerNum(x)' = VerNum(x)
          BY <1>7, <5>1
        <5> QED BY <1>7, <3>4, <4>2, <5>1, <5>2, <5>3 DEF Inductive, HeadInv
      <4> QED BY <4>1, <4>2
    <3>7. NoLostUpdate'
      <4>1. \A x \in Obj : Committed(x)' /\ x # o => Committed(x)
        BY <1>7 DEF Committed
      <4>2. \A x \in Obj : Committed(x)' /\ other'[x] # None =>
               /\ x # o /\ other[x] # o /\ other[x] \in Obj
               /\ chain[x] # arg[t]
        BY <1>2, <1>7, <3>1, AllocFacts DEF Inductive, TypeOK, HeapInv, Committed
      <4> QED BY <1>2, <1>7, <3>1, <4>1, <4>2 DEF Inductive, TypeOK, NoLostUpdate, Committed
    <3>8. WriteInv'
      BY <1>4, <1>7, <2>2, <3>1, AllocFacts DEF Inductive, TypeOK, TransactionWrite, WriteInv, ThreadInv, HeapInv
    <3> QED BY <3>3, <3>6, <3>7, <3>8
  <2> QED BY <1>1, <2>1, <2>2
<1> QED BY <1>5, <1>6, <1>8, <1>9 DEF Inductive

\* A successful TransactionWrite::perform keeps the invariant: the pointer still
\* holds the version that was copied, which is the newest committed one.
LEMMA PerformInductive ==
  ASSUME Inductive, NEW t \in Threads, Perform(t)
  PROVE  Inductive'
<1> USE ConstantsAssumption
<1>0. PICK p \in Ptrs, n \in Obj, c \in Obj : p = arg[t] /\ n = new[t] /\ c = cur[t]
  BY DEF Perform, Inductive, OpInv
<1> DEFINE w == [dst |-> p, current |-> c, new |-> n]
<1>1. /\ pc[t] = "swap"
      /\ vword[n] = tlog[t] /\ other[n] = c /\ chain[n] = None
      /\ Visible(t, c) /\ vword[c] # Free
  BY <1>0 DEF Perform, Inductive, OpInv
<1>2. tlog[t] \in Log /\ cell[tlog[t]] = 0 /\ VerNum(n) = 0
  BY <1>1 DEF Inductive, TypeOK, ThreadInv, VerNum
<1>3. /\ ptr[p] = c /\ NewByte(addr[t]) = c
      /\ chain[c] = p /\ VerNum(c) # 0 /\ VerNum(c) <= snap[t]
  <2>1. addr[t] # None /\ (addr[t] \in Obj => c = addr[t])
    BY <1>0, <1>1 DEF Inductive, OpInv
  <2>2. ptr[p] \in Obj \cup {Block} /\ ptr[p] = NewByte(addr[t])
    BY <1>0 DEF Inductive, TypeOK, Perform
  <2>3. addr[t] \in Obj /\ NewByte(addr[t]) = c
    BY <2>1, <2>2 DEF Inductive, TypeOK, NewByte
  <2> QED BY <1>1, <2>2, <2>3 DEF Inductive, HeadInv, Visible
<1>4. /\ ptr' = [ptr EXCEPT ![p] = n] /\ chain' = [chain EXCEPT ![n] = p]
      /\ wset' = [wset EXCEPT ![t] = @ \cup {w}]
  BY <1>0, <1>3 DEF Perform, Swap
<1>5. UNCHANGED <<clock, lock, vword, other, logs, cell, snap, tlog, rset, todo, commits>>
  BY DEF Perform
<1>6. /\ pc' = [pc EXCEPT ![t] = "run"] /\ ret' = [ret EXCEPT ![t] = None]
      /\ arg' = [arg EXCEPT ![t] = None] /\ addr' = [addr EXCEPT ![t] = None]
      /\ cur' = [cur EXCEPT ![t] = None] /\ new' = [new EXCEPT ![t] = None]
  BY DEF Perform, Return, Goto
<1>7. TypeOK'
  <2>1. w \in TransactionWrite
    BY <1>1, <1>3 DEF TransactionWrite
  <2>2. pc' \in [Threads -> Labels]
    BY <1>6 DEF Inductive, TypeOK, Labels
  <2>3. wset' \in [Threads -> SUBSET TransactionWrite]
    BY <1>4, <2>1 DEF Inductive, TypeOK
  <2>4. ptr' \in [Ptrs -> Obj \cup {Block}] /\ chain' \in [Obj -> Ptrs \cup {None}]
    BY <1>1, <1>4 DEF Inductive, TypeOK
  <2> QED BY <1>5, <1>6, <2>2, <2>3, <2>4 DEF Inductive, TypeOK
<1>8. ClockInv'
  BY <1>1, <1>5, <1>6 DEF Inductive, TypeOK, ClockInv
<1>9. ThreadInv'
  BY <1>1, <1>2, <1>4, <1>5, <1>6 DEF Inductive, TypeOK, ThreadInv
<1>10. \A o : VerNum(o)' = VerNum(o)
  BY <1>5 DEF VerNum
<1>11. /\ ptr'[p] = n /\ chain'[n] = p /\ n # c /\ p # None
       /\ \A q \in Ptrs : q # p => ptr'[q] = ptr[q]
       /\ \A o \in Obj : o # n => chain'[o] = chain[o]
  BY <1>1, <1>2, <1>3, <1>4 DEF Inductive, TypeOK
<1>12. \A o \in Obj : vword[o] \in Log => other[o] # n
  BY <1>1, <1>2 DEF Inductive, HeapInv
<1>13. HeapInv'
  <2>1. \A o \in Obj : o # n /\ chain[o] = p /\ vword[o] \in Log => VerNum(o) # 0
    BY <1>3, <1>11 DEF Inductive, HeapInv
  <2> QED BY <1>1, <1>2, <1>3, <1>5, <1>10, <1>11, <1>12, <2>1
          DEF Inductive, TypeOK, HeapInv
<1>14. HeadInv'
  <2>1. Newest(p) = c /\ Newest(p)' = c
    BY <1>1, <1>2, <1>3, <1>5, <1>10, <1>11 DEF Newest
  <2>2. \A q \in Ptrs : q # p => Newest(q)' = Newest(q)
    BY <1>5, <1>10, <1>11 DEF Newest
  <2>3. VerNum(n) <= VerNum(c)
    BY <1>1, <1>2 DEF VerNum, Inductive, TypeOK
  <2>4. ptr[p] # Block
    BY <1>1, <1>3
  <2> QED BY <1>1, <1>10, <1>11, <2>1, <2>2, <2>3, <2>4
          DEF Inductive, TypeOK, HeadInv
<1>15. NoLostUpdate'
  <2>1. \A o \in Obj : Committed(o)' => o # n /\ Committed(o) /\ chain'[o] = chain[o]
    BY <1>2, <1>10, <1>11 DEF Committed
  <2>2. \A o \in Obj : Committed(o) => Committed(o)'
    BY <1>2, <1>10, <1>11 DEF Committed
  <2>3. \A o \in Obj : Committed(o) /\ other[o] # None => other[o] \in Obj
    BY DEF Inductive, TypeOK
  <2> QED BY <1>5, <1>10, <2>1, <2>2, <2>3 DEF Inductive, NoLostUpdate
<1>16. WriteInv'
  <2>1. \A u \in Threads : \A x \in wset[u] : x.dst # p
    BY <1>2, <1>3 DEF Inductive, TypeOK, ThreadInv, WriteInv, VerNum
  <2>2. \A u \in Threads : \A x \in wset'[u] : x \in wset[u] \/ (u = t /\ x = w)
    BY <1>4 DEF Inductive, TypeOK
  <2>3. \A u \in Threads : \A x \in wset[u] : x.dst \in Ptrs
    BY DEF Inductive, TypeOK, TransactionWrite
  <2> QED BY <1>1, <1>3, <1>5, <1>10, <1>11, <2>1, <2>2, <2>3 DEF Inductive, WriteInv
<1>17. OpInv'
  <2>1. \A u \in Threads : u # t /\ pc[u] = "swap" => new[u] # n
    BY <1>1, <1>2 DEF Inductive, OpInv, ThreadInv
  <2> QED BY <1>5, <1>6, <1>10, <1>11, <2>1 DEF Inductive, TypeOK, OpInv, Visible
<1> QED BY <1>7, <1>8, <1>9, <1>13, <1>14, <1>15, <1>16, <1>17 DEF Inductive

\* The end of a read-only or a rolled back transaction keeps the invariant.
LEMMA DropInductive ==
  ASSUME Inductive, NEW t \in Threads, CommitReadOnly(t) \/ AbortDone(t)
  PROVE  Inductive'
<1> USE ConstantsAssumption
<1>1. /\ pc[t] \in {"run", "abort"} /\ DropTransaction(t)
      /\ UNCHANGED <<clock, lock, heapVars, commits>>
  BY DEF CommitReadOnly, AbortDone
<1>2. TypeOK'
  BY <1>1 DEF Inductive, TypeOK, DropTransaction, Goto, Labels, heapVars
<1>3. ClockInv'
  BY <1>1 DEF Inductive, TypeOK, ClockInv, DropTransaction, Goto, heapVars
<1>4. ThreadInv'
  BY <1>1 DEF Inductive, TypeOK, ThreadInv, DropTransaction, Goto, heapVars
<1>5. HeapInv' /\ HeadInv' /\ NoLostUpdate' /\ WriteInv'
  BY <1>1, HeapFrame DEF Inductive, TypeOK, DropTransaction
<1>6. OpInv'
  BY <1>1 DEF Inductive, TypeOK, OpInv, DropTransaction, Goto, heapVars, Visible, VerNum
<1> QED BY <1>2, <1>3, <1>4, <1>5, <1>6 DEF Inductive

\* Taking the version lock and a new version number keeps the invariant.
LEMMA CommitLockInductive ==
  ASSUME Inductive, NEW t \in Threads, CommitLock(t)
  PROVE  Inductive'
<1> USE ConstantsAssumption
<1>1. TypeOK'
  BY DEF Inductive, TypeOK, CommitLock, Goto, Labels, heapVars, txVars, opVars
<1>2. ClockInv'
  BY DEF Inductive, TypeOK, ClockInv, CommitLock, Goto, heapVars, txVars
<1>3. ThreadInv'
  BY DEF Inductive, TypeOK, ThreadInv, CommitLock, Goto, heapVars, txVars
<1>4. HeapInv' /\ HeadInv' /\ NoLostUpdate' /\ WriteInv'
  BY HeapFrame DEF CommitLock, txVars
<1>5. OpInv'
  BY DEF Inductive, TypeOK, OpInv, CommitLock, Goto, heapVars, txVars, opVars, Visible, VerNum
<1> QED BY <1>1, <1>2, <1>3, <1>4, <1>5 DEF Inductive

\* A failed validation keeps the invariant, and so does a panic in it.
LEMMA ValidateEndsInductive ==
  ASSUME Inductive, NEW t \in Threads, NEW p \in Ptrs,
         ValidateFails(t, p) \/ ValidatePanics(t, p)
  PROVE  Inductive'
<1> USE ConstantsAssumption
<1>1. /\ pc[t] = "validate" /\ pc'[t] \in {"abort", "panic"}
      /\ pc' = [pc EXCEPT ![t] = pc'[t]]
      /\ lock' = None /\ todo' = [todo EXCEPT ![t] = todo'[t]] /\ todo'[t] \in SUBSET Ptrs
      /\ UNCHANGED <<clock, heapVars, txVars, opVars, commits>>
  <2>1. CASE ValidateFails(t, p)
    BY <2>1 DEF Inductive, TypeOK, ValidateFails, Goto
  <2>2. CASE ValidatePanics(t, p)
    BY <2>2 DEF Inductive, TypeOK, ValidatePanics, Goto
  <2> QED BY <2>1, <2>2
<1>2. TypeOK'
  BY <1>1 DEF Inductive, TypeOK, Labels, heapVars, txVars, opVars
<1>3. ClockInv'
  BY <1>1 DEF Inductive, TypeOK, ClockInv, heapVars, txVars
<1>4. ThreadInv'
  BY <1>1 DEF Inductive, TypeOK, ThreadInv, heapVars, txVars
<1>5. HeapInv' /\ HeadInv' /\ NoLostUpdate' /\ WriteInv'
  BY <1>1, HeapFrame DEF txVars
<1>6. OpInv'
  BY <1>1 DEF Inductive, TypeOK, OpInv, heapVars, txVars, opVars, Visible, VerNum
<1> QED BY <1>2, <1>3, <1>4, <1>5, <1>6 DEF Inductive

\* Version::commit keeps the invariant: all heads written by the transaction get
\* a version newer than everything else at once.
LEMMA CommitStoreInductive ==
  ASSUME Inductive, NEW t \in Threads, CommitStore(t)
  PROVE  Inductive'
<1> USE ConstantsAssumption
<1>0. PICK l \in Log : l = tlog[t]
  BY DEF CommitStore, Inductive, TypeOK, ThreadInv
<1>1. pc[t] = "validate" /\ lock = t /\ cell[l] = 0 /\ l \in logs /\ clock > 1 /\ clock \in Nat
  BY <1>0 DEF CommitStore, Inductive, TypeOK, ClockInv, ThreadInv
<1>2. /\ cell' = [cell EXCEPT ![l] = clock] /\ lock' = None /\ DropTransaction(t)
      /\ UNCHANGED <<clock, ptr, vword, other, chain, logs>>
  BY <1>0 DEF CommitStore
<1>3. /\ pc' = [pc EXCEPT ![t] = "idle"] /\ snap' = [snap EXCEPT ![t] = 0]
      /\ tlog' = [tlog EXCEPT ![t] = None] /\ wset' = [wset EXCEPT ![t] = {}]
      /\ arg' = [arg EXCEPT ![t] = None] /\ UNCHANGED <<addr, cur, new>>
  BY <1>2 DEF DropTransaction, Goto
<1>4. TypeOK'
  <2>1. commits' \subseteq SI!CommitRecord
    <3>1. {w.dst : w \in wset[t]} \in SUBSET Ptrs
      BY DEF Inductive, TypeOK, TransactionWrite
    <3> QED BY <3>1 DEF Inductive, TypeOK, CommitStore, SI!CommitRecord
  <2>2. pc' \in [Threads -> Labels] /\ cell' \in [Log -> Nat]
    BY <1>1, <1>2, <1>3 DEF Inductive, TypeOK, Labels
  <2> QED BY <1>2, <2>1, <2>2 DEF Inductive, TypeOK, DropTransaction
<1>5. ClockInv'
  BY <1>1, <1>2, <1>3 DEF Inductive, TypeOK, ClockInv
<1>6. ThreadInv'
  BY <1>0, <1>1, <1>2, <1>3 DEF Inductive, TypeOK, ThreadInv
<1>7. \A o \in Obj : vword[o] # Free =>
         /\ VerNum(o) \in Nat /\ VerNum(o) < clock
         /\ vword[o] = l => VerNum(o) = 0 /\ VerNum(o)' = clock
         /\ vword[o] # l => VerNum(o)' = VerNum(o)
  BY <1>1, <1>2 DEF Inductive, TypeOK, ClockInv, VerNum
<1>8. HeapInv'
  BY <1>1, <1>2, <1>7 DEF Inductive, TypeOK, HeapInv
<1>9. \A o \in Obj : chain[o] # None /\ vword[o] = l =>
         /\ chain[o] \in Ptrs /\ ptr[chain[o]] = o /\ Newest(chain[o]) = other[o]
         /\ other[o] \in Obj /\ vword[other[o]] \notin {Free, l} /\ chain[other[o]] = chain[o]
  BY <1>1, <1>7 DEF Inductive, TypeOK, HeapInv, Newest
<1>10. HeadInv'
  <2> SUFFICES ASSUME NEW p \in Ptrs, ptr[p] # Block
               PROVE  /\ chain[ptr[p]] = p
                      /\ \A o \in Obj : chain[o] = p => VerNum(o)' <= VerNum(Newest(p))'
    BY <1>2 DEF Inductive, HeadInv
  <2>1. ptr[p] \in Obj /\ chain[ptr[p]] = p /\ vword[ptr[p]] # Free /\ p # None
    BY DEF Inductive, TypeOK, HeadInv, HeapInv
  <2>2. CASE vword[ptr[p]] = l
    <3>1. Newest(p)' = ptr[p]
      BY <1>1, <1>2, <1>7, <2>1, <2>2 DEF Newest
    <3>2. \A o \in Obj : chain[o] = p => vword[o] # Free
      BY <2>1 DEF Inductive, HeapInv
    <3>3. VerNum(Newest(p))' = clock
      BY <1>2, <1>7, <2>1, <2>2, <3>1 DEF VerNum
    <3> QED BY <1>1, <1>7, <2>1, <3>2, <3>3
  <2>3. CASE vword[ptr[p]] # l
    <3>1. \A o \in Obj : chain[o] = p => vword[o] \notin {l, Free}
      BY <1>9, <2>1, <2>3 DEF Inductive, HeapInv
    <3>2. Newest(p) \in Obj /\ chain[Newest(p)] = p
      BY <2>1 DEF Inductive, TypeOK, HeapInv, Newest, VerNum
    <3>3. Newest(p)' = Newest(p)
      BY <1>2, <1>7, <2>1, <2>3 DEF Newest
    <3>4. VerNum(Newest(p))' = VerNum(Newest(p))
      BY <1>2, <1>7, <3>1, <3>2, <3>3 DEF VerNum
    <3> QED BY <1>7, <2>1, <3>1, <3>4 DEF Inductive, HeadInv
  <2> QED BY <2>2, <2>3
<1>11. NoLostUpdate'
  <2>0. \A x \in Obj : chain[x] # None => vword[x] # Free
    BY DEF Inductive, HeapInv
  <2>1. SUFFICES ASSUME NEW o \in Obj, Committed(o)', other[o] # None
                 PROVE  /\ other[o] \in Obj
                        /\ Committed(other[o])' /\ chain[other[o]] = chain[o]
                        /\ VerNum(other[o])' < VerNum(o)'
                        /\ \A x \in Obj :
                              Committed(x)' /\ chain[x] = chain[o] /\ VerNum(x)' < VerNum(o)'
                                 => VerNum(x)' <= VerNum(other[o])'
    BY <1>2 DEF NoLostUpdate
  <2>2. /\ other[o] \in Obj /\ chain[o] # None /\ vword[o] # Free
        /\ chain[other[o]] = chain[o] /\ vword[other[o]] # Free /\ VerNum(other[o]) # 0
    BY <1>2, <2>0, <2>1 DEF Inductive, TypeOK, HeapInv, Committed
  <2>3. VerNum(other[o])' = VerNum(other[o]) /\ VerNum(other[o]) < clock
    BY <1>2, <1>7, <2>2 DEF VerNum
  <2>4. Committed(other[o])'
    BY <1>2, <2>2, <2>3 DEF Committed, VerNum
  <2>5. CASE vword[o] = l
    <3>1. \A x \in Obj : chain[x] = chain[o] => VerNum(x) <= VerNum(other[o])
      BY <1>9, <2>2, <2>5 DEF Inductive, HeadInv
    <3>2. \A x \in Obj : chain[x] = chain[o] /\ VerNum(x)' < clock => VerNum(x)' = VerNum(x)
      BY <1>1, <1>7, <2>0, <2>2
    <3> QED BY <1>7, <2>2, <2>3, <2>4, <2>5, <3>1, <3>2
  <2>6. CASE vword[o] # l
    <3>1. VerNum(o)' = VerNum(o) /\ VerNum(o) < clock /\ Committed(o)
      BY <1>2, <1>7, <2>1, <2>2, <2>6 DEF Committed
    <3>2. \A x \in Obj : Committed(x)' /\ VerNum(x)' < VerNum(o) =>
             Committed(x) /\ VerNum(x)' = VerNum(x)
      <4>1. \A x \in Obj : Committed(x)' => vword[x] # Free /\ chain[x] # None
        BY <1>2, <2>0 DEF Committed
      <4>2. \A x \in Obj : Committed(x)' => VerNum(x)' # 0
        BY DEF Committed
      <4>3. VerNum(o) \in Nat
        BY <1>7, <2>2
      <4>4. \A x \in Obj : Committed(x)' /\ VerNum(x)' < VerNum(o) => VerNum(x)' = VerNum(x)
        BY <1>1, <1>7, <3>1, <4>1, <4>3
      <4> QED BY <4>1, <4>2, <4>4 DEF Committed
    <3> QED BY <2>1, <2>2, <2>3, <2>4, <3>1, <3>2 DEF Inductive, NoLostUpdate
  <2> QED BY <2>5, <2>6
<1>12. WriteInv'
  <2>1. \A u \in Threads : u # t => tlog'[u] = tlog[u] /\ snap'[u] = snap[u] /\ wset'[u] = wset[u]
    BY <1>3 DEF Inductive, TypeOK
  <2>2. wset'[t] = {}
    BY <1>3 DEF Inductive, TypeOK
  <2>3. \A u \in Threads : \A w \in wset[u] :
           w.new \in Obj /\ w.current \in Obj /\ vword[w.current] \notin {l, Free}
    BY <1>7 DEF Inductive, TypeOK, TransactionWrite, ThreadInv, WriteInv, HeapInv
  <2> QED BY <1>2, <1>7, <2>1, <2>2, <2>3 DEF Inductive, WriteInv
<1>13. OpInv'
  <2>1. \A u \in Threads : pc[u] = "swap" => VerNum(cur[u])' = VerNum(cur[u])
    BY <1>2, <1>3, <1>7 DEF Inductive, OpInv, Visible, VerNum
  <2> QED BY <1>2, <1>3, <2>1 DEF Inductive, TypeOK, OpInv, Visible
<1> QED BY <1>4, <1>5, <1>6, <1>8, <1>10, <1>11, <1>12, <1>13 DEF Inductive

\* TransactionWrite::rollback keeps the invariant: it takes the uncommitted head
\* off the chain again, and its assertion holds.
LEMMA RollbackInductive ==
  ASSUME Inductive, NEW t \in Threads, NEW w \in wset[t], Rollback(t, w)
  PROVE  Inductive'
<1> USE ConstantsAssumption
<1>0. PICK p \in Ptrs, n \in Obj, c \in Obj : p = w.dst /\ n = w.new /\ c = w.current
  BY DEF Inductive, TypeOK, TransactionWrite, ThreadInv, WriteInv, HeapInv
<1>1. /\ ptr[p] = n /\ vword[n] = tlog[t] /\ tlog[t] \in Log /\ VerNum(n) = 0
      /\ other[n] = c /\ chain[n] = p /\ p # None
  BY <1>0 DEF Inductive, TypeOK, ThreadInv, WriteInv, HeadInv, VerNum
<1>2. VerNum(c) # 0 /\ chain[c] = p /\ vword[c] # Free /\ c # n
  BY <1>1 DEF Inductive, HeapInv
<1>3. /\ pc[t] = "abort"
      /\ ptr' = [ptr EXCEPT ![p] = c] /\ chain' = [chain EXCEPT ![n] = None]
      /\ wset' = [wset EXCEPT ![t] = @ \ {w}]
      /\ UNCHANGED <<clock, lock, vword, other, logs, cell, pc, snap, tlog, rset, opVars,
                     todo, commits>>
  BY <1>0, <1>1 DEF Rollback
<1>4. TypeOK'
  BY <1>3 DEF Inductive, TypeOK, opVars
<1>5. ClockInv' /\ ThreadInv'
  BY <1>3 DEF Inductive, TypeOK, ClockInv, ThreadInv
<1>6. \A o : VerNum(o)' = VerNum(o)
  BY <1>3 DEF VerNum
<1>7. /\ ptr'[p] = c /\ chain'[n] = None
      /\ \A q \in Ptrs : q # p => ptr'[q] = ptr[q]
      /\ \A o \in Obj : o # n => chain'[o] = chain[o]
  BY <1>3 DEF Inductive, TypeOK
<1>8. \A o \in Obj : vword[o] \in Log => other[o] # n
  BY <1>1 DEF Inductive, HeapInv
<1>9. \A o \in Obj : o # n /\ chain[o] = p /\ vword[o] \in Log => VerNum(o) # 0
  BY <1>1 DEF Inductive, HeapInv
<1>10. HeapInv'
  BY <1>3, <1>6, <1>7, <1>8, <1>9 DEF Inductive, TypeOK, HeapInv
<1>11. HeadInv'
  <2>1. Newest(p) = c /\ Newest(p)' = c
    BY <1>1, <1>2, <1>6, <1>7 DEF Newest
  <2>2. \A q \in Ptrs : q # p => Newest(q)' = Newest(q)
    BY <1>3, <1>6, <1>7 DEF Newest
  <2>3. \A o \in Obj : chain'[o] # None => chain'[o] = chain[o]
    BY <1>7
  <2> QED BY <1>1, <1>2, <1>6, <1>7, <2>1, <2>2, <2>3 DEF Inductive, TypeOK, HeadInv
<1>12. NoLostUpdate'
  <2>1. \A o \in Obj : Committed(o)' <=> Committed(o)
    BY <1>1, <1>6, <1>7 DEF Committed
  <2>2. \A o \in Obj : Committed(o) => o # n
    BY <1>1 DEF Committed
  <2> QED BY <1>3, <1>6, <1>7, <2>1, <2>2 DEF Inductive, TypeOK, NoLostUpdate
<1>13. WriteInv'
  <2>1. \A u \in Threads : \A x \in wset[u] : x.dst = p => x = w
    <3> SUFFICES ASSUME NEW u \in Threads, NEW x \in wset[u], x.dst = p PROVE x = w
      OBVIOUS
    <3>1. x.new = n /\ x.current = c
      BY <1>1 DEF Inductive, WriteInv
    <3> QED BY <1>0, <3>1 DEF Inductive, TypeOK, TransactionWrite
  <2>2. \A u \in Threads : \A x \in wset'[u] : x \in wset[u] /\ x.dst # p
    <3> SUFFICES ASSUME NEW u \in Threads, NEW x \in wset'[u]
                 PROVE  x \in wset[u] /\ x.dst # p
      OBVIOUS
    <3>1. x \in wset[u]
      BY <1>3 DEF Inductive, TypeOK
    <3>2. CASE x.dst = p
      <4>1. x = w /\ vword[x.new] = tlog[u]
        BY <2>1, <3>1, <3>2 DEF Inductive, WriteInv
      <4>2. u = t
        BY <1>0, <1>1, <4>1 DEF Inductive, ThreadInv
      <4> QED BY <1>3, <4>1, <4>2 DEF Inductive, TypeOK
    <3> QED BY <3>1, <3>2
  <2>3. \A u \in Threads : \A x \in wset[u] : x.dst \in Ptrs
    BY DEF Inductive, TypeOK, TransactionWrite
  <2> QED BY <1>3, <1>6, <1>7, <2>2, <2>3 DEF Inductive, WriteInv
<1>14. OpInv'
  BY <1>3, <1>6, <1>7 DEF Inductive, TypeOK, OpInv, Visible, opVars
<1> QED BY <1>4, <1>5, <1>10, <1>11, <1>12, <1>13, <1>14 DEF Inductive

\* A step that changes nothing keeps the invariant.
LEMMA StutterInductive == Inductive /\ UNCHANGED vars => Inductive'
<1> SUFFICES ASSUME Inductive, UNCHANGED vars PROVE Inductive'
  OBVIOUS
<1>1. TypeOK'
  BY DEF Inductive, TypeOK, vars, heapVars, txVars, opVars
<1>2. OpInv'
  BY DEF Inductive, OpInv, Visible, VerNum, vars, heapVars, txVars, opVars
<1> QED BY <1>1, <1>2, LocalFrame DEF Inductive, ThreadInv, vars, txVars

\* Every step of the protocol keeps the invariant.
LEMMA NextInductive == Inductive /\ [Next]_vars => Inductive'
<1> SUFFICES ASSUME Inductive, NEW t \in Threads, Step(t, OnError) PROVE Inductive'
  BY StutterInductive DEF Next
<1> QED BY BeginInductive, CallInductive, WriteInductive, SwizzleInductive,
           ReloadInductive, SwizzleCloneInductive, FailureInductive,
           CopyOnWriteInductive, PerformInductive, DropInductive,
           CommitLockInductive, CommitStoreInductive, ValidateInductive,
           ValidateEndsInductive, ClosureFailsInductive, RollbackInductive
        DEF Step, OnError, Propagate

\* The inductive invariant holds in every reachable state of the transaction
\* protocol of tx.rs and vos.rs.
THEOREM InductiveInvariant == Spec => []Inductive
<1> QED BY InitInductive, NextInductive, PTL DEF Spec

\* Every variable keeps its type; in particular no pointer is ever set to null by
\* a rollback (tx.rs:27).
THEOREM TypeCorrect == Spec => []TypeOK
<1>1. Inductive => TypeOK
  BY DEF Inductive
<1> QED BY <1>1, InductiveInvariant, PTL

\* An uncommitted version latches its pointer until its transaction ends, so the
\* assertion in TransactionWrite::rollback (tx.rs:32) never fails.
THEOREM LatchHeld == Spec => []WriteLatch
<1>1. Inductive => WriteLatch
  BY ConstantsAssumption
     DEF Inductive, TypeOK, TransactionWrite, ThreadInv, HeapInv, WriteInv, WriteLatch, VerNum
<1> QED BY <1>1, InductiveInvariant, PTL

\* Transaction::write never loses an update: every committed version was copied
\* from the committed version just before it.
THEOREM NoUpdateLost == Spec => []NoLostUpdate
<1>1. Inductive => NoLostUpdate
  BY DEF Inductive
<1> QED BY <1>1, InductiveInvariant, PTL

\* VersionedReader::read finds a version for every snapshot and never fails with
\* InvalidLogicalAddress at the end of a version chain (vos.rs:495).
THEOREM ReadNeverFallsOff == Spec => []ReadFindsVersion
<1>1. Inductive => ReadFindsVersion
  BY ConstantsAssumption
     DEF Inductive, TypeOK, ThreadInv, HeapInv, OpInv, ReadFindsVersion, Visible, VerNum
<1> QED BY <1>1, InductiveInvariant, PTL
=============================================================================
