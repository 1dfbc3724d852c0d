--------------------------- MODULE MvccRefinement ---------------------------
(***************************************************************************)
(* Proof that the transaction protocol implements snapshot isolation: Mvcc *)
(* with the mapping Returned for what a transaction has read implements    *)
(* SnapshotIsolation.                                                      *)
(*                                                                         *)
(* All steps but the store that commits a transaction are alike in what    *)
(* they leave alone (Stable): no version that belongs to a snapshot is     *)
(* changed or leaves its chain. The invariant of the refinement is proved  *)
(* from that, then each step is mapped to a step of the abstract           *)
(* specification.                                                          *)
(***************************************************************************)
EXTENDS MvccProofs

\* Versions in use stay what they are. No committed version leaves a chain, and none
\* joins it but the first one.
Stable ==
    \A x \in Obj :
       /\ vword[x] # Free =>
             vword'[x] = vword[x] /\ other'[x] = other[x] /\ VerNum(x)' = VerNum(x)
       /\ Committed(x) => chain'[x] = chain[x]
       /\ ~Committed(x) => chain'[x] = None \/ VerNum(x)' \in {0, 1}

\* An object that leaves its chain will never be committed.
DeadStays ==
    \A o \in Obj : vword[o] \in Log =>
       /\ Dead(o) => Dead(o)'
       /\ chain[o] # None /\ VerNum(o) = 0 => chain'[o] = chain[o] \/ Dead(o)'

\* Other transactions do not notice the step.
Others(t) ==
    \A u \in Threads : u # t =>
       /\ pc'[u] = pc[u] /\ snap'[u] = snap[u] /\ tlog'[u] = tlog[u]
       /\ wset'[u] = wset[u] /\ arg'[u] = arg[u] /\ cur'[u] = cur[u]
       /\ ret'[u] = ret[u]

-----------------------------------------------------------------------------
(***************************************************************************)
(* Facts about the heap.                                                   *)
(***************************************************************************)

\* Versions are numbers, and what is in a chain has been allocated.
LEMMA VersionFacts ==
  ASSUME Inductive, NEW x \in Obj
  PROVE  /\ vword[x] # Free => VerNum(x) \in Nat
         /\ chain[x] # None => vword[x] # Free /\ chain[x] \in Ptrs
         /\ vword[x] # Free /\ VerNum(x) = 0 =>
               /\ vword[x] \in Log /\ other[x] \in Obj
               /\ vword[other[x]] # Free /\ VerNum(other[x]) # 0
               /\ chain[x] # None => chain[other[x]] = chain[x] /\ ptr[chain[x]] = x
  BY ConstantsAssumption DEF Inductive, TypeOK, HeapInv, VerNum

\* A reader that the step does not belong to is still in place.
LEMMA StableReader ==
  ASSUME Inductive, Refining, Stable, DeadStays, NEW t \in Threads, Others(t),
         NEW u \in Threads, u # t
  PROVE  ReaderAt(u)'
<1> USE ConstantsAssumption
<1> SUFFICES ASSUME pc[u] \in {"read", "rfw"}, cur[u] \in Obj
             PROVE  ReaderAt(u)'
  BY DEF Others, ReaderAt
<1>0. PICK h \in Obj, p \in Ptrs, c \in Obj : h = cur[u] /\ p = arg[u] /\ c = CommittedFrom(h)
  BY DEF Inductive, OpInv, Refining, ReaderInv, ReaderAt
<1>1. /\ chain[h] = p \/ (VerNum(h) = 0 /\ Dead(h))
      /\ c \in Obj /\ chain[c] = p /\ VerNum(c) # 0
      /\ \A x \in Obj : chain[x] = p /\ VerNum(x) > VerNum(c) => VerNum(x) > snap[u]
  BY <1>0 DEF Refining, ReaderInv, ReaderAt
<1>2. p # None /\ vword[h] # Free
  BY <1>0 DEF Inductive, OpInv
<1>3. pc'[u] = pc[u] /\ cur'[u] = h /\ arg'[u] = p /\ snap'[u] = snap[u]
  BY <1>0 DEF Others
<1>4. /\ VerNum(h)' = VerNum(h) /\ other'[h] = other[h]
      /\ VerNum(c)' = VerNum(c) /\ chain'[c] = p /\ VerNum(c) \in Nat
  BY <1>1, <1>2, VersionFacts DEF Stable, Committed
<1>5. CommittedFrom(h)' = c
  BY <1>0, <1>4 DEF CommittedFrom
<1>6. chain'[h] = p \/ (VerNum(h) = 0 /\ Dead(h)')
  <2>1. CASE VerNum(h) = 0
    BY <1>1, <1>2, <2>1, VersionFacts DEF DeadStays
  <2>2. CASE VerNum(h) # 0
    BY <1>1, <1>2, <2>2 DEF Stable, Committed
  <2> QED BY <2>1, <2>2
<1>7. \A x \in Obj : chain'[x] = p /\ VerNum(x)' > VerNum(c) => VerNum(x)' > snap[u]
  <2> SUFFICES ASSUME NEW x \in Obj, chain'[x] = p, VerNum(x)' > VerNum(c)
               PROVE  VerNum(x)' > snap[u]
    OBVIOUS
  <2>1. VerNum(x)' \notin {0, 1}
    BY <1>1, <1>4
  <2>2. Committed(x)
    BY <1>2, <2>1 DEF Stable
  <2>3. chain[x] = p /\ VerNum(x)' = VerNum(x)
    BY <2>2, VersionFacts DEF Stable, Committed
  <2> QED BY <1>1, <2>3
<1> QED BY <1>1, <1>3, <1>4, <1>5, <1>6, <1>7 DEF ReaderAt

\* The committed versions are still those of the commits.
LEMMA StableCommits ==
  ASSUME Inductive, Refining, Stable, commits' = commits,
         \A c \in commits : c.ver <= clock' /\ (lock' # None => c.ver < clock')
  PROVE  CommitInv'
<1> USE ConstantsAssumption
<1>1. \A p : SI!VersionsOf(p)' = SI!VersionsOf(p)
  BY DEF SI!VersionsOf
<1>2. \A o \in Obj : Committed(o)' => VerNum(o)' \in SI!VersionsOf(chain'[o])
  <2> SUFFICES ASSUME NEW o \in Obj, Committed(o)'
               PROVE  VerNum(o)' \in SI!VersionsOf(chain'[o])
    OBVIOUS
  <2>1. CASE Committed(o)
    BY <2>1, VersionFacts DEF Stable, Committed, Refining, CommitInv
  <2>2. CASE ~Committed(o)
    BY <2>2 DEF Stable, Committed, SI!VersionsOf
  <2> QED BY <2>1, <2>2
<1>3. \A c \in commits : \A p \in c.writes :
         \E o \in Obj : chain'[o] = p /\ VerNum(o)' = c.ver
  <2> SUFFICES ASSUME NEW c \in commits, NEW p \in c.writes
               PROVE  \E o \in Obj : chain'[o] = p /\ VerNum(o)' = c.ver
    OBVIOUS
  <2>1. PICK o \in Obj : chain[o] = p /\ VerNum(o) = c.ver
    BY DEF Refining, CommitInv
  <2>2. p \in Ptrs /\ c.ver # 0
    BY DEF Inductive, TypeOK, SI!CommitRecord, Refining, CommitInv
  <2>3. Committed(o)
    BY <2>1, <2>2 DEF Committed
  <2> QED BY <2>1, <2>2, <2>3, VersionFacts DEF Stable
<1>4. \A c \in commits : 1 <= c.ver
  BY DEF Refining, CommitInv
<1> QED BY <1>1, <1>2, <1>3, <1>4 DEF CommitInv

\* Other transactions keep their snapshot and what they have read.
LEMMA StableSnap ==
  ASSUME Inductive, Refining, Stable, NEW t \in Threads, Others(t),
         NEW u \in Threads, u # t
  PROVE  /\ pc'[u] = "idle" => snap'[u] = 0
         /\ ret'[u] # None => vword'[ret'[u]] # Free /\ VerNum(ret[u])' # 0
         /\ Returned'[u] = Returned[u]
<1>1. ret'[u] = ret[u] /\ arg'[u] = arg[u] /\ pc'[u] = pc[u] /\ snap'[u] = snap[u]
  BY DEF Others
<1>2. pc[u] = "idle" => snap[u] = 0
  BY DEF Refining, SnapInv
<1>3. CASE ret[u] = None
  BY <1>1, <1>2, <1>3 DEF Returned
<1>4. CASE ret[u] # None
  <2>1. PICK r \in Obj : r = ret[u] /\ vword[r] # Free /\ VerNum(r) # 0
    BY <1>4 DEF Inductive, TypeOK, Refining, SnapInv
  <2>2. vword'[r] = vword[r] /\ VerNum(r)' = VerNum(r)
    BY <2>1 DEF Stable
  <2> QED BY <1>1, <1>2, <1>4, <2>1, <2>2 DEF Returned
<1> QED BY <1>3, <1>4

-----------------------------------------------------------------------------
(***************************************************************************)
(* What a step leaves alone.                                               *)
(***************************************************************************)

\* A step that leaves the heap alone.
LEMMA LocalStable ==
  ASSUME Inductive, UNCHANGED heapVars, NEW t \in Threads, Others(t),
         tlog'[t] \in {tlog[t], None},
         pc[t] = "abort" => pc'[t] = "abort" \/ tlog'[t] = None
  PROVE  Stable /\ DeadStays
<1> USE ConstantsAssumption
<1>1. \A o : VerNum(o)' = VerNum(o)
  BY DEF heapVars, VerNum
<1>2. Stable
  BY <1>1 DEF heapVars, Stable, Committed
<1>3. DeadStays
  BY <1>1 DEF heapVars, DeadStays, Others, Dead
<1> QED BY <1>2, <1>3

\* A step that is stable keeps the invariant of the refinement if its own transaction does.
LEMMA StableRefining ==
  ASSUME Inductive, Refining, Stable, DeadStays, NEW t \in Threads, Others(t),
         commits' = commits,
         \A c \in commits : c.ver <= clock' /\ (lock' # None => c.ver < clock'),
         OwnerInv', ReaderAt(t)',
         pc'[t] = "idle" => snap'[t] = 0,
         ret'[t] # None => vword'[ret'[t]] # Free /\ VerNum(ret[t])' # 0
  PROVE  Refining'
<1>1. CommitInv'
  BY StableCommits
<1>2. ReaderInv'
  BY StableReader DEF ReaderInv
<1>3. SnapInv'
  BY StableSnap DEF SnapInv
<1> QED BY <1>1, <1>2, <1>3 DEF Refining

\* Without a change of the heap the writesets have all uncommitted versions.
LEMMA LocalOwner ==
  ASSUME Refining, UNCHANGED heapVars, wset' = wset
  PROVE  OwnerInv'
  BY DEF Refining, OwnerInv, heapVars, VerNum

\* Steps of Transaction::new, of a closure that fails and of the commit, up to the
\* store that makes it visible.
LEMMA ControlRefining ==
  ASSUME Inductive, Refining, NEW t \in Threads,
         \/ Begin(t) \/ CommitReadOnly(t) \/ CommitLock(t) \/ ClosureFails(t) \/ AbortDone(t)
         \/ \E p \in Ptrs : Validate(t, p) \/ ValidateFails(t, p) \/ ValidatePanics(t, p)
  PROVE  Stable /\ Others(t) /\ Refining'
<1> USE ConstantsAssumption
<1>1. UNCHANGED heapVars /\ commits' = commits
  BY DEF Begin, CommitReadOnly, CommitLock, ClosureFails, AbortDone, Validate,
         ValidateFails, ValidatePanics
<1>2. wset' = wset
  <2>1. CASE CommitReadOnly(t) \/ AbortDone(t)
    <3>1. wset[t] = {}
      BY <2>1 DEF Inductive, ThreadInv, CommitReadOnly, AbortDone
    <3>2. wset' = [wset EXCEPT ![t] = wset[t]]
      BY <2>1, <3>1 DEF CommitReadOnly, AbortDone, DropTransaction
    <3> QED BY <3>2 DEF Inductive, TypeOK
  <2>2. CASE ~(CommitReadOnly(t) \/ AbortDone(t))
    BY <2>2 DEF Begin, CommitLock, ClosureFails, Validate, ValidateFails, ValidatePanics, txVars
  <2> QED BY <2>1, <2>2
<1>3. Others(t)
  BY <1>2 DEF Others, Begin, CommitReadOnly, CommitLock, ClosureFails, AbortDone, Validate,
     ValidateFails, ValidatePanics, DropTransaction, Goto, txVars, opVars, Inductive, TypeOK
<1>4. /\ tlog'[t] \in {tlog[t], None}
      /\ pc[t] = "abort" => tlog'[t] = None
      /\ pc'[t] \notin {"read", "rfw"}
      /\ pc'[t] = "idle" => snap'[t] = 0
      /\ ret'[t] \in {ret[t], None}
  BY DEF Begin, CommitReadOnly, CommitLock, ClosureFails, AbortDone, Validate,
     ValidateFails, ValidatePanics, DropTransaction, Goto, txVars, opVars, Inductive, TypeOK
<1>5. Stable /\ DeadStays
  BY <1>1, <1>3, <1>4, LocalStable
<1>6. OwnerInv'
  BY <1>1, <1>2, LocalOwner
<1>7. \A c \in commits : c.ver <= clock' /\ (lock' # None => c.ver < clock')
  <2>1. \A c \in commits : c.ver \in Nat
    BY DEF Inductive, TypeOK, SI!CommitRecord
  <2>2. \/ clock' = clock /\ lock' \in {lock, None}
        \/ clock' = clock + 1
    BY DEF Begin, CommitReadOnly, CommitLock, ClosureFails, AbortDone, Validate,
           ValidateFails, ValidatePanics
  <2> QED BY <2>1, <2>2 DEF Inductive, TypeOK, Refining, CommitInv
<1>8. ret'[t] # None => vword'[ret'[t]] # Free /\ VerNum(ret[t])' # 0
  BY <1>1, <1>4 DEF Refining, SnapInv, heapVars, VerNum
<1>9. ReaderAt(t)'
  BY <1>4 DEF ReaderAt
<1> QED BY <1>1, <1>3, <1>4, <1>5, <1>6, <1>7, <1>8, <1>9, StableRefining

\* Loading the pointer: the reader is in front of everything that is committed.
LEMMA LoadReader ==
  ASSUME Inductive, Refining, UNCHANGED heapVars, NEW t \in Threads, NEW p \in Ptrs,
         cur'[t] = ptr[p], arg'[t] = p
  PROVE  ReaderAt(t)'
<1> USE ConstantsAssumption
<1> SUFFICES ASSUME ptr[p] \in Obj PROVE ReaderAt(t)'
  BY DEF ReaderAt
<1>1. PICK h \in Obj : h = ptr[p]
  OBVIOUS
<1>2. /\ chain[h] = p /\ p # None
      /\ \A x \in Obj : chain[x] = p => VerNum(x) <= VerNum(Newest(p))
  BY <1>1 DEF Inductive, HeadInv
<1>3. PICK c \in Obj : c = CommittedFrom(h) /\ c = Newest(p) /\ chain[c] = p /\ VerNum(c) # 0
  BY <1>1, <1>2, VersionFacts DEF CommittedFrom, Newest
<1>4. \A x : VerNum(x)' = VerNum(x)
  BY DEF heapVars, VerNum
<1>5. CommittedFrom(h)' = c
  BY <1>3, <1>4 DEF CommittedFrom, heapVars
<1>6. \A x \in Obj : chain[x] = p => ~(VerNum(x) > VerNum(c))
  BY <1>2, <1>3, VersionFacts
<1> QED BY <1>1, <1>2, <1>3, <1>4, <1>5, <1>6 DEF ReaderAt, heapVars

\* Transaction::read and read_for_write, and a read that starts over or goes on to an
\* older version: NoLostUpdate is why the older version is the next one to look at.
LEMMA ReadRefining ==
  ASSUME Inductive, Refining, NEW t \in Threads,
         \/ \E p \in Ptrs : Read(t, p) \/ ReadForWrite(t, p)
         \/ Reload(t) \/ ReadOlder(t)
  PROVE  Stable /\ Others(t) /\ Refining'
<1> USE ConstantsAssumption
<1>1. /\ UNCHANGED heapVars /\ commits' = commits
      /\ UNCHANGED <<clock, lock, snap, tlog, wset>>
  BY DEF Read, ReadForWrite, Call, Reload, ReadOlder, heapVars, txVars
<1>2. Others(t)
  BY DEF Others, Read, ReadForWrite, Call, Reload, ReadOlder, Goto, txVars, Inductive, TypeOK
<1>3. /\ pc[t] \notin {"abort", "idle"} /\ pc'[t] # "idle"
      /\ ret'[t] \in {ret[t], None}
  BY DEF Read, ReadForWrite, Call, Reload, ReadOlder, Goto, Inductive, TypeOK
<1>4. Stable /\ DeadStays
  BY <1>1, <1>2, <1>3, LocalStable
<1>5. OwnerInv'
  BY <1>1, LocalOwner
<1>6. \A c \in commits : c.ver <= clock' /\ (lock' # None => c.ver < clock')
  BY <1>1 DEF Refining, CommitInv
<1>7. ret'[t] # None => vword'[ret'[t]] # Free /\ VerNum(ret[t])' # 0
  BY <1>1, <1>3 DEF Refining, SnapInv, heapVars, VerNum
<1>8. ReaderAt(t)'
  <2>1. CASE \E p \in Ptrs : Read(t, p) \/ ReadForWrite(t, p)
    <3>1. PICK p \in Ptrs : Read(t, p) \/ ReadForWrite(t, p)
      BY <2>1
    <3>2. cur'[t] = ptr[p] /\ arg'[t] = p
      BY <3>1 DEF Read, ReadForWrite, Call, Inductive, TypeOK
    <3> QED BY <1>1, <3>2, LoadReader
  <2>2. CASE Reload(t)
    <3>1. PICK p \in Ptrs : p = arg[t]
      BY <2>2 DEF Reload, Inductive, OpInv
    <3>2. cur'[t] = ptr[p] /\ arg'[t] = p
      BY <2>2, <3>1 DEF Reload, Inductive, TypeOK
    <3> QED BY <1>1, <3>2, LoadReader
  <2>3. CASE ReadOlder(t)
    <3>1. PICK h \in Obj, p \in Ptrs, c \in Obj, n \in Obj \cup {None} :
             /\ h = cur[t] /\ p = arg[t] /\ c = CommittedFrom(h) /\ n = other[h]
             /\ vword[h] # Free
      BY <2>3 DEF ReadOlder, Inductive, TypeOK, OpInv, Refining, ReaderInv, ReaderAt
    <3>2. /\ chain[h] = p \/ (VerNum(h) = 0 /\ Dead(h))
          /\ chain[c] = p /\ VerNum(c) # 0 /\ p # None
          /\ \A x \in Obj : chain[x] = p /\ VerNum(x) > VerNum(c) => VerNum(x) > snap[t]
      BY <2>3, <3>1 DEF ReadOlder, Refining, ReaderInv, ReaderAt
    <3>3. cur'[t] = n /\ arg'[t] = p /\ snap' = snap /\ n # None /\ ~Visible(t, h)
      BY <2>3, <3>1 DEF ReadOlder, Inductive, TypeOK, txVars
    <3>4. n \in Obj /\ chain[n] = p /\ VerNum(n) # 0
          /\ \A x \in Obj : chain[x] = p /\ VerNum(x) > VerNum(n) => VerNum(x) > snap[t]
      <4>1. CASE VerNum(h) = 0
        BY <3>1, <3>2, <4>1, VersionFacts DEF CommittedFrom
      <4>2. CASE VerNum(h) # 0
        <5>1. c = h /\ chain[h] = p /\ Committed(h) /\ VerNum(h) > snap[t] /\ VerNum(h) \in Nat
          BY <3>1, <3>2, <3>3, <4>2, VersionFacts DEF CommittedFrom, Visible, Committed, Inductive, TypeOK
        <5>2. /\ Committed(n) /\ chain[n] = p
              /\ \A x \in Obj : Committed(x) /\ chain[x] = p /\ VerNum(x) < VerNum(h)
                    => VerNum(x) <= VerNum(n)
          BY <3>1, <3>3, <5>1 DEF Inductive, NoLostUpdate
        <5>3. n \in Obj /\ VerNum(n) \in Nat /\ snap[t] \in Nat
          BY <3>1, <3>3, <5>2, VersionFacts DEF Inductive, TypeOK, Committed
        <5> SUFFICES ASSUME NEW x \in Obj, chain[x] = p, VerNum(x) > VerNum(n)
                     PROVE  VerNum(x) > snap[t]
          BY <5>2, <5>3 DEF Committed
        <5>4. VerNum(x) \in Nat /\ Committed(x)
          BY <3>2, <5>3, VersionFacts DEF Committed
        <5>5. ~(VerNum(x) < VerNum(h))
          BY <5>2, <5>3, <5>4
        <5> QED BY <5>1, <5>3, <5>4, <5>5
      <4> QED BY <4>1, <4>2
    <3>5. \A x : VerNum(x)' = VerNum(x)
      BY <1>1 DEF heapVars, VerNum
    <3>6. CommittedFrom(n)' = n
      BY <3>4, <3>5 DEF CommittedFrom
    <3> QED BY <1>1, <3>3, <3>4, <3>5, <3>6 DEF ReaderAt, heapVars
  <2> QED BY <2>1, <2>2, <2>3
<1> QED BY <1>1, <1>2, <1>3, <1>4, <1>5, <1>6, <1>7, <1>8, StableRefining

\* Operations that end without having changed the heap; what a read returns is committed.
LEMMA ReturnRefining ==
  ASSUME Inductive, Refining, NEW t \in Threads, NEW e \in OnError,
         \/ ReadReturns(t) \/ OperationFails(t, e) \/ NoAvailableMemory(t, e)
         \/ PerformFails(t, e)
  PROVE  Stable /\ Others(t) /\ Refining'
<1> USE ConstantsAssumption
<1>1. PICK o \in Obj \cup {None}, l \in OnError :
        /\ Return(t, l, o)
        /\ o # None => ReadReturns(t) /\ o = cur[t]
        /\ UNCHANGED <<clock, lock, heapVars, txVars, todo, commits>>
  <2>1. CASE ReadReturns(t)
    <3>1. cur[t] \in Obj /\ Return(t, "run", cur[t]) /\ "run" \in OnError
      BY <2>1 DEF ReadReturns, OnError, Propagate
    <3> QED BY <2>1, <3>1 DEF ReadReturns
  <2>2. CASE ~ReadReturns(t)
    <3>1. Return(t, e, None)
      BY <2>2 DEF OperationFails, NoAvailableMemory, PerformFails
    <3> QED BY <2>2, <3>1 DEF OperationFails, NoAvailableMemory, PerformFails
  <2> QED BY <2>1, <2>2
<1>2. pc[t] \in {"run", "read", "rfw", "write", "swap"}
  BY DEF ReadReturns, OperationFails, NoAvailableMemory, PerformFails
<1>3. pc'[t] = l /\ l \in {"run", "abort"} /\ ret'[t] = o
  BY <1>1 DEF Return, Goto, OnError, Propagate, Inductive, TypeOK
<1>4. Others(t)
  BY <1>1 DEF Others, Return, Goto, txVars, Inductive, TypeOK
<1>5. Stable /\ DeadStays
  BY <1>1, <1>2, <1>4, LocalStable DEF txVars
<1>6. OwnerInv'
  BY <1>1, LocalOwner DEF txVars
<1>7. o # None => vword'[o] # Free /\ VerNum(o)' # 0
  BY <1>1 DEF ReadReturns, Visible, Inductive, OpInv, heapVars, VerNum
<1>8. ReaderAt(t)'
  BY <1>3 DEF ReaderAt
<1>9. \A c \in commits : c.ver <= clock' /\ (lock' # None => c.ver < clock')
  BY <1>1 DEF Refining, CommitInv
<1> QED BY <1>1, <1>3, <1>4, <1>5, <1>6, <1>7, <1>8, <1>9, StableRefining

\* The first step of Transaction::write: the new version cell is the version of no
\* object yet.
LEMMA WriteRefining ==
  ASSUME Inductive, Refining, NEW t \in Threads, NEW p \in Ptrs, Write(t, p)
  PROVE  Stable /\ Others(t) /\ Refining'
<1> USE ConstantsAssumption
<1>1. tlog'[t] \in Log /\ tlog' = [tlog EXCEPT ![t] = tlog'[t]]
  BY DEF Inductive, TypeOK, Write, WriteVersion
<1>2. \/ UNCHANGED <<logs, cell, tlog>>
      \/ /\ tlog[t] = None /\ tlog'[t] \notin logs
         /\ cell' = [cell EXCEPT ![tlog'[t]] = 0]
  BY DEF Inductive, TypeOK, Write, WriteVersion
<1>3. UNCHANGED <<clock, lock, ptr, vword, other, chain, snap, wset, commits>>
  BY DEF Write, Call
<1>4. pc[t] = "run" /\ pc'[t] = "write" /\ ret'[t] = None
  BY DEF Write, Call, Goto, Inductive, TypeOK
<1>5. Others(t)
  BY <1>1, <1>3 DEF Others, Write, Call, Goto, Inductive, TypeOK
<1>6. \A o \in Obj : vword[o] # Free => VerNum(o)' = VerNum(o)
  BY <1>1, <1>2, <1>3 DEF Inductive, TypeOK, HeapInv, VerNum
<1>7. Stable
  BY <1>3, <1>6, VersionFacts DEF Stable, Committed
<1>8. DeadStays
  <2>1. \A o \in Obj : vword[o] \in Log /\ tlog'[t] = vword[o] => tlog[t] = vword[o]
    BY <1>2 DEF Inductive, HeapInv
  <2> QED BY <1>3, <1>4, <1>5, <2>1 DEF DeadStays, Dead, Others
<1>9. OwnerInv'
  BY <1>3, <1>6, VersionFacts DEF Refining, OwnerInv
<1>10. \A c \in commits : c.ver <= clock' /\ (lock' # None => c.ver < clock')
  BY <1>3 DEF Refining, CommitInv
<1> QED BY <1>3, <1>4, <1>5, <1>7, <1>8, <1>9, <1>10, StableRefining DEF ReaderAt

\* Steps that take fresh memory: a fetched object, or the copy that write makes.
LEMMA AllocRefining ==
  ASSUME Inductive, Refining, NEW t \in Threads,
         Swizzle(t) \/ SwizzleClone(t) \/ CopyOnWrite(t)
  PROVE  Stable /\ Others(t) /\ Refining'
<1> USE ConstantsAssumption
<1>1. PICK o \in Fresh, v \in Log \cup {Base}, prev \in Obj \cup {None} :
        /\ InitObject(o, v, prev)
        /\ v # Base => CopyOnWrite(t)
        /\ \/ UNCHANGED <<ptr, chain>>
           \/ v = Base /\ chain' = [chain EXCEPT ![o] = arg[t]]
  <2>1. CASE CopyOnWrite(t)
    <3>1. tlog[t] \in Log
      BY <2>1 DEF CopyOnWrite, Inductive, TypeOK, ThreadInv
    <3> QED BY <2>1, <3>1 DEF CopyOnWrite
  <2>2. CASE SwizzleClone(t)
    BY <2>2 DEF SwizzleClone
  <2>3. CASE Swizzle(t)
    BY <2>3 DEF Swizzle
  <2> QED BY <2>1, <2>2, <2>3
<1>2. o \in Obj /\ vword[o] = Free /\ chain[o] = None /\ vword'[o] = v
  BY <1>1, AllocFacts DEF Fresh, InitObject, Inductive, TypeOK
<1>3. UNCHANGED <<clock, lock, logs, cell, snap, tlog, wset, arg, ret, commits>>
  BY DEF Swizzle, SwizzleClone, CopyOnWrite, txVars
<1>4. Others(t)
  BY <1>3 DEF Others, Swizzle, SwizzleClone, CopyOnWrite, Goto, Inductive, TypeOK
<1>5. /\ pc[t] # "abort" /\ pc'[t] # "idle"
      /\ pc'[t] \in {"read", "rfw"} => cur'[t] = None
  BY DEF Swizzle, SwizzleClone, CopyOnWrite, Goto, Inductive, TypeOK
<1>6. \A x \in Obj : x # o => /\ vword'[x] = vword[x] /\ other'[x] = other[x]
                              /\ VerNum(x)' = VerNum(x) /\ chain'[x] = chain[x]
  BY <1>1, <1>3 DEF Inductive, TypeOK, InitObject, VerNum
<1>7. v = Base => VerNum(o)' = 1
  BY <1>2 DEF VerNum
<1>8. chain'[o] = None \/ VerNum(o)' = 1
  BY <1>1, <1>2, <1>7
<1>9. Stable
  BY <1>2, <1>6, <1>8, VersionFacts DEF Stable, Committed
<1>10. DeadStays
  BY <1>2, <1>3, <1>4, <1>5, <1>6 DEF DeadStays, Dead, Others
<1>11. OwnerInv'
  BY <1>3, <1>6, <1>8 DEF Refining, OwnerInv
<1>12. \A c \in commits : c.ver <= clock' /\ (lock' # None => c.ver < clock')
  BY <1>3 DEF Refining, CommitInv
<1>13. ret'[t] # None => vword'[ret'[t]] # Free /\ VerNum(ret[t])' # 0
  <2> SUFFICES ASSUME ret[t] # None PROVE vword'[ret'[t]] # Free /\ VerNum(ret[t])' # 0
    BY <1>3
  <2>1. PICK r \in Obj : r = ret[t] /\ vword[r] # Free /\ VerNum(r) # 0
    BY DEF Inductive, TypeOK, Refining, SnapInv
  <2> QED BY <1>2, <1>3, <1>6, <2>1
<1>14. ReaderAt(t)'
  BY <1>5 DEF ReaderAt
<1> QED BY <1>3, <1>4, <1>5, <1>9, <1>10, <1>11, <1>12, <1>13, <1>14, StableRefining

\* TransactionWrite::perform: the uncommitted head of the chain joins the writeset.
LEMMA PerformRefining ==
  ASSUME Inductive, Refining, NEW t \in Threads, Perform(t)
  PROVE  Stable /\ Others(t) /\ Refining'
<1> USE ConstantsAssumption
<1>0. PICK p \in Ptrs, n \in Obj : p = arg[t] /\ n = new[t]
  BY DEF Perform, Inductive, OpInv
<1>1. PICK w : /\ w.dst = p /\ w.new = n
               /\ chain' = [chain EXCEPT ![n] = p] /\ wset' = [wset EXCEPT ![t] = @ \cup {w}]
  BY <1>0 DEF Perform, Swap
<1>2. /\ pc[t] = "swap" /\ pc'[t] = "run" /\ ret'[t] = None
      /\ UNCHANGED <<clock, lock, vword, other, logs, cell, snap, tlog, commits>>
  BY DEF Perform, Return, Goto, Inductive, TypeOK
<1>3. vword[n] = tlog[t] /\ tlog[t] \in Log /\ VerNum(n) = 0 /\ chain[n] = None
  BY <1>0, <1>2 DEF Inductive, TypeOK, OpInv, ThreadInv, VerNum
<1>4. \A x : VerNum(x)' = VerNum(x)
  BY <1>2 DEF VerNum
<1>5. chain'[n] = p /\ \A x \in Obj : x # n => chain'[x] = chain[x]
  BY <1>1 DEF Inductive, TypeOK
<1>6. Stable
  BY <1>2, <1>3, <1>4, <1>5 DEF Stable, Committed
<1>7. Others(t)
  BY <1>1, <1>2 DEF Others, Perform, Return, Goto, Inductive, TypeOK
<1>8. DeadStays
  BY <1>2, <1>3, <1>5, <1>7 DEF DeadStays, Dead, Others
<1>9. OwnerInv'
  <2> SUFFICES ASSUME NEW o \in Obj, chain'[o] # None, VerNum(o)' = 0
               PROVE  \E u \in Threads : \E x \in wset'[u] : x.new = o /\ x.dst = chain'[o]
    BY DEF OwnerInv
  <2>1. w \in wset'[t] /\ \A u \in Threads : wset[u] \subseteq wset'[u]
    BY <1>1 DEF Inductive, TypeOK
  <2>2. CASE o = n
    BY <1>1, <1>5, <2>1, <2>2
  <2>3. CASE o # n
    BY <1>4, <1>5, <2>1, <2>3 DEF Refining, OwnerInv
  <2> QED BY <2>2, <2>3
<1>10. \A c \in commits : c.ver <= clock' /\ (lock' # None => c.ver < clock')
  BY <1>2 DEF Refining, CommitInv
<1> QED BY <1>2, <1>6, <1>7, <1>8, <1>9, <1>10, StableRefining DEF ReaderAt

\* TransactionWrite::rollback: the object that leaves its chain is dead.
LEMMA RollbackRefining ==
  ASSUME Inductive, Refining, NEW t \in Threads, NEW w \in wset[t], Rollback(t, w)
  PROVE  Stable /\ Others(t) /\ Refining'
<1> USE ConstantsAssumption
<1>0. PICK n \in Obj : n = w.new
  BY DEF Inductive, TypeOK, TransactionWrite
<1>1. ptr[w.dst] = n /\ vword[n] = tlog[t] /\ tlog[t] \in Log /\ VerNum(n) = 0
  BY <1>0 DEF Inductive, TypeOK, ThreadInv, WriteInv, VerNum
<1>2. /\ pc[t] = "abort"
      /\ chain' = [chain EXCEPT ![n] = None] /\ wset' = [wset EXCEPT ![t] = @ \ {w}]
      /\ UNCHANGED <<clock, lock, vword, other, logs, cell, pc, snap, tlog, opVars, commits>>
  BY <1>0, <1>1 DEF Rollback
<1>3. \A x : VerNum(x)' = VerNum(x)
  BY <1>2 DEF VerNum
<1>4. chain'[n] = None /\ \A x \in Obj : x # n => chain'[x] = chain[x]
  BY <1>2 DEF Inductive, TypeOK
<1>5. Stable
  BY <1>1, <1>2, <1>3, <1>4 DEF Stable, Committed
<1>6. Others(t)
  BY <1>2 DEF Others, opVars, Inductive, TypeOK
<1>7. DeadStays
  BY <1>1, <1>2, <1>4 DEF DeadStays, Dead, Inductive, ThreadInv
<1>8. OwnerInv'
  <2> SUFFICES ASSUME NEW o \in Obj, chain'[o] # None, VerNum(o)' = 0
               PROVE  \E u \in Threads : \E x \in wset'[u] : x.new = o /\ x.dst = chain'[o]
    BY DEF OwnerInv
  <2>1. o # n /\ chain'[o] = chain[o] /\ VerNum(o) = 0
    BY <1>3, <1>4
  <2>2. PICK u \in Threads : \E x \in wset[u] : x.new = o /\ x.dst = chain[o]
    BY <2>1 DEF Refining, OwnerInv
  <2>3. PICK x \in wset[u] : x.new = o /\ x.dst = chain[o]
    BY <2>2
  <2>4. x \in wset'[u]
    BY <1>0, <1>2, <2>1, <2>3 DEF Inductive, TypeOK
  <2> QED BY <2>1, <2>3, <2>4
<1>9. \A c \in commits : c.ver <= clock' /\ (lock' # None => c.ver < clock')
  BY <1>2 DEF Refining, CommitInv
<1>10. ret'[t] # None => vword'[ret'[t]] # Free /\ VerNum(ret[t])' # 0
  BY <1>2, <1>3 DEF Refining, SnapInv, opVars
<1>11. ReaderAt(t)' /\ pc'[t] # "idle"
  BY <1>2 DEF ReaderAt
<1> QED BY <1>2, <1>5, <1>6, <1>7, <1>8, <1>9, <1>10, <1>11, StableRefining

\* Version::commit: the versions that get the new number were the uncommitted heads of
\* their chains, and no reader has a snapshot that new.
LEMMA CommitStoreRefining ==
  ASSUME Inductive, Refining, NEW t \in Threads, CommitStore(t)
  PROVE  Refining'
<1> USE ConstantsAssumption
<1>0. PICK l \in Log : l = tlog[t]
  BY DEF CommitStore, Inductive, TypeOK, ThreadInv
<1>1. /\ pc[t] = "validate" /\ lock = t /\ t # None /\ cell[l] = 0
      /\ clock \in Nat /\ clock >= 1
      /\ \A u \in Threads : snap[u] < clock
  BY <1>0 DEF CommitStore, Inductive, TypeOK, ClockInv, ThreadInv
<1>2. /\ cell' = [cell EXCEPT ![l] = clock] /\ lock' = None
      /\ UNCHANGED <<clock, ptr, vword, other, chain, logs>>
      /\ pc' = [pc EXCEPT ![t] = "idle"] /\ snap' = [snap EXCEPT ![t] = 0]
      /\ tlog' = [tlog EXCEPT ![t] = None] /\ wset' = [wset EXCEPT ![t] = {}]
      /\ ret' = [ret EXCEPT ![t] = None] /\ arg' = [arg EXCEPT ![t] = None]
      /\ UNCHANGED cur
  BY <1>0 DEF CommitStore, DropTransaction, Goto
<1>3. \A o \in Obj : vword[o] # Free =>
         /\ VerNum(o) \in Nat /\ VerNum(o) < clock
         /\ vword[o] = l => VerNum(o) = 0 /\ VerNum(o)' = clock
         /\ vword[o] # l => VerNum(o)' = VerNum(o)
  <2>1. \A x \in Log : cell[x] < clock
    BY <1>1 DEF Inductive, ClockInv
  <2>2. clock # 1
    BY <1>1 DEF Inductive, TypeOK, ClockInv, ThreadInv
  <2> QED BY <1>1, <1>2, <2>1, <2>2 DEF Inductive, TypeOK, VerNum
<1>4. \A u \in Threads : u # t => tlog[u] # l
  BY <1>0, <1>1 DEF Inductive, ThreadInv
<1>5. OwnerInv'
  <2> SUFFICES ASSUME NEW o \in Obj, chain[o] # None, VerNum(o)' = 0
               PROVE  \E u \in Threads : \E x \in wset'[u] : x.new = o /\ x.dst = chain[o]
    BY <1>2 DEF OwnerInv
  <2>1. vword[o] # l /\ VerNum(o) = 0
    BY <1>1, <1>3, VersionFacts
  <2>2. PICK u \in Threads : \E x \in wset[u] : x.new = o /\ x.dst = chain[o]
    BY <2>1 DEF Refining, OwnerInv
  <2>3. PICK x \in wset[u] : x.new = o /\ x.dst = chain[o]
    BY <2>2
  <2>4. u # t
    BY <1>0, <2>1, <2>3 DEF Inductive, WriteInv
  <2>5. x \in wset'[u]
    BY <1>2, <2>4 DEF Inductive, TypeOK
  <2> QED BY <2>3, <2>5
<1>6. ASSUME NEW u \in Threads PROVE ReaderAt(u)'
  <2> SUFFICES ASSUME u # t, pc[u] \in {"read", "rfw"}, cur[u] \in Obj PROVE ReaderAt(u)'
    BY <1>2 DEF ReaderAt, Inductive, TypeOK
  <2>0. PICK h \in Obj, p \in Ptrs, c \in Obj : h = cur[u] /\ p = arg[u] /\ c = CommittedFrom(h)
    BY DEF Inductive, OpInv, Refining, ReaderInv, ReaderAt
  <2>1. /\ chain[h] = p \/ (VerNum(h) = 0 /\ Dead(h))
        /\ c \in Obj /\ chain[c] = p /\ VerNum(c) # 0
        /\ \A x \in Obj : chain[x] = p /\ VerNum(x) > VerNum(c) => VerNum(x) > snap[u]
        /\ vword[h] # Free /\ vword[c] # Free
    BY <2>0, VersionFacts DEF Refining, ReaderInv, ReaderAt, Inductive, OpInv
  <2>2. pc'[u] = pc[u] /\ cur'[u] = h /\ arg'[u] = p /\ snap'[u] = snap[u]
    BY <1>2, <2>0 DEF Inductive, TypeOK
  <2>3. VerNum(h) = 0 /\ Dead(h) => Dead(h)'
    BY <1>2, <2>1, VersionFacts DEF Dead, Inductive, TypeOK
  <2>4. vword[c] # l /\ VerNum(c)' = VerNum(c) /\ VerNum(c) \in Nat /\ VerNum(c) < clock
    BY <1>3, <2>1
  <2>5. \A x \in Obj : chain[x] = p /\ VerNum(x)' > VerNum(c) => VerNum(x)' > snap[u]
    BY <1>1, <1>3, <2>1, <2>4, VersionFacts DEF Inductive, TypeOK
  <2>6. CASE vword[h] = l
    <3>1. VerNum(h) = 0 /\ VerNum(h)' = clock /\ clock # 0 /\ chain[h] = p
      BY <1>0, <1>1, <1>3, <2>1, <2>6 DEF Dead
    <3>2. CommittedFrom(h)' = h
      BY <3>1 DEF CommittedFrom
    <3>3. \A x \in Obj : chain[x] = p /\ VerNum(x)' > clock => VerNum(x)' > snap[u]
      BY <1>1, <1>3, VersionFacts
    <3> QED BY <1>2, <2>2, <3>1, <3>2, <3>3 DEF ReaderAt
  <2>7. CASE vword[h] # l
    <3>1. VerNum(h)' = VerNum(h)
      BY <1>3, <2>1, <2>7
    <3>2. CommittedFrom(h)' = c
      BY <1>2, <2>0, <3>1 DEF CommittedFrom
    <3> QED BY <1>2, <2>1, <2>2, <2>3, <2>4, <2>5, <3>1, <3>2 DEF ReaderAt
  <2> QED BY <2>6, <2>7
<1>7. CommitInv'
  <2>0. PICK r : /\ r.ver = clock /\ r.writes = {w.dst : w \in wset[t]}
                 /\ commits' = commits \cup {r}
    BY DEF CommitStore
  <2>1. \A c \in commits' : 1 <= c.ver /\ c.ver <= clock'
    BY <1>1, <1>2, <2>0 DEF Refining, CommitInv
  <2>2. ASSUME NEW o \in Obj, Committed(o)'
        PROVE  VerNum(o)' \in SI!VersionsOf(chain[o])'
    <3>1. chain[o] # None /\ VerNum(o)' # 0 /\ vword[o] # Free
      BY <1>2, <2>2, VersionFacts DEF Committed
    <3>2. CASE vword[o] = l
      <4>1. PICK u \in Threads : \E x \in wset[u] : x.new = o /\ x.dst = chain[o]
        BY <1>3, <3>1, <3>2 DEF Refining, OwnerInv
      <4>2. PICK x \in wset[u] : x.new = o /\ x.dst = chain[o]
        BY <4>1
      <4>3. u = t
        BY <1>4, <3>2, <4>2 DEF Inductive, WriteInv
      <4>4. chain[o] \in r.writes /\ VerNum(o)' = r.ver /\ r \in commits'
        BY <1>3, <2>0, <3>1, <3>2, <4>2, <4>3
      <4> QED BY <1>2, <4>4 DEF SI!VersionsOf
    <3>3. CASE vword[o] # l
      <4>1. VerNum(o)' = VerNum(o) /\ VerNum(o) \in SI!VersionsOf(chain[o])
        BY <1>3, <3>1, <3>3 DEF Refining, CommitInv, Committed
      <4> QED BY <1>2, <2>0, <4>1 DEF SI!VersionsOf
    <3> QED BY <3>2, <3>3
  <2>3. ASSUME NEW c \in commits', NEW p \in c.writes
        PROVE  \E o \in Obj : chain[o] = p /\ VerNum(o)' = c.ver
    <3>1. CASE c = r
      <4>1. PICK w \in wset[t] : p = w.dst
        BY <2>0, <3>1
      <4>2. w.new \in Obj /\ vword[w.new] = l /\ chain[w.new] = p
        BY <1>0, <4>1 DEF Inductive, TypeOK, TransactionWrite, WriteInv, HeadInv
      <4> QED BY <1>3, <2>0, <3>1, <4>2
    <3>2. CASE c \in commits
      <4>1. PICK o \in Obj : chain[o] = p /\ VerNum(o) = c.ver
        BY <3>2 DEF Refining, CommitInv
      <4>2. p # None /\ c.ver # 0
        BY <3>2 DEF Inductive, TypeOK, SI!CommitRecord, Refining, CommitInv
      <4>3. vword[o] \notin {Free, l}
        BY <1>3, <4>1, <4>2, VersionFacts
      <4> QED BY <1>3, <4>1, <4>3
    <3> QED BY <2>0, <3>1, <3>2
  <2> QED BY <1>2, <2>1, <2>2, <2>3 DEF CommitInv
<1>8. SnapInv'
  <2> SUFFICES ASSUME NEW u \in Threads
               PROVE  /\ pc'[u] = "idle" => snap'[u] = 0
                      /\ ret'[u] # None => vword'[ret'[u]] # Free /\ VerNum(ret[u])' # 0
    BY DEF SnapInv
  <2>1. CASE u = t \/ ret[u] = None
    BY <1>2, <2>1 DEF SnapInv, Inductive, TypeOK, Refining
  <2>2. CASE u # t /\ ret[u] # None
    <3>1. PICK r \in Obj : r = ret[u] /\ vword[r] # Free /\ VerNum(r) # 0
      BY <2>2 DEF Inductive, TypeOK, Refining, SnapInv
    <3>2. ret'[u] = r /\ pc'[u] = pc[u] /\ snap'[u] = snap[u] /\ vword'[r] = vword[r]
      BY <1>2, <2>2, <3>1 DEF Inductive, TypeOK
    <3>3. VerNum(r)' # 0
      BY <1>1, <1>3, <3>1
    <3> QED BY <3>1, <3>2, <3>3 DEF Refining, SnapInv
  <2> QED BY <2>1, <2>2
<1> QED BY <1>5, <1>6, <1>7, <1>8 DEF Refining, ReaderInv

-----------------------------------------------------------------------------
(***************************************************************************)
(* The invariant of the refinement.                                        *)
(***************************************************************************)

\* It holds when the store has just been opened.
LEMMA InitRefining == Init => Refining
<1> SUFFICES ASSUME Init PROVE Refining
  OBVIOUS
<1> USE ConstantsAssumption
<1>1. \A o \in Obj : chain[o] # None => vword[o] = Base
  BY DEF Init
<1>2. OwnerInv
  BY <1>1 DEF OwnerInv, VerNum
<1>3. CommitInv
  BY <1>1 DEF Init, CommitInv, Committed, VerNum, SI!VersionsOf
<1>4. ReaderInv /\ SnapInv
  BY DEF Init, ReaderInv, ReaderAt, SnapInv
<1> QED BY <1>2, <1>3, <1>4 DEF Refining

\* A step that changes nothing keeps it.
LEMMA StutterRefining == Refining /\ UNCHANGED vars => Refining'
<1> SUFFICES ASSUME Refining, UNCHANGED vars PROVE Refining'
  OBVIOUS
<1> USE DEF vars, heapVars, txVars, opVars
<1>1. \A x : VerNum(x)' = VerNum(x)
  BY DEF VerNum
<1>2. \A x : CommittedFrom(x)' = CommittedFrom(x) /\ (Dead(x) => Dead(x)')
  BY <1>1 DEF CommittedFrom, Dead
<1>3. OwnerInv' /\ SnapInv'
  BY <1>1 DEF Refining, OwnerInv, SnapInv
<1>4. ReaderInv'
  BY <1>1, <1>2 DEF Refining, ReaderInv, ReaderAt
<1>5. CommitInv'
  BY <1>1 DEF Refining, CommitInv, Committed, SI!VersionsOf
<1> QED BY <1>3, <1>4, <1>5 DEF Refining

\* Every step but Version::commit leaves the versions of all snapshots alone.
LEMMA StepStable ==
  ASSUME Inductive, Refining, NEW t \in Threads, Step(t, OnError), ~CommitStore(t)
  PROVE  Stable /\ Others(t) /\ Refining'
<1>1. CASE \E p \in Ptrs : Read(t, p) \/ ReadForWrite(t, p)
  BY <1>1, ReadRefining
<1>2. CASE \E p \in Ptrs : Write(t, p)
  BY <1>2, WriteRefining
<1>3. CASE Reload(t) \/ ReadOlder(t)
  BY <1>3, ReadRefining
<1>4. CASE Swizzle(t) \/ SwizzleClone(t) \/ CopyOnWrite(t)
  BY <1>4, AllocRefining
<1>5. CASE ReadReturns(t)
  BY <1>5, ReturnRefining DEF OnError
<1>6. CASE \E e \in OnError : OperationFails(t, e) \/ NoAvailableMemory(t, e)
                              \/ PerformFails(t, e)
  BY <1>6, ReturnRefining
<1>7. CASE Perform(t)
  BY <1>7, PerformRefining
<1>8. CASE \E w \in wset[t] : Rollback(t, w)
  BY <1>8, RollbackRefining
<1>9. CASE \/ Begin(t) \/ CommitReadOnly(t) \/ CommitLock(t) \/ ClosureFails(t) \/ AbortDone(t)
           \/ \E p \in Ptrs : Validate(t, p) \/ ValidateFails(t, p) \/ ValidatePanics(t, p)
  BY <1>9, ControlRefining
<1> QED BY <1>1, <1>2, <1>3, <1>4, <1>5, <1>6, <1>7, <1>8, <1>9 DEF Step

\* Every step of the protocol keeps the invariant of the refinement.
LEMMA NextRefining == Inductive /\ Refining /\ [Next]_vars => Refining'
<1> SUFFICES ASSUME Inductive, Refining, NEW t \in Threads, Step(t, OnError) PROVE Refining'
  BY StutterRefining DEF Next
<1> QED BY StepStable, CommitStoreRefining

-----------------------------------------------------------------------------
(***************************************************************************)
(* Every step is a step of SnapshotIsolation or leaves its variables alone.*)
(***************************************************************************)

\* What a step that leaves all snapshots alone does to what transactions have read.
LEMMA ReturnedStep ==
  ASSUME Inductive, Refining, Stable, NEW t \in Threads, Others(t)
  PROVE  /\ ret'[t] = None => Returned' = [Returned EXCEPT ![t] = None]
         /\ ret'[t] = ret[t] /\ arg'[t] = arg[t] => Returned' = Returned
<1>1. \A u \in Threads : u # t => Returned'[u] = Returned[u]
  BY StableSnap
<1>2. ret'[t] = None => Returned'[t] = None
  BY DEF Returned
<1>3. ret'[t] = ret[t] /\ arg'[t] = arg[t] => Returned'[t] = Returned[t]
  <2> SUFFICES ASSUME ret'[t] = ret[t], arg'[t] = arg[t], ret[t] # None
               PROVE  Returned'[t] = Returned[t]
    BY DEF Returned
  <2>1. PICK r \in Obj : r = ret[t] /\ vword[r] # Free
    BY DEF Inductive, TypeOK, Refining, SnapInv
  <2>2. VerNum(r)' = VerNum(r)
    BY <2>1 DEF Stable
  <2> QED BY <2>1, <2>2 DEF Returned
<1>4. /\ Returned' = [u \in Threads |-> Returned'[u]]
      /\ Returned = [u \in Threads |-> Returned[u]]
  BY DEF Returned
<1> QED BY <1>1, <1>2, <1>3, <1>4

\* The closure calls an operation, or one returns without an object: Forget.
LEMMA ForgetStep ==
  ASSUME Inductive, Refining, NEW t \in Threads, Stable, Others(t),
         \/ \E p \in Ptrs : Read(t, p) \/ ReadForWrite(t, p) \/ Write(t, p)
         \/ \E e \in OnError : OperationFails(t, e) \/ NoAvailableMemory(t, e)
                               \/ PerformFails(t, e)
         \/ Perform(t)
  PROVE  SI!Forget(t)
<1>1. UNCHANGED <<clock, commits, snap>> /\ pc[t] # "idle"
  BY DEF Read, ReadForWrite, Write, Call, OperationFails, NoAvailableMemory, PerformFails,
         Perform, txVars
<1>2. snap[t] # 0
  BY <1>1 DEF Inductive, TypeOK, ThreadInv
<1>3. ret'[t] = None
  BY DEF Read, ReadForWrite, Write, Call, OperationFails, NoAvailableMemory, PerformFails,
         Perform, Return, Inductive, TypeOK
<1> QED BY <1>1, <1>2, <1>3, ReturnedStep DEF SI!Forget

\* Steps inside an operation, of the validation and of a rollback: a stutter.
LEMMA HiddenStep ==
  ASSUME Inductive, Refining, NEW t \in Threads, Stable, Others(t),
         \/ Swizzle(t) \/ Reload(t) \/ SwizzleClone(t) \/ ReadOlder(t) \/ CopyOnWrite(t)
         \/ \E p \in Ptrs : Validate(t, p) \/ ValidateFails(t, p) \/ ValidatePanics(t, p)
         \/ ClosureFails(t)
         \/ \E w \in wset[t] : Rollback(t, w)
  PROVE  UNCHANGED SI!vars
<1>1. UNCHANGED <<clock, commits, snap, ret, arg>>
  BY DEF Swizzle, Reload, SwizzleClone, ReadOlder, CopyOnWrite, Validate, ValidateFails,
         ValidatePanics, ClosureFails, Rollback, txVars, opVars
<1> QED BY <1>1, ReturnedStep DEF SI!vars

\* Transaction::new, a commit or an abort that makes nothing visible, and the
\* new version number of commit_version.
LEMMA EndStep ==
  ASSUME Inductive, Refining, NEW t \in Threads, Stable, Others(t)
  PROVE  /\ Begin(t) => SI!Begin(t)
         /\ CommitReadOnly(t) \/ AbortDone(t) => SI!End(t)
         /\ CommitLock(t) => SI!Tick
<1>1. ASSUME Begin(t) PROVE SI!Begin(t)
  <2>1. snap[t] = 0 /\ UNCHANGED <<ret, arg>>
    BY <1>1 DEF Begin, opVars, Refining, SnapInv
  <2> QED BY <1>1, <2>1, ReturnedStep DEF Begin, SI!Begin
<1>2. ASSUME CommitReadOnly(t) \/ AbortDone(t) PROVE SI!End(t)
  <2>1. snap[t] # 0 /\ ret'[t] = None
    BY <1>2 DEF CommitReadOnly, AbortDone, DropTransaction, Inductive, TypeOK, ThreadInv
  <2> QED BY <1>2, <2>1, ReturnedStep DEF CommitReadOnly, AbortDone, DropTransaction, SI!End
<1>3. ASSUME CommitLock(t) PROVE SI!Tick
  <2>1. UNCHANGED <<ret, arg, snap>>
    BY <1>3 DEF CommitLock, opVars, txVars
  <2> QED BY <1>3, <2>1, ReturnedStep DEF CommitLock, SI!Tick
<1> QED BY <1>1, <1>2, <1>3

\* VersionedReader::read returns the newest version of the snapshot: what it has passed
\* is not in the snapshot, and the chain has all versions that were committed.
LEMMA ReadStep ==
  ASSUME Inductive, Refining, NEW t \in Threads, Stable, Others(t), ReadReturns(t)
  PROVE  SI!Read(t, arg[t]) /\ arg[t] \in Ptrs
<1> USE ConstantsAssumption
<1>0. PICK o \in Obj, p \in Ptrs : o = cur[t] /\ p = arg[t]
  BY DEF ReadReturns, Inductive, OpInv
<1>1. /\ VerNum(o) # 0 /\ VerNum(o) <= snap[t] /\ vword[o] # Free
      /\ UNCHANGED <<clock, commits, snap, heapVars>>
      /\ ret' = [ret EXCEPT ![t] = o] /\ arg'[t] = p
  BY <1>0 DEF ReadReturns, Visible, Return, txVars, Inductive, TypeOK, OpInv
<1>2. VerNum(o) \in Nat /\ snap[t] \in Nat /\ snap[t] # 0
  BY <1>1, VersionFacts DEF Inductive, TypeOK
<1>3. /\ chain[o] = p
      /\ \A x \in Obj : chain[x] = p /\ VerNum(x) > VerNum(o) => VerNum(x) > snap[t]
  BY <1>0, <1>1 DEF Refining, ReaderInv, ReaderAt, CommittedFrom, ReadReturns
<1>4. SI!IsNewest(p, snap[t], VerNum(o))
  <2>1. VerNum(o) \in SI!VersionsOf(p)
    BY <1>1, <1>3 DEF Refining, CommitInv, Committed
  <2>2. ASSUME NEW v \in SI!VersionsOf(p), v <= snap[t] PROVE v <= VerNum(o)
    <3>1. CASE v = 1
      BY <1>1, <1>2, <3>1
    <3>2. CASE v # 1
      <4>1. PICK c \in commits : p \in c.writes /\ v = c.ver
        BY <3>2 DEF SI!VersionsOf
      <4>2. PICK x \in Obj : chain[x] = p /\ VerNum(x) = v
        BY <4>1 DEF Refining, CommitInv
      <4>3. v \in Nat
        BY <4>1 DEF Inductive, TypeOK, SI!CommitRecord
      <4> QED BY <1>2, <1>3, <2>2, <4>2, <4>3
    <3> QED BY <3>1, <3>2
  <2> QED BY <1>1, <2>1, <2>2 DEF SI!IsNewest
<1>5. Returned' = [Returned EXCEPT ![t] = [ptr |-> p, ver |-> VerNum(o)]]
  <2>1. \A u \in Threads : u # t => Returned'[u] = Returned[u]
    BY StableSnap
  <2>2. VerNum(o)' = VerNum(o) /\ ret'[t] = o /\ o # None
    BY <1>1 DEF heapVars, VerNum, Inductive, TypeOK
  <2>3. Returned'[t] = [ptr |-> p, ver |-> VerNum(o)]
    BY <1>1, <2>2 DEF Returned
  <2>4. /\ Returned' = [u \in Threads |-> Returned'[u]]
        /\ Returned = [u \in Threads |-> Returned[u]]
    BY DEF Returned
  <2> QED BY <2>1, <2>3, <2>4
<1>6. VerNum(o) \in SI!VersionsOf(p)
  BY <1>4 DEF SI!IsNewest
<1> QED BY <1>0, <1>1, <1>2, <1>4, <1>5, <1>6 DEF SI!Read

\* Version::commit: the number is newer than all others, and no transaction that
\* committed after the snapshot was taken has written what this one wrote, because the
\* version it copied is still the newest committed one.
LEMMA CommitStep ==
  ASSUME Inductive, Refining, NEW t \in Threads, CommitStore(t)
  PROVE  \E reads, writes \in SUBSET Ptrs : SI!Commit(t, reads, writes)
<1> USE ConstantsAssumption
<1> DEFINE writes == {w.dst : w \in wset[t]}
<1>0. PICK l \in Log : l = tlog[t]
  BY DEF CommitStore, Inductive, TypeOK, ThreadInv
<1>1. /\ pc[t] = "validate" /\ lock = t /\ t # None /\ cell[l] = 0 /\ snap[t] # 0
      /\ \A u \in Threads : snap[u] < clock
  BY <1>0 DEF CommitStore, Inductive, TypeOK, ClockInv, ThreadInv
<1>2. /\ cell' = [cell EXCEPT ![l] = clock]
      /\ UNCHANGED <<clock, vword>>
      /\ snap' = [snap EXCEPT ![t] = 0]
      /\ ret' = [ret EXCEPT ![t] = None] /\ arg' = [arg EXCEPT ![t] = None]
      /\ commits' = commits \cup
           {[ver |-> clock, snap |-> snap[t], reads |-> rset[t], writes |-> writes]}
  BY <1>0 DEF CommitStore, DropTransaction
<1>3. SI!Unused(clock)
  BY <1>1 DEF SI!Unused, Refining, CommitInv
<1>4. ASSUME NEW c \in commits, c.ver > snap[t] PROVE c.writes \cap writes = {}
  <2> SUFFICES ASSUME NEW w \in wset[t], w.dst \in c.writes PROVE FALSE
    OBVIOUS
  <2>1. PICK o \in Obj : chain[o] = w.dst /\ VerNum(o) = c.ver
    BY DEF Refining, CommitInv
  <2>2. /\ w.dst \in Ptrs /\ ptr[w.dst] = w.new /\ w.new \in Obj /\ VerNum(w.new) = 0
        /\ w.current = other[w.new] /\ VerNum(w.current) <= snap[t]
    BY <1>0, <1>1 DEF Inductive, TypeOK, TransactionWrite, WriteInv, VerNum
  <2>3. Newest(w.dst) = w.current
    BY <2>2 DEF Newest
  <2>4. VerNum(o) <= VerNum(w.current)
    BY <2>1, <2>2, <2>3 DEF Inductive, HeadInv
  <2>5. w.current \in Obj /\ VerNum(w.current) \in Nat
    BY <2>2, VersionFacts DEF Inductive, WriteInv, ThreadInv, TypeOK, HeadInv
  <2>6. c.ver \in Nat /\ snap[t] \in Nat
    BY DEF Inductive, TypeOK, SI!CommitRecord
  <2> QED BY <1>4, <2>1, <2>2, <2>4, <2>5, <2>6
<1>5. Returned' = [Returned EXCEPT ![t] = None]
  <2>1. ASSUME NEW u \in Threads, u # t PROVE Returned'[u] = Returned[u]
    <3>1. ret'[u] = ret[u] /\ arg'[u] = arg[u]
      BY <1>2, <2>1 DEF Inductive, TypeOK
    <3>2. CASE ret[u] = None
      BY <3>1, <3>2 DEF Returned
    <3>3. CASE ret[u] # None
      <4>1. PICK r \in Obj : r = ret[u] /\ vword[r] # Free /\ VerNum(r) # 0
        BY <3>3 DEF Inductive, TypeOK, Refining, SnapInv
      <4>2. VerNum(r)' = VerNum(r)
        BY <1>1, <1>2, <4>1 DEF Inductive, TypeOK, VerNum
      <4> QED BY <3>1, <4>1, <4>2 DEF Returned
    <3> QED BY <3>2, <3>3
  <2>2. Returned'[t] = None
    BY <1>2 DEF Returned, Inductive, TypeOK
  <2>3. /\ Returned' = [u \in Threads |-> Returned'[u]]
        /\ Returned = [u \in Threads |-> Returned[u]]
    BY DEF Returned
  <2> QED BY <2>1, <2>2, <2>3
<1>6. SI!Commit(t, rset[t], writes)
  BY <1>1, <1>2, <1>3, <1>4, <1>5 DEF SI!Commit
<1>7. rset[t] \in SUBSET Ptrs /\ writes \in SUBSET Ptrs
  BY DEF Inductive, TypeOK, TransactionWrite
<1> QED BY <1>6, <1>7

\* Every step of the protocol is a step of SnapshotIsolation, or invisible there.
LEMMA NextImplements == Inductive /\ Refining /\ [Next]_vars => [SI!Next]_(SI!vars)
<1> SUFFICES ASSUME Inductive, Refining, [Next]_vars PROVE SI!Next \/ UNCHANGED SI!vars
  OBVIOUS
<1>1. CASE UNCHANGED vars
  <2>1. UNCHANGED <<clock, commits, snap, ret, arg, vword, cell>>
    BY <1>1 DEF vars, heapVars, txVars, opVars
  <2> QED BY <2>1 DEF SI!vars, Returned, VerNum
<1>2. CASE Next
  <2>0. PICK t \in Threads : Step(t, OnError)
    BY <1>2 DEF Next
  <2>1. CASE CommitStore(t)
    BY <2>1, CommitStep DEF SI!Next
  <2>2. CASE ~CommitStore(t)
    <3>1. Stable /\ Others(t)
      BY <2>0, <2>2, StepStable
    <3>2. CASE \/ \E p \in Ptrs : Read(t, p) \/ ReadForWrite(t, p) \/ Write(t, p)
               \/ \E e \in OnError : OperationFails(t, e) \/ NoAvailableMemory(t, e)
                                     \/ PerformFails(t, e)
               \/ Perform(t)
      BY <3>1, <3>2, ForgetStep DEF SI!Next
    <3>3. CASE \/ Swizzle(t) \/ Reload(t) \/ SwizzleClone(t) \/ ReadOlder(t) \/ CopyOnWrite(t)
               \/ \E p \in Ptrs : Validate(t, p) \/ ValidateFails(t, p) \/ ValidatePanics(t, p)
               \/ ClosureFails(t)
               \/ \E w \in wset[t] : Rollback(t, w)
      BY <3>1, <3>3, HiddenStep
    <3>4. CASE Begin(t) \/ CommitReadOnly(t) \/ AbortDone(t) \/ CommitLock(t)
      BY <3>1, <3>4, EndStep DEF SI!Next
    <3>5. CASE ReadReturns(t)
      BY <3>1, <3>5, ReadStep DEF SI!Next
    <3> QED BY <2>0, <2>2, <3>2, <3>3, <3>4, <3>5 DEF Step
  <2> QED BY <2>1, <2>2
<1> QED BY <1>1, <1>2

\* What relates readers, writesets and commits to the version chains holds in every
\* reachable state of the protocol of tx.rs and vos.rs.
THEOREM RefiningInvariant == Spec => []Refining
<1> QED BY InitRefining, NextRefining, InductiveInvariant, PTL DEF Spec

\* The transaction layer implements snapshot isolation (DESIGN.md:91): every read of
\* VersionedReader::read returns the newest version of the snapshot of its transaction,
\* and Version::commit never lets two transactions that overlap in time both commit a
\* write of the same pointer.
THEOREM ImplementsSnapshotIsolation == Spec => SnapshotIsolated
<1>1. Init => SI!Init
  BY DEF Init, SI!Init, Returned
<1> QED BY <1>1, NextImplements, InductiveInvariant, RefiningInvariant, PTL
        DEF Spec, SnapshotIsolated, SI!Spec

=============================================================================
