--------------------------- MODULE RunLoopProofs ---------------------------
(***************************************************************************)
(* Proofs for RunLoop. Every step of the run loop is a step of Mvcc, so    *)
(* all that is proved of transactions holds of the closures that run       *)
(* executes. What tests::switcharoo asserts follows from that and from one *)
(* more invariant, WholeCommits: a commit has all writes of a closure.     *)
(* What tests::counter asserts follows from Counting: the versions behind  *)
(* the newest one are as many as the runs that returned Ok.                *)
(***************************************************************************)
EXTENDS RunLoop, MvccRefinement, FiniteSetTheorems, WellFoundedInduction

-----------------------------------------------------------------------------
(***************************************************************************)
(* The run loop executes transactions.                                     *)
(***************************************************************************)

\* An element of a sequence.
LEMMA Element ==
  ASSUME NEW S, NEW s \in Seq(S), NEW i \in 1 .. Len(s)
  PROVE  s[i] \in S
  OBVIOUS

\* A closure is a sequence.
LEMMA ClosureFacts ==
  ASSUME closure \in Programs, NEW t \in Threads
  PROVE  /\ closure[t] \in Seq(Operation) /\ Len(closure[t]) \in Nat
         /\ DOMAIN closure[t] = 1 .. Len(closure[t])
<1>1. closure[t] \in Seq(Operation)
  BY ProgramsAssumption
<1> QED BY <1>1

\* The next operation of a closure is one of the operations.
LEMMA OperationFacts ==
  ASSUME closure \in Programs, NEW t \in Threads, Progress(t), ~Finished(t)
  PROVE  at[t] \in 1 .. Len(closure[t]) /\ NextOp(t) \in Operation
<1>1. closure[t] \in Seq(Operation) /\ Len(closure[t]) \in Nat
  BY ClosureFacts
<1>2. at[t] \in 1 .. Len(closure[t])
  BY <1>1 DEF Progress, Finished
<1> QED BY <1>1, <1>2, Element DEF NextOp

\* A step of run is a step of a transaction.
LEMMA LoopStepIsStep ==
  ASSUME closure \in Programs, NEW t \in Threads, Progress(t), LoopStep(t)
  PROVE  Step(t, Propagate)
<1>1. CASE CallNext(t)
  <2>1. NextOp(t).ptr \in Ptrs
    BY <1>1, OperationFacts DEF CallNext, Operation
  <2> QED BY <1>1, <2>1 DEF CallNext, Step
<1>2. CASE OutOfMemory(t) \/ Conflict(t)
  BY <1>2 DEF OutOfMemory, Conflict, Step, Propagate
<1>3. CASE Internal(t)
  BY <1>3 DEF Internal, Step
<1>4. CASE StartAttempt(t) \/ Copy(t) \/ Fetch(t) \/ ReturnOk(t) \/ EndAttempt(t)
  BY <1>4 DEF StartAttempt, Copy, Fetch, ReturnOk, EndAttempt, Step
<1> QED BY <1>1, <1>2, <1>3, <1>4 DEF LoopStep

-----------------------------------------------------------------------------
(***************************************************************************)
(* The writes of a closure are committed together.                         *)
(***************************************************************************)

\* A step of a transaction does not touch the others.
LEMMA StepOthers ==
  ASSUME Inductive, Refining, NEW t \in Threads, Step(t, OnError)
  PROVE  Others(t)
<1>1. CASE CommitStore(t)
  BY <1>1 DEF CommitStore, DropTransaction, Goto, Others, Inductive, TypeOK
<1>2. CASE ~CommitStore(t)
  BY <1>2, StepStable
<1> QED BY <1>1, <1>2

\* A pointer that is in memory stays in memory.
LEMMA StaysInMemory ==
  ASSUME Inductive, NEW t \in Threads, Step(t, OnError), NEW x \in Ptrs, ptr[x] # Block
  PROVE  ptr'[x] # Block
<1> USE ConstantsAssumption
<1>1. CASE Swizzle(t)
  BY <1>1 DEF Swizzle, Fresh, Inductive, TypeOK
<1>2. CASE Perform(t)
  BY <1>2 DEF Perform, Swap, Inductive, TypeOK, OpInv
<1>3. CASE \E w \in wset[t] : Rollback(t, w)
  <2>1. PICK w \in wset[t] : Rollback(t, w)
    BY <1>3
  <2>2. w.current \in Obj \cup {None} /\ ptr' \in {ptr, [ptr EXCEPT ![w.dst] = w.current]}
    BY <2>1 DEF Rollback, Inductive, TypeOK, TransactionWrite
  <2> QED BY <2>2 DEF Inductive, TypeOK
<1>4. CASE /\ ~Swizzle(t) /\ ~Perform(t)
           /\ ~\E w \in wset[t] : Rollback(t, w)
  <2>1. ptr' = ptr
    BY <1>4 DEF Step, Begin, Read, ReadForWrite, Write, Call, Reload, SwizzleClone,
       ReadReturns, ReadOlder, CopyOnWrite, OperationFails, NoAvailableMemory, PerformFails,
       CommitReadOnly, CommitLock, CommitStore, Validate, ValidateFails, ValidatePanics,
       ClosureFails, AbortDone, heapVars
  <2> QED BY <2>1
<1> QED BY <1>1, <1>2, <1>3, <1>4

\* What the operations up to n have written, and those up to n + 1.
LEMMA WrittenByNext ==
  ASSUME NEW t \in Threads, NEW n \in Nat
  PROVE  /\ WrittenBy(t, 0) = {}
         /\ \A x \in Ptrs : closure[t][n + 1] = Op("write", x) =>
               WrittenBy(t, n + 1) = WrittenBy(t, n) \cup {x}
         /\ (\A x \in Ptrs : closure[t][n + 1] # Op("write", x)) =>
               WrittenBy(t, n + 1) = WrittenBy(t, n)
<1>1. 1 .. 0 = {} /\ 1 .. (n + 1) = (1 .. n) \cup {n + 1}
  OBVIOUS
<1>2. \A x, y \in Ptrs : Op("write", x) = Op("write", y) => x = y
  BY DEF Op
<1> QED BY <1>1, <1>2 DEF WrittenBy

\* The transaction that makes a step goes on in its closure.
LEMMA StepProgress ==
  ASSUME Inductive, WholeCommits, NEW t \in Threads, LoopStep(t)
  PROVE  Progress(t)'
<1> USE ConstantsAssumption
<1>0. PICK s \in Seq(Operation), k \in Nat, n \in Nat :
        /\ s = closure[t] /\ k = at[t] /\ n = Len(closure[t])
        /\ k \in 1 .. (n + 1) /\ Progress(t)
  BY ClosureFacts DEF WholeCommits, Progress
<1>1. closure' = closure
  BY DEF LoopStep, StartAttempt, CallNext, Copy, Fetch, OutOfMemory, Conflict, Internal,
         Silent, loopVars, ReturnOk, EndAttempt
<1>2. \A m : WrittenBy(t, m)' = WrittenBy(t, m)
  BY <1>1 DEF WrittenBy
<1>3. at \in [Threads -> Nat]
  BY DEF WholeCommits
<1>4. CASE StartAttempt(t)
  <2>1. pc'[t] = "run" /\ at'[t] = 1 /\ wset'[t] = {}
    BY <1>3, <1>4 DEF StartAttempt, Begin, Goto, Inductive, TypeOK, ThreadInv
  <2> QED BY <1>0, <1>1, <1>2, <2>1, WrittenByNext DEF Progress, WrittenTo
<1>5. CASE CallNext(t)
  <2>1. pc[t] = "run" /\ k <= n /\ at'[t] = k + 1 /\ wset' = wset
    BY <1>0, <1>3, <1>5 DEF CallNext, Finished, Read, ReadForWrite, Write, Call
  <2>2. PICK c \in Operation : c = s[k] /\ c = NextOp(t)
    BY <1>0, <1>5, OperationFacts DEF CallNext, WholeCommits, NextOp
  <2> /\ (k + 1) - 1 = k /\ (k + 1) - 2 = k - 1 /\ k + 1 \in 1 .. (n + 1) /\ k + 1 > 1
    BY <1>0, <2>1
  <2>3. WrittenTo(t)' = WrittenBy(t, k - 1)
    BY <1>0, <2>1 DEF Progress, WrittenTo
  <2>4. CASE c.op = "write"
    <3>1. pc'[t] = "write" /\ arg'[t] = c.ptr
      BY <1>5, <2>2, <2>4 DEF CallNext, Write, Call, Goto, Inductive, TypeOK, Operation
    <3>2. c = Op("write", c.ptr)
      BY <2>4 DEF Op, Operation
    <3> QED BY <1>0, <1>1, <1>2, <2>1, <2>2, <2>3, <3>1, <3>2 DEF Progress
  <2>5. CASE c.op # "write"
    <3>1. pc'[t] \in {"read", "rfw"}
      BY <1>5, <2>2, <2>5 DEF CallNext, Read, ReadForWrite, Call, Goto, Inductive, TypeOK, Operation
    <3>2. \A x \in Ptrs : c # Op("write", x)
      BY <2>5 DEF Op
    <3>3. PICK m \in Nat : m = k - 1 /\ m + 1 = k
      BY <1>0
    <3>4. WrittenBy(t, m + 1) = WrittenBy(t, m)
      <4>1. closure[t][m + 1] = c
        BY <1>0, <2>2, <3>3
      <4>2. \A x \in Ptrs : closure[t][m + 1] # Op("write", x)
        BY <3>2, <4>1
      <4> QED BY <4>2, WrittenByNext
    <3> QED BY <1>0, <1>1, <1>2, <2>1, <2>3, <3>1, <3>3, <3>4 DEF Progress
  <2> QED BY <2>4, <2>5
<1>6. CASE Copy(t) \/ Fetch(t)
  <2>1. /\ pc'[t] = pc[t] \/ (pc[t] = "write" /\ pc'[t] = "swap")
        /\ UNCHANGED <<at, arg, wset>>
    <3>1. CASE Copy(t)
      BY <3>1 DEF Copy, CopyOnWrite, Goto, txVars, Inductive, TypeOK
    <3>2. CASE Fetch(t)
      BY <3>2 DEF Fetch, Swizzle, SwizzleClone, txVars
    <3> QED BY <1>6, <3>1, <3>2
  <2>2. WrittenTo(t)' = WrittenTo(t) /\ (Finished(t) => Finished(t)')
    BY <1>1, <2>1 DEF WrittenTo, Finished
  <2> QED BY <1>0, <1>1, <1>2, <2>1, <2>2 DEF Progress
<1>7. CASE \/ OutOfMemory(t) \/ Conflict(t) \/ ReturnOk(t) \/ EndAttempt(t)
           \/ Silent /\ \E w \in wset[t] : Rollback(t, w)
  <2>1. pc'[t] \in {"abort", "idle", "panic"} /\ at' = at
    BY <1>7 DEF OutOfMemory, NoAvailableMemory, Conflict, OperationFails, PerformFails,
       ValidateFails, Return, ReturnOk, CommitReadOnly, CommitStore, EndAttempt, AbortDone,
       DropTransaction, Rollback, Goto, Silent, loopVars, Inductive, TypeOK
  <2> QED BY <1>0, <1>1, <2>1 DEF Progress
<1>8. CASE Silent /\ Perform(t)
  <2>1. PICK x \in Ptrs : x = arg[t]
    BY <1>8 DEF Perform, Inductive, OpInv
  <2>2. pc[t] = "swap" /\ pc'[t] = "run" /\ at' = at
    BY <1>8 DEF Perform, Return, Goto, Silent, loopVars, Inductive, TypeOK
  <2>3. WrittenTo(t)' = WrittenTo(t) \cup {x}
    <3>1. PICK w : w.dst = x /\ wset' = [wset EXCEPT ![t] = @ \cup {w}]
      BY <1>8, <2>1 DEF Perform, Swap
    <3>2. wset'[t] = wset[t] \cup {w}
      BY <3>1 DEF Inductive, TypeOK
    <3> QED BY <3>1, <3>2 DEF WrittenTo
  <2>4. k > 1 /\ s[k - 1] = Op("write", x) /\ WrittenTo(t) = WrittenBy(t, k - 2)
    BY <1>0, <2>1, <2>2 DEF Progress
  <2>5. PICK m \in Nat : m = k - 2 /\ m + 1 = k - 1
    BY <1>0, <2>4
  <2>6. WrittenBy(t, k - 1) = WrittenBy(t, k - 2) \cup {x}
    BY <1>0, <2>4, <2>5, WrittenByNext
  <2> QED BY <1>0, <1>1, <1>2, <2>2, <2>3, <2>4, <2>6 DEF Progress
<1>9. CASE /\ Silent
           /\ \/ Reload(t) \/ ReadReturns(t) \/ ReadOlder(t)
              \/ Finished(t) /\ CommitLock(t)
              \/ \E p \in Ptrs : Validate(t, p)
  <2>1. /\ pc[t] \in {"run", "read", "rfw", "validate"} /\ UNCHANGED <<at, wset>>
        /\ pc'[t] \in {"run", "read", "rfw", "validate"}
        /\ pc'[t] = "validate" => Finished(t)
    BY <1>0, <1>9 DEF Reload, ReadReturns, ReadOlder, CommitLock, Validate, Return, Goto,
       Silent, loopVars, txVars, Inductive, TypeOK, Progress
  <2>2. WrittenTo(t)' = WrittenTo(t) /\ (Finished(t) => Finished(t)')
    BY <1>1, <2>1 DEF WrittenTo, Finished
  <2> QED BY <1>0, <1>1, <1>2, <2>1, <2>2 DEF Progress
<1> QED BY <1>4, <1>5, <1>6, <1>7, <1>8, <1>9 DEF LoopStep, Internal

\* Every step of the run loop keeps the invariant.
LEMMA LoopNextWhole ==
  ASSUME Inductive, Refining, WholeCommits, [LoopNext]_runVars
  PROVE  WholeCommits'
<1> USE ConstantsAssumption
<1>1. CASE UNCHANGED runVars
  <2>1. UNCHANGED <<closure, at, commits, ptr, pc, wset, arg>>
    BY <1>1 DEF runVars, vars, heapVars, txVars, opVars, loopVars
  <2>2. \A u, m : WrittenBy(u, m)' = WrittenBy(u, m) /\ WrittenTo(u)' = WrittenTo(u)
    BY <2>1 DEF WrittenBy, WrittenTo
  <2>3. \A u \in Threads : Progress(u)'
    BY <2>1, <2>2 DEF WholeCommits, Progress, Finished
  <2> QED BY <2>1, <2>2, <2>3 DEF WholeCommits
<1>2. ASSUME NEW t \in Threads, LoopStep(t) PROVE WholeCommits'
  <2>1. Step(t, OnError)
    BY <1>2, LoopStepIsStep DEF WholeCommits, Step, OnError
  <2>2. closure' = closure
    BY <1>2 DEF LoopStep, StartAttempt, CallNext, Copy, Fetch, OutOfMemory, Conflict,
       Internal, Silent, loopVars, ReturnOk, EndAttempt
  <2>3. at' \in [Threads -> Nat] /\ \A u \in Threads : u # t => at'[u] = at[u]
    <3>1. at' \in {at, [at EXCEPT ![t] = 1], [at EXCEPT ![t] = at[t] + 1]}
      BY <1>2 DEF LoopStep, StartAttempt, CallNext, Copy, Fetch, OutOfMemory, Conflict,
         Internal, Silent, loopVars, ReturnOk, EndAttempt
    <3> QED BY <3>1 DEF WholeCommits
  <2>4. ASSUME NEW u \in Threads PROVE Progress(u)'
    <3>1. CASE u = t
      BY <1>2, <3>1, StepProgress
    <3>2. CASE u # t
      <4>1. pc'[u] = pc[u] /\ wset'[u] = wset[u] /\ arg'[u] = arg[u] /\ at'[u] = at[u]
        BY <2>1, <2>3, <3>2, StepOthers DEF Others
      <4>2. WrittenTo(u)' = WrittenTo(u) /\ \A m : WrittenBy(u, m)' = WrittenBy(u, m)
        BY <2>2, <4>1 DEF WrittenTo, WrittenBy
      <4> QED BY <2>2, <4>1, <4>2 DEF WholeCommits, Progress, Finished
    <3> QED BY <3>1, <3>2
  <2>5. ASSUME NEW c \in commits'
        PROVE  \E u \in Threads : c.writes = WrittenBy(u, Len(closure[u]))'
    <3>1. \A u, m : WrittenBy(u, m)' = WrittenBy(u, m)
      BY <2>2 DEF WrittenBy
    <3>2. CASE c \in commits
      BY <2>2, <3>1, <3>2 DEF WholeCommits
    <3>3. CASE c \notin commits
      <4>1. CommitStore(t) /\ c.writes = WrittenTo(t)
        BY <2>1, <3>3 DEF Step, Begin, Read, ReadForWrite, Write, Call, Swizzle, Reload,
           SwizzleClone, ReadReturns, ReadOlder, CopyOnWrite, Perform, OperationFails,
           NoAvailableMemory, PerformFails, CommitReadOnly, CommitLock, CommitStore, Validate,
           ValidateFails, ValidatePanics, ClosureFails, AbortDone, Rollback, WrittenTo
      <4>2. Progress(t) /\ pc[t] = "validate"
        BY <4>1 DEF WholeCommits, CommitStore
      <4>3. at[t] - 1 = Len(closure[t]) /\ WrittenTo(t) = WrittenBy(t, at[t] - 1)
        BY <4>2, ClosureFacts DEF Progress, Finished, WholeCommits
      <4> QED BY <2>2, <3>1, <4>1, <4>3
    <3> QED BY <3>2, <3>3
  <2>6. \A x \in Ptrs : First[x] # Block => ptr'[x] # Block
    BY <2>1, StaysInMemory DEF WholeCommits
  <2> QED BY <2>2, <2>3, <2>4, <2>5, <2>6 DEF WholeCommits
<1> QED BY <1>1, <1>2 DEF LoopNext

\* The pointers that a closure writes.
LEMMA WritesFacts ==
  ASSUME closure \in Programs, NEW t \in Threads, NEW x \in Ptrs
  PROVE  Writes(t, x) <=> x \in WrittenBy(t, Len(closure[t]))
<1>1. DOMAIN closure[t] = 1 .. Len(closure[t])
  BY ClosureFacts
<1> QED BY <1>1 DEF Writes, WrittenBy, Range

\* The newest version of a pointer is the newest one that was committed for it.
LEMMA NewestCommitted ==
  ASSUME Inductive, Refining, NEW x \in Ptrs, ptr[x] # Block
  PROVE  /\ VerNum(Newest(x)) \in SI!VersionsOf(x)
         /\ \A v \in SI!VersionsOf(x) : v <= VerNum(Newest(x))
         /\ SI!VersionsOf(x) \subseteq Nat
<1> USE ConstantsAssumption
<1>0. PICK h \in Obj : h = ptr[x] /\ chain[h] = x
  BY DEF Inductive, TypeOK, HeadInv
<1>1. PICK o \in Obj : o = Newest(x) /\ chain[o] = x /\ VerNum(o) # 0 /\ VerNum(o) \in Nat
  BY <1>0, VersionFacts DEF Newest
<1>2. \A y \in Obj : chain[y] = x => VerNum(y) <= VerNum(o)
  BY <1>1 DEF Inductive, HeadInv
<1>3. VerNum(o) \in SI!VersionsOf(x)
  BY <1>1 DEF Refining, CommitInv, Committed
<1>4. \A v \in SI!VersionsOf(x) : v = 1 \/ \E c \in commits : x \in c.writes /\ v = c.ver
  BY DEF SI!VersionsOf
<1>5. \A c \in commits : x \in c.writes => c.ver \in Nat /\ c.ver <= VerNum(o)
  BY <1>1, <1>2 DEF Refining, CommitInv, Inductive, TypeOK, SI!CommitRecord
<1> QED BY <1>1, <1>3, <1>4, <1>5

-----------------------------------------------------------------------------
(***************************************************************************)
(* Theorems.                                                               *)
(***************************************************************************)

\* The safety part of the specification.
LEMMA LoopSafety == LoopSpec => LoopInit /\ [][LoopNext]_runVars
  BY PTL DEF LoopSpec

\* It holds when the threads start.
LEMMA LoopInitWhole == LoopInit => WholeCommits
<1> SUFFICES ASSUME LoopInit PROVE WholeCommits
  OBVIOUS
<1>1. \A t \in Threads : Len(closure[t]) \in Nat
  BY ClosureFacts DEF LoopInit
<1>2. closure \in Programs /\ at \in [Threads -> Nat] /\ \A t \in Threads : Progress(t)
  BY <1>1 DEF LoopInit, Init, Progress
<1> QED BY <1>2 DEF LoopInit, Init, WholeCommits

\* A step of the run loop is a step of the transaction protocol or leaves it alone.
LEMMA LoopNextIsNext == WholeCommits /\ [LoopNext]_runVars => [Next]_vars
<1> SUFFICES ASSUME WholeCommits, [LoopNext]_runVars PROVE [Next]_vars
  OBVIOUS
<1>1. CASE UNCHANGED runVars
  BY <1>1 DEF runVars
<1>2. ASSUME NEW t \in Threads, LoopStep(t) PROVE Next
  BY <1>2, LoopStepIsStep DEF WholeCommits, Step, OnError, Next
<1> QED BY <1>1, <1>2 DEF LoopNext

\* Every commit that Librarius::run makes has all writes of a closure, and the state of
\* the transactions under it is one of the transaction protocol.
THEOREM WholeCommitsInvariant == LoopSpec => [](Inductive /\ Refining /\ WholeCommits)
<1>1. LoopInit => Inductive /\ Refining /\ WholeCommits
  BY InitInductive, InitRefining, LoopInitWhole DEF LoopInit
<1>2. Inductive /\ Refining /\ WholeCommits /\ [LoopNext]_runVars
        => (Inductive /\ Refining /\ WholeCommits)'
  BY NextInductive, NextRefining, LoopNextWhole, LoopNextIsNext
<1> QED BY <1>1, <1>2, LoopSafety, PTL

\* Librarius::run executes transactions of Mvcc, so all that is proved of those holds
\* of the closures it runs and retries.
THEOREM LoopImplementsMvcc == LoopSpec => Spec
<1>1. LoopInit => Init
  BY DEF LoopInit
<1> QED BY <1>1, LoopNextIsNext, LoopSafety, WholeCommitsInvariant, PTL DEF Spec

\* Closures that Librarius::run executes are isolated.
THEOREM RunsAreIsolated == LoopSpec => SnapshotIsolated
<1> QED BY LoopImplementsMvcc, ImplementsSnapshotIsolation, PTL

\* No run leaves a latch behind: what an aborted attempt has written is taken back
\* before run_once returns.
THEOREM NoLatchLeft == LoopSpec => []LatchReleased
<1>1. Inductive /\ Refining => LatchReleased
  BY ConstantsAssumption
     DEF Inductive, TypeOK, HeadInv, Refining, OwnerInv, LatchReleased
<1> QED BY <1>1, WholeCommitsInvariant, PTL

\* What tests::switcharoo asserts: pointers that are always written together have
\* newest versions of one transaction.
THEOREM TuplesWrittenTogether == LoopSpec => []TuplesAgree
<1>1. ASSUME Inductive, Refining, WholeCommits PROVE TuplesAgree
  <2> SUFFICES ASSUME NEW x \in Ptrs, NEW y \in Ptrs, First[x] # Block, First[y] # Block,
                      \A t \in Threads : Writes(t, x) <=> Writes(t, y)
               PROVE  VerNum(Newest(x)) = VerNum(Newest(y))
    BY DEF TuplesAgree
  <2>1. ptr[x] # Block /\ ptr[y] # Block /\ closure \in Programs
    BY <1>1 DEF WholeCommits
  <2>2. \A c \in commits : x \in c.writes <=> y \in c.writes
    BY <1>1, <2>1, WritesFacts DEF WholeCommits
  <2>3. SI!VersionsOf(x) = SI!VersionsOf(y)
    BY <2>2 DEF SI!VersionsOf
  <2>4. PICK v \in Nat, u \in Nat :
           /\ v = VerNum(Newest(x)) /\ u = VerNum(Newest(y))
           /\ v \in SI!VersionsOf(x) /\ u \in SI!VersionsOf(x) /\ u <= v /\ v <= u
    BY <1>1, <2>1, <2>3, NewestCommitted
  <2> QED BY <2>4
<1> QED BY <1>1, WholeCommitsInvariant, PTL

-----------------------------------------------------------------------------
(***************************************************************************)
(* The number of versions behind a version.                                *)
(***************************************************************************)

\* S has the length of every walk along n that ends in T.
Closed(D, T, n, S) ==
    /\ S \in SUBSET (D \X Nat)
    /\ \A v \in T : <<v, 0>> \in S
    /\ \A v \in D \ T, k \in Nat : <<n[v], k>> \in S => <<v, k + 1>> \in S

\* Every walk ends in T.
WalksEnd(D, T, n) ==
    /\ T \subseteq D /\ \A v \in D \ T : n[v] \in D
    /\ \A B \in SUBSET D : (\A v \in B : v \notin T /\ n[v] \in B) => B = {}

\* The function g counts the steps of a walk.
IsLength(D, T, n, g) ==
    g \in [D -> Nat] /\ \A v \in D : g[v] = IF v \in T THEN 0 ELSE 1 + g[n[v]]

\* If all walks end there is a function that counts their steps.
LEMMA LengthExists ==
  ASSUME NEW D, NEW T, NEW n, WalksEnd(D, T, n)
  PROVE  \E g : IsLength(D, T, n, g)
<1> USE DEF WalksEnd
<1> DEFINE G == {p \in D \X Nat : \A S : Closed(D, T, n, S) => p \in S}
           g == [v \in D |-> CHOOSE k \in Nat : <<v, k>> \in G]
<1>1. Closed(D, T, n, G)
  <2>1. \A v \in T : <<v, 0>> \in G
    BY DEF Closed
  <2>2. ASSUME NEW v \in D \ T, NEW k \in Nat, <<n[v], k>> \in G PROVE <<v, k + 1>> \in G
    BY <2>2 DEF Closed
  <2>3. G \in SUBSET (D \X Nat)
    OBVIOUS
  <2> HIDE DEF G
  <2> QED BY <2>1, <2>2, <2>3 DEF Closed
<1>2. ASSUME NEW p \in G PROVE ~Closed(D, T, n, G \ {p})
  OBVIOUS
<1> HIDE DEF G
<1>3. ASSUME NEW v \in T, NEW k \in Nat, <<v, k>> \in G PROVE k = 0
  <2> SUFFICES ASSUME k # 0 PROVE Closed(D, T, n, G \ {<<v, k>>})
    BY <1>2, <1>3
  <2>1. \A u \in T : <<u, 0>> \in G \ {<<v, k>>}
    BY <1>1 DEF Closed
  <2>2. ASSUME NEW u \in D \ T, NEW j \in Nat, <<n[u], j>> \in G
        PROVE  <<u, j + 1>> \in G \ {<<v, k>>}
    BY <1>1, <2>2 DEF Closed
  <2> QED BY <1>1, <2>1, <2>2 DEF Closed
<1>4. ASSUME NEW v \in D \ T, NEW k \in Nat, <<v, k>> \in G
      PROVE  k # 0 /\ k - 1 \in Nat /\ <<n[v], k - 1>> \in G
  <2> SUFFICES ASSUME ~(k # 0 /\ <<n[v], k - 1>> \in G)
               PROVE  Closed(D, T, n, G \ {<<v, k>>})
    BY <1>2, <1>4
  <2>1. \A u \in T : <<u, 0>> \in G \ {<<v, k>>}
    BY <1>1 DEF Closed
  <2>2. ASSUME NEW u \in D \ T, NEW j \in Nat, <<n[u], j>> \in G
        PROVE  <<u, j + 1>> \in G \ {<<v, k>>}
    <3>1. <<u, j + 1>> \in G
      BY <1>1, <2>2 DEF Closed
    <3>2. u = v /\ j + 1 = k => k # 0 /\ <<n[v], k - 1>> \in G
      <4>1. j + 1 = k => k - 1 = j /\ k # 0
        OBVIOUS
      <4> QED BY <2>2, <4>1
    <3> QED BY <3>1, <3>2
  <2> QED BY <1>1, <2>1, <2>2 DEF Closed
<1>5. \A v \in D : \E k \in Nat : <<v, k>> \in G
  <2> DEFINE B == {v \in D : \A k \in Nat : <<v, k>> \notin G}
  <2>1. ASSUME NEW v \in B PROVE v \notin T /\ n[v] \in B
    <3>1. v \in D /\ \A k \in Nat : <<v, k>> \notin G /\ <<v, k + 1>> \notin G
      OBVIOUS
    <3>2. v \notin T
      BY <1>1, <3>1 DEF Closed
    <3>3. \A k \in Nat : <<n[v], k>> \notin G
      BY <1>1, <3>1, <3>2 DEF Closed
    <3> QED BY <3>1, <3>2, <3>3
  <2>2. B = {}
    BY <2>1, Zenon
  <2> QED BY <2>2
<1>6. \A v \in D, j, k \in Nat : <<v, j>> \in G /\ <<v, k>> \in G => j = k
  <2> DEFINE B == {v \in D : \E j, k \in Nat : <<v, j>> \in G /\ <<v, k>> \in G /\ j # k}
  <2>1. ASSUME NEW v \in B PROVE v \notin T /\ n[v] \in B
    <3>1. PICK j \in Nat, k \in Nat : <<v, j>> \in G /\ <<v, k>> \in G /\ j # k
      OBVIOUS
    <3>2. v \notin T
      BY <1>3, <3>1
    <3>3. j - 1 \in Nat /\ k - 1 \in Nat /\ <<n[v], j - 1>> \in G /\ <<n[v], k - 1>> \in G
      BY <1>4, <3>1, <3>2
    <3>4. PICK a \in Nat, b \in Nat : a = j - 1 /\ b = k - 1 /\ a # b
      BY <3>1, <3>3
    <3> QED BY <3>2, <3>3, <3>4
  <2>2. B = {}
    BY <2>1, Zenon
  <2> QED BY <2>2
<1>7. \A v \in D : g[v] \in Nat /\ <<v, g[v]>> \in G
  BY <1>5
<1>8. g \in [D -> Nat]
  BY <1>7
<1> HIDE DEF g
<1>9. ASSUME NEW v \in D PROVE g[v] = IF v \in T THEN 0 ELSE 1 + g[n[v]]
  <2>1. CASE v \in T
    BY <1>3, <1>7, <2>1
  <2>2. CASE v \notin T
    <3>1. g[v] - 1 \in Nat /\ <<n[v], g[v] - 1>> \in G
      BY <1>4, <1>7, <2>2
    <3>2. n[v] \in D /\ g[n[v]] \in Nat /\ <<n[v], g[n[v]]>> \in G
      BY <1>7, <2>2
    <3>3. g[n[v]] = g[v] - 1
      BY <1>6, <3>1, <3>2
    <3>4. \A i, j \in Nat : j = i - 1 => i = 1 + j
      OBVIOUS
    <3>5. g[v] = 1 + g[n[v]]
      BY <1>7, <3>2, <3>3, <3>4
    <3> QED BY <2>2, <3>5
  <2> QED BY <2>1, <2>2
<1> QED BY <1>8, <1>9 DEF IsLength

\* A set of numbers has a smallest element.
LEMMA Minimum ==
  ASSUME NEW S, S \subseteq Nat, S # {}
  PROVE  \E m \in S : \A n \in S : m <= n
<1>1. PICK m \in S : \A y \in S : ~(<<y, m>> \in OpToRel(<, Nat))
  BY NatLessThanWellFounded, WFMin, Zenon
<1>2. \A y \in S : ~(y < m)
  BY <1>1 DEF OpToRel
<1> QED BY <1>2

\* What an object was copied from is committed, and older.
LEMMA OlderFacts ==
  ASSUME Inductive, OlderInv, NEW o \in Obj, other[o] # None
  PROVE  /\ vword[o] \in Log
         /\ other[o] \in Obj /\ vword[other[o]] # Free
         /\ VerNum(o) \in Nat /\ VerNum(other[o]) \in Nat \ {0}
         /\ VerNum(o) # 0 => VerNum(other[o]) < VerNum(o)
<1> USE ConstantsAssumption
<1>1. vword[o] \in Log
  BY DEF Inductive, TypeOK, HeapInv, OlderInv
<1>2. other[o] \in Obj /\ vword[other[o]] # Free /\ VerNum(other[o]) # 0
  BY <1>1 DEF Inductive, HeapInv
<1>3. VerNum(o) \in Nat /\ VerNum(other[o]) \in Nat
  BY <1>1, <1>2, VersionFacts
<1> QED BY <1>1, <1>2, <1>3 DEF OlderInv

\* Every version chain ends.
LEMMA ChainsEnd ==
  ASSUME Inductive, OlderInv, NEW B \in SUBSET Obj,
         \A v \in B : other[v] # None /\ other[v] \in B
  PROVE  B = {}
<1> SUFFICES ASSUME NEW b \in B PROVE FALSE
  OBVIOUS
<1> DEFINE C == {v \in B : VerNum(v) # 0}
           N == {VerNum(v) : v \in C}
<1>1. \A v \in B : other[v] \in C /\ VerNum(v) \in Nat
  BY OlderFacts
<1>2. N \subseteq Nat /\ N # {}
  BY <1>1
<1>3. PICK m \in N : \A k \in N : m <= k
  BY <1>2, Minimum
<1>4. PICK v \in C : m = VerNum(v)
  BY <1>3
<1>5. other[v] \in C /\ VerNum(other[v]) < VerNum(v) /\ VerNum(other[v]) \in Nat /\ VerNum(v) \in Nat
  BY <1>1, <1>4, OlderFacts
<1>6. VerNum(other[v]) \in N
  BY <1>5
<1> QED BY <1>3, <1>4, <1>5, <1>6

\* How often the first version has been written to get version o.
DepthSteps ==
    /\ Depth \in [Obj -> Nat]
    /\ \A o \in Obj : Depth[o] = IF other[o] = None THEN 0 ELSE 1 + Depth[other[o]]

LEMMA DepthStep == ASSUME Inductive, OlderInv PROVE DepthSteps
<1> DEFINE T == {o \in Obj : other[o] = None}
           Is(g) == g = [o \in Obj |-> IF other[o] = None THEN 0 ELSE 1 + g[other[o]]]
<1>1. \A v \in Obj \ T : other[v] \in Obj
  BY DEF Inductive, TypeOK
<1>2. \A B \in SUBSET Obj : (\A v \in B : v \notin T /\ other[v] \in B) => B = {}
  <2> TAKE B \in SUBSET Obj
  <2> HAVE \A v \in B : v \notin T /\ other[v] \in B
  <2> QED BY ChainsEnd
<1>3. WalksEnd(Obj, T, other)
  BY <1>1, <1>2 DEF WalksEnd
<1>4. PICK g : IsLength(Obj, T, other, g)
  BY <1>3, LengthExists, Zenon
<1> USE DEF IsLength
<1>5. Is(g)
  BY <1>4
<1>6. Is(Depth)
  BY <1>5 DEF Depth
<1>7. \A o \in Obj : Depth[o] = IF other[o] = None THEN 0 ELSE 1 + Depth[other[o]]
  <2> DEFINE d == Depth
  <2>1. Is(d)
    BY <1>6
  <2> HIDE DEF d
  <2>2. \A o \in Obj : d[o] = IF other[o] = None THEN 0 ELSE 1 + d[other[o]]
    BY <2>1
  <2> QED BY <2>2 DEF d
<1>8. DOMAIN Depth = Obj
  BY <1>6
<1>9. \A o \in Obj : Depth[o] = g[o]
  <2> DEFINE B == {o \in Obj : Depth[o] # g[o]}
  <2>1. ASSUME NEW v \in B PROVE other[v] # None /\ other[v] \in B
    BY <1>1, <1>4, <1>7
  <2>2. B = {}
    BY <2>1, ChainsEnd
  <2> QED BY <2>2
<1>10. Depth \in [Obj -> Nat]
  BY <1>4, <1>6, <1>8, <1>9
<1> QED BY <1>7, <1>10 DEF DepthSteps

\* It holds before and after a step.
LEMMA DepthAlways ==
  /\ Inductive /\ OlderInv => DepthSteps
  /\ (Inductive /\ OlderInv)' => DepthSteps'
<1>1. Inductive /\ OlderInv => DepthSteps
  BY DepthStep
<1> QED BY <1>1, PTL

-----------------------------------------------------------------------------
(***************************************************************************)
(* A run is counted once, when it commits.                                 *)
(***************************************************************************)

\* The steps that do not touch the heap or allocate objects.
LEMMA ObjectsOf ==
  ASSUME NEW t \in Threads, Step(t, OnError)
  PROVE  /\ Swizzle(t) \/ SwizzleClone(t) \/ CopyOnWrite(t) \/ UNCHANGED <<vword, other>>
         /\ \/ Swizzle(t) \/ Perform(t) \/ ptr' = ptr
            \/ \E w \in wset[t] : Rollback(t, w)
  BY DEF Step, Begin, Read, ReadForWrite, Write, Call, Swizzle, Reload, SwizzleClone,
     ReadReturns, ReadOlder, CopyOnWrite, OperationFails, NoAvailableMemory, Perform,
     PerformFails, CommitReadOnly, CommitLock, CommitStore, Validate, ValidateFails,
     ValidatePanics, ClosureFails, AbortDone, Rollback, heapVars

\* The newest committed version of a pointer in memory.
LEMMA NewestFacts ==
  ASSUME Inductive, NEW x \in Ptrs, ptr[x] # Block
  PROVE  /\ ptr[x] \in Obj /\ vword[ptr[x]] # Free
         /\ Newest(x) \in Obj /\ vword[Newest(x)] # Free /\ VerNum(Newest(x)) # 0
<1>1. ptr[x] \in Obj /\ chain[ptr[x]] = x
  BY DEF Inductive, TypeOK, HeadInv
<1>2. vword[ptr[x]] # Free
  BY <1>1, ConstantsAssumption DEF Inductive, HeapInv
<1> QED BY <1>1, <1>2, VersionFacts DEF Newest

\* Only a commit changes the newest committed version of a pointer: what Perform swaps in
\* is not committed, and Rollback puts the version back that was there.
LEMMA NewestStays ==
  ASSUME Inductive, Refining, NEW t \in Threads, Step(t, OnError), ~CommitStore(t),
         NEW x \in Ptrs, ptr[x] # Block
  PROVE  Newest(x)' = Newest(x)
<1> USE ConstantsAssumption
<1>0. PICK h \in Obj : h = ptr[x] /\ vword[h] # Free
  BY NewestFacts
<1>1. Stable
  BY StepStable
<1>2. VerNum(h)' = VerNum(h) /\ other'[h] = other[h]
  BY <1>0, <1>1 DEF Stable
<1>3. CASE ptr'[x] = ptr[x]
  BY <1>0, <1>2, <1>3 DEF Newest
<1>4. CASE Perform(t) /\ ptr'[x] # ptr[x]
  <2>1. /\ pc[t] = "swap" /\ x = arg[t] /\ ptr[x] = NewByte(addr[t])
        /\ ptr'[x] = new[t] /\ UNCHANGED <<vword, other, cell>>
    BY <1>4 DEF Perform, Swap, Inductive, TypeOK, OpInv
  <2>2. cur[t] = h /\ VerNum(h) # 0
    BY <1>0, <2>1 DEF NewByte, Inductive, TypeOK, OpInv, Visible
  <2>3. PICK n \in Obj : /\ n = new[t] /\ vword[n] = tlog[t] /\ other[n] = h
                         /\ tlog[t] \in Log /\ cell[tlog[t]] = 0
    BY <2>1, <2>2 DEF Inductive, TypeOK, OpInv, ThreadInv
  <2>4. VerNum(n)' = 0 /\ VerNum(n) = 0
    BY <2>1, <2>3 DEF VerNum
  <2> QED BY <1>0, <2>1, <2>2, <2>3, <2>4 DEF Newest
<1>5. CASE (\E w \in wset[t] : Rollback(t, w)) /\ ptr'[x] # ptr[x]
  <2>1. PICK w \in wset[t] : Rollback(t, w)
    BY <1>5
  <2>2. w.new = h /\ ptr'[x] = w.current /\ UNCHANGED <<vword, other, cell>>
    BY <1>0, <1>5, <2>1 DEF Rollback, Inductive, TypeOK
  <2>3. vword[h] = tlog[t] /\ other[h] = w.current /\ tlog[t] \in Log /\ cell[tlog[t]] = 0
    BY <2>1, <2>2 DEF Inductive, TypeOK, WriteInv, ThreadInv
  <2>4. VerNum(h) = 0 /\ VerNum(other[h])' = VerNum(other[h])
    BY <2>2, <2>3 DEF VerNum
  <2>5. VerNum(other[h]) # 0
    BY <1>0, <2>4, VersionFacts
  <2> QED BY <1>0, <2>2, <2>3, <2>4, <2>5 DEF Newest
<1>6. CASE Swizzle(t) /\ ptr'[x] # ptr[x]
  BY <1>6 DEF Swizzle, Inductive, TypeOK
<1> QED BY <1>3, <1>4, <1>5, <1>6, ObjectsOf

\* No step changes the order of the versions.
LEMMA StepOlder ==
  ASSUME Inductive, Refining, OlderInv, NEW t \in Threads, Step(t, OnError)
  PROVE  /\ OlderInv'
         /\ \A o \in Obj : vword[o] # Free => vword'[o] = vword[o] /\ other'[o] = other[o]
<1> USE ConstantsAssumption
<1>1. CASE CommitStore(t)
  <2>1. PICK l \in Log : /\ l = tlog[t] /\ cell[l] = 0
                         /\ cell' = [cell EXCEPT ![l] = clock]
                         /\ UNCHANGED <<vword, other>>
    BY <1>1 DEF CommitStore, Inductive, TypeOK, ThreadInv
  <2>2. clock \in Nat /\ clock > 1 /\ cell \in [Log -> Nat] /\ \A k \in Log : cell[k] < clock
    BY <1>1 DEF CommitStore, Inductive, TypeOK, ClockInv, ThreadInv
  <2>3. ASSUME NEW o \in Obj, other[o] # None, VerNum(o)' # 0 PROVE (VerNum(other[o]) < VerNum(o))'
    <3>1. /\ vword[o] \in Log /\ other[o] \in Obj /\ VerNum(other[o]) # 0
          /\ VerNum(o) # 0 => VerNum(other[o]) < VerNum(o)
          /\ vword[other[o]] \in Log \cup {Base}
      BY <2>3, OlderFacts DEF Inductive, TypeOK
    <3>2. VerNum(other[o])' = VerNum(other[o]) /\ VerNum(other[o]) < clock
      BY <2>1, <2>2, <3>1 DEF VerNum
    <3>3. VerNum(o)' = VerNum(o) \/ VerNum(o)' = clock
      BY <2>1, <2>2, <3>1 DEF VerNum
    <3> QED BY <2>1, <2>3, <3>1, <3>2, <3>3
  <2> QED BY <2>1, <2>3 DEF OlderInv
<1>2. CASE ~CommitStore(t)
  <2>1. Stable
    BY <1>2, StepStable
  <2>2. ASSUME NEW o \in Obj, vword[o] = Free
        PROVE  \/ vword'[o] = Free /\ other'[o] = None
               \/ vword'[o] # Free /\ (other'[o] = None \/ VerNum(o)' = 0)
    <3>1. other[o] = None
      BY <2>2 DEF OlderInv
    <3>2. CASE Swizzle(t) \/ SwizzleClone(t)
      <4>1. PICK f \in Obj : vword' = [vword EXCEPT ![f] = Base] /\ other' = [other EXCEPT ![f] = None]
        BY <3>2 DEF Swizzle, SwizzleClone, InitObject, Fresh
      <4> QED BY <2>2, <3>1, <4>1 DEF Inductive, TypeOK
    <3>3. CASE CopyOnWrite(t)
      <4>1. PICK f \in Obj : /\ vword' = [vword EXCEPT ![f] = tlog[t]]
                             /\ other' = [other EXCEPT ![f] = cur[t]] /\ cell' = cell
        BY <3>3 DEF CopyOnWrite, InitObject, Fresh
      <4>2. tlog[t] \in Log /\ cell[tlog[t]] = 0
        BY <3>3 DEF CopyOnWrite, Inductive, TypeOK, ThreadInv
      <4> QED BY <2>2, <3>1, <4>1, <4>2 DEF Inductive, TypeOK, VerNum
    <3>4. CASE UNCHANGED <<vword, other>>
      BY <2>2, <3>1, <3>4
    <3> QED BY <3>2, <3>3, <3>4, ObjectsOf
  <2>3. ASSUME NEW o \in Obj, vword[o] # Free, other'[o] # None, VerNum(o)' # 0
        PROVE  (VerNum(other[o]) < VerNum(o))'
    <3>1. other'[o] = other[o] /\ VerNum(o)' = VerNum(o)
      BY <2>1, <2>3 DEF Stable
    <3>2. other[o] \in Obj /\ vword[other[o]] # Free /\ VerNum(other[o]) < VerNum(o)
      BY <2>3, <3>1, OlderFacts
    <3>3. VerNum(other[o])' = VerNum(other[o])
      BY <2>1, <3>1, <3>2 DEF Stable, VerNum
    <3> QED BY <3>1, <3>2, <3>3
  <2>4. \A o \in Obj : vword[o] # Free => vword'[o] # Free
    BY <2>1 DEF Stable
  <2> QED BY <2>1, <2>2, <2>3, <2>4 DEF OlderInv, Stable
<1> QED BY <1>1, <1>2

\* The number of versions behind a version does not change.
LEMMA DepthStays ==
  ASSUME Inductive, OlderInv, Inductive', OlderInv', NEW o \in Obj, vword[o] # Free,
         \A v \in Obj : vword[v] # Free => other'[v] = other[v]
  PROVE  Depth'[o] = Depth[o]
<1> DEFINE B == {v \in Obj : vword[v] # Free /\ Depth'[v] # Depth[v]}
<1>1. /\ \A v \in Obj : Depth[v] = IF other[v] = None THEN 0 ELSE 1 + Depth[other[v]]
      /\ \A v \in Obj : Depth'[v] = IF other'[v] = None THEN 0 ELSE 1 + Depth'[other'[v]]
  BY DepthAlways DEF DepthSteps
<1>2. ASSUME NEW v \in B PROVE other[v] # None /\ other[v] \in B
  <2>1. other[v] # None /\ Depth'[other[v]] # Depth[other[v]]
    BY <1>1
  <2> QED BY <2>1, OlderFacts
<1>3. B = {}
  BY <1>2, ChainsEnd
<1> QED BY <1>3

\* The runs that are counted for a pointer.
Counted(x) == {t \in Threads : result[t] = "ok" /\ Writes(t, x)}

\* Which of the steps of a thread commits.
LEMMA CommitOrNot ==
  ASSUME Inductive, Counting, NEW t \in Threads, LoopStep(t)
  PROVE  /\ closure' = closure
         /\ CommitStore(t) => result' = [result EXCEPT ![t] = "ok"]
         /\ ~CommitStore(t) =>
               \/ result' = result
               \/ result[t] = "running" /\ result' = [result EXCEPT ![t] = "error"]
               \/ /\ result' = [result EXCEPT ![t] = "ok"]
                  /\ Finished(t) /\ CommitReadOnly(t)
<1>1. closure' = closure
  BY DEF LoopStep, StartAttempt, CallNext, Copy, Fetch, OutOfMemory, Conflict, Internal,
         Silent, loopVars, ReturnOk, EndAttempt
<1>2. pc \in [Threads -> Labels]
  BY DEF Inductive, TypeOK
<1>3. CASE StartAttempt(t) \/ CallNext(t) \/ Copy(t) \/ Fetch(t) \/ OutOfMemory(t)
  <2>1. result' = result /\ pc[t] # "validate"
    BY <1>3 DEF StartAttempt, Begin, CallNext, Copy, CopyOnWrite, Fetch, Swizzle, SwizzleClone,
       OutOfMemory, NoAvailableMemory
  <2> QED BY <1>1, <2>1 DEF CommitStore
<1>4. CASE Conflict(t) \/ Internal(t)
  <2>1. result' = result
    BY <1>4 DEF Conflict, Internal, Silent, loopVars
  <2>2. CASE pc[t] # "validate"
    BY <1>1, <2>1, <2>2 DEF CommitStore
  <2>3. CASE pc[t] = "validate"
    <3>1. \E p \in Ptrs : ValidateFails(t, p) \/ Validate(t, p)
      BY <1>4, <2>3 DEF Conflict, Internal, OperationFails, PerformFails, Reload, ReadReturns,
         ReadOlder, Perform, CommitLock, Rollback
    <3>2. pc'[t] \in {"validate", "abort"}
      BY <1>2, <2>3, <3>1 DEF ValidateFails, Validate, Goto
    <3>3. CommitStore(t) => pc'[t] = "idle"
      BY <1>2 DEF CommitStore, DropTransaction, Goto
    <3> QED BY <1>1, <2>1, <3>2, <3>3
  <2> QED BY <2>2, <2>3
<1>5. CASE ReturnOk(t)
  BY <1>1, <1>5 DEF ReturnOk
<1>6. CASE EndAttempt(t)
  <2>1. pc[t] = "abort" /\ result[t] = "running"
    BY <1>6 DEF EndAttempt, AbortDone, Counting
  <2>2. result' = result \/ result' = [result EXCEPT ![t] = "error"]
    BY <1>6 DEF EndAttempt, Counting
  <2> QED BY <1>1, <2>1, <2>2 DEF CommitStore
<1> QED BY <1>3, <1>4, <1>5, <1>6 DEF LoopStep

\* A transaction that is about to commit has written what its closure writes.
LEMMA AllWritten ==
  ASSUME Inductive, WholeCommits, NEW t \in Threads,
         pc[t] = "validate" \/ (pc[t] = "run" /\ Finished(t))
  PROVE  \A x \in Ptrs : Writes(t, x) <=> \E w \in wset[t] : w.dst = x
<1>1. at[t] - 1 = Len(closure[t]) /\ WrittenTo(t) = WrittenBy(t, at[t] - 1)
  BY ClosureFacts DEF WholeCommits, Progress, Finished
<1>2. closure \in Programs
  BY DEF WholeCommits
<1> QED BY <1>1, <1>2, WritesFacts DEF WrittenTo

\* The parts of Counting about the results.
LEMMA ResultsKept ==
  ASSUME Inductive, Refining, WholeCommits, Counting, NEW t \in Threads, LoopStep(t)
  PROVE  /\ result' \in [Threads -> {"running", "ok", "error"}]
         /\ \A u \in Threads : u # t => result'[u] = result[u]
         /\ \A u \in Threads : pc'[u] # "idle" => result'[u] = "running"
         /\ \A u, x : Writes(u, x)' = Writes(u, x)
<1>0. result \in [Threads -> {"running", "ok", "error"}]
  BY DEF Counting
<1>1. /\ result' \in [Threads -> {"running", "ok", "error"}]
      /\ \A u \in Threads : u # t => result'[u] = result[u]
  BY <1>0, CommitOrNot
<1>2. ASSUME NEW u \in Threads, u # t, pc'[u] # "idle" PROVE result'[u] = "running"
  <2>1. Step(t, OnError)
    BY LoopStepIsStep DEF WholeCommits, Step, OnError
  <2>2. pc'[u] = pc[u]
    BY <1>2, <2>1, StepOthers DEF Others
  <2> QED BY <1>1, <1>2, <2>2 DEF Counting
<1>3. ASSUME pc'[t] # "idle" PROVE result'[t] = "running"
  <2>1. pc \in [Threads -> Labels]
    BY DEF Inductive, TypeOK
  <2>2. ~ReturnOk(t) /\ ~EndAttempt(t)
    BY <1>3, <2>1 DEF ReturnOk, CommitReadOnly, CommitStore, EndAttempt, AbortDone, DropTransaction, Goto
  <2>3. result' = result
    BY <2>2 DEF LoopStep, StartAttempt, CallNext, Copy, Fetch, OutOfMemory, Conflict, Internal,
       Silent, loopVars
  <2>4. pc[t] # "idle" \/ result[t] = "running"
    BY <2>2 DEF LoopStep, StartAttempt, CallNext, Copy, CopyOnWrite, Fetch, Swizzle, SwizzleClone,
       OutOfMemory, NoAvailableMemory, Conflict, OperationFails, PerformFails, ValidateFails,
       Internal, Reload, ReadReturns, ReadOlder, Perform, CommitLock, Validate, Rollback
  <2> QED BY <2>3, <2>4 DEF Counting
<1>4. \A u, x : Writes(u, x)' = Writes(u, x)
  BY CommitOrNot DEF Writes, Range
<1> QED BY <1>1, <1>2, <1>3, <1>4

\* No attempt but one that commits a write is counted.
LEMMA CountedStays ==
  ASSUME Inductive, Refining, WholeCommits, Counting, NEW t \in Threads, LoopStep(t), NEW x \in Ptrs,
         ~CommitStore(t) \/ ~Writes(t, x)
  PROVE  Counted(x)' = Counted(x)
<1>1. \A u \in Threads : (result'[u] = "ok" /\ Writes(u, x)) <=> (result[u] = "ok" /\ Writes(u, x))
  <2> SUFFICES ASSUME Writes(t, x), ~CommitStore(t) PROVE result'[t] = "ok" <=> result[t] = "ok"
    BY ResultsKept
  <2>1. ASSUME Finished(t), CommitReadOnly(t) PROVE FALSE
    <3>1. pc[t] = "run" /\ tlog[t] = None
      BY <2>1 DEF CommitReadOnly
    <3>2. wset[t] = {}
      BY <3>1 DEF Inductive, ThreadInv
    <3> QED BY <2>1, <3>1, <3>2, AllWritten
  <2>2. result \in [Threads -> {"running", "ok", "error"}]
    BY DEF Counting
  <2> QED BY <2>1, <2>2, CommitOrNot
<1> QED BY <1>1, ResultsKept DEF Counted

\* A step that commits nothing.
LEMMA OtherStepCounts ==
  ASSUME Inductive, Refining, WholeCommits, Counting, Inductive', NEW t \in Threads, LoopStep(t),
         ~CommitStore(t), NEW x \in Ptrs
  PROVE  /\ ptr'[x] = Block => Counted(x)' = {}
         /\ ptr'[x] # Block => Depth'[Newest(x)'] = Cardinality(Counted(x)')
<1> USE ConstantsAssumption
<1>1. Step(t, OnError)
  BY LoopStepIsStep DEF WholeCommits, Step, OnError
<1>2. Counted(x)' = Counted(x)
  BY CountedStays
<1>3. /\ OlderInv /\ OlderInv'
      /\ \A o \in Obj : vword[o] # Free => vword'[o] = vword[o] /\ other'[o] = other[o]
  BY <1>1, StepOlder DEF Counting
<1>4. CASE ptr[x] # Block
  <2>1. ptr'[x] # Block /\ Newest(x)' = Newest(x)
    BY <1>1, <1>4, StaysInMemory, NewestStays
  <2>2. Newest(x) \in Obj /\ vword[Newest(x)] # Free
    BY <1>4, NewestFacts
  <2>3. Depth'[Newest(x)] = Depth[Newest(x)]
    BY <1>3, <2>2, DepthStays
  <2> QED BY <1>2, <1>4, <2>1, <2>3 DEF Counting, CounterExact, Counted
<1>5. CASE ptr[x] = Block
  <2>1. Counted(x) = {}
    BY <1>5 DEF Counting, Counted
  <2>2. ASSUME ptr'[x] # Block PROVE Depth'[Newest(x)'] = 0
    <3>1. Swizzle(t)
      <4>1. ASSUME Perform(t) PROVE FALSE
        BY <1>5, <2>2, <4>1 DEF Perform, Swap, NewByte, Inductive, TypeOK, OpInv
      <4>2. ASSUME NEW w \in wset[t], Rollback(t, w) PROVE FALSE
        BY <1>5, <2>2, <4>2 DEF Rollback, Inductive, TypeOK, WriteInv, TransactionWrite
      <4> QED BY <1>1, <1>5, <2>2, <4>1, <4>2, ObjectsOf
    <3>2. PICK o \in Obj : /\ ptr'[x] = o /\ vword'[o] = Base /\ other'[o] = None
      BY <1>5, <2>2, <3>1 DEF Swizzle, InitObject, Fresh, Inductive, TypeOK
    <3>3. Newest(x)' = o
      BY <3>2 DEF Newest, VerNum
    <3>4. DepthSteps'
      BY <1>3, DepthAlways
    <3> QED BY <3>2, <3>3, <3>4 DEF DepthSteps
  <2> QED BY <1>2, <2>1, <2>2, FS_EmptySet
<1> QED BY <1>4, <1>5

\* A commit makes one more version of every pointer that its closure writes, and its run
\* is counted for these.
LEMMA CommitCounts ==
  ASSUME Inductive, Refining, WholeCommits, Counting, Inductive', NEW t \in Threads, LoopStep(t),
         CommitStore(t), NEW x \in Ptrs
  PROVE  /\ ptr'[x] = Block => Counted(x)' = {}
         /\ ptr'[x] # Block => Depth'[Newest(x)'] = Cardinality(Counted(x)')
<1> USE ConstantsAssumption
<1>1. Step(t, OnError)
  BY LoopStepIsStep DEF WholeCommits, Step, OnError
<1>2. /\ OlderInv /\ OlderInv'
      /\ \A o \in Obj : vword[o] # Free => vword'[o] = vword[o] /\ other'[o] = other[o]
  BY <1>1, StepOlder DEF Counting
<1>3. PICK l \in Log : /\ pc[t] = "validate" /\ l = tlog[t] /\ cell[l] = 0
                       /\ cell' = [cell EXCEPT ![l] = clock]
                       /\ UNCHANGED <<ptr, vword, other>>
  BY DEF CommitStore, Inductive, TypeOK, ThreadInv
<1>4. clock # 0 /\ cell \in [Log -> Nat]
  BY DEF Inductive, TypeOK, ClockInv
<1>5. \A o \in Obj : vword[o] # Free => Depth'[o] = Depth[o]
  BY <1>2, DepthStays
<1>6. CASE Writes(t, x)
  <2>1. PICK w \in wset[t] : w.dst = x
    BY <1>3, <1>6, AllWritten
  <2>2. w.new \in Obj /\ ptr[x] = w.new /\ vword[w.new] = l /\ VerNum(w.new) = 0
    BY <1>3, <2>1 DEF Inductive, TypeOK, TransactionWrite, WriteInv, VerNum
  <2>3. ptr[x] # Block /\ Newest(x) = other[w.new] /\ other[w.new] # None
    BY <1>3, <2>2, VersionFacts DEF Newest
  <2>4. VerNum(w.new)' = clock
    BY <1>3, <1>4, <2>2 DEF VerNum
  <2>5. Newest(x)' = w.new
    BY <1>3, <1>4, <2>2, <2>4 DEF Newest
  <2>6. Depth[w.new] = 1 + Depth[Newest(x)] /\ Depth[Newest(x)] \in Nat
    <3>1. DepthSteps /\ Newest(x) \in Obj
      BY <1>2, <2>3, DepthAlways, NewestFacts
    <3> QED BY <2>2, <2>3, <3>1 DEF DepthSteps
  <2>7. Depth'[w.new] = Depth[w.new]
    BY <1>5, <2>2
  <2>8. Depth[Newest(x)] = Cardinality(Counted(x))
    BY <2>3 DEF Counting, CounterExact, Counted
  <2>9. t \notin Counted(x) /\ Counted(x)' = Counted(x) \cup {t}
    <3>1. result[t] = "running" /\ result'[t] = "ok"
      BY <1>3, CommitOrNot DEF Counting
    <3> QED BY <1>6, <3>1, ResultsKept DEF Counted
  <2>10. IsFiniteSet(Counted(x))
    BY ThreadsAssumption, FS_Subset DEF Counted
  <2>11. Cardinality(Counted(x)') = Cardinality(Counted(x)) + 1
    BY <2>9, <2>10, FS_AddElement
  <2>12. Depth'[Newest(x)'] = Cardinality(Counted(x)')
    BY <2>5, <2>6, <2>7, <2>8, <2>11
  <2> QED BY <1>3, <2>3, <2>12
<1>7. CASE ~Writes(t, x)
  <2>1. Counted(x)' = Counted(x)
    BY <1>7, CountedStays
  <2>2. CASE ptr[x] = Block
    BY <1>3, <2>1, <2>2 DEF Counting, Counted
  <2>3. CASE ptr[x] # Block
    <3>1. PICK h \in Obj : h = ptr[x] /\ chain[h] = x /\ vword[h] # Free
      BY <2>3, NewestFacts DEF Inductive, HeadInv
    <3>2. vword[h] # l
      <4> SUFFICES ASSUME vword[h] = l PROVE FALSE
        OBVIOUS
      <4>1. VerNum(h) = 0
        BY <1>3 DEF VerNum
      <4>2. PICK u \in Threads : \E w \in wset[u] : w.new = h /\ w.dst = x
        BY <3>1, <4>1 DEF Refining, OwnerInv
      <4>3. tlog[u] = l
        BY <4>2 DEF Inductive, WriteInv
      <4>4. u = t
        BY <1>3, <4>3 DEF Inductive, ThreadInv
      <4> QED BY <1>3, <1>7, <4>2, <4>4, AllWritten
    <3>3. VerNum(h)' = VerNum(h)
      BY <1>3, <3>2 DEF VerNum
    <3>4. Newest(x)' = Newest(x)
      BY <1>3, <3>1, <3>3 DEF Newest
    <3>5. Depth'[Newest(x)] = Depth[Newest(x)]
      BY <1>5, <2>3, NewestFacts
    <3>6. Depth[Newest(x)] = Cardinality(Counted(x))
      BY <2>3 DEF Counting, CounterExact, Counted
    <3> QED BY <1>3, <2>1, <2>3, <3>4, <3>5, <3>6
  <2> QED BY <2>2, <2>3
<1> QED BY <1>6, <1>7

\* Every step of the run loop counts correctly.
LEMMA LoopNextCounting ==
  Inductive /\ Refining /\ WholeCommits /\ Counting /\ Inductive' /\ [LoopNext]_runVars => Counting'
<1> SUFFICES ASSUME Inductive, Refining, WholeCommits, Counting, Inductive', [LoopNext]_runVars
             PROVE  Counting'
  OBVIOUS
<1>1. CASE UNCHANGED runVars
  <2>1. UNCHANGED <<closure, result, pc, ptr, other, vword, cell>>
    BY <1>1 DEF runVars, vars, heapVars, txVars, opVars, loopVars
  <2>2. Depth' = Depth
    BY <2>1 DEF Depth
  <2>3. \A o : VerNum(o)' = VerNum(o)
    BY <2>1 DEF VerNum
  <2>4. \A x : Newest(x)' = Newest(x)
    BY <2>1, <2>3 DEF Newest
  <2>5. \A u, x : Writes(u, x)' = Writes(u, x)
    BY <2>1 DEF Writes, Range
  <2>6. OlderInv'
    BY <2>1, <2>3 DEF Counting, OlderInv
  <2>7. CounterExact'
    BY <2>1, <2>2, <2>4, <2>5 DEF Counting, CounterExact
  <2> QED BY <2>1, <2>5, <2>6, <2>7 DEF Counting
<1>2. ASSUME NEW t \in Threads, LoopStep(t) PROVE Counting'
  <2>1. OlderInv'
    BY <1>2, LoopStepIsStep, StepOlder DEF WholeCommits, Step, OnError, Counting
  <2>2. \A x \in Ptrs : /\ ptr'[x] = Block => Counted(x)' = {}
                        /\ ptr'[x] # Block => Depth'[Newest(x)'] = Cardinality(Counted(x)')
    BY <1>2, OtherStepCounts, CommitCounts
  <2>3. CounterExact'
    BY <2>2 DEF CounterExact, Counted
  <2>4. \A x \in Ptrs, u \in Threads : ptr'[x] = Block /\ result'[u] = "ok" => ~Writes(u, x)'
    BY <2>2 DEF Counted
  <2> QED BY <1>2, <2>1, <2>3, <2>4, ResultsKept DEF Counting
<1> QED BY <1>1, <1>2 DEF LoopNext

\* It holds when the threads start.
LEMMA LoopInitCounting == LoopInit => Counting
<1> SUFFICES ASSUME LoopInit PROVE Counting
  OBVIOUS
<1> USE ConstantsAssumption
<1>1. Inductive
  BY InitInductive DEF LoopInit
<1>2. OlderInv
  BY DEF LoopInit, Init, OlderInv
<1>3. DepthSteps
  BY <1>1, <1>2, DepthAlways
<1>4. ASSUME NEW x \in Ptrs, ptr[x] # Block
      PROVE  Depth[Newest(x)] = Cardinality({t \in Threads : result[t] = "ok" /\ Writes(t, x)})
  <2>1. Newest(x) \in Obj
    BY <1>1, <1>4, NewestFacts
  <2>2. other[Newest(x)] = None
    BY <2>1 DEF LoopInit, Init
  <2>3. Depth[Newest(x)] = 0
    BY <1>3, <2>1, <2>2 DEF DepthSteps
  <2>4. {t \in Threads : result[t] = "ok" /\ Writes(t, x)} = {}
    BY DEF LoopInit
  <2> QED BY <2>3, <2>4, FS_EmptySet
<1>5. /\ result \in [Threads -> {"running", "ok", "error"}]
      /\ \A t \in Threads : pc[t] = "idle" /\ result[t] = "running"
  BY DEF LoopInit, Init
<1> QED BY <1>2, <1>4, <1>5 DEF Counting, CounterExact

\* A run is counted once, when it commits, and never for an attempt that was retried.
THEOREM CountingInvariant == LoopSpec => []Counting
<1> QED BY LoopInitCounting, LoopNextCounting, LoopSafety, WholeCommitsInvariant, PTL

\* What tests::counter asserts: the newest version of every pointer has been written once
\* by each run that returned Ok, however often its attempts were aborted and retried.
THEOREM EveryRunCountsOnce == LoopSpec => []CounterExact
<1>1. Counting => CounterExact
  BY DEF Counting
<1> QED BY <1>1, CountingInvariant, PTL

=============================================================================
