------------------------------ MODULE RunLoop ------------------------------
(***************************************************************************)
(* Librarius::run: a closure is executed as a transaction of Mvcc, and     *)
(* again while it ends in TxAborted. Every thread runs one closure, a      *)
(* sequence of operations that returns the first error it gets.            *)
(*                                                                         *)
(* A transaction has an allocator for its version cell and one for its     *)
(* objects. Each takes a whole page when it is first used and nothing      *)
(* gives pages back, so retries use memory up. The objects of one closure  *)
(* are assumed to fit into one page.                                       *)
(***************************************************************************)
EXTENDS MvccInvariant, SequencesExt

CONSTANTS
    Programs,   \* what an application may be: the closure of every thread
    Pages       \* bound: free pages of memory when the threads start

Operation == [op : {"read", "rfw", "write"}, ptr : Ptrs]

\* A closure is a sequence of calls of read, read_for_write and write.
ASSUME ProgramsAssumption == Programs \subseteq [Threads -> Seq(Operation)]

\* An application has finitely many threads.
ASSUME ThreadsAssumption == IsFiniteSet(Threads)

VARIABLES
    closure,    \* the closure of a thread
    at,         \* the operation of the closure that is next
    active,     \* GenericAllocator.active of the object allocator is there
    error,      \* the error the closure or the commit returned
    result,     \* what run has returned
    pages       \* free pages of memory

loopVars == <<closure, at, active, error, result, pages>>
runVars == <<vars, loopVars>>

\* A step of the transaction that says nothing about the loop around it.
Silent == UNCHANGED loopVars

-----------------------------------------------------------------------------
(***************************************************************************)
(* The closures of the tests.                                              *)
(***************************************************************************)

Op(o, x) == [op |-> o, ptr |-> x]

\* tests::counter: every thread increments the root.
Counter(root) == <<Op("write", root)>>

\* tests::switcharoo: every thread sets all tuples to its value.
Switcharoo(root, tuples) ==
    <<Op("read", root)>> \o [i \in DOMAIN tuples |-> Op("write", tuples[i])]

-----------------------------------------------------------------------------

LoopInit ==
    /\ Init
    /\ closure \in Programs
    /\ at = [t \in Threads |-> 1]
    /\ active = [t \in Threads |-> FALSE]
    /\ error = [t \in Threads |-> "none"]
    /\ result = [t \in Threads |-> "running"]
    /\ pages = Pages

Finished(t) == at[t] > Len(closure[t])
NextOp(t) == closure[t][at[t]]

\* las.alloc: a page is taken if one is needed.
TakePage(needed) ==
    /\ needed => pages > 0
    /\ pages' = IF needed THEN pages - 1 ELSE pages

\* Transaction::new, unless run has returned.
StartAttempt(t) ==
    /\ result[t] = "running"
    /\ Begin(t)
    /\ at' = [at EXCEPT ![t] = 1]
    /\ active' = [active EXCEPT ![t] = FALSE]
    /\ error' = [error EXCEPT ![t] = "none"]
    /\ UNCHANGED <<closure, result, pages>>

\* The next operation of the closure is called.
CallNext(t) ==
    /\ pc[t] = "run" /\ ~Finished(t)
    /\ at' = [at EXCEPT ![t] = @ + 1]
    /\ LET c == NextOp(t) IN
       \/ c.op = "read" /\ Read(t, c.ptr) /\ UNCHANGED pages
       \/ c.op = "rfw" /\ ReadForWrite(t, c.ptr) /\ UNCHANGED pages
       \/ c.op = "write" /\ Write(t, c.ptr) /\ TakePage(tlog[t] = None)
    /\ UNCHANGED <<closure, active, error, result>>

\* The copy that write makes, in the page of the transaction's object allocator.
Copy(t) ==
    /\ CopyOnWrite(t)
    /\ TakePage(~active[t])
    /\ active' = [active EXCEPT ![t] = TRUE]
    /\ UNCHANGED <<closure, at, error, result>>

\* VersionedReader::read fetches an object: always into a page of its own.
Fetch(t) ==
    /\ Swizzle(t) \/ SwizzleClone(t)
    /\ TakePage(TRUE)
    /\ UNCHANGED <<closure, at, active, error, result>>

\* A page is needed and there is none.
OutOfMemory(t) ==
    /\ pages = 0
    /\ \/ pc[t] = "run" /\ ~Finished(t) /\ NextOp(t).op = "write"
       \/ cur[t] = Block
       \/ pc[t] = "write" /\ ~active[t]
    /\ NoAvailableMemory(t, "abort")
    /\ error' = [error EXCEPT ![t] = "NoAvailableMemory"]
    /\ UNCHANGED <<closure, at, active, result, pages>>

\* An operation or the commit meets a conflict.
Conflict(t) ==
    /\ \/ pc[t] \in {"rfw", "write"} /\ OperationFails(t, "abort")
       \/ PerformFails(t, "abort")
       \/ \E p \in Ptrs : ValidateFails(t, p)
    /\ error' = [error EXCEPT ![t] = "TxAborted"]
    /\ UNCHANGED <<closure, at, active, result, pages>>

Internal(t) ==
    /\ \/ Reload(t) \/ ReadReturns(t) \/ ReadOlder(t) \/ Perform(t)
       \/ Finished(t) /\ CommitLock(t)
       \/ \E p \in Ptrs : Validate(t, p)
       \/ \E w \in wset[t] : Rollback(t, w)
    /\ Silent

\* run_once and run return Ok.
ReturnOk(t) ==
    /\ \/ Finished(t) /\ CommitReadOnly(t)
       \/ CommitStore(t)
    /\ result' = [result EXCEPT ![t] = "ok"]
    /\ UNCHANGED <<closure, at, active, error, pages>>

\* Deliberately wrong, for the mutation runs: every error is retried.
EndAttemptRetries(t) ==
    /\ AbortDone(t)
    /\ Silent

\* run_once returns an error: run starts over after TxAborted, and returns
\* every other one.
EndAttempt(t) ==
    /\ AbortDone(t)
    /\ result' = [result EXCEPT ![t] = IF error[t] = "TxAborted" THEN @ ELSE "error"]
    /\ UNCHANGED <<closure, at, active, error, pages>>

LoopStep(t) ==
    \/ StartAttempt(t) \/ CallNext(t) \/ Copy(t) \/ Fetch(t) \/ OutOfMemory(t)
    \/ Conflict(t) \/ Internal(t) \/ ReturnOk(t) \/ EndAttempt(t)

\* Which object or version cell an allocation returns makes no difference, so
\* one of those that are left is enough.
InOrder ==
    /\ \A o \in Fresh : vword'[o] # Free => o = CHOOSE x \in Fresh : TRUE
    /\ \A l \in Log \ logs : l \in logs' => l = CHOOSE x \in Log \ logs : TRUE

LoopNext == \E t \in Threads : LoopStep(t) /\ InOrder

\* Every thread keeps running: a thread that can go on does so, and a thread
\* that waits for the version lock gets it once it stays free.
LoopSpec ==
    /\ LoopInit /\ [][LoopNext]_runVars
    /\ \A t \in Threads : WF_runVars(LoopStep(t) /\ InOrder)

-----------------------------------------------------------------------------
(***************************************************************************)
(* Properties.                                                             *)
(***************************************************************************)

\* Every call of run returns, however its transactions and those of the others
\* abort each other: no thread waits for another one, and retries that could go
\* on for ever (writes of the same pointers in opposite order, or what validation
\* rejects every time) run out of memory.
EveryRunReturns == <>(\A t \in Threads : result[t] # "running")

Writes(t, x) == Op("write", x) \in Range(closure[t])
Writers == {t \in Threads : \E x \in Ptrs : Writes(t, x)}

\* All writers run the same closure, nothing in it is validated, and what it
\* writes is in memory.
SameWrites ==
    /\ \A t, u \in Writers : closure[t] = closure[u]
    /\ \A t \in Writers : \A c \in Range(closure[t]) : c.op # "rfw"
    /\ \A t \in Writers, x \in Ptrs : Writes(t, x) => First[x] # Block

\* Transactions that write the same pointers in the same order do not only keep
\* each other from committing: one of them commits, whatever memory the retries
\* of the others use up.
SomeRunCommits ==
    SameWrites /\ Writers # {} => <>(\E t \in Writers : result[t] = "ok")

\* No run leaves a latch behind: a version 0 in front of a pointer belongs to the
\* writeset of a transaction that is under way, which commits it or takes it back,
\* also when a later operation, the validation or an allocation fails.
LatchReleased ==
    \A x \in Ptrs : ptr[x] # Block /\ VerNum(ptr[x]) = 0 =>
       \E t \in Threads : \E w \in wset[t] : w.dst = x /\ w.new = ptr[x]

Depth[o \in Obj] == IF other[o] = None THEN 0 ELSE 1 + Depth[other[o]]

\* "assert_eq!(*counter, nthreads)" (tests::counter): the newest version of a
\* pointer has been incremented once by every run that returned Ok, by no run
\* that returned an error, and never by an attempt that was retried.
CounterExact ==
    \A x \in Ptrs : ptr[x] # Block =>
       Depth[Newest(x)] = Cardinality({t \in Threads : result[t] = "ok" /\ Writes(t, x)})

\* "assert!(true_count == NTUPLES || true_count == 0)" (tests::switcharoo): the
\* newest committed versions of all pointers that are written together come
\* from one transaction.
TuplesAgree ==
    \A x, y \in Ptrs :
       First[x] # Block /\ First[y] # Block /\ (\A t \in Threads : Writes(t, x) <=> Writes(t, y))
          => VerNum(Newest(x)) = VerNum(Newest(y))

\* The pointers that the first n operations of a closure write.
WrittenBy(t, n) == {x \in Ptrs : \E i \in 1 .. n : closure[t][i] = Op("write", x)}

\* The pointers in the writeset of a transaction.
WrittenTo(t) == {w.dst : w \in wset[t]}

\* How far the attempt under way has come.
Progress(t) ==
    /\ at[t] \in 1 .. (Len(closure[t]) + 1)
    /\ pc[t] \in {"run", "read", "rfw", "validate"} => WrittenTo(t) = WrittenBy(t, at[t] - 1)
    /\ pc[t] \in {"write", "swap"} =>
          /\ at[t] > 1 /\ closure[t][at[t] - 1] = Op("write", arg[t])
          /\ WrittenTo(t) = WrittenBy(t, at[t] - 2)
    /\ pc[t] = "validate" => Finished(t)

\* What is committed is everything a closure writes: run never commits a part of
\* what a failed or retried attempt has done, nor an attempt that has not finished.
WholeCommits ==
    /\ closure \in Programs /\ at \in [Threads -> Nat]
    /\ \A t \in Threads : Progress(t)
    /\ \A c \in commits : \E t \in Threads : c.writes = WrittenBy(t, Len(closure[t]))
    /\ \A x \in Ptrs : First[x] # Block => ptr[x] # Block

\* Versions get older from each to the next, so chains end; memory that was not handed
\* out refers to nothing.
OlderInv ==
    \A o \in Obj :
       /\ vword[o] = Free => other[o] = None
       /\ other[o] # None /\ VerNum(o) # 0 => VerNum(other[o]) < VerNum(o)

\* The inductive invariant behind CounterExact: a run that has an attempt under way has
\* not returned, so it is counted once, when it commits; no run has committed a write of
\* a pointer that is still on block storage.
Counting ==
    /\ OlderInv
    /\ result \in [Threads -> {"running", "ok", "error"}]
    /\ \A t \in Threads : pc[t] # "idle" => result[t] = "running"
    /\ \A x \in Ptrs, t \in Threads : ptr[x] = Block /\ result[t] = "ok" => ~Writes(t, x)
    /\ CounterExact

(***************************************************************************)
(* What the tests say and the code does not do.                            *)
(***************************************************************************)

\* "let result = lr.run(...)?" and "th.join().unwrap()?" (tests::counter): no run
\* ends with an error.
AllRunsSucceed == \A t \in Threads : result[t] # "error"

=============================================================================
