--------------------------- MODULE MvccInvariant ---------------------------
(***************************************************************************)
(* The inductive invariant behind WriteLatch, NoLostUpdate and             *)
(* ReadFindsVersion: what relates the version chains, the transactions     *)
(* that have an uncommitted version in one, and the version clock.         *)
(* MvccProofs.tla proves it; the runs of Mvcc check it first.              *)
(***************************************************************************)
EXTENDS Mvcc

\* The write lock is what a committing transaction holds, and the number it is
\* about to give away is newer than every snapshot and every version in use.
ClockInv ==
    /\ clock >= 1
    /\ \A t \in Threads : snap[t] <= clock
    /\ \A l \in Log : cell[l] <= clock
    /\ \A t \in Threads : pc[t] = "validate" <=> lock = t
    /\ lock # None => /\ \A t \in Threads : snap[t] < clock
                      /\ \A l \in Log : cell[l] < clock

\* A transaction that writes owns a version cell that holds 0 until it commits.
ThreadInv ==
    /\ \A t \in Threads :
          /\ pc[t] = "idle" => tlog[t] = None
          /\ pc[t] # "idle" => snap[t] >= 1
          /\ wset[t] # {} \/ pc[t] \in {"write", "swap", "validate"} => tlog[t] # None
          /\ tlog[t] # None => tlog[t] \in logs /\ cell[tlog[t]] = 0
    /\ \A t, u \in Threads : tlog[t] # None /\ tlog[t] = tlog[u] => t = u

\* Every copy leads to a committed version, in the same chain and older. An
\* uncommitted version is in a chain only as its head.
HeapInv ==
    \A o \in Obj :
       /\ vword[o] = Free => chain[o] = None
       /\ vword[o] = Base => other[o] = None
       /\ vword[o] \in Log =>
             /\ vword[o] \in logs
             /\ other[o] \in Obj /\ vword[other[o]] # Free /\ VerNum(other[o]) # 0
             /\ chain[o] # None =>
                   /\ chain[other[o]] = chain[o]
                   /\ VerNum(o) # 0 => VerNum(other[o]) < VerNum(o)
                   /\ VerNum(o) = 0 => ptr[chain[o]] = o

\* The newest committed version of p.
Newest(p) == IF VerNum(ptr[p]) = 0 THEN other[ptr[p]] ELSE ptr[p]

HeadInv ==
    \A p \in Ptrs :
       /\ ptr[p] = Block => \A o \in Obj : chain[o] # p
       /\ ptr[p] # Block =>
             /\ chain[ptr[p]] = p
             /\ \A o \in Obj : chain[o] = p => VerNum(o) <= VerNum(Newest(p))

\* A write of a running transaction is the head of its pointer, copied from a
\* version in the transaction's snapshot.
WriteInv ==
    \A t \in Threads : \A w \in wset[t] :
       /\ ptr[w.dst] = w.new
       /\ vword[w.new] = tlog[t]
       /\ w.current = other[w.new]
       /\ VerNum(w.current) <= snap[t]

\* Operations in progress.
OpInv ==
    \A t \in Threads :
       /\ pc[t] \in {"read", "rfw", "write", "swap"} => arg[t] \in Ptrs
       /\ cur[t] \in Obj => vword[cur[t]] # Free
       /\ pc[t] \in {"write", "swap"} =>
             /\ addr[t] # None /\ cur[t] # None
             /\ addr[t] \in Obj => cur[t] = addr[t]
       /\ pc[t] = "swap" =>
             /\ cur[t] \in Obj /\ Visible(t, cur[t])
             /\ new[t] \in Obj /\ vword[new[t]] = tlog[t]
             /\ other[new[t]] = cur[t] /\ chain[new[t]] = None

\* The inductive invariant of the transaction protocol.
Inductive ==
    /\ TypeOK
    /\ ClockInv
    /\ ThreadInv
    /\ HeapInv
    /\ HeadInv
    /\ WriteInv
    /\ OpInv
    /\ NoLostUpdate

-----------------------------------------------------------------------------
(***************************************************************************)
(* What has to be known in addition to see that Mvcc implements            *)
(* SnapshotIsolation.                                                      *)
(***************************************************************************)

\* An uncommitted version in a chain is in the writeset of a transaction.
OwnerInv ==
    \A o \in Obj : chain[o] # None /\ VerNum(o) = 0 =>
       \E t \in Threads : \E w \in wset[t] : w.new = o /\ w.dst = chain[o]

\* The version cell of an object that was rolled back will never get a number.
Dead(o) == \A u \in Threads : tlog[u] = vword[o] => pc[u] = "abort"

\* The first committed version from o on.
CommittedFrom(o) == IF VerNum(o) = 0 THEN other[o] ELSE o

\* A reader is in the chain of its pointer, or has been left on an object that was
\* rolled back and leads there, and has passed nothing that belongs to its snapshot.
ReaderAt(t) ==
    pc[t] \in {"read", "rfw"} /\ cur[t] \in Obj =>
       LET c == CommittedFrom(cur[t]) IN
       /\ chain[cur[t]] = arg[t] \/ (VerNum(cur[t]) = 0 /\ Dead(cur[t]))
       /\ c \in Obj /\ chain[c] = arg[t] /\ VerNum(c) # 0
       /\ \A x \in Obj : chain[x] = arg[t] /\ VerNum(x) > VerNum(c) => VerNum(x) > snap[t]

ReaderInv == \A t \in Threads : ReaderAt(t)

\* The committed versions in the chains are those that the commits have made.
CommitInv ==
    /\ \A c \in commits : 1 <= c.ver /\ c.ver <= clock /\ (lock # None => c.ver < clock)
    /\ \A o \in Obj : Committed(o) => VerNum(o) \in SI!VersionsOf(chain[o])
    /\ \A c \in commits : \A p \in c.writes :
          \E o \in Obj : chain[o] = p /\ VerNum(o) = c.ver

\* A transaction has a snapshot from its beginning to its end, and what a read
\* returned to it is committed.
SnapInv ==
    \A t \in Threads :
       /\ pc[t] = "idle" => snap[t] = 0
       /\ ret[t] # None => vword[ret[t]] # Free /\ VerNum(ret[t]) # 0

\* The invariant of the refinement, inductive together with Inductive.
Refining == OwnerInv /\ ReaderInv /\ CommitInv /\ SnapInv


=============================================================================
