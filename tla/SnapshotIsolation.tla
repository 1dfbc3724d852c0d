------------------------- MODULE SnapshotIsolation -------------------------
(***************************************************************************)
(* What the transaction layer promises to the closures that run in it,     *)
(* with no heap, no version chains and no locks: every transaction reads   *)
(* from one fixed snapshot, and a transaction commits only if nothing it   *)
(* wrote was overwritten by a transaction that committed after the         *)
(* snapshot was taken.                                                     *)
(*                                                                         *)
(* Mvcc.tla is shown to implement this specification.                      *)
(***************************************************************************)
EXTENDS Naturals

CONSTANTS
    Threads,    \* threads, each running one transaction at a time
    Ptrs,       \* the pointers whose objects transactions read and write
    None        \* "no value read"

VARIABLES
    clock,      \* the newest version number handed out
    commits,    \* every committed write transaction
    snap,       \* the snapshot of a thread's running transaction, 0 if none
    seen        \* the pointer last read by a transaction and the version it got

vars == <<clock, commits, snap, seen>>

\* The commit records: the version a transaction got, the snapshot it ran at,
\* the pointers it read for write and the pointers it wrote.
CommitRecord ==
    [ver : Nat, snap : Nat, reads : SUBSET Ptrs, writes : SUBSET Ptrs]

\* Version 1 is the object a pointer has when the store is opened.
VersionsOf(p) == {1} \cup {c.ver : c \in {d \in commits : p \in d.writes}}

\* v is the newest version of p in snapshot s.
IsNewest(p, s, v) ==
    /\ v \in VersionsOf(p)
    /\ v <= s
    /\ \A u \in VersionsOf(p) : u <= s => u <= v

Init ==
    /\ clock = 1
    /\ commits = {}
    /\ snap = [t \in Threads |-> 0]
    /\ seen = [t \in Threads |-> None]

Begin(t) ==
    /\ snap[t] = 0
    /\ snap' = [snap EXCEPT ![t] = clock]
    /\ UNCHANGED <<clock, commits, seen>>

Read(t, p) ==
    /\ snap[t] # 0
    /\ \E v \in VersionsOf(p) :
          /\ IsNewest(p, snap[t], v)
          /\ seen' = [seen EXCEPT ![t] = [ptr |-> p, ver |-> v]]
    /\ UNCHANGED <<clock, commits, snap>>

\* The closure moves on to its next operation.
Forget(t) ==
    /\ snap[t] # 0
    /\ seen' = [seen EXCEPT ![t] = None]
    /\ UNCHANGED <<clock, commits, snap>>

\* A version number is handed out. Some are never used.
Tick ==
    /\ clock' = clock + 1
    /\ UNCHANGED <<commits, snap, seen>>

\* The newest version number can still be given to a transaction: nobody has
\* it, and no running transaction took it as its snapshot.
Unused(v) ==
    /\ \A c \in commits : c.ver < v
    /\ \A u \in Threads : snap[u] < v

Commit(t, reads, writes) ==
    /\ snap[t] # 0
    /\ Unused(clock)
    /\ \A c \in commits :
          c.ver > snap[t] => c.writes \cap writes = {}
    /\ commits' = commits \cup
          {[ver |-> clock, snap |-> snap[t], reads |-> reads, writes |-> writes]}
    /\ snap' = [snap EXCEPT ![t] = 0]
    /\ seen' = [seen EXCEPT ![t] = None]
    /\ UNCHANGED clock

\* A read-only transaction commits, or a transaction is aborted.
End(t) ==
    /\ snap[t] # 0
    /\ snap' = [snap EXCEPT ![t] = 0]
    /\ seen' = [seen EXCEPT ![t] = None]
    /\ UNCHANGED <<clock, commits>>

Next ==
    \/ Tick
    \/ \E t \in Threads :
          \/ Begin(t)
          \/ Forget(t)
          \/ End(t)
          \/ \E p \in Ptrs : Read(t, p)
          \/ \E reads, writes \in SUBSET Ptrs : Commit(t, reads, writes)

Spec == Init /\ [][Next]_vars

=============================================================================
