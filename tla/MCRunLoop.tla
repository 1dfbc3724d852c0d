----------------------------- MODULE MCRunLoop -----------------------------
(***************************************************************************)
(* RunLoop for TLC: the heap and the applications.                         *)
(***************************************************************************)
EXTENDS RunLoop, TLC

CONSTANTS p, q, root, s, o1, o2, o3, t1, t2, t3

\* The root and two other objects are in memory, one is on block storage.
Heap == p :> o1 @@ q :> o2 @@ root :> o3 @@ s :> Block

Three(a, b, c) == t1 :> a @@ t2 :> b @@ t3 :> c

\* tests::counter and tests::switcharoo.
Counters == Three(Counter(root), Counter(root), Counter(root))
Switch == Switcharoo(root, <<p, q>>)
Count == <<Op("read", p), Op("read", q)>>

\* Closures that get into each other's way: in the same order, in opposite
\* order, with reads that are validated, with a pointer that is fetched.
Mixed ==
    <<Counter(p),
      <<Op("write", p), Op("write", s)>>,
      <<Op("write", s), Op("write", p)>>,
      <<Op("rfw", p), Op("write", s)>>,
      <<Op("rfw", s), Op("read", p)>>>>

CounterOnly == {Counters}

Applications ==
    {Counters, Three(Switch, Switch, Switch), Three(Switch, Switch, Count)}
       \cup {Three(Mixed[i[1]], Mixed[i[2]], <<>>) :
               i \in {j \in (DOMAIN Mixed) \X (DOMAIN Mixed) : j[1] <= j[2]}}

=============================================================================
