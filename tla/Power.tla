------------------------------- MODULE Power -------------------------------
(***************************************************************************)
(* Store with power failures. FileSource::flush is File::flush, which does *)
(* nothing: what a write puts into a file reaches the disk when the        *)
(* operating system writes the page back, in any order, and a power        *)
(* failure loses the rest.                                                 *)
(***************************************************************************)
EXTENDS StoreInvariant

VARIABLE disk   \* what is on the disk; page is what a read of the file returns

powerVars == <<vars, disk>>

PowerInit == Init /\ disk = page

\* The operating system writes a page back.
WriteBack(f, n) ==
    /\ disk[f][n] # page[f][n]
    /\ disk' = [disk EXCEPT ![f][n] = page[f][n]]
    /\ UNCHANGED vars

PowerFail ==
    /\ Forget
    /\ ForgetMemory(disk)
    /\ disk' = page'
    /\ UNCHANGED <<length, roots, kept>>

PowerNext ==
    \/ Next /\ disk' = [s \in Sources |-> IF s \in Files THEN disk[s] ELSE page'[s]]
    \/ \E f \in Files, n \in Pages : WriteBack(f, n)
    \/ PowerFail

PowerSpec == PowerInit /\ [][PowerNext]_powerVars

-----------------------------------------------------------------------------
(***************************************************************************)
(* What power failures leave intact.                                       *)
(***************************************************************************)

\* The files can be opened with pages p: they are inside of the files, only a complete
\* header or metadata page has a root location with something in it, and what metadata
\* there is, the files have now.
Readable(p) ==
    /\ p \in [Sources -> [Pages -> Page]]
    /\ \A f \in Files, n \in Pages : n >= length[f] => p[f][n] = Zero
    /\ \A f \in Files :
          /\ p[f][0].root # None => p[f][0].kind = "header"
          /\ p[f][1].root # None => p[f][1].kind = "meta"
          /\ p[f][1].kind = "meta" => SamePage(p[f][1], page[f][1])

\* The inductive invariant: of that of the store, all but the root pointers, and the
\* same of the pages on the disk.
PowerInductive == Structure /\ Readable(disk)

=============================================================================
