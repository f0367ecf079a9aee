--------------------------- MODULE MCFileSession ----------------------------
(***************************************************************************)
(* Model checking FileSession: a file of more than one chunk and a         *)
(* directory of two entries with a file in it, or one file of more than two*)
(* chunks.                                                                 *)
(***************************************************************************)
EXTENDS FileSession, TLC

f == <<"f">>
d == <<"d">>
g == <<"d", "f">>
Missing == <<"m">>

SmallTree == f :> [type |-> "FILE", size |-> 3] @@ d :> [type |-> "DIR", size |-> 2]
               @@ g :> [type |-> "FILE", size |-> 1]

Symmetry == Permutations(Procs)

AllOps == Types \ {"NONE"}
HandleOps == {"FINDINPUT", "LOCATE_OBJECT", "FREE_LOCK", "END", "EXAMINE_NEXT", "READ"}
FairOps == {"FINDINPUT", "FINDOUTPUT", "READ", "WRITE", "SEEK", "END", "LOCATE_OBJECT", "DIE"}
DupOps == {"LOCATE_OBJECT", "FREE_LOCK", "COPY_DIR"}

BigFile == f :> [type |-> "FILE", size |-> 5]

AllNames == {f, d, <<>>, Missing, VirtualInput, VirtualOutput}
HandleNames == {f, d}
FairNames == {f, Missing, VirtualInput, VirtualOutput}

NoSeeks == {}
SomeSeeks == {-1, 1}
Seeks == {-1, 0, 1, 3}
=============================================================================
