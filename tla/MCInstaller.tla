---------------------------- MODULE MCInstaller ----------------------------
(* Installer with a tree deeper and longer than the search may go: .b\.b   *)
(* fits exactly, .b\ccc does not, a\a\a is too deep.                       *)
EXTENDS Installer

a   == <<"a">>
bb  == <<".", "b">>
ccc == <<"c", "c", "c">>
const_Chars    == {"A", "C", ":", "\\", "*", ".", "a", "b", "c", "f"}
const_FindFile == <<"f">>
const_Drives   == <<"A", "C">>
const_Names    == {a, bb, ccc}
const_Tree     ==
    LET da == Subdir(<< >>, a)
        db == Subdir(<< >>, bb)
    IN  {<< >>, da, db, Subdir(da, a), Subdir(db, bb), Subdir(db, ccc), Subdir(Subdir(da, a), a)}
=============================================================================
