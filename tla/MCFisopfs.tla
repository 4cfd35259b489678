------------------------------ MODULE MCFisopfs ------------------------------
(* Paths for Fisopfs: a directory, a file beside it and a file in it. *)
EXTENDS Fisopfs

dir == <<"d">>
file == <<"f">>
inner == <<"d", "f">>

Nested == {dir, file, inner}
=============================================================================
