------------------------------ MODULE MCRename ------------------------------
(***************************************************************************)
(* Rename of a directory with a file, and a directory with a file.         *)
(***************************************************************************)
EXTENDS Rename

SmallDir  == {Empty, <<Slash, 2>>}
SmallFile == {<<Slash, 1>>, <<Slash, 2, Slash, 1>>}
=============================================================================
