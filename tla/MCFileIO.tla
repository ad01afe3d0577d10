------------------------------ MODULE MCFileIO ------------------------------
(* Seeks to the start, near the end of the first page, to the end, and to  *)
(* a page whose index is one past the count of a new file's array.         *)
EXTENDS FileIO

MCSeeks == {<<0, "set">>, <<3, "cur">>, <<0, "end">>, <<12, "set">>}
=============================================================================
