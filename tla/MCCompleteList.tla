--------------------------- MODULE MCCompleteList ---------------------------
(* Model-checking instance of CompleteList: the store of spec scenario S5   *)
(* (a, b/c, b/d, e/f/g), so that the root holds a file, a directory with   *)
(* two files and a directory two levels deep, listed in pages of at most  *)
(* two entries, with delimiters "", "/" and an unsupported ",".            *)
EXTENDS CompleteList

MCFiles == {<<"a">>, <<"b", "c">>, <<"b", "d">>, <<"e", "f", "g">>}
MCDelims == {"", "/", ","}
=============================================================================
