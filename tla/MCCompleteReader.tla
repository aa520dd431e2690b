------------------------- MODULE MCCompleteReader -------------------------
(* Model-checking instance of CompleteReader: a 3-byte object, offsets 0, *)
(* 1 and 4 (the last past the end of the object), sizes 2 and 4 (a suffix *)
(* shorter and longer than the object, a range running past the end), runs *)
(* of at most 2 bytes, a consume threshold of 1 and three reads or seeks  *)
(* per reader: enough for a short forward seek to be consumed, a longer   *)
(* or backward one to re-open, and a read to reach the end of its window. *)
EXTENDS CompleteReader

MCLens == <<3>>
=============================================================================
