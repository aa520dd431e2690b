------------------------------ MODULE MCOperator ------------------------------
(* Model-checking instance of Operator: a bucket with the root, a directory *)
(* d/ holding two files, and a directory e/ that holds nothing.          *)
(* The directory with two files lets a limit of 1 cut a batch in two and *)
(* hold back the second of two concurrent deletes; a limit of 0 is the     *)
(* panicking chunks(0) and the unbounded try_for_each_concurrent.  e/      *)
(* holds no file, so only its own object, when there is one, makes it     *)
(* exist.                                                                  *)
EXTENDS Operator

MCKeys == {"/", "d/", "d/a", "d/b", "e/"}
MCDirKeys == {"/", "d/", "e/"}
MCUnder(x, d) ==
    \/ d = "/" /\ x # "/"
    \/ d = "d/" /\ x \in {"d/a", "d/b"}
=============================================================================
