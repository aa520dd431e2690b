------------------------- MODULE MCCompleteWriter -------------------------
(* Model-checking instance of CompleteWriter: declared sizes 0..2, chunks  *)
(* of 0..2 bytes, so that a chunk can exactly fill, overfill or underfill *)
(* a writer and a zero-length write happens.                              *)
EXTENDS CompleteWriter

MCSizes == 0..2
MCChunks == 0..2
MCMaxBytes == 3
=============================================================================
