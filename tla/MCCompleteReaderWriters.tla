---------------------- MODULE MCCompleteReaderWriters ----------------------
(* Model-checking instance of CompleteReaderWriters: a 3-byte object that *)
(* another caller overwrites once with a 1-byte version, offsets 0 and 1, *)
(* sizes 2 and 4 (a suffix shorter and longer than either version).       *)
EXTENDS CompleteReaderWriters

MCLensWritten == <<3, 1>>
=============================================================================
