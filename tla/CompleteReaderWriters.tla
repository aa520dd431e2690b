------------------------- MODULE CompleteReaderWriters -------------------------
(***************************************************************************)
(* The reader of CompleteReader composed with another caller of the same  *)
(* bucket that writes the object while the reader is open.  A write       *)
(* replaces the object's current version with the next one of Lens; the   *)
(* reader's state is untouched, as a backend write does not reach a       *)
(* reader the layer has already returned.                                 *)
(***************************************************************************)
EXTENDS CompleteReader

\* Another caller's write: the backend's current version of the object
\* becomes the next one.
Overwrite ==
    /\ cur + 1 \in Versions
    /\ cur' = cur + 1
    /\ UNCHANGED <<cap, ph, rng, mode, br, rver, rr, pos, out, reads, stats, ops>>

NextW == Next \/ Overwrite

SpecW == Init /\ [][NextW]_vars

-----------------------------------------------------------------------------
\* Suffix resolution (spec 8.2 and scenario S1): a non-seekable suffix read
\* serves the last min(s, T) bytes of the version it reads, so the range
\* reader's window is that of the version its first backend reader streams,
\* even when another caller writes the object while complete_reader opens it.
SuffixOfReadVersion ==
    /\ ph = "open" /\ mode \notin Passthrough
    /\ rng.off = None /\ rng.size # None
    => rr = ResolveSuffix(rng.size, Lens[rver])
=============================================================================
