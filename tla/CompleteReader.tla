---------------------------- MODULE CompleteReader ----------------------------
(***************************************************************************)
(* The reader adaptation of CompleteLayer (src/core/src/layers/complete.rs,*)
(* CompleteReaderAccessor::complete_reader, ::complete_blocking_reader and *)
(* the CompleteReader dispatch), over the range-reader and streamable      *)
(* adapters of raw/oio (outside src/, modelled from spec 4.2).             *)
(*                                                                         *)
(* One reader at a time is opened on an object whose versions are Lens;  *)
(* the concurrent writer that replaces the current version is composed   *)
(* in CompleteReaderWriters.  complete_reader awaits the backend read,    *)
(* and for a suffix range on a non-seekable                               *)
(* backend then awaits a stat, so the open is up to three steps.  A        *)
(* backend reader is [ver, a, b, c]: it streams bytes [a, b) of version    *)
(* ver and has returned c of them.  The range reader keeps (base, total)   *)
(* and the logical position pos, and re-opens the object at base + pos     *)
(* when it has no backend reader.  The data is abstracted to the identity  *)
(* of the bytes served; read() and next() both return a contiguous run of  *)
(* 1..MaxK bytes, the 256 KiB buffer of the streamable adapter included.   *)
(***************************************************************************)
EXTENDS Naturals, Sequences

CONSTANTS
    Lens,       \* Lens[v]: the length of version v of the object
    Offs,       \* offsets a caller asks for
    RSizes,     \* sizes a caller asks for
    None,       \* an absent offset or size
    MaxK,       \* the most bytes one read or next returns
    Threshold,  \* the range reader's consume-instead-of-reopen distance
    MaxOps      \* bound on the reads and seeks of one reader

ASSUME LensAssumption == Lens \in Seq(Nat) /\ Lens # <<>>
ASSUME RangeAssumption ==
    Offs \subseteq Nat /\ RSizes \subseteq Nat /\ None \notin Nat
ASSUME BoundsAssumption ==
    MaxK \in Nat \ {0} /\ Threshold \in Nat /\ MaxOps \in Nat

VARIABLES
    cur,    \* the current version of the object at the backend
    cap,    \* the backend's [seek |-> read_can_seek, next |-> read_can_next]
    ph,     \* "idle", "read" (awaiting inner.read), "stat", "open", "err"
    rng,    \* args.range() of the read call
    mode,   \* the CompleteReader variant, or "none"
    br,     \* the backend reader in use, or NoReader
    rver,   \* the version the first backend reader was opened on
    rr,     \* the range reader's [base, total]
    pos,    \* the reader's logical position in its window
    out,    \* what the last read/next returned
    reads,  \* backend read calls made for this reader
    stats,  \* backend stat calls made for this reader
    ops     \* reads and seeks of this reader so far

vars == <<cur, cap, ph, rng, mode, br, rver, rr, pos, out, reads, stats, ops>>

Versions == DOMAIN Lens
Ranges == [off : Offs \cup {None}, size : RSizes \cup {None}]
NoReader == [ver |-> 0, a |-> 0, b |-> 0, c |-> 0]
NoRange == [base |-> 0, total |-> 0]
Passthrough == {"AlreadyComplete", "NeedStreamable"}
MinOf(a, b) == IF a < b THEN a ELSE b
Signal(kind) == [kind |-> kind, ver |-> 0, from |-> 0, to |-> 0]
Run(v, f, t) == [kind |-> "data", ver |-> v, from |-> f, to |-> t]

\* The backend's answer to read(path, range) on an object of length L: the
\* bytes it streams (accessor contract, spec 4.1).
BackendSpan(r, L) ==
    IF r.off # None
    THEN [a |-> MinOf(r.off, L),
          b |-> IF r.size = None THEN L ELSE MinOf(r.off + r.size, L)]
    ELSE IF r.size # None
    THEN [a |-> IF r.size > L THEN 0 ELSE L - r.size, b |-> L]
    ELSE [a |-> 0, b |-> L]

\* A backend reader opened now on range r.
OpenAt(r) ==
    [ver |-> cur, a |-> BackendSpan(r, Lens[cur]).a,
     b |-> BackendSpan(r, Lens[cur]).b, c |-> 0]

TypeOK ==
    /\ cur \in Versions
    /\ cap \in [seek : BOOLEAN, next : BOOLEAN]
    /\ ph \in {"idle", "read", "stat", "open", "err"}
    /\ rng \in Ranges
    /\ mode \in Passthrough \cup {"none", "NeedSeekable", "NeedBoth"}
    /\ br \in [ver : Versions \cup {0}, a : Nat, b : Nat, c : Nat]
    /\ rver \in Versions \cup {0}
    /\ rr \in [base : Nat, total : Nat]
    /\ pos \in Nat /\ reads \in Nat /\ stats \in Nat /\ ops \in Nat

\* The backend, its capabilities and the object are given; no reader yet.
Init ==
    /\ cur = 1
    /\ cap \in [seek : BOOLEAN, next : BOOLEAN]
    /\ ph = "idle"
    /\ rng = [off |-> None, size |-> None]
    /\ mode = "none" /\ br = NoReader /\ rver = 0 /\ rr = NoRange
    /\ pos = 0 /\ out = Signal("none") /\ reads = 0 /\ stats = 0 /\ ops = 0

\* A mutant of ResolveSuffix: the suffix window ends at the suffix size.
ResolveSuffixToSize(s, total) ==
    IF s > total THEN [base |-> 0, total |-> total]
    ELSE [base |-> total - s, total |-> total]

\* complete_reader's window for (None, Some(size)) once stat returned the
\* total size: if size > total_size then (0, total_size) else
\* (total_size - size, size).
ResolveSuffix(s, total) ==
    IF s > total THEN [base |-> 0, total |-> total]
    ELSE [base |-> total - s, total |-> s]

\* The non-seekable variant: the range reader, under the streamable adapter
\* when the backend cannot stream either.
RangeMode == IF cap.next THEN "NeedSeekable" ELSE "NeedBoth"

(***************************************************************************)
(* LayeredAccessor::read -> complete_reader: self.inner.read(path, args)   *)
(* is issued and awaited.                                                  *)
(***************************************************************************)
ReadCall ==
    /\ ph = "idle"
    /\ \E r \in Ranges : rng' = r
    /\ ph' = "read"
    /\ UNCHANGED <<cur, cap, mode, br, rver, rr, pos, out, reads, stats, ops>>

\* A mutant of ReadReturn: the suffix's total size is fetched by a stat
\* before the capability table is consulted.
ReadReturnStatFirst ==
    /\ ph = "read"
    /\ br' = OpenAt(rng) /\ rver' = cur /\ reads' = reads + 1
    /\ \/ /\ cap.seek
          /\ mode' = IF cap.next THEN "AlreadyComplete" ELSE "NeedStreamable"
          /\ ph' = "open" /\ UNCHANGED rr
          /\ stats' = IF rng.off = None /\ rng.size # None THEN stats + 1 ELSE stats
       \/ /\ ~cap.seek /\ rng.off = None /\ rng.size # None
          /\ ph' = "stat" /\ UNCHANGED <<mode, rr, stats>>
       \/ /\ ~cap.seek /\ ~(rng.off = None /\ rng.size # None)
          /\ rr' = [base |-> IF rng.off = None THEN 0 ELSE rng.off,
                    total |-> br'.b - br'.a]
          /\ mode' = RangeMode /\ ph' = "open" /\ UNCHANGED stats
    /\ UNCHANGED <<cur, cap, rng, pos, out, ops>>

(***************************************************************************)
(* inner.read returned (rp, r): the capability table.  A seekable backend *)
(* reader is passed through (wrapped for streaming when it cannot stream); *)
(* otherwise the window is (offset, content_length) or (0, content_length) *)
(* and r goes under a range reader, unless the range is a suffix, which    *)
(* first needs a stat.                                                     *)
(***************************************************************************)
ReadReturn ==
    /\ ph = "read"
    /\ br' = OpenAt(rng) /\ rver' = cur /\ reads' = reads + 1
    /\ \/ /\ cap.seek
          /\ mode' = IF cap.next THEN "AlreadyComplete" ELSE "NeedStreamable"
          /\ ph' = "open" /\ UNCHANGED rr
       \/ /\ ~cap.seek /\ rng.off = None /\ rng.size # None
          /\ ph' = "stat" /\ UNCHANGED <<mode, rr>>
       \/ /\ ~cap.seek /\ ~(rng.off = None /\ rng.size # None)
          /\ rr' = [base |-> IF rng.off = None THEN 0 ELSE rng.off,
                    total |-> br'.b - br'.a]
          /\ mode' = RangeMode /\ ph' = "open"
    /\ UNCHANGED <<cur, cap, rng, pos, out, stats, ops>>

\* self.inner.read(path, args).await? returned an error: complete_reader
\* returns it.
ReadFail ==
    /\ ph = "read"
    /\ ph' = "err" /\ out' = Signal("BackendError") /\ reads' = reads + 1
    /\ UNCHANGED <<cur, cap, rng, mode, br, rver, rr, pos, stats, ops>>

\* self.inner.stat(path).await? returned total_size: the suffix window is
\* resolved and r goes under a range reader.
StatReturn ==
    /\ ph = "stat"
    /\ stats' = stats + 1
    /\ rr' = ResolveSuffix(rng.size, Lens[cur])
    /\ mode' = RangeMode /\ ph' = "open"
    /\ UNCHANGED <<cur, cap, rng, br, rver, pos, out, reads, ops>>

\* self.inner.stat(path).await? returned an error: complete_reader returns
\* it and the backend reader r is dropped.
StatFail ==
    /\ ph = "stat"
    /\ stats' = stats + 1
    /\ ph' = "err" /\ out' = Signal("BackendError")
    /\ br' = NoReader /\ rver' = 0
    /\ UNCHANGED <<cur, cap, rng, mode, rr, pos, reads, ops>>

(***************************************************************************)
(* LayeredAccessor::blocking_read -> complete_blocking_reader: the backend *)
(* blocking_read runs first (its error is returned), then a non-seekable  *)
(* backend is rejected with Unsupported; no suspension, so one step.      *)
(***************************************************************************)
BlockingRead ==
    /\ ph = "idle"
    /\ \E r \in Ranges :
          /\ rng' = r
          /\ reads' = reads + 1
          /\ \/ /\ cap.seek /\ ph' = "open" /\ rver' = cur
                /\ br' = OpenAt(r)
                /\ mode' = IF cap.next THEN "AlreadyComplete" ELSE "NeedStreamable"
                /\ UNCHANGED out
             \/ /\ ~cap.seek /\ ph' = "err" /\ out' = Signal("Unsupported")
                /\ UNCHANGED <<br, rver, mode>>
             \/ /\ ph' = "err" /\ out' = Signal("BackendError")
                /\ UNCHANGED <<br, rver, mode>>
    /\ UNCHANGED <<cur, cap, rr, pos, stats, ops>>

(***************************************************************************)
(* poll_read / poll_next (and their blocking forms), dispatched on the     *)
(* variant.  A passed-through reader serves from its own stream.  The      *)
(* range reader first re-opens the object at base + pos for the rest of    *)
(* its window when it has no backend reader; the streamable adapter fills  *)
(* its buffer from the reader under it.                                    *)
(***************************************************************************)
Served(r, k) == Run(r.ver, r.a + r.c, r.a + r.c + k)

\* A mutant of Reopen: the range reader re-opens at pos, forgetting base.
ReopenAtPos ==
    IF br # NoReader THEN br
    ELSE OpenAt([off |-> pos, size |-> rr.total - pos])

\* The backend reader the range reader reads from.
Reopen ==
    IF br # NoReader THEN br
    ELSE OpenAt([off |-> rr.base + pos, size |-> rr.total - pos])

\* How many more bytes reader r serves through the adapter in use.
Left(r) ==
    IF mode \in Passthrough THEN r.b - (r.a + r.c)
    ELSE MinOf(r.b - (r.a + r.c), rr.total - pos)

Pull ==
    /\ ph = "open" /\ ops < MaxOps
    /\ LET r == IF mode \in Passthrough \/ pos = rr.total THEN br ELSE Reopen
       IN  /\ reads' = IF r # br THEN reads + 1 ELSE reads
           /\ \/ /\ Left(r) = 0
                 /\ out' = Signal("eof") /\ br' = r /\ UNCHANGED pos
              \/ \E k \in 1..MinOf(MaxK, Left(r)) :
                   /\ out' = Served(r, k)
                   /\ br' = [r EXCEPT !.c = @ + k]
                   /\ pos' = pos + k
    /\ ops' = ops + 1
    /\ UNCHANGED <<cur, cap, ph, rng, mode, rver, rr, stats>>

\* poll_seek to an absolute position p inside the window.  A passed-through
\* reader seeks its backend stream.  The range reader consumes the bytes of
\* a short forward seek and otherwise drops its backend reader.
Seek ==
    /\ ph = "open" /\ ops < MaxOps
    /\ \E p \in 0..(IF mode \in Passthrough THEN br.b - br.a ELSE rr.total) :
          /\ pos' = p
          /\ br' = IF mode \in Passthrough THEN [br EXCEPT !.c = p]
                   ELSE IF br # NoReader /\ p >= pos /\ p - pos <= Threshold
                        THEN [br EXCEPT !.c = @ + (p - pos)]
                        ELSE NoReader
    /\ ops' = ops + 1
    /\ UNCHANGED <<cur, cap, ph, rng, mode, rver, rr, out, reads, stats>>

\* The reader is dropped, or the failed call returned; the caller may read
\* again.
Drop ==
    /\ ph \in {"open", "err"}
    /\ ph' = "idle" /\ mode' = "none" /\ br' = NoReader /\ rver' = 0
    /\ rr' = NoRange /\ pos' = 0 /\ out' = Signal("none")
    /\ reads' = 0 /\ stats' = 0 /\ ops' = 0
    /\ UNCHANGED <<cur, cap, rng>>

Next ==
    \/ ReadCall \/ ReadReturn \/ ReadFail \/ StatReturn \/ StatFail \/ BlockingRead
    \/ Pull \/ Seek \/ Drop

Spec == Init /\ [][Next]_vars

-----------------------------------------------------------------------------
(***************************************************************************)
(* The window the caller sees: the backend reader's own span when it is   *)
(* passed through, the range reader's window otherwise.  The range reader *)
(* keeps an offset past the end of the object as its base, with an empty  *)
(* window; the caller sees that empty window at the object's end.         *)
(***************************************************************************)
LWin ==
    IF ph # "open" THEN [ver |-> 0, off |-> 0, len |-> 0]
    ELSE IF mode \in Passthrough
         THEN [ver |-> rver, off |-> br.a, len |-> br.b - br.a]
         ELSE [ver |-> rver, off |-> MinOf(rr.base, Lens[rver]), len |-> rr.total]

\* The caller's position: the passed-through stream's, or the range reader's.
LPos == IF ph = "open" /\ mode \in Passthrough THEN br.c ELSE pos

Abs == INSTANCE ReaderSpec WITH req <- rng, win <- LWin, pos <- LPos

\* Every behaviour of the adapted reader is one of the abstract reader:
\* whichever variant the capability table picks, the caller gets the
\* window the range of its read call requests, of one version, in order,
\* across reads, nexts, seeks, range-reader re-opens and failed calls.
ReaderRefinement == Abs!Spec

\* Zero-cost pass-through (spec 8.1): a reader of a backend that can seek
\* and stream costs exactly one backend read and no stat, whatever the
\* range and whatever the caller does with it.
ZeroCost == mode = "AlreadyComplete" => reads = 1 /\ stats = 0
=============================================================================
