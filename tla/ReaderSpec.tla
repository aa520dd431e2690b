----------------------------- MODULE ReaderSpec -----------------------------
(***************************************************************************)
(* What a reader returned by CompleteLayer promises (spec 4.2 and 8): it  *)
(* serves the window that the range of the caller's read call requests    *)
(* (spec 3, Byte range), of one version of the object, in order, from a   *)
(* position the caller can move anywhere inside the window, and says      *)
(* end-of-file at the end of the window.  How the window is found,        *)
(* and which backend calls serve it, is left open.                        *)
(*                                                                         *)
(* What a read returns is a record: a run of bytes [from, to) of version  *)
(* ver, or end-of-file, an error, or nothing yet.                          *)
(***************************************************************************)
EXTENDS Naturals

CONSTANTS
    Lens,     \* Lens[v]: the length of version v of the object
    Offs,     \* offsets a caller asks for
    RSizes,   \* sizes a caller asks for
    None,     \* an absent offset or size
    MaxK      \* the most bytes one read or next may return

VARIABLES
    req,   \* the range of the caller's read call
    win,   \* the window of the open reader, or NoWin
    pos,   \* the caller's position in the window
    out    \* what the last call returned

Versions == DOMAIN Lens
NoWin == [ver |-> 0, off |-> 0, len |-> 0]
Ranges == [off : Offs \cup {None}, size : RSizes \cup {None}]
Errors == {"Unsupported", "BackendError"}
Signal(kind) == [kind |-> kind, ver |-> 0, from |-> 0, to |-> 0]
Run(v, f, t) == [kind |-> "data", ver |-> v, from |-> f, to |-> t]

MinOf(a, b) == IF a < b THEN a ELSE b
MaxOf(a, b) == IF a > b THEN a ELSE b

\* The bytes of object length L a range asks for (spec 3): from the offset
\* (or 0) for the size (or to the end), clipped to the object; a suffix of
\* size s is the last min(s, L) bytes.
Requested(r, L) ==
    IF r.off = None /\ r.size # None
    THEN [off |-> MaxOf(0, L - r.size), len |-> MinOf(r.size, L)]
    ELSE LET o == IF r.off = None THEN 0 ELSE MinOf(r.off, L)
         IN  [off |-> o,
              len |-> IF r.size = None THEN L - o ELSE MinOf(r.size, L - o)]

\* The window range r requests of version v.
Window(r, v) ==
    [ver |-> v, off |-> Requested(r, Lens[v]).off, len |-> Requested(r, Lens[v]).len]

Init == req \in Ranges /\ win = NoWin /\ pos = 0 /\ out = Signal("none")

\* read(path, args) is called with the range r and awaits the backend.
Request ==
    /\ win = NoWin
    /\ \E r \in Ranges : req' = r
    /\ UNCHANGED <<win, pos, out>>

\* The pending read returns a reader over the window its range requests,
\* of some version.
Open ==
    /\ win = NoWin
    /\ \E v \in Versions : win' = Window(req, v)
    /\ pos' = 0 /\ out' = Signal("none")
    /\ UNCHANGED req

\* blocking_read(path, args): called with range r and returns a reader over
\* the window r requests in one step.
CallOpen ==
    /\ win = NoWin
    /\ \E r \in Ranges, v \in Versions : req' = r /\ win' = Window(r, v)
    /\ pos' = 0 /\ out' = Signal("none")

\* A read call, pending or issued now, fails and returns no reader.
Fail ==
    /\ win = NoWin
    /\ req' \in Ranges
    /\ \E e \in Errors : out' = Signal(e)
    /\ UNCHANGED <<win, pos>>

\* read or next returns the next 1..MaxK bytes of the window.
Pull ==
    /\ win # NoWin /\ pos < win.len
    /\ \E k \in 1..MinOf(MaxK, win.len - pos) :
          /\ out' = Run(win.ver, win.off + pos, win.off + pos + k)
          /\ pos' = pos + k
    /\ UNCHANGED <<req, win>>

\* read or next at the end of the window returns end-of-file.
Eof ==
    /\ win # NoWin /\ pos = win.len
    /\ out' = Signal("eof")
    /\ UNCHANGED <<req, win, pos>>

\* seek moves to any position inside the window.
Seek ==
    /\ win # NoWin
    /\ \E p \in 0..win.len : pos' = p
    /\ UNCHANGED <<req, win, out>>

\* The reader is dropped.
Close == win' = NoWin /\ pos' = 0 /\ out' = Signal("none") /\ UNCHANGED req

Next == Request \/ Open \/ CallOpen \/ Fail \/ Pull \/ Eof \/ Seek \/ Close

Spec == Init /\ [][Next]_<<req, win, pos, out>>
=============================================================================
