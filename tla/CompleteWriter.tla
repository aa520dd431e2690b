--------------------------- MODULE CompleteWriter ---------------------------
(***************************************************************************)
(* The size-checked, finalisation-disciplined writer that CompleteLayer    *)
(* puts around every backend writer (src/core/src/layers/complete.rs,      *)
(* CompleteWriter and CompleteReaderAccessor::write).                      *)
(*                                                                         *)
(* The adapter keeps inner: Option<W>, size: Option<u64>, written: u64.    *)
(* Each of write/abort/close checks its guards, then awaits the backend    *)
(* call and does its bookkeeping only once that call returned Ok.  The     *)
(* await is a suspension point, so every operation is split into an       *)
(* issuing step and a returning step, and a pending call may be cancelled*)
(* (its future dropped) with the backend having applied it or not.        *)
(*                                                                         *)
(* The backend writer is abstracted to what it has received: the number   *)
(* of bytes it accepted and how many close and abort calls took effect.   *)
(* A backend call that returns an error is assumed to have had no effect; *)
(* a cancelled one may or may not have.                                *)
(***************************************************************************)
EXTENDS Naturals

CONSTANTS
    Sizes,            \* declared content lengths a writer is opened with
    None,             \* the absent size (Option::None)
    Chunks,           \* lengths of the Bytes handed to write()
    MaxBytes,         \* bound on bytes written to a writer of unknown size
    MaxCancels,       \* bound on the calls of one writer the caller cancels
    AbortAfterCancel  \* does the caller abort a writer whose call it cancelled?

ASSUME SizesAssumption == Sizes \subseteq Nat /\ None \notin Sizes
ASSUME ChunksAssumption == Chunks \subseteq Nat
ASSUME MaxBytesAssumption == MaxBytes \in Nat
ASSUME MaxCancelsAssumption == MaxCancels \in Nat
ASSUME AbortAfterCancelAssumption == AbortAfterCancel \in BOOLEAN

VARIABLES
    opened,     \* a CompleteWriter value exists (created and not dropped)
    blocking,   \* it wraps a blocking writer (oio::BlockingWrite)
    inner,      \* self.inner.is_some()
    size,       \* self.size
    written,    \* self.written
    pend,       \* the backend call being awaited: "none", "write", "abort", "close"
    pendN,      \* length of the chunk of a pending write
    cancels,    \* how many pending calls of this writer the caller dropped
    res,        \* what the last completed call returned to the caller
    bk          \* what the backend writer has received

vars == <<opened, blocking, inner, size, written, pend, pendN, cancels, res, bk>>

Results == {"none", "Ok", "ContentTruncated", "ContentIncomplete",
            "Unexpected", "BackendError", "Cancelled"}

FreshBackend == [bytes |-> 0, closes |-> 0, aborts |-> 0]

TypeOK ==
    /\ opened \in BOOLEAN
    /\ blocking \in BOOLEAN
    /\ inner \in BOOLEAN
    /\ size \in Sizes \cup {None}
    /\ written \in Nat
    /\ pend \in {"none", "write", "abort", "close"}
    /\ pendN \in Nat
    /\ cancels \in Nat
    /\ res \in Results
    /\ bk \in [bytes : Nat, closes : Nat, aborts : Nat]

Init ==
    /\ opened = FALSE
    /\ blocking = FALSE
    /\ inner = FALSE
    /\ size = None
    /\ written = 0
    /\ pend = "none"
    /\ pendN = 0
    /\ cancels = 0
    /\ res = "none"
    /\ bk = FreshBackend

(***************************************************************************)
(* CompleteReaderAccessor::write and ::blocking_write: the backend writer *)
(* is opened and wrapped by CompleteWriter::new(w, args.content_length()).*)
(***************************************************************************)
Create ==
    /\ ~opened
    /\ \E s \in Sizes \cup {None}, b \in BOOLEAN :
          /\ opened' = TRUE
          /\ blocking' = b
          /\ inner' = TRUE
          /\ size' = s
          /\ written' = 0
          /\ pend' = "none"
          /\ pendN' = 0
          /\ cancels' = 0
          /\ res' = "none"
          /\ bk' = FreshBackend

\* The caller may call the writer: it exists, no call of it is pending, and
\* after a cancellation it treats the writer as dead.
Idle == opened /\ pend = "none" /\ cancels = 0

\* A mutant of Truncated: the check forgets the chunk being written.
TruncatedIgnoresChunk(n) == size # None /\ written > size

\* The ContentTruncated check of write().
Truncated(n) == size # None /\ written + n > size

\* A mutant of Incomplete: close() forwards without the length check.
IncompleteUnchecked == FALSE

\* The ContentIncomplete check of close().
Incomplete == size # None /\ written < size

\* A call that returns an error before reaching the backend.
Fail(e) ==
    /\ res' = e
    /\ UNCHANGED <<opened, blocking, inner, size, written, pend, pendN, cancels, bk>>

\* A call that is handed to the backend and awaited.
Issue(op, n) ==
    /\ pend' = op
    /\ pendN' = n
    /\ UNCHANGED <<opened, blocking, inner, size, written, cancels, res, bk>>

\* The backend write of n bytes returned: on Ok the backend has the bytes
\* and written += n; on Err nothing is counted.
WriteDone(n) ==
    \/ /\ bk' = [bk EXCEPT !.bytes = @ + n]
       /\ written' = written + n
       /\ res' = "Ok"
    \/ /\ UNCHANGED <<bk, written>>
       /\ res' = "BackendError"

\* The backend close returned: on Ok, self.inner = None.
CloseDone ==
    \/ /\ bk' = [bk EXCEPT !.closes = @ + 1]
       /\ inner' = FALSE
       /\ res' = "Ok"
    \/ /\ UNCHANGED <<bk, inner>>
       /\ res' = "BackendError"

(***************************************************************************)
(* oio::Write::write(bs): the size check, then inner.as_mut() (Unexpected *)
(* if the writer was finalised), then the awaited backend write.          *)
(***************************************************************************)
Write(n) ==
    /\ Idle /\ ~blocking
    /\ size = None => written + n <= MaxBytes
    /\ \/ Truncated(n) /\ Fail("ContentTruncated")
       \/ ~Truncated(n) /\ ~inner /\ Fail("Unexpected")
       \/ ~Truncated(n) /\ inner /\ Issue("write", n)

\* w.write(bs).await? returned.
WriteReturn ==
    /\ pend = "write"
    /\ WriteDone(pendN)
    /\ pend' = "none"
    /\ pendN' = 0
    /\ UNCHANGED <<opened, blocking, inner, size, cancels>>

(***************************************************************************)
(* oio::Write::abort(): inner.as_mut() (Unexpected if finalised), then    *)
(* the backend abort.  The caller also aborts after a cancellation if it  *)
(* follows the rule that a cancelled writer must be treated as aborted.   *)
(***************************************************************************)
Abort ==
    /\ opened /\ ~blocking /\ pend = "none"
    /\ cancels = 0 \/ AbortAfterCancel
    /\ \/ ~inner /\ Fail("Unexpected")
       \/ inner /\ Issue("abort", 0)

\* w.abort().await? returned: on Ok, self.inner = None.
AbortReturn ==
    /\ pend = "abort"
    /\ \/ /\ bk' = [bk EXCEPT !.aborts = @ + 1]
          /\ inner' = FALSE
          /\ res' = "Ok"
       \/ /\ UNCHANGED <<bk, inner>>
          /\ res' = "BackendError"
    /\ pend' = "none"
    /\ UNCHANGED <<opened, blocking, size, written, pendN, cancels>>

(***************************************************************************)
(* oio::Write::close(): the ContentIncomplete check, then inner.as_mut(), *)
(* then the awaited backend close.                                        *)
(***************************************************************************)
Close ==
    /\ Idle /\ ~blocking
    /\ \/ Incomplete /\ Fail("ContentIncomplete")
       \/ ~Incomplete /\ ~inner /\ Fail("Unexpected")
       \/ ~Incomplete /\ inner /\ Issue("close", 0)

\* A mutant of CloseReturn: a successful close leaves self.inner set.
CloseReturnKeepsInner ==
    /\ pend = "close"
    /\ \/ bk' = [bk EXCEPT !.closes = @ + 1] /\ res' = "Ok"
       \/ bk' = bk /\ res' = "BackendError"
    /\ pend' = "none"
    /\ UNCHANGED <<opened, blocking, inner, size, written, pendN, cancels>>

\* w.close().await? returned.
CloseReturn ==
    /\ pend = "close"
    /\ CloseDone
    /\ pend' = "none"
    /\ UNCHANGED <<opened, blocking, size, written, pendN, cancels>>

(***************************************************************************)
(* oio::BlockingWrite::write and ::close run the same checks and call the *)
(* backend without suspending, so check, call and bookkeeping are one     *)
(* step.  A blocking writer has no abort.                                 *)
(***************************************************************************)
BlockingWrite(n) ==
    /\ Idle /\ blocking
    /\ size = None => written + n <= MaxBytes
    /\ \/ Truncated(n) /\ Fail("ContentTruncated")
       \/ ~Truncated(n) /\ ~inner /\ Fail("Unexpected")
       \/ /\ ~Truncated(n) /\ inner
          /\ WriteDone(n)
          /\ UNCHANGED <<opened, blocking, inner, size, pend, pendN, cancels>>

BlockingClose ==
    /\ Idle /\ blocking
    /\ \/ Incomplete /\ Fail("ContentIncomplete")
       \/ ~Incomplete /\ ~inner /\ Fail("Unexpected")
       \/ /\ ~Incomplete /\ inner
          /\ CloseDone
          /\ UNCHANGED <<opened, blocking, size, written, pend, pendN, cancels>>

(***************************************************************************)
(* The caller drops the future of a pending call.  The backend call may   *)
(* have taken effect or not; the adapter's bookkeeping after the await    *)
(* never runs.                                                            *)
(***************************************************************************)
BackendEffect(op, n) ==
    CASE op = "write" -> [bk EXCEPT !.bytes = @ + n]
      [] op = "abort" -> [bk EXCEPT !.aborts = @ + 1]
      [] op = "close" -> [bk EXCEPT !.closes = @ + 1]

Cancel ==
    /\ pend # "none"
    /\ cancels < MaxCancels
    /\ \/ bk' = BackendEffect(pend, pendN)
       \/ bk' = bk
    /\ pend' = "none"
    /\ pendN' = 0
    /\ cancels' = cancels + 1
    /\ res' = "Cancelled"
    /\ UNCHANGED <<opened, blocking, inner, size, written>>

\* The CompleteWriter value is dropped (its Drop impl only logs).
Drop ==
    /\ opened /\ pend = "none"
    /\ opened' = FALSE
    /\ UNCHANGED <<blocking, inner, size, written, pend, pendN, cancels, res, bk>>

Next ==
    \/ Create
    \/ \E n \in Chunks : Write(n)
    \/ WriteReturn
    \/ Abort
    \/ AbortReturn
    \/ Close
    \/ CloseReturn
    \/ \E n \in Chunks : BlockingWrite(n)
    \/ BlockingClose
    \/ Cancel
    \/ Drop

Spec == Init /\ [][Next]_vars

-----------------------------------------------------------------------------
(***************************************************************************)
(* Properties.                                                            *)
(***************************************************************************)

\* The backend never receives more bytes than the declared content length,
\* across any sequence of writes, backend errors and cancellations (the
\* ContentTruncated check of write() against the written counter).
NoOverrun == opened /\ size # None => bk.bytes <= size

\* An object the backend committed by close has exactly the declared
\* length: close() refuses to forward while written < size, and written
\* tracks what the backend accepted.
CommittedExact == opened /\ size # None /\ bk.closes > 0 => bk.bytes = size

\* Once the backend writer has been closed or aborted it receives no further
\* call: write/abort/close of a finalised CompleteWriter stop at
\* inner.as_mut() and fail Unexpected.
NoCallAfterFinal ==
    [][opened /\ opened' /\ bk.closes + bk.aborts > 0 => bk' = bk]_vars

\* What the spec says of a finalised writer: every later call fails with
\* Unexpected (spec 4.4, "subsequent calls fail Unexpected").
AfterFinalizeUnexpected == opened /\ ~inner => res \in {"Ok", "Unexpected"}


-----------------------------------------------------------------------------
(***************************************************************************)
(* The inductive strengthening of NoOverrun and CommittedExact used by     *)
(* CompleteWriterProofs.  Outside a cancellation the written counter is   *)
(* exactly what the backend holds; a pending write has passed the size    *)
(* check; a pending close has passed the ContentIncomplete check; after a *)
(* cancellation only an abort can be in flight; and a writer whose        *)
(* backend committed can no longer reach the backend with a write.        *)
(***************************************************************************)
WrittenBound == size # None => written <= size
PendingWriteFits == pend = "write" /\ size # None => written + pendN <= size
PendingCloseComplete == pend = "close" => ~Incomplete
Tracked == cancels = 0 => bk.bytes = written
CancelledBound == cancels > 0 /\ size # None => bk.bytes <= size
CancelledPending == cancels > 0 => pend \in {"none", "abort"}
ClosedQuiet == bk.closes > 0 => pend # "write" /\ (~inner \/ cancels > 0)
ClosedExact == bk.closes > 0 /\ size # None => bk.bytes = size

IInv ==
    /\ TypeOK
    /\ WrittenBound
    /\ PendingWriteFits
    /\ PendingCloseComplete
    /\ Tracked
    /\ CancelledBound
    /\ CancelledPending
    /\ ClosedQuiet
    /\ ClosedExact

\* The invariant behind NoCallAfterFinal when the caller drops, rather than
\* aborts, a writer whose call it cancelled: a writer whose backend has been
\* finalised has nothing in flight and either no inner writer left or is
\* never called again.
FinalQuiet ==
    bk.closes + bk.aborts > 0 => pend = "none" /\ (~inner \/ cancels > 0)

=====
