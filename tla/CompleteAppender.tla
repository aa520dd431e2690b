-------------------------- MODULE CompleteAppender --------------------------
(***************************************************************************)
(* The finalisation discipline CompleteLayer puts around every backend    *)
(* appender (src/core/src/layers/complete.rs, CompleteAppender and         *)
(* CompleteReaderAccessor::append).  The adapter only keeps                *)
(* inner: Option<A>; append and close reach the backend through           *)
(* inner.as_mut() and fail Unexpected once it is None.  Both await the     *)
(* backend, so each is split into an issuing and a returning step and the  *)
(* caller may drop a pending call.  The backend appender is abstracted to  *)
(* the number of append and close calls that took effect.                 *)
(***************************************************************************)
EXTENDS Naturals

CONSTANTS
    MaxAppends,   \* bound on the appends the caller issues
    MaxCancels    \* bound on the calls of one appender the caller cancels


VARIABLES
    opened,   \* a CompleteAppender value exists
    inner,    \* self.inner.is_some()
    pend,     \* the backend call being awaited: "none", "append", "close"
    cancels,  \* calls of this appender the caller dropped
    res,      \* what the last completed call returned
    bk        \* [appends, closes] that took effect at the backend

vars == <<opened, inner, pend, cancels, res, bk>>

Results == {"none", "Ok", "Unexpected", "BackendError", "Cancelled"}

TypeOK ==
    /\ opened \in BOOLEAN
    /\ inner \in BOOLEAN
    /\ pend \in {"none", "append", "close"}
    /\ cancels \in Nat
    /\ res \in Results
    /\ bk \in [appends : Nat, closes : Nat]

Init ==
    /\ opened = FALSE
    /\ inner = FALSE
    /\ pend = "none"
    /\ cancels = 0
    /\ res = "none"
    /\ bk = [appends |-> 0, closes |-> 0]

\* CompleteReaderAccessor::append: inner.append(..).await, then
\* CompleteAppender::new(a) sets inner = Some(a).
Create ==
    /\ ~opened
    /\ opened' = TRUE
    /\ inner' = TRUE
    /\ pend' = "none"
    /\ cancels' = 0
    /\ res' = "none"
    /\ bk' = [appends |-> 0, closes |-> 0]

\* The caller may call the appender whenever no call of it is pending: the
\* spec asks a caller to treat a cancelled *writer* as aborted, and sets no
\* such rule for an appender, which may be appended to or closed again.
Idle == opened /\ pend = "none"

\* append(bs): inner.as_mut().ok_or_else(Unexpected)?, then a.append(bs).await.
Append ==
    /\ Idle /\ bk.appends < MaxAppends
    /\ \/ ~inner /\ res' = "Unexpected" /\ UNCHANGED <<pend, bk>>
       \/ inner /\ pend' = "append" /\ UNCHANGED <<res, bk>>
    /\ UNCHANGED <<opened, inner, cancels>>

\* a.append(bs).await returned; the adapter keeps no bookkeeping.
AppendReturn ==
    /\ pend = "append"
    /\ \/ bk' = [bk EXCEPT !.appends = @ + 1] /\ res' = "Ok"
       \/ bk' = bk /\ res' = "BackendError"
    /\ pend' = "none"
    /\ UNCHANGED <<opened, inner, cancels>>

\* close(): inner.as_mut().ok_or_else(Unexpected)?, then a.close().await?.
Close ==
    /\ Idle
    /\ \/ ~inner /\ res' = "Unexpected" /\ UNCHANGED pend
       \/ inner /\ pend' = "close" /\ UNCHANGED res
    /\ UNCHANGED <<opened, inner, cancels, bk>>

\* a.close().await? returned: on Ok, self.inner = None; on Err the `?`
\* returns before the assignment and the appender stays open.
CloseReturn ==
    /\ pend = "close"
    /\ \/ bk' = [bk EXCEPT !.closes = @ + 1] /\ inner' = FALSE /\ res' = "Ok"
       \/ bk' = bk /\ res' = "BackendError" /\ UNCHANGED inner
    /\ pend' = "none"
    /\ UNCHANGED <<opened, cancels>>

\* The caller drops a pending future; the backend may have applied the call.
Cancel ==
    /\ pend # "none" /\ cancels < MaxCancels
    /\ \/ bk' = IF pend = "append" THEN [bk EXCEPT !.appends = @ + 1]
                                    ELSE [bk EXCEPT !.closes = @ + 1]
       \/ bk' = bk
    /\ pend' = "none"
    /\ cancels' = cancels + 1
    /\ res' = "Cancelled"
    /\ UNCHANGED <<opened, inner>>

\* The value is dropped; its Drop impl only logs when inner is still Some.
Drop ==
    /\ opened /\ pend = "none"
    /\ opened' = FALSE
    /\ UNCHANGED <<inner, pend, cancels, res, bk>>

Next == Create \/ Append \/ AppendReturn \/ Close \/ CloseReturn \/ Cancel \/ Drop

Spec == Init /\ [][Next]_vars

-----------------------------------------------------------------------------
\* What spec 4.5 says of the appender: close() forwards once and marks the
\* appender finalised, and appends after finalisation fail Unexpected.  So
\* once the backend appender has been closed it receives no further append
\* or close, over any sequence of calls, backend errors and cancellations.
NoCallAfterClose == [][opened /\ opened' /\ bk.closes > 0 => bk' = bk]_vars
=============================================================================
