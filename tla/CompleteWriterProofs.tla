------------------------ MODULE CompleteWriterProofs ------------------------
(***************************************************************************)
(* Proofs about CompleteWriter for every value of the constants: the type *)
(* invariant, and that the backend writer never receives more bytes than *)
(* the declared length and commits exactly that length, under any         *)
(* interleaving of writes, backend errors and cancellations.              *)
(***************************************************************************)
EXTENDS CompleteWriter, TLAPS

\* The facts about the constants every step of the proofs needs.
LEMMA ConstantFacts ==
    /\ Sizes \subseteq Nat
    /\ None \notin Sizes
    /\ Chunks \subseteq Nat
  BY SizesAssumption, ChunksAssumption

\* The initial state satisfies the inductive invariant.
LEMMA InitIInv == Init => IInv
  <1> SUFFICES ASSUME Init PROVE IInv
    OBVIOUS
  <1> QED
    BY ConstantFacts DEF Init, IInv, TypeOK, FreshBackend, Results, Incomplete,
       WrittenBound, PendingWriteFits, PendingCloseComplete, Tracked,
       CancelledBound, CancelledPending, ClosedQuiet, ClosedExact

\* Every step keeps the writer's state well typed.  The flags, the records
\* and the counters are typed in separate steps, each over all actions.
LEMMA TypeStep == TypeOK /\ [Next]_vars => TypeOK'
  <1> SUFFICES ASSUME TypeOK, [Next]_vars PROVE TypeOK'
    OBVIOUS
  <1> USE DEF Next, vars, TypeOK, Create, Write, Fail, Issue, WriteReturn,
              WriteDone, Abort, AbortReturn, Close, CloseReturn, CloseDone,
              BlockingWrite, BlockingClose, Cancel, Drop
  <1>1. opened' \in BOOLEAN /\ blocking' \in BOOLEAN /\ inner' \in BOOLEAN
    OBVIOUS
  <1>2. bk' \in [bytes : Nat, closes : Nat, aborts : Nat] /\ res' \in Results
    BY ChunksAssumption DEF Results, FreshBackend, BackendEffect
  <1>3. /\ size' \in Sizes \cup {None}
        /\ written' \in Nat
        /\ pend' \in {"none", "write", "abort", "close"}
        /\ pendN' \in Nat
        /\ cancels' \in Nat
    BY ChunksAssumption
  <1>4. QED
    BY <1>1, <1>2, <1>3

\* The parts of IInv beyond the type invariant.
Bounds ==
    /\ WrittenBound
    /\ PendingWriteFits
    /\ PendingCloseComplete
    /\ Tracked
    /\ CancelledBound
    /\ CancelledPending
    /\ ClosedQuiet
    /\ ClosedExact

\* Every step of the writer, and every stutter, preserves IInv.
LEMMA NextIInv == IInv /\ [Next]_vars => IInv'
  <1> SUFFICES ASSUME IInv, [Next]_vars PROVE IInv'
    OBVIOUS
  <1>0. TypeOK'
    BY TypeStep DEF IInv
  <1> SUFFICES Bounds'
    BY <1>0 DEF IInv, Bounds
  <1> USE <1>0, ConstantFacts DEF IInv, TypeOK, Bounds, WrittenBound,
          PendingWriteFits, PendingCloseComplete, Incomplete, Tracked,
          CancelledBound, CancelledPending, ClosedQuiet, ClosedExact
  <1>1. CASE Create
    BY <1>1 DEF Create, FreshBackend
  <1>2. ASSUME NEW n \in Chunks, Write(n) PROVE Bounds'
    <2>1. CASE Truncated(n) /\ Fail("ContentTruncated")
      BY <2>1 DEF Fail
    <2>2. CASE ~Truncated(n) /\ ~inner /\ Fail("Unexpected")
      BY <2>2 DEF Fail
    <2>3. CASE ~Truncated(n) /\ inner /\ Issue("write", n)
      BY <1>2, <2>3 DEF Write, Idle, Truncated, Issue
    <2>4. QED
      BY <1>2, <2>1, <2>2, <2>3 DEF Write
  <1>3. CASE WriteReturn
    BY <1>3 DEF WriteReturn, WriteDone
  <1>4. CASE Abort
    <2>1. CASE ~inner /\ Fail("Unexpected")
      BY <2>1 DEF Fail
    <2>2. CASE inner /\ Issue("abort", 0)
      BY <1>4, <2>2 DEF Abort, Issue
    <2>3. QED
      BY <1>4, <2>1, <2>2 DEF Abort
  <1>5. CASE AbortReturn
    BY <1>5 DEF AbortReturn
  <1>6. CASE Close
    <2>1. CASE Incomplete /\ Fail("ContentIncomplete")
      BY <2>1 DEF Fail
    <2>2. CASE ~Incomplete /\ ~inner /\ Fail("Unexpected")
      BY <2>2 DEF Fail
    <2>3. CASE ~Incomplete /\ inner /\ Issue("close", 0)
      BY <1>6, <2>3 DEF Close, Idle, Issue
    <2>4. QED
      BY <1>6, <2>1, <2>2, <2>3 DEF Close
  <1>7. CASE CloseReturn
    BY <1>7 DEF CloseReturn, CloseDone
  <1>8. ASSUME NEW n \in Chunks, BlockingWrite(n) PROVE Bounds'
    <2>1. CASE Truncated(n) /\ Fail("ContentTruncated")
      BY <2>1 DEF Fail
    <2>2. CASE ~Truncated(n) /\ ~inner /\ Fail("Unexpected")
      BY <2>2 DEF Fail
    <2>3. CASE /\ ~Truncated(n) /\ inner
               /\ WriteDone(n)
               /\ UNCHANGED <<opened, blocking, inner, size, pend, pendN, cancels>>
      BY <1>8, <2>3 DEF BlockingWrite, Idle, Truncated, WriteDone
    <2>4. QED
      BY <1>8, <2>1, <2>2, <2>3 DEF BlockingWrite
  <1>9. CASE BlockingClose
    <2>1. CASE Incomplete /\ Fail("ContentIncomplete")
      BY <2>1 DEF Fail
    <2>2. CASE ~Incomplete /\ ~inner /\ Fail("Unexpected")
      BY <2>2 DEF Fail
    <2>3. CASE /\ ~Incomplete /\ inner
               /\ CloseDone
               /\ UNCHANGED <<opened, blocking, size, written, pend, pendN, cancels>>
      <3>1. cancels = 0 /\ pend = "none"
        BY <1>9 DEF BlockingClose, Idle
      <3>2. CASE bk' = [bk EXCEPT !.closes = @ + 1] /\ inner' = FALSE /\ res' = "Ok"
        BY <2>3, <3>1, <3>2
      <3>3. CASE UNCHANGED <<bk, inner>> /\ res' = "BackendError"
        BY <2>3, <3>1, <3>3
      <3>4. QED
        BY <2>3, <3>2, <3>3 DEF CloseDone
    <2>4. QED
      BY <1>9, <2>1, <2>2, <2>3 DEF BlockingClose
  <1>10. CASE Cancel
    BY <1>10 DEF Cancel, BackendEffect
  <1>11. CASE Drop
    BY <1>11 DEF Drop
  <1>12. CASE UNCHANGED vars
    BY <1>12 DEF vars
  <1>13. QED
    BY <1>1, <1>2, <1>3, <1>4, <1>5, <1>6, <1>7, <1>8, <1>9, <1>10, <1>11,
       <1>12 DEF Next

\* IInv holds in every state of every behaviour.
THEOREM Invariance == Spec => []IInv
  BY InitIInv, NextIInv, PTL DEF Spec

\* Type correctness of the writer's state.
THEOREM TypeCorrect == Spec => []TypeOK
  <1>1. IInv => TypeOK
    BY DEF IInv
  <1>2. QED
    BY <1>1, Invariance, PTL

\* The backend never receives more than the declared content length.
THEOREM NoOverrunHolds == Spec => []NoOverrun
  <1>1. IInv => NoOverrun
    BY ConstantFacts DEF IInv, TypeOK, NoOverrun, WrittenBound, Tracked,
       CancelledBound
  <1>2. QED
    BY <1>1, Invariance, PTL

\* A committed object has exactly the declared content length.
THEOREM CommittedExactHolds == Spec => []CommittedExact
  <1>1. IInv => CommittedExact
    BY DEF IInv, CommittedExact, ClosedExact
  <1>2. QED
    BY <1>1, Invariance, PTL

-----------------------------------------------------------------------------
(***************************************************************************)
(* When the caller drops a writer whose call it cancelled (instead of     *)
(* aborting it), a finalised backend writer is never called again.        *)
(***************************************************************************)

\* FinalQuiet is inductive on its own when the caller does not abort after
\* a cancellation.
LEMMA FinalQuietStep ==
    ASSUME ~AbortAfterCancel
    PROVE  TypeOK /\ FinalQuiet /\ [Next]_vars => FinalQuiet'
  <1> SUFFICES ASSUME TypeOK, FinalQuiet, [Next]_vars PROVE FinalQuiet'
    OBVIOUS
  <1> USE DEF TypeOK, FinalQuiet
  <1>1. CASE Create
    BY <1>1 DEF Create, FreshBackend
  <1>2. ASSUME NEW n \in Chunks, Write(n) PROVE FinalQuiet'
    <2>1. pend = "none" /\ cancels = 0
      BY <1>2 DEF Write, Idle
    <2>2. CASE UNCHANGED <<bk, pend, inner, cancels>>
      BY <2>2
    <2>3. CASE inner /\ Issue("write", n)
      BY <2>1, <2>3 DEF Issue
    <2>4. QED
      BY <1>2, <2>2, <2>3 DEF Write, Fail
  <1>3. CASE WriteReturn
    BY <1>3 DEF WriteReturn, WriteDone
  <1>4. CASE Abort
    <2>1. pend = "none" /\ cancels = 0
      BY <1>4 DEF Abort
    <2>2. CASE UNCHANGED <<bk, pend, inner, cancels>>
      BY <2>2
    <2>3. CASE inner /\ Issue("abort", 0)
      BY <2>1, <2>3 DEF Issue
    <2>4. QED
      BY <1>4, <2>2, <2>3 DEF Abort, Fail
  <1>5. CASE AbortReturn
    <2>1. CASE bk' = [bk EXCEPT !.aborts = @ + 1] /\ inner' = FALSE /\ res' = "Ok"
      BY <1>5, <2>1 DEF AbortReturn
    <2>2. CASE UNCHANGED <<bk, inner>> /\ res' = "BackendError"
      BY <1>5, <2>2 DEF AbortReturn
    <2>3. QED
      BY <1>5, <2>1, <2>2 DEF AbortReturn
  <1>6. CASE Close
    <2>1. CASE UNCHANGED <<bk, pend, inner, cancels>>
      BY <2>1
    <2>2. CASE inner /\ cancels = 0 /\ Issue("close", 0)
      BY <2>2 DEF Issue
    <2>3. QED
      BY <1>6, <2>1, <2>2 DEF Close, Idle, Fail, Issue
  <1>7. CASE CloseReturn
    BY <1>7 DEF CloseReturn, CloseDone
  <1>8. ASSUME NEW n \in Chunks, BlockingWrite(n) PROVE FinalQuiet'
    BY <1>8 DEF BlockingWrite, Idle, Fail, WriteDone
  <1>9. CASE BlockingClose
    BY <1>9 DEF BlockingClose, Idle, Fail, CloseDone
  <1>10. CASE Cancel
    BY <1>10 DEF Cancel, BackendEffect
  <1>11. CASE Drop
    BY <1>11 DEF Drop
  <1>12. CASE UNCHANGED vars
    BY <1>12 DEF vars
  <1>13. QED
    BY <1>1, <1>2, <1>3, <1>4, <1>5, <1>6, <1>7, <1>8, <1>9, <1>10, <1>11,
       <1>12 DEF Next

\* A step of an open writer whose backend is finalised leaves the backend
\* alone: every call stops before reaching it.
LEMMA QuietStep ==
    ASSUME ~AbortAfterCancel
    PROVE  TypeOK /\ FinalQuiet /\ [Next]_vars
             => (opened /\ opened' /\ bk.closes + bk.aborts > 0 => bk' = bk)
  <1> SUFFICES ASSUME TypeOK, FinalQuiet, [Next]_vars,
                      opened, opened', bk.closes + bk.aborts > 0
               PROVE  bk' = bk
    OBVIOUS
  <1>1. pend = "none" /\ (~inner \/ cancels > 0)
    BY DEF FinalQuiet
  <1>2. CASE Create
    BY <1>2 DEF Create
  <1>3. ASSUME NEW n \in Chunks, Write(n) PROVE bk' = bk
    BY <1>1, <1>3 DEF Write, Idle, Fail, Issue
  <1>4. CASE Abort
    BY <1>1, <1>4 DEF Abort, Fail, Issue
  <1>5. CASE Close
    <2>1. cancels = 0 /\ ~inner
      BY <1>1, <1>5 DEF Close, Idle
    <2>2. QED
      BY <1>5, <2>1 DEF Close, Fail, Issue
  <1>6. ASSUME NEW n \in Chunks, BlockingWrite(n) PROVE bk' = bk
    <2>1. cancels = 0 /\ ~inner
      BY <1>1, <1>6 DEF BlockingWrite, Idle
    <2>2. QED
      BY <1>6, <2>1 DEF BlockingWrite, Fail
  <1>7. CASE BlockingClose
    <2>1. cancels = 0 /\ ~inner
      BY <1>1, <1>7 DEF BlockingClose, Idle
    <2>2. QED
      BY <1>7, <2>1 DEF BlockingClose, Fail
  <1>8. CASE WriteReturn \/ AbortReturn \/ CloseReturn \/ Cancel
    BY <1>1, <1>8 DEF WriteReturn, AbortReturn, CloseReturn, Cancel
  <1>9. CASE Drop \/ UNCHANGED vars
    BY <1>9 DEF Drop, vars
  <1>10. QED
    BY <1>2, <1>3, <1>4, <1>5, <1>6, <1>7, <1>8, <1>9 DEF Next

\* NoCallAfterFinal holds for every value of the constants when the caller
\* drops a writer whose call it cancelled.
THEOREM NoCallAfterFinalHolds ==
    ASSUME ~AbortAfterCancel
    PROVE  Spec => NoCallAfterFinal
  <1>1. Init => FinalQuiet
    BY DEF Init, FinalQuiet, FreshBackend
  <1>2. Init => TypeOK /\ FinalQuiet
    BY <1>1, InitIInv DEF IInv
  <1>3. TypeOK /\ FinalQuiet /\ [Next]_vars => (TypeOK /\ FinalQuiet)'
    BY FinalQuietStep, TypeStep
  <1>4. Spec => [](TypeOK /\ FinalQuiet)
    BY <1>2, <1>3, PTL DEF Spec
  <1>5. QED
    BY <1>4, QuietStep, PTL DEF Spec, NoCallAfterFinal

=============================================================================
