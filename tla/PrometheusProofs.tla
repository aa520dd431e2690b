--------------------------- MODULE PrometheusProofs ---------------------------
(***************************************************************************)
(* Proofs about PrometheusLayer for every set of operations, lengths and  *)
(* sizes and every bound: each call's timer is observed exactly once.     *)
(*                                                                         *)
(* TimerBalanced is not inductive: while a handler awaits its inner call  *)
(* one observation is missing.  PendingTimer says which one: the handler  *)
(* counted its request under the label it times under.  That rests on the *)
(* handler table: every handler that gets past both with_label_values    *)
(* calls uses one label for both (HandlerFacts).                           *)
(***************************************************************************)
EXTENDS PrometheusLayer, TLAPS

\* The facts about the handler table the steps use: labels come from the
\* operation enum or are the panic, a handler that passes both label calls
\* counts and times under one label, and only the reads observe on open.
LEMMA HandlerFacts ==
    \A o \in Labels :
        /\ H[o].count \in Labels \cup {"panic"}
        /\ H[o].timer \in Labels \cup {"panic"}
        /\ H[o].count # "panic" /\ H[o].timer # "panic" => H[o].count = H[o].timer
        /\ H[o].open => o \in {"Read", "BlockingRead"}
        /\ H[o].nlogs \in Nat
  BY DEF H, Labels, Handler, create_dir, read, write, stat, delete, list,
         batch, presign, blocking_create_dir, blocking_read, blocking_write,
         blocking_stat, blocking_delete, blocking_list

\* The initial state satisfies the inductive invariant.
LEMMA InitIInv == Init => IInv
  BY BoundsAssumption DEF Init, IInv, TypeOK, TimerBalanced,
         PendingTimer, Zero, Quiet

\* The facts about the constants the steps use.
LEMMA ConstantFacts ==
    /\ Ops \subseteq Labels /\ Lens \subseteq Nat /\ Sizes \subseteq Nat
    /\ MaxK \in Nat /\ MaxSteps \in Nat
  BY OpsAssumption, BoundsAssumption

\* An observation adds to bytes_total at one label, which stays a count.
LEMMA ObserveFacts ==
    ASSUME IInv, NEW l \in Labels, NEW k \in Nat, Observe(l, k)
    PROVE  bytes' \in [Labels -> Nat]
  BY DEF IInv, TypeOK, Observe, Bump

\* Every step, and every stutter, preserves the inductive invariant.  Each
\* action gets one step; the stream actions leave requests and durations
\* alone.
LEMMA NextIInv == IInv /\ [Next]_vars => IInv'
  <1> SUFFICES ASSUME IInv, [Next]_vars PROVE IInv'
    OBVIOUS
  <1> USE ConstantFacts, HandlerFacts
      DEF IInv, TypeOK, TimerBalanced, PendingTimer, Quiet,
          Bump
  <1>1. CASE Call
    BY <1>1 DEF Call
  <1>2. CASE Return
    <2>1. op \in Labels /\ H[op].count = H[op].timer /\ H[op].count \in Labels
          /\ requests = Bump(durations, H[op].timer, 1)
      BY <1>2 DEF Return
    <2>2. durations' = Bump(durations, H[op].timer, 1)
          /\ UNCHANGED <<op, requests, calls>>
      BY <1>2 DEF Return, Finish
    <2>3. TimerBalanced' /\ PendingTimer'
      BY <1>2, <2>1, <2>2 DEF Return
    <2>4. CASE H[op].wraps = "reader" /\ ph' = "reader"
      <3>1. PICK l \in Lens :
                /\ len' = l /\ pos' = 0
                /\ bytes' = IF H[op].open THEN Bump(bytes, op, l) ELSE bytes
        BY <1>2, <2>4 DEF Return
      <3>2. H[op].open => op \notin {"Write", "BlockingWrite"}
        BY <2>1
      <3>3. QED
        BY <1>2, <2>1, <2>2, <2>3, <2>4, <3>1, <3>2 DEF Return
    <2>5. CASE ~(H[op].wraps = "reader" /\ ph' = "reader")
      BY <1>2, <2>1, <2>2, <2>3, <2>5 DEF Return
    <2>6. QED
      BY <2>4, <2>5
  <1>3. CASE Cancel
    BY <1>3 DEF Cancel
  <1>4. CASE PollRead
    <2>1. CASE \E k \in Nat : Observe(ReadLabel, k) /\ UNCHANGED <<logs, errs>>
               /\ pos' \in 0..len
      <3>1. PICK k \in Nat : Observe(ReadLabel, k) /\ UNCHANGED <<logs, errs>>
                              /\ pos' \in 0..len
        BY <2>1
      <3>2. bytes' \in [Labels -> Nat]
        BY <3>1, ObserveFacts DEF ReadLabel, WriteLabel, Labels
      <3>3. QED
        BY <1>4, <3>1, <3>2 DEF PollRead, StreamStep, Observe
    <2>2. CASE StreamError
      BY <1>4, <2>2 DEF PollRead, StreamStep, StreamError
    <2>3. CASE UNCHANGED <<bytes, pos, logs, errs>>
      BY <1>4, <2>3 DEF PollRead, StreamStep
    <2>4. QED
      BY <1>4, <2>1, <2>2, <2>3 DEF PollRead, MinOf
  <1>5. CASE PollNext
    <2>1. CASE \E k \in Nat : Observe(ReadLabel, k) /\ UNCHANGED <<logs, errs>>
               /\ pos' \in 0..len
      <3>1. PICK k \in Nat : Observe(ReadLabel, k) /\ UNCHANGED <<logs, errs>>
                              /\ pos' \in 0..len
        BY <2>1
      <3>2. bytes' \in [Labels -> Nat]
        BY <3>1, ObserveFacts DEF ReadLabel, WriteLabel, Labels
      <3>3. QED
        BY <1>5, <3>1, <3>2 DEF PollNext, StreamStep, Observe
    <2>2. CASE StreamError
      BY <1>5, <2>2 DEF PollNext, StreamStep, StreamError
    <2>3. CASE UNCHANGED <<bytes, pos, logs, errs>>
      BY <1>5, <2>3 DEF PollNext, StreamStep
    <2>4. QED
      BY <1>5, <2>1, <2>2, <2>3 DEF PollNext, MinOf
  <1>6. CASE PollSeek
    BY <1>6 DEF PollSeek, StreamStep, StreamError
  <1>7. CASE WriteChunk
    <2>1. CASE \E s \in Sizes : Observe(WriteLabel, s) /\ UNCHANGED <<logs, errs>>
      <3>1. PICK s \in Sizes : Observe(WriteLabel, s) /\ UNCHANGED <<logs, errs>>
        BY <2>1
      <3>2. bytes' \in [Labels -> Nat]
        BY <3>1, ObserveFacts DEF ReadLabel, WriteLabel, Labels
      <3>3. QED
        BY <1>7, <3>1, <3>2 DEF WriteChunk, StreamStep, Observe
    <2>2. CASE StreamError
      BY <1>7, <2>2 DEF WriteChunk, StreamStep, StreamError
    <2>3. QED
      BY <1>7, <2>1, <2>2 DEF WriteChunk
  <1>8. CASE WriteClose
    BY <1>8 DEF WriteClose
  <1>9. CASE WriteAbort
    BY <1>9 DEF WriteAbort, WriteClose
  <1>10. CASE DropStream
    BY <1>10 DEF DropStream
  <1>11. CASE UNCHANGED vars
    BY <1>11 DEF vars
  <1>12. QED
    BY <1>1, <1>2, <1>3, <1>4, <1>5, <1>6, <1>7, <1>8, <1>9, <1>10, <1>11
       DEF Next

\* The inductive invariant holds in every reachable state.
THEOREM IInvHolds == Spec => []IInv
  BY InitIInv, NextIInv, PTL DEF Spec

\* Scoped release (spec 4.6 (b)): whenever no handler of
\* PrometheusAccessor is running, every label has exactly one duration
\* observation per request counted under it, for calls that succeed, fail
\* or are cancelled at their await, for every set of operations and bound.
THEOREM TimerBalancedHolds == Spec => []TimerBalanced
  BY IInvHolds, PTL DEF IInv

=============================================================================
