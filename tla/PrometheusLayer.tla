---------------------------- MODULE PrometheusLayer ----------------------------
(***************************************************************************)
(* PrometheusLayer (src/core/src/layers/prometheus.rs): an accessor that  *)
(* counts each call in requests_total, times it in                          *)
(* requests_duration_seconds, observes bytes into bytes_total, and logs    *)
(* each error it forwards, around an inner accessor whose answers are free *)
(* (Ok or an error, whose kind is forwarded unchanged and not told apart). *)
(* One caller task issues calls one at a time and                          *)
(* drives the reader or writer a call returns.                             *)
(*                                                                         *)
(* A metric vector is a function from the operation label to its value;   *)
(* the scheme label is the same on every update and is left out.  A       *)
(* histogram is abstracted to the sum of what it observed.  The log record *)
(* of increment_errors_total is a count per operation.                     *)
(*                                                                         *)
(* with_label_values panics when given fewer labels than the vector was   *)
(* registered with (the prometheus crate's get_metric_with_label_values    *)
(* fails and is unwrapped): such a call ends the caller's task.  A timer  *)
(* that is dropped unobserved (the future cancelled at its await) observes  *)
(* on drop (the crate's HistogramTimer).                                   *)
(***************************************************************************)
EXTENDS Naturals

CONSTANTS
    Ops,       \* the operations the caller invokes (a subset of Labels)
    Lens,      \* content lengths of what read returns
    Sizes,     \* sizes of the chunks the caller writes
    MaxK,      \* the most bytes one poll_read or poll_next returns
    MaxCalls,  \* the calls one caller makes
    MaxSteps   \* the reader or writer calls made on one stream

\* The Operation labels of the handlers (Operation::into_static).
Labels == {"CreateDir", "Read", "Write", "Stat", "Delete", "List", "Batch",
           "Presign", "BlockingCreateDir", "BlockingRead", "BlockingWrite",
           "BlockingStat", "BlockingDelete", "BlockingList"}

ASSUME OpsAssumption == Ops \subseteq Labels
ASSUME BoundsAssumption ==
    /\ MaxK \in Nat \ {0} /\ MaxCalls \in Nat /\ MaxSteps \in Nat
    /\ Lens \subseteq Nat /\ Sizes \subseteq Nat

VARIABLES
    ph,         \* "idle", "pending" (inner call outstanding), "reader",
                \* "writer", "panicked"
    op,         \* the operation of the current call or stream
    requests,   \* requests_total by operation label
    durations,  \* requests_duration_seconds observation count by label
    bytes,      \* bytes_total observed sum by label
    logs,       \* increment_errors_total records by operation
    pos, len,   \* the wrapped reader: bytes returned, content length
    steps,      \* calls made on the current stream
    calls,      \* ghost: calls the caller made, by operation
    errs        \* ghost: errors the caller received, by operation

vars == <<ph, op, requests, durations, bytes, logs, pos, len, steps,
          calls, errs>>

(***************************************************************************)
(* The handlers of PrometheusAccessor, one record each: the label          *)
(* requests_total is incremented under and the label the timer runs under *)
(* ("panic" where with_label_values gets one label), how many log records  *)
(* an error makes, whether the handler awaits the inner call, what it     *)
(* wraps, and whether it observes the content length on open.             *)
(***************************************************************************)
Handler(count, timer, nlogs, async, wraps, open) ==
    [count |-> count, timer |-> timer, nlogs |-> nlogs, async |-> async,
     wraps |-> wraps, open |-> open]

\* create_dir: requests_total.with_label_values(&[&self.scheme]).
create_dir == Handler("panic", "CreateDir", 1, TRUE, "none", FALSE)
\* read: observes content_length, wraps the reader.
read == Handler("Read", "Read", 1, TRUE, "reader", TRUE)
write == Handler("Write", "Write", 1, TRUE, "writer", FALSE)
\* stat: the error is logged by inspect_err and again by map_err.
stat == Handler("Stat", "Stat", 2, TRUE, "none", FALSE)
\* delete: counted and timed under Operation::Stat.
delete == Handler("Stat", "Stat", 1, TRUE, "none", FALSE)
list == Handler("List", "List", 1, TRUE, "none", FALSE)
batch == Handler("Batch", "Batch", 1, TRUE, "none", FALSE)
presign == Handler("Presign", "Presign", 1, TRUE, "none", FALSE)
blocking_create_dir ==
    Handler("BlockingCreateDir", "BlockingCreateDir", 1, FALSE, "none", FALSE)
\* blocking_read: the timer gets with_label_values(&[&self.scheme]).
blocking_read == Handler("BlockingRead", "panic", 1, FALSE, "reader", TRUE)
blocking_write ==
    Handler("BlockingWrite", "BlockingWrite", 1, FALSE, "writer", FALSE)
blocking_stat == Handler("BlockingStat", "BlockingStat", 1, FALSE, "none", FALSE)
blocking_delete ==
    Handler("BlockingDelete", "BlockingDelete", 1, FALSE, "none", FALSE)
blocking_list == Handler("BlockingList", "BlockingList", 1, FALSE, "none", FALSE)

H == [CreateDir |-> create_dir, Read |-> read, Write |-> write,
      Stat |-> stat, Delete |-> delete, List |-> list, Batch |-> batch,
      Presign |-> presign, BlockingCreateDir |-> blocking_create_dir,
      BlockingRead |-> blocking_read, BlockingWrite |-> blocking_write,
      BlockingStat |-> blocking_stat, BlockingDelete |-> blocking_delete,
      BlockingList |-> blocking_list]

Zero == [l \in Labels |-> 0]
Bump(f, l, n) == [f EXCEPT ![l] = @ + n]
Total(f) == LET F[S \in SUBSET Labels] ==
                  IF S = {} THEN 0
                  ELSE LET l == CHOOSE x \in S : TRUE IN f[l] + F[S \ {l}]
            IN  F[Labels]

TypeOK ==
    /\ ph \in {"idle", "pending", "reader", "writer", "panicked"}
    /\ op \in Labels \cup {"none"} /\ (ph # "idle" => op \in Labels)
    /\ requests \in [Labels -> Nat] /\ durations \in [Labels -> Nat]
    /\ bytes \in [Labels -> Nat] /\ logs \in [Labels -> Nat]
    /\ calls \in [Labels -> Nat]
    /\ errs \in [Labels -> Nat]
    /\ len \in Nat /\ pos \in 0..len /\ steps \in 0..MaxSteps

\* PrometheusLayer::layer and PrometheusMetrics::new: fresh metric vectors.
Init ==
    /\ ph = "idle" /\ op = "none"
    /\ requests = Zero /\ durations = Zero /\ bytes = Zero /\ logs = Zero
    /\ pos = 0 /\ len = 0 /\ steps = 0
    /\ calls = Zero /\ errs = Zero

MinOf(a, b) == IF a < b THEN a ELSE b

\* Every handler opens with requests_total.with_label_values(..).inc() and
\* requests_duration_seconds.with_label_values(..).start_timer(), then
\* calls the inner accessor.
Call ==
    /\ ph = "idle" /\ Total(calls) < MaxCalls
    /\ \E o \in Ops :
          /\ calls' = Bump(calls, o, 1) /\ op' = o
          /\ \/ /\ H[o].count = "panic"
                /\ ph' = "panicked" /\ UNCHANGED requests
             \/ /\ H[o].count # "panic"
                /\ requests' = Bump(requests, H[o].count, 1)
                /\ ph' = IF H[o].timer = "panic" THEN "panicked" ELSE "pending"
    /\ UNCHANGED <<durations, bytes, logs, pos, len, steps, errs>>

\* A mutant of Finish: the timer is observed only when the inner call
\* succeeded (observe_duration after the `?`).
FinishNoTimerOnError(ok) ==
    durations' = IF ok THEN Bump(durations, H[op].timer, 1) ELSE durations

\* timer.observe_duration() once the inner call has returned.
Finish(ok) == durations' = Bump(durations, H[op].timer, 1)

(***************************************************************************)
(* The inner call returns.  On Ok, read and blocking_read observe the     *)
(* content length and wrap the reader; write and blocking_write wrap the  *)
(* writer.  On an error, map_err (and, for stat, inspect_err) logs it and  *)
(* forwards it unchanged.                                                   *)
(***************************************************************************)
Return ==
    /\ ph = "pending"
    /\ \/ /\ Finish(TRUE)
          /\ \/ /\ H[op].wraps = "reader"
                /\ \E l \in Lens :
                      /\ len' = l /\ pos' = 0
                      /\ bytes' = IF H[op].open THEN Bump(bytes, op, l) ELSE bytes
                /\ ph' = "reader" /\ steps' = 0
             \/ /\ H[op].wraps = "writer"
                /\ ph' = "writer" /\ steps' = 0
                /\ UNCHANGED <<bytes, pos, len>>
             \/ /\ H[op].wraps = "none"
                /\ ph' = "idle" /\ UNCHANGED <<bytes, pos, len, steps>>
          /\ UNCHANGED <<logs, errs>>
       \/ /\ Finish(FALSE)
          /\ logs' = Bump(logs, op, H[op].nlogs) /\ errs' = Bump(errs, op, 1)
          /\ ph' = "idle"
          /\ UNCHANGED <<bytes, pos, len, steps>>
    /\ UNCHANGED <<op, requests, calls>>

\* The caller drops the future of an async handler at its await: the timer
\* observes as it is dropped, and nothing is logged.
Cancel ==
    /\ ph = "pending" /\ H[op].async
    /\ durations' = Bump(durations, H[op].timer, 1)
    /\ ph' = "idle"
    /\ UNCHANGED <<op, requests, bytes, logs, pos, len, steps, calls, errs>>

-----------------------------------------------------------------------------
(***************************************************************************)
(* PrometheusMetricWrapper around a reader: oio::Read observes under      *)
(* Operation::Read, oio::BlockingRead under Operation::BlockingRead; an   *)
(* error is logged under the wrapper's op.                                 *)
(***************************************************************************)
ReadLabel == IF H[op].async THEN "Read" ELSE "BlockingRead"

StreamStep == ph' = ph /\ steps < MaxSteps /\ steps' = steps + 1

StreamError ==
    /\ logs' = Bump(logs, op, 1) /\ errs' = Bump(errs, op, 1)
    /\ UNCHANGED <<bytes, pos>>

\* k bytes the inner reader returned reach the caller and are observed.
Observe(l, k) ==
    bytes' = Bump(bytes, l, k)

\* poll_read (BlockingRead::read): Ok(n), n = 0 only at the end, or Err.
PollRead ==
    /\ ph = "reader" /\ StreamStep
    /\ \/ /\ \E k \in IF pos = len THEN {0} ELSE 1..MinOf(MaxK, len - pos) :
                Observe(ReadLabel, k) /\ pos' = pos + k
          /\ UNCHANGED <<logs, errs>>
       \/ StreamError
    /\ UNCHANGED <<op, requests, durations, len, calls>>

\* poll_next (BlockingRead::next): Some(Ok(bytes)), None at the end, or
\* Some(Err).
PollNext ==
    /\ ph = "reader" /\ StreamStep
    /\ \/ /\ pos < len
          /\ \E k \in 1..MinOf(MaxK, len - pos) :
                Observe(ReadLabel, k) /\ pos' = pos + k
          /\ UNCHANGED <<logs, errs>>
       \/ /\ pos = len
          /\ UNCHANGED <<bytes, pos, logs, errs>>
       \/ StreamError
    /\ UNCHANGED <<op, requests, durations, len, calls>>

\* poll_seek (BlockingRead::seek): forwarded, an error logged.
PollSeek ==
    /\ ph = "reader" /\ StreamStep
    /\ \/ /\ \E p \in 0..len : pos' = p
          /\ UNCHANGED <<bytes, logs, errs>>
       \/ StreamError
    /\ UNCHANGED <<op, requests, durations, len, calls>>

(***************************************************************************)
(* PrometheusMetricWrapper around a writer: oio::Write::write observes the *)
(* chunk's size under Operation::Write once the inner write succeeded,    *)
(* BlockingWrite::write under Operation::BlockingWrite; close and abort    *)
(* only log an error.                                                       *)
(***************************************************************************)
WriteLabel == IF H[op].async THEN "Write" ELSE "BlockingWrite"

WriteChunk ==
    /\ ph = "writer" /\ StreamStep
    /\ \E s \in Sizes :
          \/ Observe(WriteLabel, s) /\ UNCHANGED <<logs, errs>>
          \/ StreamError
    /\ UNCHANGED <<op, requests, durations, pos, len, calls>>

\* close: Ok ends the stream; an error is logged and the writer kept.
WriteClose ==
    /\ ph = "writer" /\ steps < MaxSteps
    /\ \/ ph' = "idle" /\ UNCHANGED <<steps, logs, errs>>
       \/ ph' = "writer" /\ steps' = steps + 1
          /\ logs' = Bump(logs, op, 1) /\ errs' = Bump(errs, op, 1)
    /\ UNCHANGED <<op, requests, durations, bytes, pos, len, calls>>

\* abort (oio::Write only): as close.
WriteAbort ==
    /\ ph = "writer" /\ H[op].async /\ WriteClose

\* The caller drops the reader, or a writer it gives up on.
DropStream ==
    /\ ph \in {"reader", "writer"} /\ ph' = "idle"
    /\ UNCHANGED <<op, requests, durations, bytes, logs, pos, len, steps,
                   calls, errs>>

Next ==
    \/ Call \/ Return \/ Cancel
    \/ PollRead \/ PollNext \/ PollSeek
    \/ WriteChunk \/ WriteClose \/ WriteAbort \/ DropStream

Spec == Init /\ [][Next]_vars

-----------------------------------------------------------------------------
\* No handler call is running.
Quiet == ph \in {"idle", "reader", "writer"}

\* Scoped release (spec 4.6 (b)): whenever no handler is running, every
\* label has had one duration observation per request counted under it:
\* the timer of every call, successful, failed or cancelled at its await,
\* has been observed exactly once.
TimerBalanced ==
    Quiet => \A l \in Labels : durations[l] = requests[l]

\* Spec 4.6 (a): requests_total counts each call under its own operation.
RequestsCounted ==
    Quiet => \A o \in Ops : requests[o] = calls[o]

\* No call through the layer panics.
NoPanic == ph # "panicked"

-----------------------------------------------------------------------------
\* While a handler awaits its inner call, its request is counted under the
\* label it times under and its timer is the one observation missing.
PendingTimer ==
    ph = "pending" =>
        /\ op \in Labels /\ H[op].count = H[op].timer /\ H[op].count \in Labels
        /\ requests = Bump(durations, H[op].timer, 1)

\* The inductive strengthening of TimerBalanced.
IInv == TypeOK /\ TimerBalanced /\ PendingTimer
=============================================================================
