# TLA+ verification of OpenDAL's capability-completion core

This directory holds TLA+ models of four files of OpenDAL under `src/core/src/`:

- `layers/complete.rs`
- `layers/prometheus.rs`
- `types/operator/operator.rs`
- `services/supabase/backend.rs`

It also holds the TLC configurations that model-check them on small
instances, and TLAPS proofs of their central safety properties for every
value of the constants. `PROJECT.json` is the machine-readable index. It
lists the components, the runs, one mutant per checked property, the map
from each definition to the source lines it translates, the findings, the
hazards and the theorems.

## 1. The system and how its parts interact

A call goes from the `Operator` facade, through the optional
`PrometheusLayer`, through `CompleteLayer`, to a storage service such as
Supabase. Each layer wraps the accessor below it.

`CompleteLayer` reads the service's capability record on every call. It
then either forwards the call or wraps the result in an adapter:

- a size-checked writer;
- an appender that refuses calls after close;
- a range reader or streamable reader;
- a flat pager or hierarchy pager.

Two adapters call back into the inner accessor. The range reader re-opens
the object after a seek, and the flat pager lists more directories.

`PrometheusLayer` counts, times and logs every call. It also wraps the
readers and writers it returns, to count bytes.

The `Operator` builds multi-call operations on top:

- `remove_all`: stat, scan, batched or sequential deletes, then a final delete;
- `remove_via`: batched, or concurrent up to a limit;
- `is_exist`, `check` and `write_with`.

Every backend call is an `await`. A caller can drop any pending future, and
other callers of the same bucket act between the calls of an operation.

## 2. Modules

| Module | Models | Source |
|---|---|---|
| `CompleteWriter` | `CompleteWriter` and `write`/`blocking_write` of the layer | `complete.rs` 516-656 |
| `CompleteAppender` | `CompleteAppender` and `append` | `complete.rs` 658-704 |
| `CompleteReader` | `complete_reader`, `complete_blocking_reader`, the `CompleteReader` dispatch, and the range and streamable readers of `raw/oio` (spec-modelled) | `complete.rs` 150-221, 395-475 |
| `CompleteReaderWriters` | the reader composed with another caller that overwrites the object | spec 5 |
| `ReaderSpec` | what any reader the layer returns promises | spec 4.2, 8 |
| `CompleteList` | `complete_list`, `complete_blocking_list`, the `CompletePager` dispatch, and the flat and hierarchy pagers (spec-modelled) | `complete.rs` 223-320, 477-514 |
| `SupabaseBackend` | the Supabase accessor's answers: `info`, `stat` (HEAD, then `get_object_info`), `delete`, `create_dir`, `write` | `backend.rs` |
| `Operator` | the facade over `CompleteLayer` and a service: `stat`, `is_exist`, `create_dir`, `delete`, `write_with`, `remove_via`, `remove_all`, `scan`, `check` | `operator.rs`, `complete.rs` |
| `PrometheusLayer` | every handler of `PrometheusAccessor`, and `PrometheusMetricWrapper` around readers and writers | `prometheus.rs` |
| `*Proofs` | TLAPS proofs (section 5) | |
| `MC*` | TLC instances: the constants of each run | |

### CompleteWriter and CompleteAppender

**State.** The writer's variables are:

- `inner`, which is `self.inner.is_some()`;
- `size` and `written`;
- `blocking`, which says which trait impl is used;
- `opened`, which says a value exists.

The environment is:

- `pend` and `pendN`: the backend call being awaited;
- `cancels`: how many pending calls the caller dropped;
- `bk`: the backend writer, reduced to the bytes it accepted and the close
  and abort calls that took effect.

**Actions.**

- `Write`, `Abort` and `Close` are each method's guards and early returns,
  up to its await.
- `WriteReturn`, `AbortReturn` and `CloseReturn` are the code after the
  await.
- `BlockingWrite` and `BlockingClose` are the same code without suspension.
- `Cancel` drops a pending future. The backend may or may not have applied
  the call.
- `Drop` only logs.

**Assumptions.**

- A backend call that returns an error had no effect.
- After a cancellation the caller does not write or close again. Spec
  section 5 says the caller must treat a cancelled writer as aborted.
- `AbortAfterCancel` says how the caller does that: by dropping the writer
  (`FALSE`, the `writer_safety` run) or by calling `abort` (`TRUE`, the
  `writer_abort_after_cancel` run).

The appender is the same shape, but it keeps only `inner`. The spec sets
no cancellation rule for appenders. So the appender's `Idle` allows any
call after a cancellation: a cancelled append or close may be followed by
another append or close.

### CompleteReader and ReaderSpec

A reader is opened on an object, given as a sequence of version lengths.
`CompleteReader` keeps its first version. `CompleteReaderWriters` composes
the reader with another caller whose `Overwrite` replaces the current
version at any step (`SpecW`). A range
may start past the end of the object. The range reader then keeps
`base = off` with `total = 0` and returns eof.

The backend read, the stat and the blocking read can each fail. These
are the `ReadFail` and `StatFail` actions and the error branch of
`BlockingRead`. The caller then gets the error and no reader.

The capability table picks the `CompleteReader` variant. For a suffix range
on a non-seekable backend, the read is followed by a stat. A backend reader
is `[ver, a, b, c]`: it streams bytes `[a, b)` of version `ver` and has
returned `c` of them. The range reader keeps `(base, total)` and `pos`, and
re-opens at `base + pos` when it has no backend reader.

`ReaderSpec` is the abstract reader. It holds the caller's request `req`,
a window `[ver, off, len]` of one version, a position inside it, and an
output of contiguous runs, eof or an error. Its actions are:

- `Request`: the caller asks for a range;
- `Open`: the window of that range over the current version, which is
  a function of the request and the object;
- `CallOpen`: the same, for the blocking read;
- `Fail`: the request ends in an error;
- `Pull`, `Eof`, `Seek` and `Close`.

`CompleteReader` implements it through
`Abs == INSTANCE ReaderSpec WITH req <- rng, win <- LWin, pos <- LPos`:

- the request is the caller's range `rng`;
- the window is the passed-through span, or the range reader's
  `(min(base, T), total)`;
- the position is the stream's `c`, or `pos`.

### CompleteList

The store is a set of files. A backend pager is the set of entries it has
not returned yet, and a page is any 1..`Limit` of them, so every page
boundary is covered. The caller's output is a count per entry. The actions
are:

- `ListCall`, the delimiter and capability table;
- `PageNext`, with one disjunct per `CompletePager` variant and pager step;
- `Drop`.

### Operator over SupabaseBackend

One caller runs one operation. Each backend request is one step, so the
`Other` action can run between two requests of an operation. `Other` is
another caller that writes or deletes a file, up to `MaxOther` times.

`Service` chooses between two backends:

- `SupabaseBackend`, which has no list and no batch;
- a generic listing backend, optionally with batch delete (spec-modelled).

Any request may fail on its own, up to `MaxFails` times. `Finish` records
what the operation returned, and what the store holds of its target at
that moment. It also records `quiet` (nobody else acted) and `faulted`
(one of its own requests failed), so that properties can state the
conditions under which the docs make their promise.

### PrometheusLayer

Each handler is a record `Handler(count, timer, nlogs, async, wraps, open)`
taken from its code:

- `count` is the label it increments under;
- `timer` is the label it times under;
- `nlogs` is how many log records an error makes (`stat` logs twice);
- `async` says whether it awaits the inner call;
- `wraps` says whether it wraps a reader or a writer;
- `open` says whether it observes the content length on open.

A label of `"panic"` marks a `with_label_values` given one label for a
two-label vector; the crate's `unwrap` then panics.

Metric vectors are functions from the operation label to a value, and a
histogram is reduced to the sum it observed. The actions are:

- `Call`: count, start the timer, call the inner accessor;
- `Return`: observe, wrap or log;
- `Cancel`: the future is dropped at its await, and the crate's
  `HistogramTimer` observes on drop;
- the stream actions `PollRead`, `PollNext`, `PollSeek`, `WriteChunk`,
  `WriteClose`, `WriteAbort` and `DropStream`.

The ghost variables `calls` and `errs` record what the caller saw.

## 3. Runs

Each run is a row of `PROJECT.json` `runs`. Every property of a passing run
has a mutant: a plausible bug in the mapped code under which TLC finds the
property violated.

| Run | Checks | Result |
|---|---|---|
| `writer_safety` | `NoOverrun`, `CommittedExact`, `NoCallAfterFinal` (action property) | pass |
| `writer_abort_after_cancel` | `NoCallAfterFinal`, a caller that aborts a cancelled writer | violation |
| `appender_close_cancelled` | `NoCallAfterClose` (action property) | violation |
| `reader_refinement` | `ReaderRefinement` = `Abs!Spec`, and `ZeroCost` | pass |
| `reader_suffix_race` | `SuffixOfReadVersion` | violation |
| `list_exact` | `ListingExact`, and `Termination` under `WF_vars(PageNext)` | pass |
| `operator_generic` | `RemoveAllClears`, `RemoveViaErrorSurfaced` | pass |
| `operator_supabase_stat` | `StatErrorActual`, nobody else writing | pass |
| `operator_supabase_stat_race` | `StatErrorActual`, with another writer | violation |
| `prometheus_metrics` | `TimerBalanced`, every handler | pass |
| `prometheus_delete_label` | `RequestsCounted`, a caller of stat and delete | violation |
| `prometheus_create_dir_panic` | `NoPanic`, a caller of create_dir | violation |

**Bounds, and why they are enough.**

- **Writer.** Sizes are 0..2, chunks 0..2, at most 3 bytes and 2
  cancellations. A chunk can exactly fill, underfill or overfill the size.
  Writes of zero length, a size of 0, and two cancellations in a row all
  happen.
- **Appender.** Up to 6 appends and 3 cancellations, so a close can be
  cancelled before or after it took effect, and then retried.
- **Reader.** A 3-byte object with offsets 0, 1 and 4 and sizes 2 and 4:
  a suffix shorter and longer than the object, a range running past its
  end, and a range starting past its end. Runs
  are at most 2 bytes, the consume threshold is 1, and there are three
  reads or seeks. A short forward seek is consumed, a longer or backward
  one re-opens, and a read reaches the end of the window. The
  `reader_suffix_race` object has a second version of 1 byte.
- **List.** The store is that of spec scenario S5 (`a`, `b/c`, `b/d`,
  `e/f/g`), with pages of at most 2 entries. It has a file at the root, a
  directory of two files that can be split over two pages, and a directory
  two levels deep. The delimiters are `""`, `"/"` and an unsupported `","`.
  Every capability combination is checked.
- **Operator.** The keys are the root, `d/` with two files, and an empty
  `e/`. Two files let a limit of 1 split a batch and hold back a second
  concurrent delete. A limit of 0 is the panicking `chunks(0)` and the
  unbounded `try_for_each_concurrent`. Another caller makes one move, and
  one request fails.
- **Prometheus.** Two calls by one caller, read lengths 0 and 2, write
  chunks 1 and 2, reads of at most 2 bytes, and 3 stream steps. These
  bounds give a read that ends, a failed stream call, a cancelled call
  followed by another call, and two writes.

The Prometheus runs say `CHECK_DEADLOCK FALSE`. The caller stops after
`MaxCalls` calls, and a panicked task stops.

**Fairness.** Only `list_exact` assumes fairness: `WF_vars(PageNext)`. The
code's callers, `Operator::list` and `scan`, and `check`, poll `next()`
until it returns `None`, so a pager that can step eventually steps.
`Termination` says every pager the adaptation builds then returns `None`.
The flat pager pops each queued directory once, and every backend page is
non-empty.

## 4. Findings and divergences

Runs that end in a violation, each backed by a finding in `PROJECT.json`:

- **`reader_suffix_race`** (`complete.rs` 160-176). For a suffix range on a
  non-seekable backend, the code opens the backend reader first and stats
  the object afterwards. A write in between gives the caller a window
  computed from one version over the stream of another. Spec scenario S1
  describes a stat followed by one read.
- **`operator_supabase_stat_race`** (`backend.rs` 299-309). HEAD fails,
  another caller creates the object, and `get_object_info` answers 200.
  The code then hands that success response to `parse_error`, so `stat`
  and `is_exist` return `Unexpected` for an object that exists.
- **`prometheus_delete_label`** (`prometheus.rs` 334). `delete` counts and
  times itself under `Operation::Stat`.
- **`prometheus_create_dir_panic`** (`prometheus.rs` 207).
  `create_dir` passes one label to a vector registered with two, so every
  `create_dir` through the layer panics. `blocking_read`'s timer, at line
  446, has the same defect.
- **`writer_abort_after_cancel`** (`complete.rs` 577, 600). `abort` and
  `close` set `inner = None` only after the backend call returned `Ok`.
  Suppose the caller cancels an abort or a close after the backend applied
  it. If the caller then aborts, as spec section 5 tells it to, the abort
  reaches a finalised backend writer.
- **`appender_close_cancelled`** (`complete.rs` 700). `close` likewise
  clears `inner` only after `Ok`. A close cancelled after the backend
  appender committed leaves `inner` set, and the next append is forwarded
  to the closed backend appender. Spec 4.5 says such an append fails
  `Unexpected`.

Divergences that TLC shows on these models but that are not kept as runs.
The hazards in `PROJECT.json` record them:

- **`AfterFinalizeUnexpected`** (`CompleteWriter`). Spec 4.4 says every
  call after finalisation fails `Unexpected`. After an abort, a close with
  `written < size` fails `ContentIncomplete` instead, because the length
  check runs first.
- **Read bytes counted twice** (`PrometheusLayer`, spec 4.6 (c)). `read`
  observes the content length on open, and the wrapper observes every
  chunk again, so `bytes_total` counts read bytes twice.
- **`stat` errors are logged twice**, by `inspect_err` and by `map_err`.
  The handler table's `nlogs = 2` models this.
- **Supabase `is_exist` and `remove_all` of a directory.** With
  `Service = "supabase"`, `is_exist` of a never-created `d/` is true,
  because `stat` of a key ending in `/` answers DIR on a 404.
  `remove_all` of such a path fails `Unsupported`, because there is no
  list.

## 5. Proofs

Every theorem is checked by `tlapm` to the last leaf. The proofs assume
only the modules' `ASSUME`s:

- sizes, chunks and bounds are naturals;
- the key set is finite, and `Ops` is a subset of the labels;
- only a directory key has keys below it, and no key lies below itself
  (`UnderAssumption`, which `Under` satisfies in every instance);
- the range constants avoid `None`;
- the listed store is a finite set of non-empty sequences of names
  (`FilesAssumption`).

| Module | Theorems |
|---|---|
| `CompleteWriterProofs` | `TypeCorrect`, `NoOverrunHolds`, `CommittedExactHolds`, `NoCallAfterFinalHolds` |
| `CompleteReaderProofs` | `SuffixResolution`, `ZeroCostHolds`, `RefinementHolds` |
| `PrometheusProofs` | `TimerBalancedHolds` |
| `CompleteListProofs` | `ListingExactHolds` |
| `OperatorProofs` | `RemoveAllClearsHolds`, `RemoveViaErrorSurfacedHolds`, `StatErrorActualHolds` |

**Inductive invariants.** Each one was checked by TLC as an invariant
before it was proved.

- **Writer `IInv`.** `NoOverrun` alone is not inductive. `IInv` adds:
  - `Tracked`: without a cancellation, `written` equals the backend's byte
    count;
  - `PendingWriteFits` and `PendingCloseComplete`: a pending call has
    passed its check;
  - `CancelledPending` and `CancelledBound`: after a cancellation only an
    abort is in flight;
  - `ClosedQuiet` and `ClosedExact`.

  `NoCallAfterFinalHolds` assumes `~AbortAfterCancel`, the caller that
  drops a cancelled writer. It rests on `FinalQuiet`: once the backend is
  finalised, nothing is pending. The other discipline breaks it
  (`writer_abort_after_cancel`).
- **Reader arithmetic.** Two facts hold for every object length and range:
  - `SuffixResolution` (a theorem): the code's suffix resolution is the
    window `(max(0, T - s), min(s, T))` that `ReaderSpec` requests;
  - `SpanIsRequested` (a lemma): the backend span of any range, an offset
    past the end included, is the window `ReaderSpec` requests.
- **Reader `RInv` and `RefinementHolds`.** The refinement mapping sends
  the adapted reader to `ReaderSpec` through `rng`, `LWin` and `LPos`.
  `RefinementHolds` is about `CompleteReader`'s `Spec`: no concurrent
  writer replaces the object. Under that assumption the mapping is not enough on its own.
  The proof rests on the inductive invariant `RInv`, which says:
  - a reader that is not open is at position 0 and has returned nothing
    (`RIdle`);
  - a suffix read that waits on its stat holds the backend reader of its
    range (`RStat`);
  - an open reader reads the current version (`ROpen`);
  - a passed-through stream stays inside its span (`RPass`);
  - the range reader's window, from `EBase = min(base, T)`, lies inside
    the object (`RRange`);
  - the range reader's backend reader, when it has one, stands at
    `EBase + pos` and streams at least to the window's end (`RRange`).

  `PulledFacts` says that the reader a read or next uses serves exactly
  the rest of the window. That holds whether the reader is kept or
  re-opened at `base + pos`. The step lemma `StepA` then maps each action
  to one step of `ReaderSpec`:
  - the read call maps to `Request`;
  - the read and stat returns that open a reader map to `Open`, through
    `SpanIsRequested`, `RangeBase` and `SuffixResolution`; a read return
    that still waits on its stat stutters;
  - a successful blocking read maps to `CallOpen`;
  - a failed read, stat or blocking read maps to `Fail`;
  - `Pull` maps to `Pull` or `Eof`;
  - `Seek` maps to `Seek`;
  - `Drop` maps to `Close`;
  - every other step stutters.

  TLC checked `RInv` on the `reader_refinement` instance before the proof.
- **Reader `ZInv`.** `ZeroCost` is not inductive: a reader still waiting
  on its backend read must be known to have made no call. `ZInv` says
  that nothing is called before the read returns, that a stat or a failed
  read chooses no variant, and that a pass-through reader (with or
  without the streamable wrapper) has made one read and no stat.
- **Listing `LInv`.** `ListingExact` speaks only of the end of a
  listing. `LInv` keeps one account of what the caller has had, for each
  `CompletePager` variant:
  - a forwarded listing: what it returned is the one-shot listing minus
    what is left in the pager (`Delivered`);
  - the hierarchy pager: the consumed files at depth 1, plus the first
    directory of each deeper consumed file. `seen` is exactly the set of
    those directories (`HierDelivered`);
  - the flat pager: every file has been returned except those still
    pending. A file is pending while it lies below a queued directory, a
    directory in the current page, or is itself in that page. The
    pending directories share no file (`FlatDelivered`).

  The lemmas about paths (`Split`, `BelowChild`, `ChildrenDisjoint`,
  `DirHasFiles`) show that opening a queued directory moves its files to
  its children without loss or overlap (`FlatOpenStep`). `HierStep` shows
  that `seen` keeps a directory from being returned twice. When the pager
  is empty, the account is the expected listing. For `/`, that uses the
  fact that a top-level directory is the first name of a deeper file
  (`TopDir`).
- **Prometheus `IInv`.** `TimerBalanced` fails while a handler awaits its
  inner call. `PendingTimer` says which observation is missing: the one
  under the label the request was counted under.

  That rests on `HandlerFacts`, a lemma about the handler table: every
  handler that gets past both label calls uses one label for both. The
  delete handler is such a handler; it is only mislabelled.
- **Operator `BInv` and `OBase`.** `BInv` says that the store, the paths
  to delete and the deletes in flight are keys, and that the running
  operation's argument is a key, or for `remove_via` a set of keys.
  `OBase` adds the shape of an operation's control state: the
  capabilities never change (a generic service always lists, and never
  waits on Supabase's second stat request), an idle operator has nothing
  to delete, deletes are in flight only under `try_for_each_concurrent`,
  and only the stat-based operations wait on `get_object_info`. Each
  property then gets its own strengthening, about the operation that is
  still running:
  - `ClearsInv` (`RemoveAllClears`): while nobody else acts, the scan
    queues everything below the path, and the final delete of the path
    runs with the queue empty; every stat answer is *sound*
    (`StatAnswers`: NotFound means nothing is at or below the path, and a
    FILE has nothing below it);
  - `ViaInv` (`RemoveViaErrorSurfaced`): every input path still stored is
    waiting or in flight;
  - `StatInv` (`StatErrorActual`): `get_object_info` is only asked of a
    missing object.

  Two lemmas describe every step once, so that each invariant's proof
  only follows its own operation: `NextRs` (a step keeps the last result
  or records the operation that finished) and `NextOp` (it keeps, ends or
  starts the operation). `ViaSteps` and the like list the actions that can
  run while a given operation is running. `BatchCases` says what a batch
  of deletes does.

  `StatErrorActualHolds` assumes a generic service or no other writer.
  `operator_supabase_stat_race` shows the race it excludes.

**What stays with TLC.**

- **Liveness** (`Termination`). TLAPS cannot reason about `ENABLED` or
  fairness.
- **The reader with writers.** `RefinementHolds` and `ZeroCostHolds` are
  about the reader alone, as `reader_refinement` is. Under
  `CompleteReaderWriters`' `SpecW` the suffix race of section 4 breaks the
  refinement. Only TLC shows that, in `reader_suffix_race`.
- **The violations.**
- **Every property over recursively defined data.** The proof backends
  cannot do induction over data, so the proof modules use recursive
  functions only.

## 6. Not modelled

- **`CompleteLayer::stat` and `Operator::metadata`.** `stat` ORs
  `Metakey::Complete` into the answer's bits. `metadata` returns an
  entry's cached metadata when its bits cover the query or contain
  `Complete`. Both are one-step functions of a flag set, and their entries
  come from `list_with`'s `Lister`, which is not modelled.
- **The Operator's other calls.** `read`/`reader` reach `CompleteReader`,
  which is modelled on its own. `append_with`, `copy` and `rename` forward
  one call. The `Lister` of `list_with` is also left out.
- **`presign_*`.** These normalise the path and forward one call.
- **The `SupabaseBuilder`.** It only parses configuration strings.
- **HTTP request formation and `parse_error` bodies.** These are outside
  the files modelled. Only the status-to-kind mapping is kept.
- **Logging text, formatting and metric export.** Only the number of log
  records is modelled.
