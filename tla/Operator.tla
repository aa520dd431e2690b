------------------------------- MODULE Operator -------------------------------
(***************************************************************************)
(* The Operator facade (src/core/src/types/operator/operator.rs) over the *)
(* CompleteLayer (layers/complete.rs) and a storage service: the           *)
(* operations that change or inspect the store and take more than one     *)
(* backend call.  One caller runs one operation at a time; each backend   *)
(* call is one step, so other callers of the same bucket (Writers) act    *)
(* between the calls of an operation, as separate Operator clones may.    *)
(*                                                                         *)
(* Service "supabase" is SupabaseBackend (no list, no batch).  Service     *)
(* "generic" is a backend with flat listing and, when cap.batch holds,    *)
(* batch delete (spec 4.3 and 6, modelled from the spec).  Any backend    *)
(* request may fail on its own (at most MaxFails times).                  *)
(***************************************************************************)
EXTENDS SupabaseBackend, FiniteSetsExt

CONSTANTS
    Service,      \* "supabase" or "generic"
    Under(_, _),  \* Under(x, d): key x lies strictly below directory key d
    Limits,       \* values of the operator's limit (batch_max_operations or with_limit)
    MaxFails,     \* bound on the backend requests that fail
    Writers,      \* other callers write and delete objects of the bucket
    MaxOther      \* bound on their steps

ASSUME ServiceAssumption == Service \in {"supabase", "generic"}
\* Only a directory key has keys below it, and no key lies below itself.
ASSUME UnderAssumption ==
    \A x, d \in Keys : Under(x, d) => d \in DirKeys /\ x # d
ASSUME BoundAssumption ==
    Limits \subseteq Nat /\ MaxFails \in Nat /\ Writers \in BOOLEAN /\ MaxOther \in Nat

VARIABLES
    store,    \* the keys of the bucket's objects
    cap,      \* the service's capability record
    limit,    \* Operator.limit
    op,       \* the running operation, or "idle"
    arg,      \* its path, or for remove_via its input paths
    step,     \* where the operation is: the backend call it waits on
    pend,     \* paths still to delete (scan output or remove_via input)
    fly,      \* remove_via deletes in flight (try_for_each_concurrent)
    batch,    \* the last batch of deletes sent to the backend
    quiet,    \* no other caller has acted since the operation began
    absent,   \* nothing existed at or under the path when it began
    faulted,  \* a backend request of the operation failed
    rs,       \* the last completed operation and what it returned
    fails,    \* backend requests that failed
    other     \* steps of other callers

vars == <<store, cap, limit, op, arg, step, pend, fly, batch, quiet, absent,
          faulted, rs, fails, other>>

Files == Keys \ DirKeys
Exists(k) == k = RootKey \/ k \in store \/ \E x \in store : Under(x, k)
Below(k) == {x \in store : Under(x, k)}

\* The capability records the service can report.
GenericCaps ==
    {[SupabaseCap EXCEPT !.list = TRUE, !.list_without_delimiter = TRUE,
                         !.list_with_delimiter_slash = TRUE, !.batch = b] :
        b \in BOOLEAN}

Ops == {"stat", "is_exist", "create_dir", "delete", "write", "remove_via",
        "remove_all", "check"}
Kinds == {"Ok", "true", "false", "NotFound", "AlreadyExists", "NotADirectory",
          "IsADirectory", "Unsupported", "Unexpected", "Err", "panic"}
NoResult == [op |-> "idle", arg |-> {}, kind |-> "Ok", quiet |-> TRUE,
             absent |-> FALSE, faulted |-> FALSE, left |-> {}]

TypeOK ==
    /\ store \subseteq Keys \ {RootKey}
    /\ cap \in GenericCaps \cup {SupabaseCap}
    /\ limit \in Limits
    /\ op \in Ops \cup {"idle"}
    /\ arg \in Keys \cup SUBSET Files
    /\ pend \subseteq Keys /\ fly \subseteq Keys /\ batch \subseteq Keys
    /\ quiet \in BOOLEAN /\ absent \in BOOLEAN /\ faulted \in BOOLEAN
    /\ rs \in [op : Ops \cup {"idle"}, arg : Keys \cup SUBSET Files, kind : Kinds,
               quiet : BOOLEAN, absent : BOOLEAN, faulted : BOOLEAN,
               left : SUBSET Keys]
    /\ fails \in 0..MaxFails /\ other \in 0..MaxOther

Init ==
    /\ store \in SUBSET (Keys \ {RootKey})
    /\ cap \in IF Service = "supabase" THEN {SupabaseCap} ELSE GenericCaps
    /\ limit \in Limits
    /\ op = "idle" /\ arg = {} /\ step = "none"
    /\ pend = {} /\ fly = {} /\ batch = {}
    /\ quiet = TRUE /\ absent = FALSE /\ faulted = FALSE
    /\ rs = NoResult /\ fails = 0 /\ other = 0

\* A backend request fails on its own.
Fault == fails < MaxFails /\ fails' = fails + 1 /\ faulted' = TRUE
NoFault == UNCHANGED <<fails, faulted>>

\* The operation returns kind; left records what of its target the store
\* holds at that moment.
Finish(kind) ==
    /\ rs' = [op |-> op, arg |-> arg, kind |-> kind, quiet |-> quiet,
              absent |-> absent, faulted |-> faulted',
              left |-> IF op = "remove_via" THEN arg \cap store'
                       ELSE IF op \in {"remove_all", "write", "create_dir"}
                            THEN {x \in store' : x = arg \/ Under(x, arg)}
                            ELSE {}]
    /\ op' = "idle" /\ step' = "none" /\ pend' = {} /\ fly' = {}
    /\ UNCHANGED <<arg, quiet, absent>>

\* The caller starts an operation; the synchronous code before its first
\* backend call runs with that call.
Call ==
    /\ op = "idle"
    /\ \/ \E o \in Ops \ {"remove_via"}, k \in Keys : op' = o /\ arg' = k
       \/ \E ps \in SUBSET Files : op' = "remove_via" /\ arg' = ps
    /\ step' = "begin" /\ quiet' = TRUE /\ faulted' = FALSE
    /\ absent' = (op' # "remove_via" /\ ~Exists(arg'))
    /\ UNCHANGED <<store, cap, limit, pend, fly, batch, rs, fails, other>>

\* What a backend other than Supabase answers to stat: an object, or a
\* directory prefix of objects, or NotFound.
GenericStat(k) ==
    IF k = RootKey \/ (k \in DirKeys /\ Below(k) # {}) \/ k \in store
    THEN ModeOf(k) ELSE "NotFound"

\* Operator::is_exist: Ok(true) on a stat result, Ok(false) on NotFound.
IsExistResult(o) ==
    IF o \in {"FILE", "DIR"} THEN "true"
    ELSE IF o = "NotFound" THEN "false" ELSE o

\* Operator::remove_all after its stat: NotFound is success, another error
\* is returned, a file is deleted, a directory is scanned.
RemoveAllStat(o) ==
    IF o = "NotFound" THEN Finish("Ok")
    ELSE IF o \notin {"FILE", "DIR"} THEN Finish(o)
    ELSE /\ step' = IF o = "DIR" THEN "scan" ELSE "delete_self"
         /\ UNCHANGED <<op, arg, pend, fly, rs, quiet, absent>>

\* The code after Operator::stat returns, for the operations built on it.
StatDone(o) ==
    \/ op = "stat" /\ Finish(IF o \in {"FILE", "DIR"} THEN "Ok" ELSE o)
    \/ op = "is_exist" /\ Finish(IsExistResult(o))
    \/ op = "remove_all" /\ RemoveAllStat(o)

\* A mutant of StatCall: a failed HEAD is reported as the error itself,
\* without asking get_object_info.
StatCallHeadOnly ==
    /\ op \in {"stat", "is_exist", "remove_all"} /\ step = "begin"
    /\ UNCHANGED store
    /\ \/ arg # RootKey /\ Fault /\ StatDone("Err")
       \/ /\ NoFault
          /\ IF Service = "generic" THEN StatDone(GenericStat(arg))
             ELSE IF StatHead(store, arg) = "more"
                  THEN StatDone(ErrorKindOf(HeadStatus(store, arg)))
                  ELSE StatDone(StatHead(store, arg))
    /\ UNCHANGED <<cap, limit, batch, other>>

\* Operator::stat_with -> CompleteLayer stat -> the service's stat, first
\* request (for Supabase the HEAD, and no request for the root).
StatCall ==
    /\ op \in {"stat", "is_exist", "remove_all"} /\ step = "begin"
    /\ UNCHANGED store
    /\ \/ arg # RootKey /\ Fault /\ StatDone("Err")
       \/ /\ NoFault
          /\ IF Service = "generic" THEN StatDone(GenericStat(arg))
             ELSE IF StatHead(store, arg) = "more"
                  THEN step' = "info" /\ UNCHANGED <<op, arg, pend, fly, rs, quiet, absent>>
                  ELSE StatDone(StatHead(store, arg))
    /\ UNCHANGED <<cap, limit, batch, other>>

\* SupabaseBackend::stat, second request: get_object_info.
StatInfoCall ==
    /\ step = "info"
    /\ UNCHANGED store
    /\ \/ Fault /\ StatDone("Err")
       \/ NoFault /\ StatDone(StatInfo(store, arg))
    /\ UNCHANGED <<cap, limit, batch, other>>

\* Operator::scan: the path must end in '/'; then CompleteLayer's
\* complete_list with delimiter "": Unsupported without list, else the
\* backend's flat listing of everything below the path.
ScanCall ==
    /\ op = "remove_all" /\ step = "scan"
    /\ UNCHANGED store
    /\ \/ arg \notin DirKeys /\ NoFault /\ Finish("NotADirectory")
       \/ arg \in DirKeys /\ ~cap.list /\ NoFault /\ Finish("Unsupported")
       \/ arg \in DirKeys /\ cap.list /\ Fault /\ Finish("Err")
       \/ /\ arg \in DirKeys /\ cap.list /\ NoFault
          /\ pend' = Below(arg) /\ step' = "remove"
          /\ UNCHANGED <<op, arg, fly, rs, quiet, absent>>
    /\ UNCHANGED <<cap, limit, batch, other>>

\* A mutant of BatchDelete: the per-item results are not inspected.
BatchDeleteIgnoreErrors(done) ==
    \E b \in kSubset(Min({limit, Cardinality(pend)}), pend) :
        /\ batch' = b
        /\ \/ Fault /\ UNCHANGED store /\ Finish("Err")
           \/ \E bad \in SUBSET b :
                 /\ fails + Cardinality(bad) <= MaxFails
                 /\ fails' = fails + Cardinality(bad)
                 /\ faulted' = (faulted \/ bad # {})
                 /\ store' = store \ (b \ bad)
                 /\ pend' = pend \ b
                 /\ IF pend' = {} THEN done
                    ELSE UNCHANGED <<op, arg, step, fly, rs, quiet, absent>>

\* One batch of at most limit deletes; the backend applies the items that
\* succeed, and the loop returns at the first item that failed.  A failed
\* page of the lazy scan (try_chunks' map_err) ends the loop as a failed
\* batch request does: Err, the store unchanged (the Fault disjunct).
BatchDelete(done) ==
    \E b \in kSubset(Min({limit, Cardinality(pend)}), pend) :
        /\ batch' = b
        /\ \/ Fault /\ UNCHANGED store /\ Finish("Err")
           \/ \E bad \in SUBSET b :
                 /\ fails + Cardinality(bad) <= MaxFails
                 /\ fails' = fails + Cardinality(bad)
                 /\ faulted' = (faulted \/ bad # {})
                 /\ store' = store \ (b \ bad)
                 /\ IF bad # {} THEN Finish("Err")
                    ELSE /\ pend' = pend \ b
                         /\ IF pend' = {} THEN done
                            ELSE UNCHANGED <<op, arg, step, fly, rs, quiet, absent>>

\* A mutant of RemoveCall: the path itself is not deleted at the end.
RemoveCallNoSelfDelete ==
    /\ op = "remove_all" /\ step = "remove"
    /\ \/ cap.batch /\ limit = 0 /\ NoFault /\ UNCHANGED <<store, batch>>
          /\ Finish("panic")
       \/ pend = {} /\ (cap.batch => limit > 0)
          /\ NoFault /\ UNCHANGED <<store, batch>> /\ Finish("Ok")
       \/ /\ cap.batch /\ limit > 0 /\ pend # {}
          /\ BatchDelete(step' = "delete_self" /\ UNCHANGED <<op, arg, fly, rs, quiet, absent>>)
       \/ /\ ~cap.batch /\ pend # {}
          /\ \E v \in pend :
                \/ Fault /\ UNCHANGED store /\ Finish("Err")
                \/ /\ NoFault /\ store' = store \ {v} /\ pend' = pend \ {v}
                   /\ UNCHANGED <<op, arg, step, fly, rs, quiet, absent>>
          /\ UNCHANGED batch
    /\ UNCHANGED <<cap, limit, other>>

\* Operator::remove_all over the scanned entries: with batch support, in
\* try_chunks(limit) (which panics for a limit of 0); without, one delete
\* after another, stopping at the first error (of a delete or of the
\* scan's next page: the Fault disjunct); then the path itself.
RemoveCall ==
    /\ op = "remove_all" /\ step = "remove"
    /\ \/ cap.batch /\ limit = 0 /\ NoFault /\ UNCHANGED <<store, batch>>
          /\ Finish("panic")
       \/ pend = {} /\ (cap.batch => limit > 0) /\ step' = "delete_self"
          /\ NoFault /\ UNCHANGED <<store, batch, op, arg, pend, fly, rs, quiet, absent>>
       \/ /\ cap.batch /\ limit > 0 /\ pend # {}
          /\ BatchDelete(step' = "delete_self" /\ UNCHANGED <<op, arg, fly, rs, quiet, absent>>)
       \/ /\ ~cap.batch /\ pend # {}
          /\ \E v \in pend :
                \/ Fault /\ UNCHANGED store /\ Finish("Err")
                \/ /\ NoFault /\ store' = store \ {v} /\ pend' = pend \ {v}
                   /\ UNCHANGED <<op, arg, step, fly, rs, quiet, absent>>
          /\ UNCHANGED batch
    /\ UNCHANGED <<cap, limit, other>>

\* The service's delete of key k: Ok, the object gone.
ServiceDelete(k) ==
    /\ store' = store \ {k}
    /\ Finish(IF Service = "supabase" THEN DeleteResult(store, k) ELSE "Ok")

\* Operator::delete, alone or as the last step of remove_all.
DeleteCall ==
    /\ \/ op = "delete" /\ step = "begin"
       \/ op = "remove_all" /\ step = "delete_self"
    /\ \/ Fault /\ UNCHANGED store /\ Finish("Err")
       \/ NoFault /\ ServiceDelete(arg)
    /\ UNCHANGED <<cap, limit, batch, other>>

\* Operator::create_dir: the path must end in '/'; then the service's
\* create_dir (for Supabase an empty upload, AlreadyExists being Ok).
CreateDirCall ==
    /\ op = "create_dir" /\ step = "begin"
    /\ \/ arg \notin DirKeys /\ NoFault /\ UNCHANGED store /\ Finish("NotADirectory")
       \/ arg \in DirKeys /\ Fault /\ UNCHANGED store /\ Finish("Err")
       \/ /\ arg \in DirKeys /\ NoFault
          /\ store' = store \cup {arg}
          /\ Finish(IF Service = "supabase" THEN CreateDirResult(store, arg) ELSE "Ok")
    /\ UNCHANGED <<cap, limit, batch, other>>

\* Operator::write_with: the path must not end in '/'; the service's write
\* (Supabase refuses one without content length, which write_with always
\* sets) returns a writer that CompleteLayer bounds to bs.len().
WriteCall ==
    /\ op = "write" /\ step = "begin"
    /\ UNCHANGED store
    /\ NoFault
    /\ \/ arg \in DirKeys /\ Finish("IsADirectory")
       \/ /\ arg \notin DirKeys
          /\ IF Service = "supabase" /\ WriteResult(TRUE) # "Ok"
             THEN Finish(WriteResult(TRUE))
             ELSE step' = "w_write" /\ UNCHANGED <<op, arg, pend, fly, rs, quiet, absent>>
    /\ UNCHANGED <<cap, limit, batch, other>>

\* w.write(bs).await?: the whole buffer, exactly the declared length.
WriteData ==
    /\ op = "write" /\ step = "w_write"
    /\ UNCHANGED store
    /\ \/ Fault /\ Finish("Err")
       \/ NoFault /\ step' = "w_close" /\ UNCHANGED <<op, arg, pend, fly, rs, quiet, absent>>
    /\ UNCHANGED <<cap, limit, batch, other>>

\* w.close().await?: the object is committed.
WriteClose ==
    /\ op = "write" /\ step = "w_close"
    /\ \/ Fault /\ UNCHANGED store /\ Finish("Err")
       \/ NoFault /\ store' = store \cup {arg} /\ Finish("Ok")
    /\ UNCHANGED <<cap, limit, batch, other>>

\* Operator::remove_via: with batch support the input is cut by
\* chunks(limit), which panics for a limit of 0; without, the deletes run
\* by try_for_each_concurrent(limit), where 0 means no bound.
ViaCall ==
    /\ op = "remove_via" /\ step = "begin"
    /\ UNCHANGED store
    /\ NoFault
    /\ \/ cap.batch /\ limit = 0 /\ Finish("panic")
       \/ /\ cap.batch => limit > 0
          /\ pend' = arg /\ step' = IF cap.batch THEN "batch" ELSE "concurrent"
          /\ UNCHANGED <<op, arg, fly, rs, quiet, absent>>
    /\ UNCHANGED <<cap, limit, batch, other>>

\* The next chunk goes to the backend as one batch.
ViaBatch ==
    /\ op = "remove_via" /\ step = "batch"
    /\ \/ pend = {} /\ NoFault /\ UNCHANGED <<store, batch>> /\ Finish("Ok")
       \/ pend # {} /\ BatchDelete(Finish("Ok"))
    /\ UNCHANGED <<cap, limit, other>>

\* try_for_each_concurrent starts the delete of the next input path.
ViaStart ==
    /\ op = "remove_via" /\ step = "concurrent"
    /\ limit = 0 \/ Cardinality(fly) < limit
    /\ \E v \in pend : pend' = pend \ {v} /\ fly' = fly \cup {v}
    /\ NoFault
    /\ UNCHANGED <<store, cap, limit, op, arg, step, batch, quiet, absent, rs, other>>

\* A delete in flight completes.  On an error the stream returns it at once
\* and drops the other deletes in flight, each of which may have reached
\* the backend.
ViaDone ==
    /\ op = "remove_via" /\ step = "concurrent"
    /\ \E v \in fly :
          \/ /\ Fault
             /\ \E reached \in SUBSET (fly \ {v}) : store' = store \ reached
             /\ Finish("Err")
          \/ /\ NoFault /\ store' = store \ {v} /\ fly' = fly \ {v}
             /\ UNCHANGED <<op, arg, step, pend, rs, quiet, absent>>
    /\ UNCHANGED <<cap, limit, batch, other>>

\* The input is exhausted and every delete returned Ok.
ViaEnd ==
    /\ op = "remove_via" /\ step = "concurrent" /\ pend = {} /\ fly = {}
    /\ UNCHANGED store
    /\ NoFault /\ Finish("Ok")
    /\ UNCHANGED <<cap, limit, batch, other>>

\* Operator::check: list("/") with the default delimiter "/", through
\* CompleteLayer's complete_list, Unsupported without list.
CheckCall ==
    /\ op = "check" /\ step = "begin"
    /\ UNCHANGED store
    /\ \/ ~cap.list /\ NoFault /\ Finish("Unsupported")
       \/ cap.list /\ Fault /\ Finish("Err")
       \/ cap.list /\ NoFault /\ step' = "check_next"
          /\ UNCHANGED <<op, arg, pend, fly, rs, quiet, absent>>
    /\ UNCHANGED <<cap, limit, batch, other>>

\* ds.next(): an error other than NotFound is returned; an entry, the end,
\* or the NotFound a service may give for an empty root, is Ok.
CheckNext ==
    /\ op = "check" /\ step = "check_next"
    /\ UNCHANGED store
    /\ \/ Fault /\ Finish("Err")
       \/ NoFault /\ Finish("Ok")
    /\ UNCHANGED <<cap, limit, batch, other>>

\* Another caller writes or deletes an object of the bucket.
Other ==
    /\ Writers /\ other < MaxOther
    /\ \/ \E k \in Files : store' = store \cup {k}
       \/ \E k \in store : store' = store \ {k}
    /\ other' = other + 1 /\ quiet' = FALSE
    /\ UNCHANGED <<cap, limit, op, arg, step, pend, fly, batch, absent, faulted,
                   rs, fails>>

Next ==
    \/ Call \/ StatCall \/ StatInfoCall \/ ScanCall \/ RemoveCall \/ DeleteCall
    \/ CreateDirCall \/ WriteCall \/ WriteData \/ WriteClose
    \/ ViaCall \/ ViaBatch \/ ViaStart \/ ViaDone \/ ViaEnd
    \/ CheckCall \/ CheckNext \/ Other

Spec == Init /\ [][Next]_vars

\* remove_all "removes the path and all nested dirs and files recursively":
\* when it returns Ok and nobody else wrote meanwhile, nothing is left at
\* or below the path, whatever the batching, the limit and the failures.
RemoveAllClears ==
    rs.op = "remove_all" /\ rs.kind = "Ok" /\ rs.quiet => rs.left = {}

\* remove_via returns Ok only when every input path is gone: no failed
\* delete, in a batch or in a concurrent run, is swallowed.
RemoveViaErrorSurfaced ==
    rs.op = "remove_via" /\ rs.kind = "Ok" /\ rs.quiet => rs.left = {}

\* stat and is_exist give an error other than NotFound only when a backend
\* request failed: SupabaseBackend::stat asks get_object_info for "the
\* actual error info" after a failed HEAD.
StatErrorActual ==
    rs.op \in {"stat", "is_exist"} /\ ~rs.faulted =>
        rs.kind \in {"Ok", "true", "false", "NotFound"}

=============================================================================
