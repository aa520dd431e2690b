----------------------------- MODULE CompleteList -----------------------------
(***************************************************************************)
(* The listing adaptation of CompleteLayer (src/core/src/layers/complete.rs,*)
(* CompleteReaderAccessor::complete_list, ::complete_blocking_list and the  *)
(* CompletePager dispatch), over the flat and hierarchy pagers of raw/oio  *)
(* (outside src/, modelled from spec 4.3).                                 *)
(*                                                                         *)
(* The object store is a fixed set of files, each a sequence of names; its *)
(* directories are the proper non-empty prefixes of files.  The root is    *)
(* listed.  A backend pager is the set of entries it has not returned yet, *)
(* and returns any 1..Limit of them per page, so every order is covered.   *)
(* The caller's output is a bag: how many times each entry was returned.   *)
(***************************************************************************)
EXTENDS Naturals, Sequences, FiniteSets

CONSTANTS
    Files,    \* the files of the store, as sequences of names
    Limit,    \* the backend page size (args.limit().unwrap_or(1000))
    Delims    \* the delimiters callers pass: "", "/" and an unsupported one

ASSUME FilesAssumption ==
    IsFiniteSet(Files) /\ Files \subseteq Seq(STRING) /\ \A f \in Files : Len(f) > 0
ASSUME LimitAssumption == Limit \in Nat \ {0}

VARIABLES
    cap,    \* [list, flat |-> list_without_delimiter, hier |-> list_with_delimiter_slash]
    delim,  \* args.delimiter() of the list call
    ph,     \* "idle", "open", "done", "err"
    mode,   \* the CompletePager variant, or "none"
    bp,     \* the backend pager the adapter reads (entries not returned yet)
    q,      \* the flat pager's directories pending expansion
    seen,   \* directories the hierarchy pager has emitted
    cnt     \* cnt[e]: how many times (0, 1, 2 for "more") the caller got e

vars == <<cap, delim, ph, mode, bp, q, seen, cnt>>

Root == <<>>
Dirs == UNION {{SubSeq(f, 1, n) : n \in 1..(Len(f) - 1)} : f \in Files}
File(p) == [path |-> p, kind |-> "FILE"]
Dir(p) == [path |-> p, kind |-> "DIR"]
Entries == {File(f) : f \in Files} \cup {Dir(d) : d \in Dirs}

\* p lies strictly under directory d, n levels down.
Under(p, d, n) == Len(p) = Len(d) + n /\ SubSeq(p, 1, Len(d)) = d

\* The backend's flat listing of d: every file under it.
FlatOf(d) == {File(f) : f \in {g \in Files : Len(g) > Len(d) /\ SubSeq(g, 1, Len(d)) = d}}

\* The backend's hierarchical listing of d: its files and subdirectories.
HierOf(d) == {File(f) : f \in {g \in Files : Under(g, d, 1)}}
             \cup {Dir(s) : s \in {t \in Dirs : Under(t, d, 1)}}

\* What a backend page may return from pager s.
Pages(s) == {b \in SUBSET s : b # {} /\ Cardinality(b) <= Limit}

\* The caller receives the entries of batch b.
Emit(b) ==
    cnt' = [e \in Entries |-> IF e \in b /\ cnt[e] < 2 THEN cnt[e] + 1 ELSE cnt[e]]

Caps == {c \in [list : BOOLEAN, flat : BOOLEAN, hier : BOOLEAN] :
            c.list => c.flat \/ c.hier}

TypeOK ==
    /\ cap \in Caps
    /\ delim \in Delims
    /\ ph \in {"idle", "open", "done", "err"}
    /\ mode \in {"none", "AlreadyComplete", "NeedFlat", "NeedHierarchy"}
    /\ bp \subseteq Entries /\ q \subseteq Dirs \cup {Root}
    /\ seen \subseteq Dirs /\ cnt \in [Entries -> 0..2]

Init ==
    /\ cap \in Caps
    /\ delim = ""
    /\ ph = "idle" /\ mode = "none"
    /\ bp = {} /\ q = {} /\ seen = {}
    /\ cnt = [e \in Entries |-> 0]

(***************************************************************************)
(* complete_list and complete_blocking_list (the same table; the blocking *)
(* one does not suspend): Unsupported without list; delimiter "" is forwarded or     *)
(* emulated by a flat pager that lists lazily; "/" is forwarded or        *)
(* emulated by a hierarchy pager over a flat listing; any other delimiter  *)
(* is Unsupported.                                                         *)
(***************************************************************************)
ListCall ==
    /\ ph = "idle"
    /\ \E d \in Delims :
         /\ delim' = d
         /\ \/ /\ ~cap.list \/ d \notin {"", "/"}
               /\ ph' = "err" /\ UNCHANGED <<mode, bp, q>>
            \/ /\ cap.list /\ (d = "/" \/ cap.flat)   \* inner.list(..).await? failed
               /\ ph' = "err" /\ UNCHANGED <<mode, bp, q>>
            \/ /\ cap.list /\ d = "" /\ cap.flat
               /\ mode' = "AlreadyComplete" /\ bp' = FlatOf(Root)
               /\ ph' = "open" /\ UNCHANGED q
            \/ /\ cap.list /\ d = "" /\ ~cap.flat
               /\ mode' = "NeedFlat" /\ q' = {Root}
               /\ ph' = "open" /\ UNCHANGED bp
            \/ /\ cap.list /\ d = "/" /\ cap.hier
               /\ mode' = "AlreadyComplete" /\ bp' = HierOf(Root)
               /\ ph' = "open" /\ UNCHANGED q
            \/ /\ cap.list /\ d = "/" /\ ~cap.hier
               /\ mode' = "NeedHierarchy" /\ bp' = FlatOf(Root)
               /\ ph' = "open" /\ UNCHANGED q
    /\ UNCHANGED <<cap, seen, cnt>>

(***************************************************************************)
(* ToHierarchyPager::next over one page b of the flat listing: a file     *)
(* directly under the anchor is returned as is; a deeper one yields the   *)
(* DIR of its first component, once.                                       *)
(***************************************************************************)
FirstDir(e) == Dir(SubSeq(e.path, 1, 1))

\* A mutant of HierarchyPage: the emitted-directory set is not consulted.
HierarchyPageNoDedup(b) ==
    LET ds == {FirstDir(e) : e \in {x \in b : Len(x.path) > 1}}
    IN  /\ Emit({e \in b : Len(e.path) = 1} \cup ds)
        /\ seen' = seen \cup {d.path : d \in ds}

HierarchyPage(b) ==
    LET ds == {FirstDir(e) : e \in {x \in b : Len(x.path) > 1}}
        new == {d \in ds : d.path \notin seen}
    IN  /\ Emit({e \in b : Len(e.path) = 1} \cup new)
        /\ seen' = seen \cup {d.path : d \in new}

(***************************************************************************)
(* ToFlatPager::next: a page of the current hierarchical pager returns its *)
(* files and queues its directories; an exhausted pager is replaced by a   *)
(* list(dir, "/", limit) of a queued directory; nothing left is the end.   *)
(***************************************************************************)
FlatPage(b) ==
    /\ Emit({e \in b : e.kind = "FILE"})
    /\ q' = q \cup {e.path : e \in {x \in b : x.kind = "DIR"}}

\* A mutant of FlatOpen: the directory is read from the queue, not popped.
FlatOpenNoPop ==
    /\ \E d \in q : bp' = HierOf(d) /\ q' = q

FlatOpen ==
    /\ \E d \in q : bp' = HierOf(d) /\ q' = q \ {d}

(***************************************************************************)
(* oio::Page::next (and BlockingPage::next) dispatched on the variant.     *)
(***************************************************************************)
PageNext ==
    /\ ph = "open"
    /\ \/ /\ mode # "NeedFlat" /\ bp = {}
          /\ ph' = "done" /\ UNCHANGED <<bp, q, seen, cnt>>
       \/ /\ mode = "AlreadyComplete"
          /\ \E b \in Pages(bp) : Emit(b) /\ bp' = bp \ b
          /\ UNCHANGED <<ph, q, seen>>
       \/ /\ mode = "NeedHierarchy"
          /\ \E b \in Pages(bp) : HierarchyPage(b) /\ bp' = bp \ b
          /\ UNCHANGED <<ph, q>>
       \/ /\ mode = "NeedFlat" /\ bp # {}
          /\ \E b \in Pages(bp) : FlatPage(b) /\ bp' = bp \ b
          /\ UNCHANGED <<ph, seen>>
       \/ /\ mode = "NeedFlat" /\ bp = {} /\ q # {}
          /\ FlatOpen
          /\ UNCHANGED <<ph, seen, cnt>>
       \/ /\ mode = "NeedFlat" /\ bp = {} /\ q = {}
          /\ ph' = "done"
          /\ UNCHANGED <<bp, q, seen, cnt>>
    /\ UNCHANGED <<cap, delim, mode>>

\* The caller drops a finished pager, or takes the error, and lists again.
Drop ==
    /\ ph \in {"done", "err"}
    /\ ph' = "idle" /\ mode' = "none" /\ bp' = {} /\ q' = {}
    /\ seen' = {} /\ cnt' = [e \in Entries |-> 0]
    /\ UNCHANGED <<cap, delim>>

Next == ListCall \/ PageNext \/ Drop

\* The caller keeps calling next() until the pager returns None.
Spec == Init /\ [][Next]_vars /\ WF_vars(PageNext)

-----------------------------------------------------------------------------
\* What a listing of the root must return (spec 4.3, 8.5, 8.6): a flat
\* listing every file; a hierarchical one the files directly under the
\* root and each immediate subdirectory.
Expected(d) ==
    IF d = "" THEN FlatOf(Root)
    ELSE {File(f) : f \in {g \in Files : Len(g) = 1}}
         \cup {Dir(s) : s \in {t \in Dirs : Len(t) = 1}}

\* Listing exhaustion and round-trip (spec 8.5, 8.6): whatever the backend
\* supports and whatever page boundaries it picks, the caller never gets an
\* entry it should not or any entry twice, and once the pager returns None
\* it has had every expected entry exactly once.
ListingExact ==
    ph \in {"open", "done"} =>
        /\ \A e \in Entries : cnt[e] <= IF e \in Expected(delim) THEN 1 ELSE 0
        /\ ph = "done" => \A e \in Expected(delim) : cnt[e] = 1

\* Every pager the adaptation builds eventually returns None, when the
\* caller keeps calling next().
Termination == ph = "open" ~> ph = "done"
=============================================================================
