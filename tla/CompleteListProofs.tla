-------------------------- MODULE CompleteListProofs --------------------------
(***************************************************************************)
(* Proof that the listing adaptation of CompleteLayer returns exactly what *)
(* a listing of the root must (ListingExact), for every finite store,     *)
(* page size and capability set.  The inductive invariant LInv keeps one  *)
(* account per CompletePager variant:                                      *)
(*   - a forwarded listing (AlreadyComplete): the entries returned are    *)
(*     those of the one-shot listing no longer in the pager (Delivered);  *)
(*   - the hierarchy pager: the files of the flat listing it consumed at  *)
(*     depth 1, and the first directory of each deeper one, recorded in   *)
(*     seen (HierDelivered);                                               *)
(*   - the flat pager: the files returned are all files but those still   *)
(*     below a queued or paged directory or in the current page (Pending),*)
(*     and those directories share no file (FlatDelivered).               *)
(***************************************************************************)
EXTENDS CompleteList, SequenceTheorems, TLAPS

\* The files at or below directory path d.
FilesBelow(d) == {g \in Files : Len(g) > Len(d) /\ SubSeq(g, 1, Len(d)) = d}

\* What the caller has had of a one-shot listing S of which bp is left:
\* each entry returned once, nothing else.
Delivered(S) ==
    /\ bp \subseteq S
    /\ \A e \in Entries : cnt[e] = IF e \in S \ bp THEN 1 ELSE 0

\* The hierarchy pager over the flat listing: the files it consumed, the
\* first directory of each deeper one emitted once, through seen.
Consumed == {e \in FlatOf(Root) : e \notin bp}
HierDelivered ==
    /\ bp \subseteq FlatOf(Root)
    /\ seen = {SubSeq(e.path, 1, 1) : e \in {x \in Consumed : Len(x.path) > 1}}
    /\ \A e \in Entries :
          cnt[e] = IF \/ e \in Consumed /\ Len(e.path) = 1
                      \/ e.kind = "DIR" /\ e.path \in seen
                   THEN 1 ELSE 0

\* The flat pager: the directories still to expand (queued, or in the
\* current page), and the files still to return.
BpDirs == {e.path : e \in {x \in bp : x.kind = "DIR"}}
BpFiles == {e.path : e \in {x \in bp : x.kind = "FILE"}}
BelowAll(S) == UNION {FilesBelow(d) : d \in S}
Pending == BelowAll(q \cup BpDirs) \cup BpFiles
FlatDelivered ==
    /\ bp \subseteq Entries /\ q \subseteq Dirs \cup {Root}
    /\ \A e \in bp : e.kind = "FILE" => e.path \in Files
    /\ \A x, y \in q \cup BpDirs : x # y => FilesBelow(x) \cap FilesBelow(y) = {}
    /\ q \cap BpDirs = {}
    /\ \A e \in bp, d \in q \cup BpDirs : e.kind = "FILE" => e.path \notin FilesBelow(d)
    /\ \A e \in Entries :
          cnt[e] = IF e.kind = "FILE" /\ e.path \notin Pending THEN 1 ELSE 0

Paths == Seq(STRING)

\* A prefix of a path is a path of that length.
LEMMA PrefixLen ==
    ASSUME NEW f \in Paths, NEW n \in 0..Len(f)
    PROVE  SubSeq(f, 1, n) \in Paths /\ Len(SubSeq(f, 1, n)) = n
  BY SubSeqProperties DEF Paths

\* The prefix of a prefix is a prefix.
LEMMA PrefixOfPrefix ==
    ASSUME NEW f \in Paths, NEW n \in 0..Len(f), NEW m \in 0..n
    PROVE  SubSeq(SubSeq(f, 1, n), 1, m) = SubSeq(f, 1, m)
  <1>1. CASE m = 0
    BY <1>1, SubSeqEmpty
  <1>2. CASE m > 0
    BY <1>2, SubSeqOfSubSeq DEF Paths
  <1>3. QED
    BY <1>1, <1>2

\* Files and directories are non-empty paths.
LEMMA PathsOf ==
    /\ Files \subseteq Paths
    /\ Dirs \subseteq Paths
    /\ Root \in Paths /\ Len(Root) = 0
    /\ \A f \in Files : Len(f) > 0
    /\ \A d \in Dirs : Len(d) > 0
  <1>1. Files \subseteq Paths
    BY FilesAssumption DEF Paths
  <1>2. Dirs \subseteq Paths /\ \A d \in Dirs : Len(d) > 0
    <2> SUFFICES ASSUME NEW d \in Dirs PROVE d \in Paths /\ Len(d) > 0
      OBVIOUS
    <2>1. PICK f \in Files : \E n \in 1..(Len(f) - 1) : d = SubSeq(f, 1, n)
      BY DEF Dirs
    <2>2. PICK n \in 1..(Len(f) - 1) : d = SubSeq(f, 1, n)
      BY <2>1
    <2>3. f \in Paths /\ Len(f) \in Nat /\ n \in 0..Len(f)
      BY <1>1 DEF Paths
    <2>4. QED
      BY <2>2, <2>3, PrefixLen
  <1>3. QED
    BY <1>1, <1>2, FilesAssumption DEF Root, Paths

\* Every directory has a file below it.
LEMMA DirHasFiles ==
    ASSUME NEW d \in Dirs
    PROVE  FilesBelow(d) # {}
  <1>0. PICK f \in Files : \E n \in 1..(Len(f) - 1) : d = SubSeq(f, 1, n)
    BY DEF Dirs
  <1>1. PICK n \in 1..(Len(f) - 1) : d = SubSeq(f, 1, n)
    BY <1>0
  <1>2. f \in Paths /\ Len(f) \in Nat
    BY PathsOf
  <1>3. Len(d) = n
    BY <1>1, <1>2, PrefixLen
  <1>4. f \in FilesBelow(d)
    BY <1>1, <1>3 DEF FilesBelow
  <1>5. QED
    BY <1>4

\* Every file of the store lies below the root.
LEMMA AllBelowRoot == FilesBelow(Root) = Files
  <1>1. \A f \in Files : SubSeq(f, 1, 0) = Root
    BY SubSeqEmpty, PathsOf DEF Root
  <1>2. QED
    BY <1>1, PathsOf DEF FilesBelow

\* A file below d is either directly under d or below the child of d on
\* its way, a directory directly under d.
LEMMA Split ==
    ASSUME NEW d \in Paths, NEW f \in FilesBelow(d)
    PROVE  \/ Under(f, d, 1)
           \/ /\ SubSeq(f, 1, Len(d) + 1) \in Dirs
              /\ Under(SubSeq(f, 1, Len(d) + 1), d, 1)
              /\ f \in FilesBelow(SubSeq(f, 1, Len(d) + 1))
  <1> DEFINE c == SubSeq(f, 1, Len(d) + 1)
  <1>1. f \in Paths /\ Len(f) \in Nat /\ Len(d) \in Nat /\ Len(f) > Len(d)
           /\ SubSeq(f, 1, Len(d)) = d
    BY PathsOf DEF FilesBelow, Paths
  <1>2. CASE Len(f) = Len(d) + 1
    BY <1>1, <1>2 DEF Under
  <1>3. CASE Len(f) > Len(d) + 1
    <2>1. c \in Paths /\ Len(c) = Len(d) + 1
      BY <1>1, <1>3, PrefixLen
    <2>2. SubSeq(c, 1, Len(d)) = d
      BY <1>1, <1>3, PrefixOfPrefix
    <2>3. c \in Dirs
      BY <1>1, <1>3 DEF Dirs, FilesBelow
    <2>4. QED
      BY <1>1, <1>3, <2>1, <2>2, <2>3 DEF Under, FilesBelow
  <1>4. QED
    BY <1>1, <1>2, <1>3

\* What lies below a directory directly under d lies below d.
LEMMA BelowChild ==
    ASSUME NEW d \in Paths, NEW c \in Paths, Under(c, d, 1), NEW f \in FilesBelow(c)
    PROVE  f \in FilesBelow(d)
  <1>1. f \in Paths /\ Len(f) > Len(c) /\ SubSeq(f, 1, Len(c)) = c
    BY PathsOf DEF FilesBelow
  <1>2. Len(c) = Len(d) + 1 /\ SubSeq(c, 1, Len(d)) = d /\ Len(d) \in Nat
    BY DEF Under, Paths
  <1>3. SubSeq(f, 1, Len(d)) = d
    BY <1>1, <1>2, PrefixOfPrefix
  <1>4. QED
    BY <1>1, <1>2, <1>3 DEF FilesBelow

\* Two directories directly under d share no file below them.
LEMMA ChildrenDisjoint ==
    ASSUME NEW d \in Paths, NEW c1 \in Paths, NEW c2 \in Paths,
           Under(c1, d, 1), Under(c2, d, 1), c1 # c2
    PROVE  FilesBelow(c1) \cap FilesBelow(c2) = {}
  BY DEF Under, FilesBelow

\* An entry is the FILE record of a file or the DIR record of a directory.
LEMMA EntryForm ==
    ASSUME NEW e \in Entries
    PROVE  \/ e = File(e.path) /\ e.kind = "FILE" /\ e.path \in Files
           \/ e = Dir(e.path) /\ e.kind = "DIR" /\ e.path \in Dirs
  BY DEF Entries, File, Dir

\* A listing of a directory is made of entries of the store.
LEMMA ListingsAreEntries ==
    ASSUME NEW d
    PROVE  FlatOf(d) \subseteq Entries /\ HierOf(d) \subseteq Entries
  BY DEF FlatOf, HierOf, Entries

\* The caller receiving a batch B none of whose entries it has had yet:
\* each of them is now counted once, the others as before.
LEMMA EmitFacts ==
    ASSUME cnt \in [Entries -> Nat], NEW B, Emit(B),
           \A e \in B \cap Entries : cnt[e] = 0
    PROVE  /\ cnt' \in [Entries -> Nat]
           /\ \A e \in Entries : cnt'[e] = IF e \in B THEN 1 ELSE cnt[e]
  BY DEF Emit

\* A page of a one-shot listing S: each entry of the page is counted once.
LEMMA DeliveredStep ==
    ASSUME NEW S, Delivered(S), cnt \in [Entries -> Nat],
           NEW b \in SUBSET bp, Emit(b), bp' = bp \ b
    PROVE  Delivered(S)' /\ cnt' \in [Entries -> Nat]
  <1>1. \A e \in b \cap Entries : cnt[e] = 0
    BY DEF Delivered
  <1>2. /\ cnt' \in [Entries -> Nat]
        /\ \A e \in Entries : cnt'[e] = IF e \in b THEN 1 ELSE cnt[e]
    BY <1>1, EmitFacts
  <1>3. QED
    BY <1>2 DEF Delivered

\* A page of the hierarchy pager: the files of the page that lie directly
\* under the root are counted once, and so is the first directory of each
\* deeper file, unless seen says it was returned already.
LEMMA HierStep ==
    ASSUME HierDelivered, cnt \in [Entries -> Nat],
           NEW b \in SUBSET bp, HierarchyPage(b), bp' = bp \ b
    PROVE  HierDelivered' /\ cnt' \in [Entries -> Nat]
  <1> DEFINE deep == {x \in b : Len(x.path) > 1}
             ds == {FirstDir(e) : e \in deep}
             new == {d \in ds : d.path \notin seen}
             B == {e \in b : Len(e.path) = 1} \cup new
  <1>1. Emit(B) /\ seen' = seen \cup {d.path : d \in new}
    BY DEF HierarchyPage
  <1>2. \A e \in FlatOf(Root) : e.kind = "FILE" /\ e.path \in Files
    BY DEF FlatOf, File
  <1>3. Consumed' = Consumed \cup b
    BY DEF Consumed, HierDelivered
  <1>4. \A e \in B \cap Entries : cnt[e] = 0
    BY <1>2 DEF HierDelivered, Consumed, FirstDir, Dir
  <1>5. /\ cnt' \in [Entries -> Nat]
        /\ \A e \in Entries : cnt'[e] = IF e \in B THEN 1 ELSE cnt[e]
    BY <1>1, <1>4, EmitFacts
  <1>6. seen' = {SubSeq(e.path, 1, 1) : e \in {x \in Consumed' : Len(x.path) > 1}}
    <2> DEFINE R == {SubSeq(e.path, 1, 1) : e \in {x \in Consumed' : Len(x.path) > 1}}
    <2>1. ASSUME NEW p \in seen PROVE p \in R
      <3>1. PICK e \in Consumed : Len(e.path) > 1 /\ p = SubSeq(e.path, 1, 1)
        BY <2>1 DEF HierDelivered
      <3>2. QED
        BY <1>3, <3>1
    <2>2. ASSUME NEW d \in new PROVE d.path \in R
      <3>1. PICK e \in deep : d = FirstDir(e)
        OBVIOUS
      <3>2. d.path = SubSeq(e.path, 1, 1)
        BY <3>1 DEF FirstDir, Dir
      <3>3. QED
        BY <1>3, <3>1, <3>2
    <2>3. ASSUME NEW p \in R PROVE p \in seen'
      <3>1. PICK e \in Consumed' : Len(e.path) > 1 /\ p = SubSeq(e.path, 1, 1)
        BY <2>3
      <3>2. CASE e \in Consumed
        BY <1>1, <3>1, <3>2 DEF HierDelivered
      <3>3. CASE e \in b
        <4>1. FirstDir(e) \in ds /\ FirstDir(e).path = p
          BY <3>1, <3>3 DEF FirstDir, Dir
        <4>2. QED
          BY <1>1, <4>1
      <3>4. QED
        BY <1>3, <3>1, <3>2, <3>3
    <2>4. QED
      BY <1>1, <2>1, <2>2, <2>3
  <1>7. ASSUME NEW e \in Entries
        PROVE  cnt'[e] = IF \/ e \in Consumed' /\ Len(e.path) = 1
                            \/ e.kind = "DIR" /\ e.path \in seen'
                         THEN 1 ELSE 0
    <2>1. CASE e \in B
      BY <1>1, <1>3, <1>5, <2>1 DEF FirstDir, Dir
    <2>2. CASE e \notin B
      <3>1. e.kind = "DIR" /\ e.path \in {d.path : d \in new} => e \in new
        BY EntryForm DEF FirstDir, Dir
      <3>2. QED
        BY <1>1, <1>3, <1>5, <2>2, <3>1 DEF HierDelivered
    <2>3. QED
      BY <2>1, <2>2
  <1>8. bp' \subseteq FlatOf(Root)
    BY DEF HierDelivered
  <1>9. QED
    BY <1>5, <1>6, <1>7, <1>8 DEF HierDelivered

\* A page of the current hierarchical listing under the flat pager: its
\* files are counted once and its directories queued.  The directories to
\* expand stay the same, so the files still to return lose just the page's.
LEMMA FlatStep ==
    ASSUME FlatDelivered, cnt \in [Entries -> Nat],
           NEW b \in SUBSET bp, FlatPage(b), bp' = bp \ b
    PROVE  FlatDelivered' /\ cnt' \in [Entries -> Nat]
  <1> DEFINE Fs == {e \in b : e.kind = "FILE"}
             Db == {e.path : e \in {x \in b : x.kind = "DIR"}}
             Fb == {e.path : e \in Fs}
  <1> USE DEF FlatDelivered
  <1>1. Emit(Fs) /\ q' = q \cup Db
    BY DEF FlatPage
  <1>2. \A e1, e2 \in bp : e1.kind = e2.kind /\ e1.path = e2.path => e1 = e2
    BY EntryForm
  <1>3. BpDirs' = BpDirs \ Db
    BY <1>2 DEF BpDirs
  <1>4. q' \cup BpDirs' = q \cup BpDirs /\ q' \cap BpDirs' = {}
    BY <1>1, <1>3 DEF BpDirs
  <1>5. Pending' = Pending \ Fb
    <2>1. Fb \cap BelowAll(q \cup BpDirs) = {}
      BY DEF BelowAll
    <2>2. BpFiles' = BpFiles \ Fb
      BY <1>2 DEF BpFiles
    <2>3. BelowAll(q' \cup BpDirs') = BelowAll(q \cup BpDirs)
      BY <1>4
    <2>4. QED
      BY <2>1, <2>2, <2>3 DEF Pending
  <1>6. \A e \in Fs \cap Entries : cnt[e] = 0
    <2>1. \A e \in Fs : e.path \in BpFiles
      BY DEF BpFiles
    <2>2. \A e \in Fs : e.path \in Pending
      BY <2>1 DEF Pending
    <2>3. QED
      BY <2>2
  <1>7. /\ cnt' \in [Entries -> Nat]
        /\ \A e \in Entries : cnt'[e] = IF e \in Fs THEN 1 ELSE cnt[e]
    BY <1>1, <1>6, EmitFacts
  <1>8. ASSUME NEW e \in Entries
        PROVE  cnt'[e] = IF e.kind = "FILE" /\ e.path \notin Pending' THEN 1 ELSE 0
    <2>1. CASE e \in Fs
      BY <1>5, <1>7, <2>1
    <2>2. CASE e \notin Fs
      <3>1. e.kind = "FILE" => e.path \notin Fb
        BY <2>2, EntryForm
      <3>2. QED
        BY <1>5, <1>7, <2>2, <3>1
    <2>3. QED
      BY <2>1, <2>2
  <1>9. q' \subseteq Dirs \cup {Root}
    <2>1. \A e \in b : e.kind = "DIR" => e.path \in Dirs
      BY EntryForm
    <2>2. QED
      BY <1>1, <2>1
  <1>10. QED
    BY <1>1, <1>4, <1>7, <1>8, <1>9

\* The files below d are those directly under it and those below one of
\* its child directories.
LEMMA OpenSplit ==
    ASSUME NEW d \in Paths
    PROVE  FilesBelow(d) = BelowAll({s \in Dirs : Under(s, d, 1)})
                           \cup {g \in Files : Under(g, d, 1)}
  <1>1. ASSUME NEW f \in FilesBelow(d)
        PROVE  f \in BelowAll({s \in Dirs : Under(s, d, 1)})
                  \cup {g \in Files : Under(g, d, 1)}
    <2>1. f \in Files
      BY DEF FilesBelow
    <2>2. QED
      BY <2>1, Split DEF BelowAll
  <1>2. ASSUME NEW c \in Dirs, Under(c, d, 1), NEW f \in FilesBelow(c)
        PROVE  f \in FilesBelow(d)
    BY <1>2, BelowChild, PathsOf
  <1>3. ASSUME NEW g \in Files, Under(g, d, 1) PROVE g \in FilesBelow(d)
    BY <1>3, PathsOf DEF Under, FilesBelow, Paths
  <1>4. QED
    BY <1>1, <1>2, <1>3 DEF BelowAll

\* The paths of the entries built from a set of paths are those paths.
LEMMA PathsOfEntries ==
    ASSUME NEW S
    PROVE  /\ {e.path : e \in {Dir(s) : s \in S}} = S
           /\ {e.path : e \in {File(s) : s \in S}} = S
  <1>1. \A s \in S : Dir(s).path = s /\ File(s).path = s
    BY DEF Dir, File
  <1>2. {e.path : e \in {Dir(s) : s \in S}} = S
    <2>1. ASSUME NEW p \in {e.path : e \in {Dir(s) : s \in S}} PROVE p \in S
      BY <1>1, <2>1, Zenon
    <2>2. ASSUME NEW p \in S PROVE p \in {e.path : e \in {Dir(s) : s \in S}}
      BY <1>1, <2>2, Zenon
    <2>3. QED
      BY <2>1, <2>2
  <1>3. {e.path : e \in {File(s) : s \in S}} = S
    <2>1. ASSUME NEW p \in {e.path : e \in {File(s) : s \in S}} PROVE p \in S
      BY <1>1, <2>1, Zenon
    <2>2. ASSUME NEW p \in S PROVE p \in {e.path : e \in {File(s) : s \in S}}
      BY <1>1, <2>2, Zenon
    <2>3. QED
      BY <2>1, <2>2
  <1>4. QED
    BY <1>2, <1>3

\* The flat pager opening the hierarchical listing of a queued directory d:
\* d leaves the queue and its children enter the pager, so the files still
\* to return are the same and the directories to expand still share none.
LEMMA FlatOpenStep ==
    ASSUME FlatDelivered, bp = {}, NEW d \in q, bp' = HierOf(d), q' = q \ {d},
           UNCHANGED cnt
    PROVE  FlatDelivered'
  <1> DEFINE C == {s \in Dirs : Under(s, d, 1)}
             G == {g \in Files : Under(g, d, 1)}
  <1> USE DEF FlatDelivered
  <1>1. d \in Paths /\ C \subseteq Paths
    BY PathsOf
  <1>2. BpDirs = {} /\ BpFiles = {} /\ BpDirs' = C /\ BpFiles' = G
    <2>1. BpDirs = {} /\ BpFiles = {}
      BY DEF BpDirs, BpFiles
    <2>2. {x \in bp' : x.kind = "DIR"} = {Dir(s) : s \in C}
      BY DEF HierOf, File, Dir
    <2>3. {x \in bp' : x.kind = "FILE"} = {File(g) : g \in G}
      BY DEF HierOf, File, Dir
    <2>4. BpDirs' = C
      <3>1. BpDirs' = {e.path : e \in {Dir(s) : s \in C}}
        BY <2>2 DEF BpDirs
      <3>2. {e.path : e \in {Dir(s) : s \in C}} = C
        BY PathsOfEntries
      <3>3. QED
        BY <3>1, <3>2
    <2>5. BpFiles' = G
      <3>1. BpFiles' = {e.path : e \in {File(g) : g \in G}}
        BY <2>3 DEF BpFiles
      <3>2. {e.path : e \in {File(g) : g \in G}} = G
        BY PathsOfEntries
      <3>3. QED
        BY <3>1, <3>2
    <2>6. QED
      BY <2>1, <2>4, <2>5
  <1>3. FilesBelow(d) = BelowAll(C) \cup G
    BY <1>1, OpenSplit
  <1>4. \A c \in C : FilesBelow(c) \subseteq FilesBelow(d)
    BY <1>1, BelowChild
  <1>5. Pending' = Pending
    <2>1. Pending = BelowAll(q \ {d}) \cup FilesBelow(d)
      BY <1>2 DEF Pending, BelowAll
    <2>2. Pending' = BelowAll(q \ {d}) \cup BelowAll(C) \cup G
      BY <1>2 DEF Pending, BelowAll
    <2>3. QED
      BY <1>3, <2>1, <2>2
  <1>6. ASSUME NEW x \in q' \cup C, NEW y \in q' \cup C, x # y
        PROVE  FilesBelow(x) \cap FilesBelow(y) = {}
    <2>1. CASE x \in C /\ y \in C
      BY <1>1, <1>6, <2>1, ChildrenDisjoint
    <2>2. CASE x \in q' /\ y \in q'
      BY <1>2, <1>6, <2>2
    <2>3. CASE x \in q' /\ y \in C
      <3>1. FilesBelow(x) \cap FilesBelow(d) = {}
        BY <1>2, <2>3
      <3>2. QED
        BY <1>4, <2>3, <3>1
    <2>4. CASE x \in C /\ y \in q'
      <3>1. FilesBelow(y) \cap FilesBelow(d) = {}
        BY <1>2, <2>4
      <3>2. QED
        BY <1>4, <2>4, <3>1
    <2>5. QED
      BY <2>1, <2>2, <2>3, <2>4
  <1>7. q' \cap C = {}
    <2> SUFFICES ASSUME NEW x \in q', x \in C PROVE FALSE
      OBVIOUS
    <2>1. FilesBelow(x) \cap FilesBelow(d) = {}
      BY <1>2
    <2>2. FilesBelow(x) # {}
      BY DirHasFiles
    <2>3. QED
      BY <1>4, <2>1, <2>2
  <1>8. ASSUME NEW g \in G, NEW x \in q' \cup C PROVE g \notin FilesBelow(x)
    <2>1. CASE x \in q'
      <3>1. g \in FilesBelow(d)
        BY <1>3
      <3>2. QED
        BY <1>2, <2>1, <3>1
    <2>2. CASE x \in C
      BY <1>1, <2>2, PathsOf DEF Under, FilesBelow, Paths
    <2>3. QED
      BY <2>1, <2>2
  <1>9. /\ bp' \subseteq Entries /\ q' \subseteq Dirs \cup {Root}
        /\ \A e \in bp' : e.kind = "FILE" => e.path \in G
    <2>1. bp' \subseteq Entries
      BY ListingsAreEntries
    <2>2. \A e \in bp' : e.kind = "FILE" => e.path \in BpFiles'
      BY DEF BpFiles
    <2>3. QED
      BY <1>2, <2>1, <2>2
  <1>10. \A e \in bp' : e.kind = "FILE" => e.path \in Files
    BY <1>9
  <1>11. \A e \in bp', x \in q' \cup BpDirs' : e.kind = "FILE" => e.path \notin FilesBelow(x)
    BY <1>2, <1>8, <1>9
  <1>12. \A x, y \in q' \cup BpDirs' : x # y => FilesBelow(x) \cap FilesBelow(y) = {}
    BY <1>2, <1>6
  <1>13. \A e \in Entries : cnt'[e] = IF e.kind = "FILE" /\ e.path \notin Pending' THEN 1 ELSE 0
    BY <1>5
  <1>14. QED
    BY <1>2, <1>7, <1>9, <1>10, <1>11, <1>12, <1>13

\* The inductive invariant of the listing adaptation: each pager mode
\* keeps its own account of what the caller has had, and a finished pager
\* has nothing left.
LInv ==
    /\ cnt \in [Entries -> Nat]
    /\ mode \in {"none", "AlreadyComplete", "NeedFlat", "NeedHierarchy"}
    /\ ph = "idle" => mode = "none" /\ bp = {} /\ q = {} /\ seen = {}
                      /\ \A e \in Entries : cnt[e] = 0
    /\ ph \in {"open", "done"} => mode # "none"
    /\ mode = "AlreadyComplete" /\ delim = "" => Delivered(FlatOf(Root))
    /\ mode = "AlreadyComplete" /\ delim # "" => delim = "/" /\ Delivered(HierOf(Root))
    /\ mode = "NeedHierarchy" => delim = "/" /\ HierDelivered
    /\ mode = "NeedFlat" => delim = "" /\ FlatDelivered
    /\ ph = "done" => bp = {} /\ (mode = "NeedFlat" => q = {})

\* A flat pager just built: only the root is queued and the caller has
\* had nothing, so every file is still to return.
LEMMA FlatStart ==
    ASSUME bp' = {}, q' = {Root}, \A e \in Entries : cnt'[e] = 0
    PROVE  FlatDelivered'
  <1>1. BpDirs' = {} /\ BpFiles' = {}
    BY DEF BpDirs, BpFiles
  <1>2. Pending' = Files
    BY <1>1, AllBelowRoot DEF Pending, BelowAll
  <1>3. \A e \in Entries : e.kind = "FILE" => e.path \in Files
    BY EntryForm
  <1>4. QED
    BY <1>1, <1>2, <1>3 DEF FlatDelivered

\* The initial state satisfies the invariant.
LEMMA InitL == Init => LInv
  <1> SUFFICES ASSUME Init PROVE LInv
    OBVIOUS
  <1>1. cnt \in [Entries -> Nat] /\ \A e \in Entries : cnt[e] = 0
    BY DEF Init
  <1>2. ph = "idle" /\ mode = "none" /\ bp = {} /\ q = {} /\ seen = {}
    BY DEF Init
  <1>3. QED
    BY <1>1, <1>2 DEF LInv

\* list: from an idle caller, each branch builds a pager whose account
\* starts empty.
LEMMA ListStep ==
    ASSUME LInv, ListCall
    PROVE  LInv'
  <1>1. mode = "none" /\ bp = {} /\ q = {} /\ seen = {} /\ \A e \in Entries : cnt[e] = 0
    BY DEF ListCall, LInv
  <1>2. UNCHANGED <<cap, seen, cnt>> /\ cnt \in [Entries -> Nat]
    BY DEF ListCall, LInv
  <1>3. PICK d \in Delims :
          /\ delim' = d
          /\ \/ /\ ~cap.list \/ d \notin {"", "/"}
                /\ ph' = "err" /\ UNCHANGED <<mode, bp, q>>
             \/ /\ cap.list /\ (d = "/" \/ cap.flat)
                /\ ph' = "err" /\ UNCHANGED <<mode, bp, q>>
             \/ /\ cap.list /\ d = "" /\ cap.flat
                /\ mode' = "AlreadyComplete" /\ bp' = FlatOf(Root)
                /\ ph' = "open" /\ UNCHANGED q
             \/ /\ cap.list /\ d = "" /\ ~cap.flat
                /\ mode' = "NeedFlat" /\ q' = {Root}
                /\ ph' = "open" /\ UNCHANGED bp
             \/ /\ cap.list /\ d = "/" /\ cap.hier
                /\ mode' = "AlreadyComplete" /\ bp' = HierOf(Root)
                /\ ph' = "open" /\ UNCHANGED q
             \/ /\ cap.list /\ d = "/" /\ ~cap.hier
                /\ mode' = "NeedHierarchy" /\ bp' = FlatOf(Root)
                /\ ph' = "open" /\ UNCHANGED q
    BY DEF ListCall
  <1>4. CASE ph' = "err" /\ UNCHANGED <<mode, bp, q>>
    BY <1>1, <1>2, <1>4 DEF LInv
  <1>5. CASE mode' = "AlreadyComplete" /\ bp' = FlatOf(Root) /\ ph' = "open" /\ delim' = ""
    BY <1>1, <1>2, <1>5 DEF LInv, Delivered
  <1>6. CASE mode' = "NeedFlat" /\ q' = {Root} /\ ph' = "open" /\ bp' = bp /\ delim' = ""
    <2>1. FlatDelivered'
      BY <1>1, <1>2, <1>6, FlatStart
    <2>2. QED
      BY <1>1, <1>2, <1>6, <2>1 DEF LInv
  <1>7. CASE mode' = "AlreadyComplete" /\ bp' = HierOf(Root) /\ ph' = "open" /\ delim' = "/"
    BY <1>1, <1>2, <1>7 DEF LInv, Delivered
  <1>8. CASE mode' = "NeedHierarchy" /\ bp' = FlatOf(Root) /\ ph' = "open" /\ delim' = "/"
    <2>1. Consumed' = {}
      BY <1>8 DEF Consumed
    <2>2. HierDelivered'
      BY <1>1, <1>2, <1>8, <2>1 DEF HierDelivered
    <2>3. QED
      BY <1>1, <1>2, <1>8, <2>2 DEF LInv
  <1>9. QED
    BY <1>3, <1>4, <1>5, <1>6, <1>7, <1>8

\* Drop: the caller resets to idle with nothing had.
LEMMA DropStep ==
    ASSUME LInv, Drop
    PROVE  LInv'
  BY DEF Drop, LInv


\* next() on an open pager: a page keeps the mode's account, and the end
\* comes only with nothing left.
LEMMA PageStep ==
    ASSUME LInv, PageNext
    PROVE  LInv'
  <1> USE DEF LInv
  <1>1. ph = "open" /\ mode # "none" /\ UNCHANGED <<cap, delim, mode>>
    BY DEF PageNext
  <1>2. CASE mode # "NeedFlat" /\ bp = {} /\ ph' = "done" /\ UNCHANGED <<bp, q, seen, cnt>>
    BY <1>1, <1>2 DEF Delivered, HierDelivered, FlatDelivered, Consumed, Pending,
                      BpDirs, BpFiles, BelowAll
  <1>3. CASE mode = "AlreadyComplete" /\ UNCHANGED <<ph, q, seen>>
             /\ \E b \in Pages(bp) : Emit(b) /\ bp' = bp \ b
    <2>1. PICK b \in SUBSET bp : Emit(b) /\ bp' = bp \ b
      BY <1>3 DEF Pages
    <2>2. CASE delim = ""
      BY <1>1, <1>3, <2>1, <2>2, DeliveredStep
    <2>3. CASE delim # ""
      BY <1>1, <1>3, <2>1, <2>3, DeliveredStep
    <2>4. QED
      BY <2>2, <2>3
  <1>4. CASE mode = "NeedHierarchy" /\ UNCHANGED <<ph, q>>
             /\ \E b \in Pages(bp) : HierarchyPage(b) /\ bp' = bp \ b
    <2>1. PICK b \in SUBSET bp : HierarchyPage(b) /\ bp' = bp \ b
      BY <1>4 DEF Pages
    <2>2. HierDelivered' /\ cnt' \in [Entries -> Nat]
      BY <1>1, <1>4, <2>1, HierStep
    <2>3. QED
      BY <1>1, <1>4, <2>2
  <1>5. CASE mode = "NeedFlat" /\ UNCHANGED <<ph, seen>>
             /\ \E b \in Pages(bp) : FlatPage(b) /\ bp' = bp \ b
    <2>1. PICK b \in SUBSET bp : FlatPage(b) /\ bp' = bp \ b
      BY <1>5 DEF Pages
    <2>2. FlatDelivered' /\ cnt' \in [Entries -> Nat]
      BY <1>1, <1>5, <2>1, FlatStep
    <2>3. QED
      BY <1>1, <1>5, <2>2
  <1>6. CASE mode = "NeedFlat" /\ bp = {} /\ FlatOpen /\ UNCHANGED <<ph, seen, cnt>>
    <2>1. PICK d \in q : bp' = HierOf(d) /\ q' = q \ {d}
      BY <1>6 DEF FlatOpen
    <2>2. FlatDelivered'
      BY <1>1, <1>6, <2>1, FlatOpenStep
    <2>3. QED
      BY <1>1, <1>6, <2>2
  <1>7. CASE mode = "NeedFlat" /\ bp = {} /\ q = {} /\ ph' = "done"
             /\ UNCHANGED <<bp, q, seen, cnt>>
    BY <1>1, <1>7 DEF FlatDelivered, Pending, BpDirs, BpFiles, BelowAll
  <1>8. QED
    BY <1>1, <1>2, <1>3, <1>4, <1>5, <1>6, <1>7 DEF PageNext


\* Every step keeps the invariant.
LEMMA NextL == LInv /\ [Next]_vars => LInv'
  <1> SUFFICES ASSUME LInv, [Next]_vars PROVE LInv'
    OBVIOUS
  <1>1. CASE ListCall
    BY <1>1, ListStep
  <1>2. CASE PageNext
    BY <1>2, PageStep
  <1>3. CASE Drop
    BY <1>3, DropStep
  <1>4. CASE UNCHANGED vars
    BY <1>4 DEF vars, LInv, Delivered, HierDelivered, FlatDelivered, Consumed,
                Pending, BpDirs, BpFiles, BelowAll
  <1>5. QED
    BY <1>1, <1>2, <1>3, <1>4 DEF Next

\* A flat listing of the root is every file.
LEMMA FlatRoot == FlatOf(Root) = {File(f) : f \in Files}
  BY AllBelowRoot DEF FlatOf, FilesBelow

\* An entry of the flat listing of the root is the FILE record of a file.
LEMMA FlatRootForm ==
    ASSUME NEW e \in FlatOf(Root)
    PROVE  e = File(e.path) /\ e.path \in Files /\ e.kind = "FILE" /\ e \in Entries
  <1>1. PICK f \in Files : e = File(f)
    BY FlatRoot
  <1>2. QED
    BY <1>1 DEF File, Entries

\* A hierarchical listing of the root is what a "/" listing must return.
LEMMA HierRoot == HierOf(Root) = Expected("/")
  <1>1. \A p \in Paths : Under(p, Root, 1) <=> Len(p) = 1
    BY SubSeqEmpty DEF Under, Root, Paths
  <1>2. {g \in Files : Under(g, Root, 1)} = {g \in Files : Len(g) = 1}
    BY <1>1, PathsOf
  <1>3. {t \in Dirs : Under(t, Root, 1)} = {t \in Dirs : Len(t) = 1}
    BY <1>1, PathsOf
  <1>4. QED
    BY <1>2, <1>3 DEF HierOf, Expected

\* A directory one level down is the first component of a deeper file.
LEMMA TopDir ==
    ASSUME NEW s \in Dirs, Len(s) = 1
    PROVE  \E f \in Files : Len(f) > 1 /\ s = SubSeq(f, 1, 1)
  <1>1. PICK f \in Files : \E n \in 1..(Len(f) - 1) : s = SubSeq(f, 1, n)
    BY DEF Dirs
  <1>2. PICK n \in 1..(Len(f) - 1) : s = SubSeq(f, 1, n)
    BY <1>1
  <1>3. f \in Paths /\ Len(f) \in Nat
    BY PathsOf DEF Paths
  <1>4. n = 1
    BY <1>2, <1>3, PrefixLen
  <1>5. QED
    BY <1>2, <1>3, <1>4

\* The first component of a deeper file is a directory one level down.
LEMMA FirstOfDeep ==
    ASSUME NEW f \in Files, Len(f) > 1
    PROVE  SubSeq(f, 1, 1) \in Dirs /\ Len(SubSeq(f, 1, 1)) = 1
  <1>1. f \in Paths /\ Len(f) \in Nat
    BY PathsOf DEF Paths
  <1>2. SubSeq(f, 1, 1) \in Dirs
    BY <1>1 DEF Dirs
  <1>3. QED
    BY <1>1, <1>2, PrefixLen


\* A count of 0 or 1 that is 1 only for members of X is at most X's
\* indicator.
LEMMA AtMostIf ==
    ASSUME NEW c \in {0, 1}, NEW x, NEW X, c = 1 => x \in X
    PROVE  c <= IF x \in X THEN 1 ELSE 0
  OBVIOUS

\* A one-shot listing delivered as Delivered says: nothing outside it,
\* nothing twice, and all of it once the pager is empty.
LEMMA DeliveredExact ==
    ASSUME NEW S, S \subseteq Entries, Delivered(S)
    PROVE  /\ \A e \in Entries : cnt[e] <= IF e \in S THEN 1 ELSE 0
           /\ bp = {} => \A e \in S : cnt[e] = 1
  BY DEF Delivered

\* The invariant gives the exact listing, mode by mode.
LEMMA ExactL == LInv => ListingExact
  <1> SUFFICES ASSUME LInv, ph \in {"open", "done"}
               PROVE  /\ \A e \in Entries : cnt[e] <= IF e \in Expected(delim) THEN 1 ELSE 0
                      /\ ph = "done" => \A e \in Expected(delim) : cnt[e] = 1
    BY DEF ListingExact
  <1>0. /\ mode \in {"AlreadyComplete", "NeedFlat", "NeedHierarchy"}
        /\ ph = "done" => bp = {}
    BY DEF LInv
  <1>1. CASE mode = "AlreadyComplete" /\ delim = ""
    <2>1. Expected(delim) = FlatOf(Root)
      BY <1>1 DEF Expected
    <2>2. Delivered(FlatOf(Root)) /\ FlatOf(Root) \subseteq Entries
      BY <1>1, ListingsAreEntries, Zenon DEF LInv
    <2>3. QED
      BY <1>0, <2>1, <2>2, DeliveredExact
  <1>2. CASE mode = "AlreadyComplete" /\ delim # ""
    <2>1. delim = "/" /\ Delivered(HierOf(Root)) /\ HierOf(Root) \subseteq Entries
      BY <1>2, ListingsAreEntries, Zenon DEF LInv
    <2>2. Expected(delim) = HierOf(Root)
      BY <2>1, HierRoot
    <2>3. QED
      BY <1>0, <2>1, <2>2, DeliveredExact
  <1>3. CASE mode = "NeedFlat"
    <2>0. delim = "" /\ FlatDelivered
      BY <1>3, Zenon DEF LInv
    <2>1. Expected(delim) = {File(f) : f \in Files}
      BY <2>0, FlatRoot DEF Expected
    <2>2. ASSUME NEW e \in Entries, e.kind = "FILE" PROVE e \in Expected(delim)
      <3>1. e = File(e.path) /\ e.path \in Files
        BY <2>2, EntryForm
      <3>2. QED
        BY <2>1, <3>1
    <2>3. \A e \in Entries : cnt[e] = IF e.kind = "FILE" /\ e.path \notin Pending THEN 1 ELSE 0
      BY <2>0 DEF FlatDelivered
    <2>4. ph = "done" => Pending = {}
      <3>1. ph = "done" => bp = {} /\ q = {}
        BY <1>3, Zenon DEF LInv
      <3>2. QED
        BY <3>1 DEF Pending, BpDirs, BpFiles, BelowAll
    <2>5. Expected(delim) \subseteq Entries /\ \A e \in Expected(delim) : e.kind = "FILE"
      <3>1. Expected(delim) = FlatOf(Root)
        BY <2>1, FlatRoot
      <3>2. QED
        BY <3>1, FlatRootForm
    <2>6. ASSUME NEW e \in Entries
          PROVE  cnt[e] <= IF e \in Expected(delim) THEN 1 ELSE 0
      <3>1. cnt[e] \in {0, 1}
        BY <2>3
      <3>2. cnt[e] = 1 => e \in Expected(delim)
        <4>1. cnt[e] = 1 => e.kind = "FILE"
          BY <2>3
        <4>2. QED
          BY <2>2, <4>1, Zenon
      <3>3. QED
        BY <3>1, <3>2, AtMostIf, Zenon
    <2>7. ASSUME ph = "done", NEW e \in Expected(delim) PROVE cnt[e] = 1
      BY <2>3, <2>4, <2>5, <2>7
    <2>8. QED
      BY <2>6, <2>7
  <1>4. CASE mode = "NeedHierarchy"
    <2>1. delim = "/" /\ HierDelivered
      BY <1>4, Zenon DEF LInv
    <2> DEFINE Top == {File(f) : f \in {g \in Files : Len(g) = 1}}
               Sub == {Dir(s) : s \in {t \in Dirs : Len(t) = 1}}
    <2>2. Expected(delim) = Top \cup Sub
      BY <2>1 DEF Expected
    <2>3. ASSUME NEW e \in Entries, cnt[e] # 0 PROVE e \in Top \cup Sub
      <3>1. CASE e \in Consumed /\ Len(e.path) = 1
        <4>1. e = File(e.path) /\ e.path \in Files
          BY <3>1, FlatRootForm DEF Consumed
        <4>2. QED
          BY <3>1, <4>1
      <3>2. CASE e.kind = "DIR" /\ e.path \in seen
        <4>1. PICK x \in Consumed : Len(x.path) > 1 /\ e.path = SubSeq(x.path, 1, 1)
          BY <2>1, <3>2 DEF HierDelivered
        <4>2. x.path \in Files
          BY <4>1, FlatRootForm DEF Consumed
        <4>3. e.path \in Dirs /\ Len(e.path) = 1
          BY <4>1, <4>2, FirstOfDeep
        <4>4. e = Dir(e.path)
          BY <3>2, EntryForm
        <4>5. QED
          BY <4>3, <4>4
      <3>3. QED
        BY <2>1, <2>3, <3>1, <3>2 DEF HierDelivered
    <2>4. ASSUME ph = "done" PROVE \A e \in Top \cup Sub : cnt[e] = 1
      <3>1. Consumed = FlatOf(Root)
        BY <1>0, <2>4 DEF Consumed
      <3>2. ASSUME NEW f \in Files, Len(f) = 1 PROVE cnt[File(f)] = 1
        <4>1. File(f) \in Consumed /\ File(f) \in Entries /\ Len(File(f).path) = 1
          BY <3>1, <3>2, FlatRoot DEF Entries, File
        <4>2. QED
          BY <2>1, <4>1 DEF HierDelivered
      <3>3. ASSUME NEW t \in Dirs, Len(t) = 1 PROVE cnt[Dir(t)] = 1
        <4>1. PICK f \in Files : Len(f) > 1 /\ t = SubSeq(f, 1, 1)
          BY <3>3, TopDir
        <4>2. File(f) \in Consumed /\ Len(File(f).path) > 1
          BY <3>1, <4>1, FlatRoot DEF File
        <4>3. t \in seen
          BY <2>1, <4>1, <4>2 DEF HierDelivered, File
        <4>4. Dir(t) \in Entries /\ Dir(t).kind = "DIR" /\ Dir(t).path = t
          BY DEF Entries, Dir
        <4>5. \A e \in Entries : e.kind = "DIR" /\ e.path \in seen => cnt[e] = 1
          BY <2>1 DEF HierDelivered
        <4>6. QED
          BY <4>3, <4>4, <4>5
      <3>4. QED
        BY <3>2, <3>3
    <2>5. \A e \in Entries : cnt[e] \in {0, 1}
      BY <2>1 DEF HierDelivered
    <2>6. ASSUME NEW e \in Entries
          PROVE  cnt[e] <= IF e \in Expected(delim) THEN 1 ELSE 0
      <3>1. cnt[e] \in {0, 1}
        BY <2>5
      <3>2. cnt[e] = 1 => e \in Expected(delim)
        BY <2>2, <2>3
      <3>3. QED
        BY <3>1, <3>2, AtMostIf, Zenon
    <2>7. QED
      BY <2>2, <2>4, <2>6
  <1>5. QED
    BY <1>0, <1>1, <1>2, <1>3, <1>4

\* Listing exhaustion and round-trip (spec 8.5, 8.6) for every store, page
\* size and capability set: CompleteLayer's list, with the flat or the
\* hierarchy pager or forwarded, never returns an entry that a listing of
\* the root should not have, nor any entry twice, and once next() returns
\* None the caller has had every expected entry.
THEOREM ListingExactHolds == Spec => []ListingExact
  <1>1. Spec => []LInv
    BY InitL, NextL, PTL DEF Spec
  <1>2. QED
    BY <1>1, ExactL, PTL

==================================================================================
