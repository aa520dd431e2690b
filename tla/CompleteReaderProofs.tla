------------------------- MODULE CompleteReaderProofs -------------------------
(***************************************************************************)
(* Proofs about CompleteLayer's reader adaptation, for every object, every *)
(* range and every bound.  The window it resolves is the one ReaderSpec    *)
(* requests (SuffixResolution, SpanIsRequested); a backend that can seek   *)
(* and stream costs one read and no stat (ZeroCostHolds); and, when no     *)
(* concurrent writer replaces the object, the adapted reader refines       *)
(* ReaderSpec (RefinementHolds), through the inductive invariant RInv.     *)
(***************************************************************************)
EXTENDS CompleteReader, SequenceTheorems, TLAPS

\* Suffix resolution (spec 8.2): for every total size T and suffix size s,
\* complete_reader's `if size > total_size { (0, total_size) } else
\* { (total_size - size, size) }` is the window (max(0, T - s), min(s, T))
\* that ReaderSpec requests.
THEOREM SuffixResolution ==
    \A s, T \in Nat :
        LET w == Abs!Requested([off |-> None, size |-> s], T)
        IN  ResolveSuffix(s, T) = [base |-> w.off, total |-> w.len]
<1> SUFFICES ASSUME NEW s \in Nat, NEW T \in Nat
             PROVE  LET w == Abs!Requested([off |-> None, size |-> s], T)
                    IN  ResolveSuffix(s, T) = [base |-> w.off, total |-> w.len]
  OBVIOUS
<1>1. None \notin Nat
  BY RangeAssumption
<1>2. QED
  BY <1>1 DEF ResolveSuffix, Abs!Requested, Abs!MaxOf, Abs!MinOf

\* The backend's span for any range is the window ReaderSpec requests: this
\* is what the pass-through variants hand to the caller, and the length of
\* the window complete_reader gives the range reader from content_length.
LEMMA SpanIsRequested ==
    \A L \in Nat, o \in Nat \cup {None}, s \in Nat \cup {None} :
        LET r == [off |-> o, size |-> s]
        IN  /\ BackendSpan(r, L).a = Abs!Requested(r, L).off
            /\ BackendSpan(r, L).b - BackendSpan(r, L).a = Abs!Requested(r, L).len
<1> SUFFICES ASSUME NEW L \in Nat, NEW o \in Nat \cup {None},
                    NEW s \in Nat \cup {None}
             PROVE  LET r == [off |-> o, size |-> s]
                    IN  /\ BackendSpan(r, L).a = Abs!Requested(r, L).off
                        /\ BackendSpan(r, L).b - BackendSpan(r, L).a
                           = Abs!Requested(r, L).len
  OBVIOUS
<1>1. None \notin Nat
  BY RangeAssumption
<1>2. CASE o = None /\ s = None
  BY <1>1, <1>2 DEF BackendSpan, Abs!Requested, MinOf, Abs!MinOf, Abs!MaxOf
<1>3. CASE o = None /\ s \in Nat
  BY <1>1, <1>3 DEF BackendSpan, Abs!Requested, MinOf, Abs!MinOf, Abs!MaxOf
<1>4. CASE o \in Nat /\ s = None
  <2> DEFINE r == [off |-> o, size |-> s]
  <2>1. BackendSpan(r, L) = [a |-> MinOf(o, L), b |-> L]
    BY <1>1, <1>4 DEF BackendSpan
  <2>2. Abs!Requested(r, L) = [off |-> Abs!MinOf(o, L), len |-> L - Abs!MinOf(o, L)]
    BY <1>1, <1>4 DEF Abs!Requested
  <2>3. QED
    BY <2>1, <2>2 DEF MinOf, Abs!MinOf
<1>5. CASE o \in Nat /\ s \in Nat
  <2> DEFINE r == [off |-> o, size |-> s]
  <2>1. BackendSpan(r, L) = [a |-> MinOf(o, L), b |-> MinOf(o + s, L)]
    BY <1>1, <1>5 DEF BackendSpan
  <2>2. Abs!Requested(r, L)
        = [off |-> Abs!MinOf(o, L), len |-> Abs!MinOf(s, L - Abs!MinOf(o, L))]
    BY <1>1, <1>5 DEF Abs!Requested
  <2>3. MinOf(o + s, L) - MinOf(o, L) = Abs!MinOf(s, L - Abs!MinOf(o, L))
    BY <1>5 DEF MinOf, Abs!MinOf
  <2>4. QED
    BY <2>1, <2>2, <2>3 DEF MinOf, Abs!MinOf
<1>6. QED
  BY <1>2, <1>3, <1>4, <1>5

\* The strengthening of ZeroCost that every step preserves: before the
\* backend read returns nothing has been called and no variant chosen,
\* a stat or a failed blocking read chooses none, and a passed-through
\* reader (with or without the streamable wrapper) has made its one read
\* and no stat.
ZInv ==
    /\ reads \in Nat /\ stats \in Nat
    /\ ph \in {"idle", "read"} => reads = 0 /\ stats = 0 /\ mode = "none"
    /\ ph \in {"stat", "err"} => mode = "none"
    /\ mode \in Passthrough => reads = 1 /\ stats = 0

\* The initial state satisfies ZInv.
LEMMA InitZ == Init => ZInv
  BY DEF Init, ZInv, Passthrough

\* Every step preserves ZInv: only the return of the backend read (or the
\* blocking read) chooses a pass-through variant, and it makes the one read;
\* a passed-through reader serves and seeks from that reader.
LEMMA NextZ == ZInv /\ [Next]_vars => ZInv'
  <1> SUFFICES ASSUME ZInv, [Next]_vars PROVE ZInv'
    OBVIOUS
  <1> USE DEF ZInv, Passthrough
  <1>1. CASE ReadCall
    BY <1>1 DEF ReadCall
  <1>2. CASE ReadReturn
    BY <1>2 DEF ReadReturn, RangeMode
  <1>3. CASE StatReturn
    BY <1>3 DEF StatReturn, RangeMode
  <1>4. CASE BlockingRead
    BY <1>4 DEF BlockingRead
  <1>5. CASE Pull
    <2>1. mode \in Passthrough => reads' = reads
      BY <1>5 DEF Pull
    <2>2. reads' \in Nat
      BY <1>5 DEF Pull
    <2>3. QED
      BY <1>5, <2>1, <2>2 DEF Pull
  <1>6. CASE Seek
    BY <1>6 DEF Seek
  <1>7. CASE Drop
    BY <1>7 DEF Drop
  <1>9. CASE UNCHANGED vars
    BY <1>9 DEF vars
  <1>11. CASE ReadFail
    BY <1>11 DEF ReadFail
  <1>12. CASE StatFail
    BY <1>12 DEF StatFail
  <1>10. QED
    BY <1>1, <1>2, <1>3, <1>4, <1>5, <1>6, <1>7, <1>9, <1>11, <1>12 DEF Next

\* Zero-cost pass-through (spec 8.1): in every reachable state, a reader of
\* a backend that can seek and stream has cost exactly one backend read and
\* no stat, whatever the ranges, reads, seeks, re-reads and failed
\* calls, for every object and every bound.
THEOREM ZeroCostHolds == Spec => []ZeroCost
  <1>1. Spec => []ZInv
    BY InitZ, NextZ, PTL DEF Spec
  <1>2. ZInv => ZeroCost
    BY DEF ZInv, ZeroCost, Passthrough
  <1>3. QED
    BY <1>1, <1>2, PTL


\* The strengthening that carries the refinement when no writer replaces
\* the object, in five parts.  A reader not yet open is at position 0 and
\* has returned nothing:
RIdle ==
    /\ cur = 1
    /\ ph # "open" => pos = 0
    /\ ph \in {"idle", "read", "stat"} => out = Signal("none")

\* a suffix waiting on its stat holds the backend reader of its range:
RStat ==
    ph = "stat" => /\ rng.off = None /\ rng.size # None
                   /\ br = OpenAt(rng) /\ rver = cur

\* an open reader reads the version it was opened on:
ROpen == ph = "open" => rver = cur

\* a passed-through reader streams inside its span:
RPass ==
    ph = "open" /\ mode \in Passthrough =>
        br.ver = rver /\ br.a <= br.b /\ br.c <= br.b - br.a

\* the range reader's window, from its base clipped to the object (an
\* offset past the end keeps its base with an empty window), lies inside
\* the object, and its backend reader, when it has one, stands at that
\* base + pos and streams at least to the window's end.
EBase == MinOf(rr.base, Lens[rver])

RRange ==
    ph = "open" /\ mode \notin Passthrough =>
        /\ pos <= rr.total
        /\ EBase + rr.total <= Lens[rver]
        /\ br # NoReader =>
              /\ br.ver = rver /\ br.a + br.c = EBase + pos
              /\ EBase + rr.total <= br.b

RInv == TypeOK /\ RIdle /\ RStat /\ ROpen /\ RPass /\ RRange

\* The first version exists and every version has a length.
LEMMA LensFacts ==
    1 \in Versions /\ 0 \notin Versions /\ \A v \in Versions : Lens[v] \in Nat
  <1>1. Len(Lens) \in Nat /\ Len(Lens) # 0 /\ DOMAIN Lens = 1..Len(Lens)
    BY LensAssumption, EmptySeq, LenProperties
  <1>2. QED
    BY <1>1, LensAssumption, ElementOfSeq DEF Versions

\* The backend's span of any range lies inside the object.
LEMMA SpanFacts ==
    ASSUME NEW r \in Ranges, NEW L \in Nat
    PROVE  /\ BackendSpan(r, L).a \in Nat /\ BackendSpan(r, L).b \in Nat
           /\ BackendSpan(r, L).a <= BackendSpan(r, L).b
           /\ BackendSpan(r, L).b <= L
  <1>1. /\ r.off \in Nat \cup {None} /\ r.size \in Nat \cup {None}
        /\ None \notin Nat
    BY RangeAssumption DEF Ranges
  <1>2. CASE r.off # None
    BY <1>1, <1>2 DEF BackendSpan, MinOf
  <1>3. CASE r.off = None /\ r.size # None
    BY <1>1, <1>3 DEF BackendSpan, MinOf
  <1>4. CASE r.off = None /\ r.size = None
    BY <1>1, <1>4 DEF BackendSpan, MinOf
  <1>5. QED
    BY <1>2, <1>3, <1>4

\* The initial state satisfies RInv.
LEMMA InitR == Init => RInv
  BY LensFacts DEF Init, RInv, TypeOK, Ranges, NoReader, NoRange, Passthrough,
                   RIdle, RStat, ROpen, RPass, RRange

\* A backend reader opened now on a range of the caller is one of the
\* current version, inside the object, at its start.
LEMMA OpenAtFacts ==
    ASSUME NEW r \in Ranges, cur \in Versions
    PROVE  /\ OpenAt(r) \in [ver : Versions \cup {0}, a : Nat, b : Nat, c : Nat]
           /\ OpenAt(r).ver = cur /\ OpenAt(r).c = 0
           /\ OpenAt(r).a <= OpenAt(r).b /\ OpenAt(r).b <= Lens[cur]
           /\ OpenAt(r) # NoReader
  <1>1. Lens[cur] \in Nat /\ cur # 0
    BY LensFacts
  <1>2. QED
    BY <1>1, SpanFacts DEF OpenAt, NoReader


\* The backend span of a range that is not a suffix starts at the range
\* reader's base, the offset or 0, clipped to the object.
LEMMA RangeBase ==
    ASSUME NEW r \in Ranges, NEW v \in Versions, ~(r.off = None /\ r.size # None)
    PROVE  BackendSpan(r, Lens[v]).a = MinOf(IF r.off = None THEN 0 ELSE r.off, Lens[v])
  <1>1. /\ r.off \in Offs \cup {None} /\ None \notin Nat /\ Offs \subseteq Nat
        /\ Lens[v] \in Nat
    BY RangeAssumption, LensFacts DEF Ranges
  <1>2. CASE r.off # None
    BY <1>2 DEF BackendSpan
  <1>3. CASE r.off = None
    BY <1>1, <1>3 DEF BackendSpan, MinOf
  <1>4. QED
    BY <1>2, <1>3

\* The record type of a backend reader.
Readers == [ver : Versions \cup {0}, a : Nat, b : Nat, c : Nat]

\* The backend reader a read or next reads from (Pull's r).
Pulled == IF mode \in Passthrough \/ pos = rr.total THEN br ELSE Reopen

\* What an open reader reads from: its own stream when passed through;
\* for the range reader, one standing at base + pos that serves exactly
\* the rest of the window.
LEMMA PulledFacts ==
    ASSUME RInv, ph = "open"
    PROVE  /\ Pulled \in Readers
           /\ mode \in Passthrough => Pulled = br
           /\ mode \notin Passthrough =>
                 /\ Left(Pulled) = rr.total - pos
                 /\ pos < rr.total =>
                       /\ Pulled.ver = rver /\ Pulled # NoReader
                       /\ Pulled.a + Pulled.c = EBase + pos
                       /\ EBase + rr.total <= Pulled.b
  <1>1. /\ TypeOK /\ rver = cur /\ cur = 1 /\ cur \in Versions /\ Lens[cur] \in Nat
        /\ RRange
    BY LensFacts DEF RInv, ROpen, RIdle, TypeOK
  <1>2. br \in Readers /\ rr.base \in Nat /\ rr.total \in Nat /\ pos \in Nat
        /\ EBase \in Nat
    BY <1>1 DEF TypeOK, Readers, EBase, MinOf
  <1>3. CASE mode \in Passthrough
    BY <1>2, <1>3 DEF Pulled
  <1>4. CASE mode \notin Passthrough /\ pos = rr.total
    <2>1. Pulled = br
      BY <1>4 DEF Pulled
    <2>2. br # NoReader => br.b - (br.a + br.c) >= 0
      BY <1>1, <1>2, <1>4 DEF RRange, Readers
    <2>3. br = NoReader => br.b - (br.a + br.c) = 0
      BY DEF NoReader
    <2>4. Left(br) = 0
      BY <1>2, <1>4, <2>2, <2>3 DEF Left, MinOf, Readers
    <2>5. QED
      BY <1>2, <1>4, <2>1, <2>4
  <1>5. CASE mode \notin Passthrough /\ pos # rr.total /\ br # NoReader
    <2>1. Pulled = br
      BY <1>5 DEF Pulled, Reopen
    <2>2. /\ pos < rr.total /\ br.ver = rver /\ br.a + br.c = EBase + pos
          /\ EBase + rr.total <= br.b
      BY <1>1, <1>2, <1>5 DEF RRange
    <2>3. Left(br) = rr.total - pos
      BY <1>2, <1>5, <2>2 DEF Left, MinOf, Readers
    <2>4. QED
      BY <1>2, <1>5, <2>1, <2>2, <2>3
  <1>6. CASE mode \notin Passthrough /\ pos # rr.total /\ br = NoReader
    <2> DEFINE o == rr.base + pos
               L == Lens[cur]
    <2>0. pos < rr.total /\ EBase + rr.total <= L
      BY <1>1, <1>2, <1>6 DEF RRange
    <2>1. pos < rr.total /\ rr.base + rr.total <= L /\ EBase = rr.base
      BY <1>1, <1>2, <2>0 DEF EBase, MinOf
    <2>2. None \notin Nat /\ o \in Nat /\ rr.total - pos \in Nat
      BY <1>2, <2>1, RangeAssumption
    <2>3. Pulled = OpenAt([off |-> o, size |-> rr.total - pos])
      BY <1>6 DEF Pulled, Reopen
    <2>4. Pulled = [ver |-> cur, a |-> o, b |-> rr.base + rr.total, c |-> 0]
      <3> DEFINE q == [off |-> o, size |-> rr.total - pos]
      <3>1. q.off # None /\ q.size # None /\ q.off = o /\ q.size = rr.total - pos
        BY <2>2
      <3>2. BackendSpan(q, L) = [a |-> MinOf(o, L), b |-> MinOf(o + (rr.total - pos), L)]
        BY <3>1 DEF BackendSpan
      <3>3. MinOf(o, L) = o /\ MinOf(o + (rr.total - pos), L) = rr.base + rr.total
        BY <1>1, <1>2, <2>1 DEF MinOf
      <3>4. QED
        BY <2>3, <3>2, <3>3 DEF OpenAt
    <2>5. Left(Pulled) = rr.total - pos
      BY <1>6, <2>4, <1>2 DEF Left, MinOf
    <2>6. QED
      BY <1>1, <1>2, <1>6, <2>1, <2>4, <2>5 DEF Readers, NoReader, Versions
  <1>7. QED
    BY <1>3, <1>4, <1>5, <1>6

\* The parts of RInv after a step that leaves the reader not open, at
\* position 0, with nothing returned, and the object as it is.
LEMMA NotOpenStep ==
    ASSUME ph' \in {"idle", "read", "err"}, pos' = 0, cur' = 1,
           ph' # "err" => out' = Signal("none")
    PROVE  (RIdle /\ RStat /\ ROpen /\ RPass /\ RRange)'
  BY DEF RIdle, RStat, ROpen, RPass, RRange

\* The parts of RInv about the open, the stat and the version after a read
\* or seek of an open reader, which change none of them.
LEMMA OpenFrame ==
    ASSUME ph = "open", RIdle, UNCHANGED <<cur, ph, rng, rver>>
    PROVE  (RIdle /\ RStat /\ ROpen)' <=> ROpen
  BY DEF RIdle, RStat, ROpen

\* Every step keeps RInv.
LEMMA NextR ==
    ASSUME RInv, [Next]_vars
    PROVE  RInv'
  <1>0. /\ TypeOK /\ RIdle /\ RStat /\ ROpen /\ RPass /\ RRange
        /\ cur = 1 /\ Lens[cur] \in Nat /\ cur \in Versions /\ rng \in Ranges
    BY LensFacts DEF RInv, TypeOK, RIdle
  <1>1. CASE ReadCall
    <2>1. TypeOK'
      BY <1>0, <1>1 DEF ReadCall, TypeOK
    <2>2. (RIdle /\ RStat /\ ROpen /\ RPass /\ RRange)'
      BY <1>0, <1>1, NotOpenStep DEF ReadCall, RIdle
    <2>3. QED
      BY <2>1, <2>2 DEF RInv
  <1>2. CASE ReadReturn
    <2>1. /\ br' = OpenAt(rng) /\ rver' = cur /\ ph = "read"
          /\ UNCHANGED <<cur, cap, rng, pos, out, stats, ops>> /\ reads' = reads + 1
      BY <1>2 DEF ReadReturn
    <2>2. /\ br' \in Readers /\ br'.ver = cur /\ br'.c = 0 /\ br' # NoReader
          /\ br'.a <= br'.b /\ br'.b <= Lens[cur]
      BY <1>0, <2>1, OpenAtFacts DEF Readers
    <2>3. pos = 0 /\ out = Signal("none")
      BY <1>0, <2>1 DEF RIdle
    <2>4. CASE cap.seek
      <3>1. ph' = "open" /\ mode' \in Passthrough /\ UNCHANGED rr
        BY <1>2, <2>4 DEF ReadReturn, Passthrough
      <3>2. TypeOK'
        BY <1>0, <2>1, <2>2, <3>1 DEF TypeOK, Readers, Passthrough
      <3>3. (RIdle /\ RStat /\ ROpen /\ RPass /\ RRange)'
        BY <1>0, <2>1, <2>2, <3>1 DEF RIdle, RStat, ROpen, RPass, RRange, Readers
      <3>4. QED
        BY <3>2, <3>3 DEF RInv
    <2>5. CASE ~cap.seek /\ rng.off = None /\ rng.size # None
      <3>1. ph' = "stat" /\ UNCHANGED <<mode, rr>>
        BY <1>2, <2>5 DEF ReadReturn
      <3>2. TypeOK'
        BY <1>0, <2>1, <2>2, <3>1 DEF TypeOK, Readers
      <3>3. (RIdle /\ RStat /\ ROpen /\ RPass /\ RRange)'
        BY <1>0, <2>1, <2>3, <2>5, <3>1 DEF RIdle, RStat, ROpen, RPass, RRange, OpenAt
      <3>4. QED
        BY <3>2, <3>3 DEF RInv
    <2>6. CASE ~cap.seek /\ ~(rng.off = None /\ rng.size # None)
      <3>1. /\ ph' = "open" /\ mode' \notin Passthrough
            /\ mode' \in {"NeedSeekable", "NeedBoth"}
            /\ rr' = [base |-> IF rng.off = None THEN 0 ELSE rng.off,
                      total |-> br'.b - br'.a]
        BY <1>2, <2>6 DEF ReadReturn, RangeMode, Passthrough
      <3>2. br'.a = MinOf(IF rng.off = None THEN 0 ELSE rng.off, Lens[cur])
        BY <1>0, <2>1, <2>6, RangeBase DEF OpenAt
      <3>3. (IF rng.off = None THEN 0 ELSE rng.off) \in Nat
        BY <1>0, RangeAssumption DEF Ranges
      <3>4. /\ rr' \in [base : Nat, total : Nat] /\ EBase' = br'.a
            /\ rr'.total = br'.b - br'.a
        BY <2>1, <2>2, <3>1, <3>2, <3>3 DEF Readers, EBase
      <3>5. TypeOK'
        BY <1>0, <2>1, <2>2, <3>1, <3>4 DEF TypeOK, Readers
      <3>6. (RIdle /\ RStat /\ ROpen /\ RPass /\ RRange)'
        BY <1>0, <2>1, <2>2, <2>3, <3>1, <3>4 DEF RIdle, RStat, ROpen, RPass, RRange, Readers
      <3>7. QED
        BY <3>5, <3>6 DEF RInv
    <2>7. QED
      BY <2>4, <2>5, <2>6
  <1>3. CASE StatReturn
    <2>1. /\ ph = "stat" /\ rng.off = None /\ br = OpenAt(rng) /\ rver = cur /\ pos = 0
      BY <1>0, <1>3 DEF StatReturn, RStat, RIdle
    <2>2. rng.size \in Nat
      BY <1>0, <1>3, RangeAssumption DEF StatReturn, RStat, Ranges
    <2>3. /\ rr' = ResolveSuffix(rng.size, Lens[cur])
          /\ ph' = "open" /\ mode' \notin Passthrough /\ mode' \in {"NeedSeekable", "NeedBoth"}
          /\ UNCHANGED <<cur, cap, rng, br, rver, pos, out, reads, ops>> /\ stats' = stats + 1
      BY <1>3 DEF StatReturn, RangeMode, Passthrough
    <2>4. BackendSpan(rng, Lens[cur]) = [a |-> IF rng.size > Lens[cur] THEN 0 ELSE Lens[cur] - rng.size,
                                         b |-> Lens[cur]]
      BY <2>1, <2>2, RangeAssumption DEF BackendSpan
    <2>5. /\ br.a = rr'.base /\ br.b = Lens[cur] /\ br.c = 0 /\ br.ver = cur
          /\ rr'.base + rr'.total = Lens[cur] /\ rr' \in [base : Nat, total : Nat]
      BY <1>0, <2>1, <2>2, <2>3, <2>4 DEF ResolveSuffix, OpenAt
    <2>6. br # NoReader /\ EBase' = rr'.base
      BY <1>0, <2>1, <2>3, <2>5, LensFacts DEF NoReader, Versions, EBase, MinOf
    <2>7. TypeOK'
      BY <1>0, <2>3, <2>5 DEF TypeOK
    <2>8. (RIdle /\ RStat /\ ROpen /\ RPass /\ RRange)'
      BY <1>0, <2>1, <2>3, <2>5, <2>6 DEF RIdle, RStat, ROpen, RPass, RRange
    <2>9. QED
      BY <2>7, <2>8 DEF RInv
  <1>4. CASE BlockingRead
    <2>1. PICK r \in Ranges :
            /\ rng' = r /\ reads' = reads + 1
            /\ \/ /\ cap.seek /\ ph' = "open" /\ rver' = cur /\ br' = OpenAt(r)
                  /\ mode' = IF cap.next THEN "AlreadyComplete" ELSE "NeedStreamable"
                  /\ UNCHANGED out
               \/ /\ ph' = "err" /\ UNCHANGED <<br, rver, mode>>
      BY <1>4 DEF BlockingRead
    <2>2. /\ OpenAt(r) \in Readers /\ OpenAt(r).ver = cur /\ OpenAt(r).c = 0
          /\ OpenAt(r).a <= OpenAt(r).b
      BY <1>0, OpenAtFacts DEF Readers
    <2>3. UNCHANGED <<cur, cap, rr, pos, stats, ops>> /\ ph = "idle" /\ pos = 0
      BY <1>0, <1>4 DEF BlockingRead, RIdle
    <2>4. CASE /\ cap.seek /\ ph' = "open" /\ rver' = cur /\ br' = OpenAt(r)
               /\ mode' = IF cap.next THEN "AlreadyComplete" ELSE "NeedStreamable"
      <3>1. TypeOK'
        BY <1>0, <2>1, <2>2, <2>3, <2>4 DEF TypeOK, Passthrough, Readers
      <3>2. (RIdle /\ RStat /\ ROpen /\ RPass /\ RRange)'
        BY <1>0, <2>1, <2>2, <2>3, <2>4 DEF RIdle, RStat, ROpen, RPass, RRange, Passthrough, Readers
      <3>3. QED
        BY <3>1, <3>2 DEF RInv
    <2>5. CASE ph' = "err" /\ UNCHANGED <<br, rver, mode>>
      <3>1. TypeOK'
        BY <1>0, <2>1, <2>3, <2>5 DEF TypeOK
      <3>2. (RIdle /\ RStat /\ ROpen /\ RPass /\ RRange)'
        BY <1>0, <2>1, <2>3, <2>5, NotOpenStep
      <3>3. QED
        BY <3>1, <3>2 DEF RInv
    <2>6. QED
      BY <2>1, <2>4, <2>5
  <1>11. CASE ReadFail
    <2>1. TypeOK'
      BY <1>0, <1>11 DEF ReadFail, TypeOK
    <2>2. (RIdle /\ RStat /\ ROpen /\ RPass /\ RRange)'
      BY <1>0, <1>11, NotOpenStep DEF ReadFail, RIdle
    <2>3. QED
      BY <2>1, <2>2 DEF RInv
  <1>12. CASE StatFail
    <2>1. TypeOK'
      BY <1>0, <1>12 DEF StatFail, TypeOK, NoReader
    <2>2. (RIdle /\ RStat /\ ROpen /\ RPass /\ RRange)'
      BY <1>0, <1>12, NotOpenStep DEF StatFail, RIdle
    <2>3. QED
      BY <2>1, <2>2 DEF RInv
  <1>5. CASE Pull
    <2>1. /\ ph = "open" /\ reads' \in Nat /\ ops' \in Nat
          /\ UNCHANGED <<cur, cap, ph, rng, mode, rver, rr, stats>>
      BY <1>0, <1>5 DEF Pull, TypeOK
    <2>9. EBase' = EBase /\ EBase \in Nat
      BY <1>0, <2>1, LensFacts DEF EBase, MinOf, ROpen, TypeOK
    <2>2. \/ Left(Pulled) = 0 /\ out' = Signal("eof") /\ br' = Pulled /\ pos' = pos
          \/ \E k \in 1..MinOf(MaxK, Left(Pulled)) :
                /\ out' = Served(Pulled, k)
                /\ br' = [Pulled EXCEPT !.c = @ + k]
                /\ pos' = pos + k
      BY <1>5 DEF Pull, Pulled
    <2>3. /\ Pulled \in Readers
          /\ mode \in Passthrough => Pulled = br
          /\ mode \notin Passthrough =>
                /\ Left(Pulled) = rr.total - pos
                /\ pos < rr.total =>
                      /\ Pulled.ver = rver /\ Pulled # NoReader
                      /\ Pulled.a + Pulled.c = EBase + pos
                      /\ EBase + rr.total <= Pulled.b
      BY <1>0, <2>1, PulledFacts
    <2>4. CASE Left(Pulled) = 0 /\ out' = Signal("eof") /\ br' = Pulled /\ pos' = pos
      <3>1. br' = br
        <4>1. CASE mode \in Passthrough
          BY <2>3, <2>4, <4>1
        <4>2. CASE mode \notin Passthrough
          <5>1. pos = rr.total
            BY <1>0, <2>3, <2>4, <4>2 DEF TypeOK
          <5>2. QED
            BY <2>4, <5>1 DEF Pulled
        <4>3. QED
          BY <4>1, <4>2
      <3>2. TypeOK'
        BY <1>0, <2>1, <2>4, <3>1 DEF TypeOK
      <3>3. (RIdle /\ RStat /\ ROpen /\ RPass /\ RRange)'
        BY <1>0, <2>1, <2>4, <2>9, <3>1 DEF RIdle, RStat, ROpen, RPass, RRange
      <3>4. QED
        BY <3>2, <3>3 DEF RInv
    <2>5. ASSUME NEW k \in 1..MinOf(MaxK, Left(Pulled)),
                 br' = [Pulled EXCEPT !.c = @ + k], pos' = pos + k
          PROVE  RInv'
      <3>0. Left(Pulled) \in Int
        BY <1>0, <2>3 DEF Left, MinOf, Readers, TypeOK
      <3>1. k \in Nat /\ k >= 1 /\ k <= Left(Pulled)
        BY <3>0, BoundsAssumption DEF MinOf
      <3>2. br' \in Readers /\ br'.ver = Pulled.ver /\ br'.a = Pulled.a /\ br'.b = Pulled.b
            /\ br'.c = Pulled.c + k
        BY <2>3, <2>5, <3>1 DEF Readers
      <3>3. TypeOK'
        BY <1>0, <2>1, <2>5, <3>1, <3>2 DEF TypeOK, Readers
      <3>4. CASE mode \in Passthrough
        <4>1. Pulled = br /\ Left(br) = br.b - (br.a + br.c)
          BY <2>3, <3>4 DEF Left
        <4>2. /\ br.ver = rver /\ br.a <= br.b /\ br \in Readers
          BY <1>0, <2>1, <2>3, <3>4, <4>1 DEF RPass
        <4>3. br'.c <= br'.b - br'.a
          BY <3>1, <3>2, <4>1, <4>2 DEF Readers
        <4>4. RPass' /\ RRange'
          BY <2>1, <3>2, <3>4, <4>1, <4>2, <4>3 DEF RPass, RRange
        <4>5. (RIdle /\ RStat /\ ROpen)'
          BY <1>0, <2>1, OpenFrame
        <4>6. QED
          BY <3>3, <4>4, <4>5 DEF RInv
      <3>5. CASE mode \notin Passthrough
        <4>1. pos < rr.total /\ pos' <= rr.total
          BY <1>0, <2>3, <2>5, <3>1, <3>5 DEF TypeOK
        <4>2. /\ br'.ver = rver /\ br' # NoReader
              /\ br'.a + br'.c = EBase + pos'
              /\ EBase + rr.total <= br'.b
          BY <1>0, <2>3, <2>5, <2>9, <3>1, <3>2, <3>5, <4>1 DEF TypeOK, NoReader, Readers
        <4>3. RPass' /\ RRange'
          BY <1>0, <2>1, <2>9, <3>5, <4>1, <4>2 DEF RPass, RRange
        <4>4. (RIdle /\ RStat /\ ROpen)'
          BY <1>0, <2>1, OpenFrame
        <4>5. QED
          BY <3>3, <4>3, <4>4 DEF RInv
      <3>6. QED
        BY <3>4, <3>5
    <2>6. QED
      BY <2>2, <2>4, <2>5
  <1>6. CASE Seek
    <2>1. /\ ph = "open" /\ ops' \in Nat
          /\ UNCHANGED <<cur, cap, ph, rng, mode, rver, rr, out, reads, stats>>
      BY <1>0, <1>6 DEF Seek, TypeOK
    <2>9. EBase' = EBase /\ EBase \in Nat
      BY <1>0, <2>1, LensFacts DEF EBase, MinOf, ROpen, TypeOK
    <2>2. PICK p \in 0..(IF mode \in Passthrough THEN br.b - br.a ELSE rr.total) :
            /\ pos' = p
            /\ br' = IF mode \in Passthrough THEN [br EXCEPT !.c = p]
                     ELSE IF br # NoReader /\ p >= pos /\ p - pos <= Threshold
                          THEN [br EXCEPT !.c = @ + (p - pos)]
                          ELSE NoReader
      BY <1>6 DEF Seek
    <2>3. br \in Readers /\ pos \in Nat /\ rr \in [base : Nat, total : Nat]
      BY <1>0 DEF TypeOK, Readers
    <2>4. CASE mode \in Passthrough
      <3>1. br' = [br EXCEPT !.c = p] /\ p \in 0..(br.b - br.a)
        BY <2>2, <2>4
      <3>2. br' \in Readers /\ br'.ver = br.ver /\ br'.a = br.a /\ br'.b = br.b /\ br'.c = p
        BY <2>3, <3>1 DEF Readers
      <3>3. TypeOK'
        BY <1>0, <2>1, <2>2, <3>2 DEF TypeOK, Readers
      <3>4. RPass' /\ RRange'
        BY <1>0, <2>1, <2>4, <3>1, <3>2 DEF RPass, RRange
      <3>5. (RIdle /\ RStat /\ ROpen)'
        BY <1>0, <2>1, OpenFrame
      <3>6. QED
        BY <3>3, <3>4, <3>5 DEF RInv
    <2>5. CASE mode \notin Passthrough /\ br # NoReader /\ p >= pos /\ p - pos <= Threshold
      <3>1. br' = [br EXCEPT !.c = @ + (p - pos)] /\ p \in 0..rr.total
        BY <2>2, <2>5
      <3>2. br' \in Readers /\ br'.ver = br.ver /\ br'.a = br.a /\ br'.b = br.b
            /\ br'.c = br.c + (p - pos)
        BY <2>3, <2>5, <3>1 DEF Readers
      <3>3. br' # NoReader
        BY <1>0, <2>1, <2>5, <3>2, LensFacts DEF RRange, ROpen, NoReader
      <3>4. TypeOK'
        BY <1>0, <2>1, <2>2, <3>2 DEF TypeOK, Readers
      <3>5. /\ br.ver = rver /\ br.a + br.c = EBase + pos
            /\ EBase + rr.total <= br.b /\ EBase + rr.total <= Lens[rver]
        BY <1>0, <2>1, <2>5 DEF RRange
      <3>6. /\ br'.ver = rver /\ br'.a + br'.c = EBase + pos'
            /\ EBase + rr.total <= br'.b /\ pos' <= rr.total
        BY <2>1, <2>2, <2>3, <2>9, <3>1, <3>2, <3>5 DEF Readers
      <3>7. RPass' /\ RRange'
        BY <2>1, <2>5, <2>9, <3>3, <3>5, <3>6 DEF RPass, RRange
      <3>8. (RIdle /\ RStat /\ ROpen)'
        BY <1>0, <2>1, OpenFrame
      <3>9. QED
        BY <3>4, <3>7, <3>8 DEF RInv
    <2>6. CASE mode \notin Passthrough /\ ~(br # NoReader /\ p >= pos /\ p - pos <= Threshold)
      <3>1. br' = NoReader /\ p \in 0..rr.total
        BY <2>2, <2>6
      <3>2. TypeOK'
        <4>1. pos' \in Nat
          BY <2>2, <2>3, <3>1
        <4>2. NoReader \in Readers
          BY DEF NoReader, Readers
        <4>3. QED
          BY <1>0, <2>1, <3>1, <4>1, <4>2 DEF TypeOK, Readers
      <3>3. RPass' /\ RRange'
        BY <1>0, <2>1, <2>2, <2>6, <2>9, <3>1 DEF RPass, RRange
      <3>4. (RIdle /\ RStat /\ ROpen)'
        BY <1>0, <2>1, OpenFrame
      <3>5. QED
        BY <3>2, <3>3, <3>4 DEF RInv
    <2>7. QED
      BY <2>4, <2>5, <2>6
  <1>7. CASE Drop
    <2>1. TypeOK'
      BY <1>0, <1>7 DEF Drop, TypeOK, NoReader, NoRange
    <2>2. (RIdle /\ RStat /\ ROpen /\ RPass /\ RRange)'
      BY <1>0, <1>7, NotOpenStep DEF Drop
    <2>3. QED
      BY <2>1, <2>2 DEF RInv
  <1>9. CASE UNCHANGED vars
    BY <1>0, <1>9 DEF vars, RInv, TypeOK, RIdle, RStat, ROpen, RPass, RRange, OpenAt, EBase
  <1>10. QED
    BY <1>1, <1>2, <1>3, <1>4, <1>5, <1>6, <1>7, <1>9, <1>11, <1>12 DEF Next


-----------------------------------------------------------------------------
(***************************************************************************)
(* The refinement of ReaderSpec, step by step: each step of the adapted   *)
(* reader is, through LWin and LPos, one step of the abstract reader or a *)
(* stutter.                                                                *)
(***************************************************************************)

\* The backend's span of a caller's range, on any version, is the window
\* ReaderSpec requests (SpanIsRequested for the ranges a caller can pass).
LEMMA SpanOfRange ==
    ASSUME NEW r \in Ranges, NEW v \in Versions
    PROVE  /\ BackendSpan(r, Lens[v]).a = Abs!Requested(r, Lens[v]).off
           /\ BackendSpan(r, Lens[v]).b - BackendSpan(r, Lens[v]).a
              = Abs!Requested(r, Lens[v]).len
  <1>1. /\ r = [off |-> r.off, size |-> r.size]
        /\ r.off \in Nat \cup {None} /\ r.size \in Nat \cup {None}
    BY RangeAssumption DEF Ranges
  <1>2. Lens[v] \in Nat
    BY LensFacts
  <1>3. LET q == [off |-> r.off, size |-> r.size]
        IN  /\ BackendSpan(q, Lens[v]).a = Abs!Requested(q, Lens[v]).off
            /\ BackendSpan(q, Lens[v]).b - BackendSpan(q, Lens[v]).a
               = Abs!Requested(q, Lens[v]).len
    BY <1>1, <1>2, SpanIsRequested
  <1>4. QED
    BY <1>1, <1>3

\* The caller's window of a reader that is not open is ReaderSpec's NoWin.
LEMMA ClosedWin ==
    ASSUME ph # "open"
    PROVE  LWin = Abs!NoWin /\ LPos = pos
  BY DEF LWin, LPos, Abs!NoWin

\* A step between two states with no open reader, that keeps the range,
\* moves no position and returns nothing, stutters the abstract reader.
LEMMA AbsStutter ==
    ASSUME ph # "open", ph' # "open", pos' = pos, out' = out, rng' = rng
    PROVE  UNCHANGED <<rng, LWin, LPos, out>>
  BY DEF LWin, LPos

\* A read call issued while no reader is open is ReaderSpec's Request.
LEMMA AbsRequest ==
    ASSUME ph # "open", ph' # "open", pos' = pos, out' = out, rng' \in Ranges
    PROVE  Abs!Next
  <1>1. LWin = Abs!NoWin /\ LWin' = LWin /\ LPos' = LPos
    BY DEF LWin, LPos, Abs!NoWin
  <1>2. Abs!Request
    BY <1>1 DEF Abs!Request, Ranges, Abs!Ranges
  <1>3. QED
    BY <1>2 DEF Abs!Next

\* A read call that fails, with no reader open before or after, is
\* ReaderSpec's Fail.
LEMMA AbsFail ==
    ASSUME ph # "open", ph' # "open", pos' = pos, rng' \in Ranges,
           NEW e \in {"Unsupported", "BackendError"}, out' = Signal(e)
    PROVE  Abs!Next
  <1>1. LWin = Abs!NoWin /\ LWin' = LWin /\ LPos' = LPos
    BY DEF LWin, LPos, Abs!NoWin
  <1>2. Abs!Fail
    BY <1>1 DEF Abs!Fail, Ranges, Abs!Ranges, Abs!Errors, Signal, Abs!Signal
  <1>3. QED
    BY <1>2 DEF Abs!Next

\* The return of the pending read, opening the window its range requests
\* of some version at position 0, is ReaderSpec's Open.
LEMMA AbsOpen ==
    ASSUME ph # "open", out = Signal("none"), out' = out, LPos' = 0,
           rng' = rng, NEW v \in Versions,
           LWin' = [ver |-> v, off |-> Abs!Requested(rng, Lens[v]).off,
                    len |-> Abs!Requested(rng, Lens[v]).len]
    PROVE  Abs!Next
  <1>1. LWin = Abs!NoWin
    BY ClosedWin
  <1>2. v \in Abs!Versions
    BY DEF Versions, Abs!Versions
  <1>3. Signal("none") = Abs!Signal("none")
    BY DEF Signal, Abs!Signal
  <1>4. Abs!Open
    BY <1>1, <1>2, <1>3 DEF Abs!Open, Abs!Window
  <1>5. QED
    BY <1>4 DEF Abs!Next

\* A blocking read that opens, in one step, the window its range r
\* requests of some version is ReaderSpec's CallOpen.
LEMMA AbsCallOpen ==
    ASSUME ph # "open", out = Signal("none"), out' = out, LPos' = 0,
           NEW r \in Ranges, rng' = r, NEW v \in Versions,
           LWin' = [ver |-> v, off |-> Abs!Requested(r, Lens[v]).off,
                    len |-> Abs!Requested(r, Lens[v]).len]
    PROVE  Abs!Next
  <1>1. LWin = Abs!NoWin
    BY ClosedWin
  <1>2. r \in Abs!Ranges /\ v \in Abs!Versions
    BY DEF Ranges, Abs!Ranges, Versions, Abs!Versions
  <1>3. Signal("none") = Abs!Signal("none")
    BY DEF Signal, Abs!Signal
  <1>4. Abs!CallOpen
    BY <1>1, <1>2, <1>3 DEF Abs!CallOpen, Abs!Window
  <1>5. QED
    BY <1>4 DEF Abs!Next

\* An open reader's window is never NoWin: it belongs to a version.
LEMMA OpenWin ==
    ASSUME RInv, ph = "open"
    PROVE  /\ LWin # Abs!NoWin /\ LWin.ver = rver /\ rver = cur
           /\ mode \in Passthrough =>
                 LWin = [ver |-> rver, off |-> br.a, len |-> br.b - br.a]
                 /\ LPos = br.c
           /\ mode \notin Passthrough =>
                 LWin = [ver |-> rver, off |-> EBase, len |-> rr.total]
                 /\ LPos = pos
  <1>1. rver = cur /\ cur = 1
    BY DEF RInv, ROpen, RIdle
  <1>2. QED
    BY <1>1 DEF LWin, LPos, Abs!NoWin, EBase

\* A read at the end of the window that says end-of-file is ReaderSpec's Eof.
LEMMA AbsEof ==
    ASSUME LWin # Abs!NoWin, LPos = LWin.len, out' = Signal("eof"),
           LWin' = LWin, LPos' = LPos, rng' = rng
    PROVE  Abs!Next
  BY DEF Abs!Eof, Abs!Next, Signal, Abs!Signal

\* A read that returns the next k bytes of the window is ReaderSpec's Pull.
LEMMA AbsPull ==
    ASSUME LWin # Abs!NoWin, LPos \in Nat, LWin.len \in Nat,
           NEW k \in 1..MinOf(MaxK, LWin.len - LPos),
           out' = Run(LWin.ver, LWin.off + LPos, LWin.off + LPos + k),
           LPos' = LPos + k, LWin' = LWin, rng' = rng
    PROVE  Abs!Next
  <1>1. LPos < LWin.len
    BY BoundsAssumption DEF MinOf
  <1>2. Abs!Pull
    BY <1>1 DEF Abs!Pull, Abs!MinOf, MinOf, Run, Abs!Run
  <1>3. QED
    BY <1>2 DEF Abs!Next

\* A seek to a position inside the window is ReaderSpec's Seek.
LEMMA AbsSeek ==
    ASSUME LWin # Abs!NoWin, NEW p \in 0..LWin.len, LPos' = p,
           LWin' = LWin, out' = out, rng' = rng
    PROVE  Abs!Next
  BY DEF Abs!Seek, Abs!Next


\* Every step of the adapted reader is a step of ReaderSpec or leaves the caller's view unchanged.
LEMMA StepA ==
    ASSUME RInv, [Next]_vars
    PROVE  [Abs!Next]_<<rng, LWin, LPos, out>>
  <1>0. /\ TypeOK /\ cur = 1 /\ cur \in Versions /\ Lens[cur] \in Nat
        /\ ph # "open" => pos = 0
        /\ ph \in {"idle", "read", "stat"} => out = Signal("none")
    BY LensFacts DEF RInv, RIdle, TypeOK
  <1>1. CASE ReadCall
    <2>1. ph = "idle" /\ ph' = "read" /\ pos' = pos /\ out' = out /\ rng' \in Ranges
      BY <1>1 DEF ReadCall
    <2>2. QED
      BY <2>1, AbsRequest
  <1>2. CASE ReadReturn
    <2>0. ph = "read" /\ rng \in Ranges /\ br' = OpenAt(rng) /\ rver' = cur
          /\ out' = out /\ pos' = pos /\ out = Signal("none") /\ pos = 0
          /\ rng' = rng
      BY <1>0, <1>2 DEF ReadReturn, TypeOK
    <2>1. /\ OpenAt(rng).a = Abs!Requested(rng, Lens[cur]).off
          /\ OpenAt(rng).b - OpenAt(rng).a = Abs!Requested(rng, Lens[cur]).len
          /\ OpenAt(rng).c = 0
      BY <1>0, <2>0, SpanOfRange, OpenAtFacts DEF OpenAt
    <2>2. CASE cap.seek
      <3>1. mode' \in Passthrough /\ ph' = "open"
        BY <1>2, <2>2 DEF ReadReturn, Passthrough
      <3>2. LWin' = [ver |-> cur, off |-> Abs!Requested(rng, Lens[cur]).off,
                     len |-> Abs!Requested(rng, Lens[cur]).len]
        BY <2>0, <2>1, <3>1 DEF LWin
      <3>3. LPos' = 0
        BY <2>0, <2>1, <3>1 DEF LPos
      <3>4. QED
        BY <1>0, <2>0, <3>2, <3>3, AbsOpen
    <2>3. CASE ~cap.seek /\ rng.off = None /\ rng.size # None
      <3>1. ph' = "stat"
        BY <1>2, <2>3 DEF ReadReturn
      <3>2. QED
        BY <2>0, <3>1, AbsStutter
    <2>4. CASE ~cap.seek /\ ~(rng.off = None /\ rng.size # None)
      <3>1. /\ rr' = [base |-> IF rng.off = None THEN 0 ELSE rng.off,
                      total |-> br'.b - br'.a]
            /\ mode' = RangeMode /\ ph' = "open"
        BY <1>2, <2>4 DEF ReadReturn
      <3>2. mode' \notin Passthrough
        BY <3>1 DEF RangeMode, Passthrough
      <3>3. OpenAt(rng).a = MinOf(IF rng.off = None THEN 0 ELSE rng.off, Lens[cur])
        BY <1>0, <2>0, <2>4, RangeBase DEF OpenAt
      <3>4. LWin' = [ver |-> cur, off |-> Abs!Requested(rng, Lens[cur]).off,
                     len |-> Abs!Requested(rng, Lens[cur]).len]
        BY <2>0, <2>1, <3>1, <3>2, <3>3 DEF LWin
      <3>5. LPos' = 0
        BY <2>0, <3>1, <3>2 DEF LPos
      <3>6. QED
        BY <1>0, <2>0, <3>4, <3>5, AbsOpen
    <2>5. QED
      BY <2>2, <2>3, <2>4
  <1>3. CASE StatReturn
    <2>0. /\ ph = "stat" /\ rng \in Ranges /\ rver' = cur /\ out' = out
          /\ pos' = pos /\ out = Signal("none") /\ pos = 0 /\ rng' = rng
          /\ rng.off = None /\ rng.size # None
          /\ rr' = ResolveSuffix(rng.size, Lens[cur])
          /\ mode' = RangeMode /\ ph' = "open"
      BY <1>0, <1>3 DEF StatReturn, RInv, RStat, TypeOK
    <2>1. rng = [off |-> None, size |-> rng.size] /\ rng.size \in Nat
      BY <2>0, RangeAssumption DEF Ranges
    <2>2. rr' = [base |-> Abs!Requested(rng, Lens[cur]).off,
                 total |-> Abs!Requested(rng, Lens[cur]).len]
      BY <1>0, <2>0, <2>1, SuffixResolution
    <2>3. mode' \notin Passthrough
      BY <2>0 DEF RangeMode, Passthrough
    <2>4. MinOf(rr'.base, Lens[cur]) = rr'.base
      BY <1>0, <2>0, <2>1 DEF ResolveSuffix, MinOf
    <2>5. LWin' = [ver |-> cur, off |-> Abs!Requested(rng, Lens[cur]).off,
                   len |-> Abs!Requested(rng, Lens[cur]).len]
      BY <2>0, <2>2, <2>3, <2>4 DEF LWin
    <2>6. LPos' = 0
      BY <2>0, <2>3 DEF LPos
    <2>7. QED
      BY <1>0, <2>0, <2>5, <2>6, AbsOpen
  <1>11. CASE ReadFail
    <2>1. /\ ph = "read" /\ ph' = "err" /\ pos' = pos /\ rng' = rng /\ rng \in Ranges
          /\ out' = Signal("BackendError")
      BY <1>0, <1>11 DEF ReadFail, TypeOK
    <2>2. QED
      BY <2>1, AbsFail
  <1>12. CASE StatFail
    <2>1. /\ ph = "stat" /\ ph' = "err" /\ pos' = pos /\ rng' = rng /\ rng \in Ranges
          /\ out' = Signal("BackendError")
      BY <1>0, <1>12 DEF StatFail, TypeOK
    <2>2. QED
      BY <2>1, AbsFail
  <1>4. CASE BlockingRead
    <2>0. ph = "idle" /\ out = Signal("none") /\ pos = 0 /\ pos' = pos
      BY <1>0, <1>4 DEF BlockingRead
    <2>1. PICK r \in Ranges :
            /\ rng' = r
            /\ \/ /\ cap.seek /\ ph' = "open" /\ rver' = cur /\ br' = OpenAt(r)
                  /\ mode' = IF cap.next THEN "AlreadyComplete" ELSE "NeedStreamable"
                  /\ UNCHANGED out
               \/ ph' = "err" /\ out' = Signal("Unsupported")
               \/ ph' = "err" /\ out' = Signal("BackendError")
      BY <1>4 DEF BlockingRead
    <2>2. CASE /\ cap.seek /\ ph' = "open" /\ rver' = cur /\ br' = OpenAt(r)
               /\ mode' = IF cap.next THEN "AlreadyComplete" ELSE "NeedStreamable"
               /\ UNCHANGED out
      <3>1. mode' \in Passthrough
        BY <2>2 DEF Passthrough
      <3>2. /\ OpenAt(r).a = Abs!Requested(r, Lens[cur]).off
            /\ OpenAt(r).b - OpenAt(r).a = Abs!Requested(r, Lens[cur]).len
            /\ OpenAt(r).c = 0
        BY <1>0, SpanOfRange, OpenAtFacts DEF OpenAt
      <3>3. LWin' = [ver |-> cur, off |-> Abs!Requested(r, Lens[cur]).off,
                     len |-> Abs!Requested(r, Lens[cur]).len]
        BY <2>2, <3>1, <3>2 DEF LWin
      <3>4. LPos' = 0
        BY <2>2, <3>1, <3>2 DEF LPos
      <3>5. QED
        BY <1>0, <2>0, <2>1, <2>2, <3>3, <3>4, AbsCallOpen
    <2>3. CASE ph' = "err" /\ out' = Signal("Unsupported")
      BY <2>0, <2>1, <2>3, AbsFail
    <2>4. CASE ph' = "err" /\ out' = Signal("BackendError")
      BY <2>0, <2>1, <2>4, AbsFail
    <2>5. QED
      BY <2>1, <2>2, <2>3, <2>4
  <1>5. CASE Pull
    <2>0. /\ ph = "open" /\ UNCHANGED <<ph, mode, rver, rr, rng>>
          /\ LWin # Abs!NoWin /\ TypeOK /\ RPass
      BY <1>0, <1>5, OpenWin DEF Pull, RInv
    <2>1. \/ /\ Left(Pulled) = 0
             /\ out' = Signal("eof") /\ br' = Pulled /\ pos' = pos
          \/ \E k \in 1..MinOf(MaxK, Left(Pulled)) :
                /\ out' = Served(Pulled, k)
                /\ br' = [Pulled EXCEPT !.c = @ + k]
                /\ pos' = pos + k
      BY <1>5 DEF Pull, Pulled
    <2>2. CASE mode \in Passthrough
      <3>0. /\ Pulled = br /\ br \in Readers /\ br.ver = rver
            /\ br.a <= br.b /\ br.c <= br.b - br.a
        BY <2>0, <2>2, PulledFacts DEF RPass, TypeOK, Readers
      <3>1. LWin = [ver |-> rver, off |-> br.a, len |-> br.b - br.a]
            /\ LPos = br.c
        BY <2>0, <2>2, OpenWin
      <3>2. Left(br) = LWin.len - LPos
        BY <2>2, <3>0, <3>1 DEF Left, Readers
      <3>3. CASE /\ Left(Pulled) = 0
                 /\ out' = Signal("eof") /\ br' = Pulled /\ pos' = pos
        <4>1. LWin' = LWin /\ LPos' = LPos
          BY <2>0, <2>2, <3>0, <3>1, <3>3 DEF LWin, LPos
        <4>2. LPos = LWin.len
          BY <3>0, <3>1, <3>2, <3>3 DEF Readers
        <4>3. QED
          BY <2>0, <3>3, <4>1, <4>2, AbsEof
      <3>4. CASE \E k \in 1..MinOf(MaxK, Left(Pulled)) :
                    /\ out' = Served(Pulled, k)
                    /\ br' = [Pulled EXCEPT !.c = @ + k]
                    /\ pos' = pos + k
        <4>1. PICK k \in 1..MinOf(MaxK, Left(Pulled)) :
                    /\ out' = Served(Pulled, k)
                    /\ br' = [Pulled EXCEPT !.c = @ + k]
                    /\ pos' = pos + k
          BY <3>4
        <4>2. br'.a = br.a /\ br'.b = br.b /\ br'.c = br.c + k
          BY <3>0, <4>1 DEF Readers
        <4>3. LWin' = LWin /\ LPos' = LPos + k
          BY <2>0, <2>2, <3>1, <4>2 DEF LWin, LPos
        <4>4. out' = Run(LWin.ver, LWin.off + LPos, LWin.off + LPos + k)
          BY <3>0, <3>1, <4>1 DEF Served
        <4>5. k \in 1..MinOf(MaxK, LWin.len - LPos)
          BY <3>0, <3>2, <4>1
        <4>6. LPos \in Nat /\ LWin.len \in Nat
          BY <3>0, <3>1 DEF Readers
        <4>7. QED
          BY <2>0, <4>3, <4>4, <4>5, <4>6, AbsPull
      <3>5. QED
        BY <2>1, <3>3, <3>4
    <2>3. CASE mode \notin Passthrough
      <3>0. /\ Left(Pulled) = rr.total - pos /\ Pulled \in Readers
            /\ EBase \in Nat /\ rr.total \in Nat /\ pos \in Nat
            /\ pos < rr.total =>
                  /\ Pulled.ver = rver /\ Pulled.a + Pulled.c = EBase + pos
        BY <1>0, <2>0, <2>3, PulledFacts, LensFacts DEF TypeOK, EBase, MinOf, RInv, ROpen
      <3>1. LWin = [ver |-> rver, off |-> EBase, len |-> rr.total]
            /\ LPos = pos
        BY <2>0, <2>3, OpenWin
      <3>3. CASE /\ Left(Pulled) = 0
                 /\ out' = Signal("eof") /\ br' = Pulled /\ pos' = pos
        <4>1. LWin' = LWin /\ LPos' = LPos
          BY <2>0, <2>3, <3>1, <3>3 DEF LWin, LPos, EBase
        <4>2. LPos = LWin.len
          BY <3>0, <3>1, <3>3
        <4>3. QED
          BY <2>0, <3>3, <4>1, <4>2, AbsEof
      <3>4. CASE \E k \in 1..MinOf(MaxK, Left(Pulled)) :
                    /\ out' = Served(Pulled, k)
                    /\ br' = [Pulled EXCEPT !.c = @ + k]
                    /\ pos' = pos + k
        <4>1. PICK k \in 1..MinOf(MaxK, Left(Pulled)) :
                    /\ out' = Served(Pulled, k)
                    /\ br' = [Pulled EXCEPT !.c = @ + k]
                    /\ pos' = pos + k
          BY <3>4
        <4>2. pos < rr.total
          BY <3>0, <4>1, BoundsAssumption DEF MinOf
        <4>3. LWin' = LWin /\ LPos' = LPos + k
          BY <2>0, <2>3, <3>1, <4>1 DEF LWin, LPos, EBase
        <4>4. out' = Run(LWin.ver, LWin.off + LPos, LWin.off + LPos + k)
          BY <3>0, <3>1, <4>1, <4>2 DEF Served
        <4>5. k \in 1..MinOf(MaxK, LWin.len - LPos)
          BY <3>0, <3>1, <4>1
        <4>6. LPos \in Nat /\ LWin.len \in Nat
          BY <3>0, <3>1
        <4>7. QED
          BY <2>0, <4>3, <4>4, <4>5, <4>6, AbsPull
      <3>5. QED
        BY <2>1, <3>3, <3>4
    <2>4. QED
      BY <2>2, <2>3
  <1>6. CASE Seek
    <2>0. /\ ph = "open" /\ UNCHANGED <<ph, mode, rver, rr, out, rng>>
          /\ LWin # Abs!NoWin /\ TypeOK
      BY <1>0, <1>6, OpenWin DEF Seek, RInv
    <2>1. PICK p \in 0..(IF mode \in Passthrough THEN br.b - br.a ELSE rr.total) :
            /\ pos' = p
            /\ br' = IF mode \in Passthrough THEN [br EXCEPT !.c = p]
                     ELSE IF br # NoReader /\ p >= pos /\ p - pos <= Threshold
                          THEN [br EXCEPT !.c = @ + (p - pos)]
                          ELSE NoReader
      BY <1>6 DEF Seek
    <2>2. CASE mode \in Passthrough
      <3>1. br'.a = br.a /\ br'.b = br.b /\ br'.c = p
        BY <2>0, <2>1, <2>2 DEF TypeOK
      <3>2. LWin = [ver |-> rver, off |-> br.a, len |-> br.b - br.a]
        BY <2>0, <2>2, OpenWin
      <3>3. LWin' = LWin /\ LPos' = p
        BY <2>0, <2>2, <3>1, <3>2 DEF LWin, LPos
      <3>4. p \in 0..LWin.len
        BY <2>1, <2>2, <3>2
      <3>5. QED
        BY <2>0, <3>3, <3>4, AbsSeek
    <2>3. CASE mode \notin Passthrough
      <3>1. LWin = [ver |-> rver, off |-> EBase, len |-> rr.total]
        BY <2>0, <2>3, OpenWin
      <3>2. LWin' = LWin /\ LPos' = p
        BY <2>0, <2>1, <2>3, <3>1 DEF LWin, LPos, EBase
      <3>3. p \in 0..LWin.len
        BY <2>1, <2>3, <3>1
      <3>4. QED
        BY <2>0, <3>2, <3>3, AbsSeek
    <2>4. QED
      BY <2>2, <2>3
  <1>7. CASE Drop
    <2>1. Abs!Close
      BY <1>7 DEF Drop, LWin, LPos, Abs!Close, Abs!NoWin, Signal, Abs!Signal
    <2>2. QED
      BY <2>1 DEF Abs!Next
  <1>10. CASE UNCHANGED vars
    BY <1>10 DEF vars, LWin, LPos
  <1>13. QED
    BY <1>1, <1>2, <1>3, <1>4, <1>5, <1>6, <1>7, <1>10, <1>11, <1>12 DEF Next


\* Refinement (spec 4.2 and 8): when no concurrent writer replaces the
\* object, every behaviour of the adapted reader -- whichever variant the
\* capability table picks, across the suffix stat, reads, nexts, seeks,
\* range-reader re-opens and the errors of the read, the stat and the
\* blocking read -- is a behaviour of ReaderSpec: the caller's range is
\* ReaderSpec's request, and the reader serves the window that range
\* requests, for every object, every range and every bound.
THEOREM RefinementHolds == Spec => ReaderRefinement
  <1>1. Init => Abs!Init
    BY RangeAssumption DEF Init, LWin, LPos, Abs!Init, Abs!NoWin, Signal, Abs!Signal,
                           Abs!Ranges
  <1>2. RInv /\ [Next]_vars => RInv'
    BY NextR
  <1>3. RInv /\ [Next]_vars => [Abs!Next]_<<rng, LWin, LPos, out>>
    BY StepA
  <1>4. Spec => []RInv
    BY InitR, <1>2, PTL DEF Spec
  <1>5. QED
    BY <1>1, <1>3, <1>4, PTL DEF Spec, ReaderRefinement, Abs!Spec

=============================================================================
