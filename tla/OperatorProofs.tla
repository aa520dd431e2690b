---------------------------- MODULE OperatorProofs ----------------------------
(***************************************************************************)
(* Proofs about Operator for every finite bucket, every set of limits and *)
(* every bound on failures and other callers: remove_all returns Ok only  *)
(* when nothing is left at or under its path, remove_via only when none   *)
(* of its paths is left, and stat and is_exist report an error other than *)
(* NotFound only when a request failed.                                   *)
(*                                                                         *)
(* Each rests on OBase, the shape of an operation's state (the paths to   *)
(* delete and in flight are keys of the bucket, the running operation's   *)
(* argument has the kind it takes, only the operations built on stat wait *)
(* on Supabase's second request), and on a strengthening of its own.      *)
(***************************************************************************)
EXTENDS Operator, FiniteSetTheorems, TLAPS

\* The store, the paths to delete and the deletes in flight are keys of
\* the bucket, and the running operation's argument is a path, or
\* remove_via's set of paths.
BInv ==
    /\ limit \in Nat
    /\ store \subseteq Keys /\ pend \subseteq Keys /\ fly \subseteq Keys
    /\ op \in Ops \ {"remove_via"} => arg \in Keys
    /\ op = "remove_via" => arg \subseteq Keys

\* The shape of an operation's state that the proofs below rest on: the
\* service's capabilities never change, an idle operator has nothing to
\* delete, deletes are in flight only in try_for_each_concurrent, and only
\* the operations built on stat wait on Supabase's second stat request.
OBase ==
    /\ BInv
    /\ cap \in GenericCaps \cup {SupabaseCap}
    /\ Service = "generic" => cap \in GenericCaps /\ step # "info"
    /\ op = "idle" => step = "none" /\ pend = {}
    /\ step # "concurrent" => fly = {}
    /\ step = "info" => op \in {"stat", "is_exist", "remove_all"}

\* stat without other writers: Supabase's get_object_info is asked only
\* for a path whose HEAD failed because the object is missing.
StatInv ==
    /\ step = "info" => arg \notin store
    /\ StatErrorActual

\* remove_via: while nobody else acts, every input path still in the
\* store is waiting to be deleted or is being deleted.
ViaInv ==
    /\ op = "remove_via" /\ quiet /\ step \in {"batch", "concurrent"} =>
          arg \cap store \subseteq pend \cup fly
    /\ RemoveViaErrorSurfaced

\* remove_all: the scan queues everything below the path, and the final
\* delete of the path itself comes only once that queue is empty.
ClearsInv ==
    /\ op = "remove_all" /\ quiet /\ step \in {"remove", "delete_self"} =>
          Below(arg) \subseteq pend
    /\ op = "remove_all" /\ step \in {"begin", "info", "scan", "delete_self"} =>
          pend = {}
    /\ RemoveAllClears

\* The initial states satisfy BInv.
LEMMA InitBInv == Init => BInv
  BY BoundAssumption DEF Init, BInv, Ops

\* What Finish leaves of the operation's state: no path to delete and
\* nothing in flight, the operation idle.
LEMMA FinishFacts ==
    ASSUME NEW kind, Finish(kind)
    PROVE  fly' = {} /\ pend' = {} /\ op' = "idle" /\ step' = "none"
  BY DEF Finish

\* Every step, and every stutter, preserves BInv.
LEMMA NextBInv == BInv /\ [Next]_vars => BInv'
  <1> SUFFICES ASSUME BInv, [Next]_vars PROVE BInv'
    OBVIOUS
  <1> USE DEF Ops
  <1>0. Files \subseteq Keys
    BY DEF Files
  <1>1. CASE Call
    BY <1>0, <1>1 DEF Call, BInv, Ops
  <1>2. CASE StatCall
    BY <1>2, FinishFacts DEF StatCall, StatDone, RemoveAllStat, BInv,
       NoFault, Fault
  <1>3. CASE StatInfoCall
    BY <1>3, FinishFacts DEF StatInfoCall, StatDone, RemoveAllStat, BInv,
       NoFault, Fault
  <1>4. CASE ScanCall
    <2>1. Below(arg) \subseteq Keys
      BY DEF BInv, Below
    <2>2. QED
      BY <1>4, <2>1, FinishFacts DEF ScanCall, BInv, NoFault, Fault
  <1>5. CASE RemoveCall
    <2>1. CASE cap.batch /\ limit > 0 /\ pend # {} /\ BatchDelete(
                 step' = "delete_self"
                 /\ UNCHANGED <<op, arg, fly, rs, quiet, absent>>)
      BY <1>5, <2>1, FinishFacts DEF RemoveCall, BatchDelete, BInv, Fault
    <2>2. CASE ~(cap.batch /\ limit > 0 /\ pend # {})
      BY <1>5, <2>2, FinishFacts DEF RemoveCall, BInv, NoFault, Fault
    <2>3. QED
      BY <1>5, <2>1, <2>2 DEF RemoveCall
  <1>6. CASE DeleteCall
    BY <1>6, FinishFacts DEF DeleteCall, ServiceDelete, BInv, NoFault, Fault
  <1>7. CASE CreateDirCall
    BY <1>7, FinishFacts DEF CreateDirCall, BInv, NoFault, Fault, Ops
  <1>8. CASE WriteCall
    BY <1>8, FinishFacts DEF WriteCall, WriteResult, BInv, NoFault
  <1>9. CASE WriteData
    BY <1>9, FinishFacts DEF WriteData, BInv, NoFault, Fault
  <1>10. CASE WriteClose
    BY <1>10, FinishFacts DEF WriteClose, BInv, NoFault, Fault, Ops
  <1>11. CASE ViaCall
    BY <1>11, FinishFacts DEF ViaCall, BInv, NoFault
  <1>12. CASE ViaBatch
    <2>1. CASE pend # {} /\ BatchDelete(Finish("Ok"))
      BY <1>12, <2>1, FinishFacts DEF ViaBatch, BatchDelete, BInv, Fault
    <2>2. CASE ~(pend # {} /\ BatchDelete(Finish("Ok")))
      BY <1>12, <2>2, FinishFacts DEF ViaBatch, BInv, NoFault
    <2>3. QED
      BY <2>1, <2>2
  <1>13. CASE ViaStart
    BY <1>13 DEF ViaStart, BInv
  <1>14. CASE ViaDone
    <2>1. PICK v \in fly :
              \/ /\ Fault
                 /\ \E reached \in SUBSET (fly \ {v}) : store' = store \ reached
                 /\ Finish("Err")
              \/ /\ NoFault /\ store' = store \ {v} /\ fly' = fly \ {v}
                 /\ UNCHANGED <<op, arg, step, pend, rs, quiet, absent>>
      BY <1>14 DEF ViaDone
    <2>2. UNCHANGED limit
      BY <1>14 DEF ViaDone
    <2>3. QED
      BY <2>1, <2>2, FinishFacts DEF BInv
  <1>15. CASE ViaEnd
    BY <1>15, FinishFacts DEF ViaEnd, BInv, NoFault
  <1>16. CASE CheckCall
    BY <1>16, FinishFacts DEF CheckCall, BInv, NoFault, Fault
  <1>17. CASE CheckNext
    BY <1>17, FinishFacts DEF CheckNext, BInv, NoFault, Fault
  <1>18. CASE Other
    BY <1>0, <1>18 DEF Other, BInv
  <1>19. CASE UNCHANGED vars
    BY <1>19 DEF vars, BInv
  <1>20. QED
    BY <1>1, <1>2, <1>3, <1>4, <1>5, <1>6, <1>7, <1>8, <1>9, <1>10, <1>11,
       <1>12, <1>13, <1>14, <1>15, <1>16, <1>17, <1>18, <1>19 DEF Next

\* The initial states satisfy OBase.
LEMMA InitOBase == Init => OBase
  BY InitBInv DEF Init, OBase, GenericCaps

\* Every step, and every stutter, preserves OBase: the new conjuncts are
\* about the operation's control state, which each action sets with its
\* own guard.
LEMMA NextOBase == OBase /\ [Next]_vars => OBase'
  <1> SUFFICES ASSUME OBase, [Next]_vars PROVE OBase'
    OBVIOUS
  <1>0. BInv'
    BY NextBInv DEF OBase
  <1> USE <1>0 DEF Ops
  <1>1. CASE Call
    BY <1>1, FinishFacts DEF Call, OBase, Fault, NoFault
  <1>2. CASE StatCall
    BY <1>2, FinishFacts DEF StatCall, StatDone, RemoveAllStat, OBase, Fault, NoFault
  <1>3. CASE StatInfoCall
    BY <1>3, FinishFacts DEF StatInfoCall, StatDone, RemoveAllStat, OBase, Fault, NoFault
  <1>4. CASE ScanCall
    BY <1>4, FinishFacts DEF ScanCall, OBase, Fault, NoFault
  <1>5. CASE RemoveCall
    BY <1>5, FinishFacts DEF RemoveCall, BatchDelete, OBase, Fault, NoFault
  <1>6. CASE DeleteCall
    BY <1>6, FinishFacts DEF DeleteCall, ServiceDelete, OBase, Fault, NoFault
  <1>7. CASE CreateDirCall
    BY <1>7, FinishFacts DEF CreateDirCall, OBase, Fault, NoFault
  <1>8. CASE WriteCall
    BY <1>8, FinishFacts DEF WriteCall, WriteResult, OBase, Fault, NoFault
  <1>9. CASE WriteData
    BY <1>9, FinishFacts DEF WriteData, OBase, Fault, NoFault
  <1>10. CASE WriteClose
    BY <1>10, FinishFacts DEF WriteClose, OBase, Fault, NoFault
  <1>11. CASE ViaCall
    BY <1>11, FinishFacts DEF ViaCall, OBase, Fault, NoFault
  <1>12. CASE ViaBatch
    BY <1>12, FinishFacts DEF ViaBatch, BatchDelete, OBase, Fault, NoFault
  <1>13. CASE ViaStart
    BY <1>13, FinishFacts DEF ViaStart, OBase, Fault, NoFault
  <1>14. CASE ViaDone
    BY <1>14, FinishFacts DEF ViaDone, OBase, Fault, NoFault
  <1>15. CASE ViaEnd
    BY <1>15, FinishFacts DEF ViaEnd, OBase, Fault, NoFault
  <1>16. CASE CheckCall
    BY <1>16, FinishFacts DEF CheckCall, OBase, Fault, NoFault
  <1>17. CASE CheckNext
    BY <1>17, FinishFacts DEF CheckNext, OBase, Fault, NoFault
  <1>18. CASE Other
    BY <1>18, FinishFacts DEF Other, OBase, Fault, NoFault
  <1>19. CASE UNCHANGED vars
    BY <1>19 DEF vars, OBase
  <1>20. QED
    BY <1>1, <1>2, <1>3, <1>4, <1>5, <1>6, <1>7, <1>8, <1>9, <1>10, <1>11, <1>12, <1>13, <1>14, <1>15, <1>16, <1>17, <1>18, <1>19 DEF Next

\* What a step does to the last result: it keeps it, or the running
\* operation finishes and records itself, its path, its flags and whether
\* one of its requests failed.
RsStep ==
    \/ rs' = rs
    \/ /\ op # "idle"
       /\ rs'.op = op /\ rs'.arg = arg /\ rs'.quiet = quiet
       /\ rs'.absent = absent /\ rs'.faulted = faulted'

\* Every step either keeps the last result or records the operation that
\* finished in it.
LEMMA NextRs == [Next]_vars => RsStep
  <1> SUFFICES ASSUME [Next]_vars PROVE RsStep
    OBVIOUS
  <1>1. CASE Call
    BY <1>1 DEF Call, Finish, Fault, NoFault, RsStep
  <1>2. CASE StatCall
    BY <1>2 DEF StatCall, StatDone, RemoveAllStat, Finish, Fault, NoFault, RsStep
  <1>3. CASE StatInfoCall
    BY <1>3 DEF StatInfoCall, StatDone, RemoveAllStat, Finish, Fault, NoFault, RsStep
  <1>4. CASE ScanCall
    BY <1>4 DEF ScanCall, Finish, Fault, NoFault, RsStep
  <1>5. CASE RemoveCall
    BY <1>5 DEF RemoveCall, BatchDelete, Finish, Fault, NoFault, RsStep
  <1>6. CASE DeleteCall
    BY <1>6 DEF DeleteCall, ServiceDelete, Finish, Fault, NoFault, RsStep
  <1>7. CASE CreateDirCall
    BY <1>7 DEF CreateDirCall, Finish, Fault, NoFault, RsStep
  <1>8. CASE WriteCall
    BY <1>8 DEF WriteCall, WriteResult, Finish, Fault, NoFault, RsStep
  <1>9. CASE WriteData
    BY <1>9 DEF WriteData, Finish, Fault, NoFault, RsStep
  <1>10. CASE WriteClose
    BY <1>10 DEF WriteClose, Finish, Fault, NoFault, RsStep
  <1>11. CASE ViaCall
    BY <1>11 DEF ViaCall, Finish, Fault, NoFault, RsStep
  <1>12. CASE ViaBatch
    BY <1>12 DEF ViaBatch, BatchDelete, Finish, Fault, NoFault, RsStep
  <1>13. CASE ViaStart
    BY <1>13 DEF ViaStart, Finish, Fault, NoFault, RsStep
  <1>14. CASE ViaDone
    BY <1>14 DEF ViaDone, Finish, Fault, NoFault, RsStep
  <1>15. CASE ViaEnd
    BY <1>15 DEF ViaEnd, Finish, Fault, NoFault, RsStep
  <1>16. CASE CheckCall
    BY <1>16 DEF CheckCall, Finish, Fault, NoFault, RsStep
  <1>17. CASE CheckNext
    BY <1>17 DEF CheckNext, Finish, Fault, NoFault, RsStep
  <1>18. CASE Other
    BY <1>18 DEF Other, Finish, Fault, NoFault, RsStep
  <1>19. CASE UNCHANGED vars
    BY <1>19 DEF vars, RsStep
  <1>20. QED
    BY <1>1, <1>2, <1>3, <1>4, <1>5, <1>6, <1>7, <1>8, <1>9, <1>10, <1>11, <1>12, <1>13, <1>14, <1>15, <1>16, <1>17, <1>18, <1>19 DEF Next

\* What a step does to the running operation: it keeps it and its path,
\* finishes it, or starts one, from idle, at its first step.
OpStep ==
    \/ UNCHANGED <<op, arg>>
    \/ op' = "idle"
    \/ op = "idle" /\ step' = "begin" /\ UNCHANGED pend

\* Every step keeps, ends or starts the operation.
LEMMA NextOp == [Next]_vars => OpStep
  <1> SUFFICES ASSUME [Next]_vars PROVE OpStep
    OBVIOUS
  <1>1. CASE Call
    BY <1>1 DEF Call, Finish, Fault, NoFault, OpStep
  <1>2. CASE StatCall
    BY <1>2 DEF StatCall, StatDone, RemoveAllStat, Finish, Fault, NoFault, OpStep
  <1>3. CASE StatInfoCall
    BY <1>3 DEF StatInfoCall, StatDone, RemoveAllStat, Finish, Fault, NoFault, OpStep
  <1>4. CASE ScanCall
    BY <1>4 DEF ScanCall, Finish, Fault, NoFault, OpStep
  <1>5. CASE RemoveCall
    BY <1>5 DEF RemoveCall, BatchDelete, Finish, Fault, NoFault, OpStep
  <1>6. CASE DeleteCall
    BY <1>6 DEF DeleteCall, ServiceDelete, Finish, Fault, NoFault, OpStep
  <1>7. CASE CreateDirCall
    BY <1>7 DEF CreateDirCall, Finish, Fault, NoFault, OpStep
  <1>8. CASE WriteCall
    BY <1>8 DEF WriteCall, WriteResult, Finish, Fault, NoFault, OpStep
  <1>9. CASE WriteData
    BY <1>9 DEF WriteData, Finish, Fault, NoFault, OpStep
  <1>10. CASE WriteClose
    BY <1>10 DEF WriteClose, Finish, Fault, NoFault, OpStep
  <1>11. CASE ViaCall
    BY <1>11 DEF ViaCall, Finish, Fault, NoFault, OpStep
  <1>12. CASE ViaBatch
    BY <1>12 DEF ViaBatch, BatchDelete, Finish, Fault, NoFault, OpStep
  <1>13. CASE ViaStart
    BY <1>13 DEF ViaStart, Finish, Fault, NoFault, OpStep
  <1>14. CASE ViaDone
    BY <1>14 DEF ViaDone, Finish, Fault, NoFault, OpStep
  <1>15. CASE ViaEnd
    BY <1>15 DEF ViaEnd, Finish, Fault, NoFault, OpStep
  <1>16. CASE CheckCall
    BY <1>16 DEF CheckCall, Finish, Fault, NoFault, OpStep
  <1>17. CASE CheckNext
    BY <1>17 DEF CheckNext, Finish, Fault, NoFault, OpStep
  <1>18. CASE Other
    BY <1>18 DEF Other, Finish, Fault, NoFault, OpStep
  <1>19. CASE UNCHANGED vars
    BY <1>19 DEF vars, OpStep
  <1>20. QED
    BY <1>1, <1>2, <1>3, <1>4, <1>5, <1>6, <1>7, <1>8, <1>9, <1>10, <1>11, <1>12, <1>13, <1>14, <1>15, <1>16, <1>17, <1>18, <1>19 DEF Next

\* What a batch of deletes does: it fails, or removes a subset of the
\* paths to delete from the store and from those paths, and then either
\* continues or, with nothing left, does done.
LEMMA BatchCases ==
    ASSUME NEW done, BatchDelete(done)
    PROVE  \/ \E k : Finish(k) /\ k = "Err"
           \/ \E b \in SUBSET pend :
                 /\ store' = store \ b /\ pend' = pend \ b
                 /\ pend' = {} => done
                 /\ pend' # {} => UNCHANGED <<op, arg, step, fly, rs, quiet, absent>>
  <1>1. PICK b \in kSubset(Min({limit, Cardinality(pend)}), pend) :
          /\ batch' = b
          /\ \/ Fault /\ UNCHANGED store /\ Finish("Err")
             \/ \E bad \in SUBSET b :
                   /\ fails + Cardinality(bad) <= MaxFails
                   /\ fails' = fails + Cardinality(bad)
                   /\ faulted' = (faulted \/ bad # {})
                   /\ store' = store \ (b \ bad)
                   /\ IF bad # {} THEN Finish("Err")
                      ELSE /\ pend' = pend \ b
                           /\ IF pend' = {} THEN done
                              ELSE UNCHANGED <<op, arg, step, fly, rs, quiet, absent>>
    BY DEF BatchDelete
  <1>2. b \in SUBSET pend
    BY <1>1 DEF kSubset
  <1>3. CASE Fault /\ UNCHANGED store /\ Finish("Err")
    BY <1>3
  <1>4. CASE \E bad \in SUBSET b :
                /\ store' = store \ (b \ bad)
                /\ IF bad # {} THEN Finish("Err")
                   ELSE /\ pend' = pend \ b
                        /\ IF pend' = {} THEN done
                           ELSE UNCHANGED <<op, arg, step, fly, rs, quiet, absent>>
    <2>1. PICK bad \in SUBSET b :
                /\ store' = store \ (b \ bad)
                /\ IF bad # {} THEN Finish("Err")
                   ELSE /\ pend' = pend \ b
                        /\ IF pend' = {} THEN done
                           ELSE UNCHANGED <<op, arg, step, fly, rs, quiet, absent>>
      BY <1>4
    <2>2. CASE bad # {}
      BY <2>1, <2>2
    <2>3. CASE bad = {}
      BY <1>2, <2>1, <2>3
    <2>4. QED
      BY <2>2, <2>3
  <1>5. QED
    BY <1>1, <1>3, <1>4

\* While remove_via runs, only its own calls and other callers can step.
LEMMA ViaSteps ==
    OBase /\ op = "remove_via" /\ [Next]_vars =>
        ViaCall \/ ViaBatch \/ ViaStart \/ ViaDone \/ ViaEnd \/ Other \/ UNCHANGED vars
  <1> SUFFICES ASSUME OBase, op = "remove_via", [Next]_vars
               PROVE  ViaCall \/ ViaBatch \/ ViaStart \/ ViaDone \/ ViaEnd \/ Other \/ UNCHANGED vars
    OBVIOUS
  <1>1. ~Call
    BY DEF Call, OBase
  <1>2. ~StatCall
    BY DEF StatCall, OBase
  <1>3. ~StatInfoCall
    BY DEF StatInfoCall, OBase
  <1>4. ~ScanCall
    BY DEF ScanCall, OBase
  <1>5. ~RemoveCall
    BY DEF RemoveCall, OBase
  <1>6. ~DeleteCall
    BY DEF DeleteCall, OBase
  <1>7. ~CreateDirCall
    BY DEF CreateDirCall, OBase
  <1>8. ~WriteCall
    BY DEF WriteCall, OBase
  <1>9. ~WriteData
    BY DEF WriteData, OBase
  <1>10. ~WriteClose
    BY DEF WriteClose, OBase
  <1>11. ~CheckCall
    BY DEF CheckCall, OBase
  <1>12. ~CheckNext
    BY DEF CheckNext, OBase
  <1>13. QED
    BY <1>1, <1>2, <1>3, <1>4, <1>5, <1>6, <1>7, <1>8, <1>9, <1>10, <1>11, <1>12 DEF Next

\* Every step preserves ViaInv: an input path leaves the paths to delete
\* and the deletes in flight only when its delete succeeds, and
\* remove_via returns Ok only with both empty.
LEMMA NextVia == OBase /\ ViaInv /\ [Next]_vars => ViaInv'
  <1> SUFFICES ASSUME OBase, ViaInv, [Next]_vars PROVE ViaInv'
    OBVIOUS
  <1>1. CASE op # "remove_via"
    <2>1. op' = "remove_via" /\ quiet' /\ step' \in {"batch", "concurrent"}
            => arg' \cap store' \subseteq pend' \cup fly'
      BY <1>1, NextOp DEF OpStep
    <2>2. RemoveViaErrorSurfaced'
      BY <1>1, NextRs DEF RsStep, ViaInv, RemoveViaErrorSurfaced
    <2>3. QED
      BY <2>1, <2>2 DEF ViaInv
  <1>2. CASE op = "remove_via"
    <2> USE <1>2 DEF ViaInv, RemoveViaErrorSurfaced
    <2>1. CASE ViaCall
      BY <2>1 DEF ViaCall, Finish, NoFault
    <2>2. CASE ViaBatch
      <3>1. step = "batch" /\ fly = {}
        BY <2>2 DEF ViaBatch, OBase
      <3>2. CASE pend = {} /\ UNCHANGED store /\ Finish("Ok")
        BY <3>1, <3>2 DEF Finish
      <3>3. CASE BatchDelete(Finish("Ok"))
        <4>1. CASE \E k : Finish(k) /\ k = "Err"
          BY <4>1 DEF Finish
        <4>2. CASE \E b \in SUBSET pend :
                     /\ store' = store \ b /\ pend' = pend \ b
                     /\ pend' = {} => Finish("Ok")
                     /\ pend' # {} => UNCHANGED <<op, arg, step, fly, rs, quiet, absent>>
          <5>1. PICK b \in SUBSET pend :
                     /\ store' = store \ b /\ pend' = pend \ b
                     /\ pend' = {} => Finish("Ok")
                     /\ pend' # {} => UNCHANGED <<op, arg, step, fly, rs, quiet, absent>>
            BY <4>2
          <5>2. CASE pend' = {}
            BY <3>1, <5>1, <5>2 DEF Finish
          <5>3. CASE pend' # {}
            BY <3>1, <5>1, <5>3
          <5>4. QED
            BY <5>2, <5>3
        <4>3. QED
          BY <3>3, <4>1, <4>2, BatchCases
      <3>4. QED
        BY <2>2, <3>2, <3>3 DEF ViaBatch
    <2>3. CASE ViaStart
      BY <2>3 DEF ViaStart
    <2>4. CASE ViaDone
      BY <2>4 DEF ViaDone, Finish, Fault, NoFault
    <2>5. CASE ViaEnd
      BY <2>5 DEF ViaEnd, Finish, NoFault
    <2>6. CASE Other
      BY <2>6 DEF Other
    <2>7. CASE UNCHANGED vars
      BY <2>7 DEF vars
    <2>8. QED
      BY <2>1, <2>2, <2>3, <2>4, <2>5, <2>6, <2>7, ViaSteps
  <1>3. QED
    BY <1>1, <1>2

\* What a stat result o tells remove_all of its path: it is never Ok, a
\* NotFound means nothing is at the path, and after NotFound or FILE
\* nothing lies below it.
StatSound(o) ==
    /\ o # "Ok"
    /\ o = "NotFound" => arg \notin store
    /\ o \in {"NotFound", "FILE"} => Below(arg) = {}

\* Nothing lies below a path that is not a directory.
LEMMA FileBelow ==
    ASSUME OBase, arg \in Keys, arg \notin DirKeys
    PROVE  Below(arg) = {}
  BY UnderAssumption DEF Below, OBase, BInv

\* Every answer that the stat of a path can give is sound: a failed
\* request, a generic backend's answer, Supabase's HEAD and its
\* get_object_info.
LEMMA StatAnswers ==
    ASSUME OBase, arg \in Keys
    PROVE  /\ StatSound("Err")
           /\ StatSound(GenericStat(arg))
           /\ StatSound(StatHead(store, arg))
           /\ StatSound(StatInfo(store, arg))
  <1>1. arg \notin DirKeys => Below(arg) = {}
    BY FileBelow
  <1>2. QED
    BY <1>1 DEF StatSound, GenericStat, ModeOf, StatHead, HeadStatus, StatInfo,
                InfoStatus, ErrorKindOf

\* The stat of remove_all's path, answered by a sound o, preserves ClearsInv:
\* NotFound finishes Ok with nothing at or below the path, an error is
\* returned, a file goes to the final delete, a directory to the scan.
LEMMA StatClears ==
    ASSUME OBase, ClearsInv, op = "remove_all", step \in {"begin", "info"},
           UNCHANGED store, NEW o, StatSound(o), StatDone(o)
    PROVE  ClearsInv'
  <1>1. RemoveAllStat(o)
    BY DEF StatDone
  <1>2. pend = {}
    BY DEF ClearsInv
  <1>3. CASE o = "NotFound"
    <2>1. {x \in store' : x = arg \/ Under(x, arg)} = {}
      BY <1>3 DEF StatSound, Below
    <2>2. QED
      BY <1>1, <1>3, <2>1 DEF RemoveAllStat, Finish, ClearsInv, RemoveAllClears
  <1>4. CASE o # "NotFound" /\ o \notin {"FILE", "DIR"}
    BY <1>1, <1>4 DEF RemoveAllStat, Finish, StatSound, ClearsInv, RemoveAllClears
  <1>5. CASE o \in {"FILE", "DIR"}
    BY <1>1, <1>2, <1>5 DEF RemoveAllStat, StatSound, Below, ClearsInv,
                           RemoveAllClears
  <1>6. QED
    BY <1>3, <1>4, <1>5

\* While remove_all runs, only its own calls and other callers can step.
LEMMA RemoveAllSteps ==
    OBase /\ op = "remove_all" /\ [Next]_vars =>
        StatCall \/ StatInfoCall \/ ScanCall \/ RemoveCall \/ DeleteCall \/ Other \/ UNCHANGED vars
  <1> SUFFICES ASSUME OBase, op = "remove_all", [Next]_vars
               PROVE  StatCall \/ StatInfoCall \/ ScanCall \/ RemoveCall \/ DeleteCall \/ Other \/ UNCHANGED vars
    OBVIOUS
  <1>1. ~Call
    BY DEF Call, OBase
  <1>2. ~CreateDirCall
    BY DEF CreateDirCall, OBase
  <1>3. ~WriteCall
    BY DEF WriteCall, OBase
  <1>4. ~WriteData
    BY DEF WriteData, OBase
  <1>5. ~WriteClose
    BY DEF WriteClose, OBase
  <1>6. ~ViaCall
    BY DEF ViaCall, OBase
  <1>7. ~ViaBatch
    BY DEF ViaBatch, OBase
  <1>8. ~ViaStart
    BY DEF ViaStart, OBase
  <1>9. ~ViaDone
    BY DEF ViaDone, OBase
  <1>10. ~ViaEnd
    BY DEF ViaEnd, OBase
  <1>11. ~CheckCall
    BY DEF CheckCall, OBase
  <1>12. ~CheckNext
    BY DEF CheckNext, OBase
  <1>13. QED
    BY <1>1, <1>2, <1>3, <1>4, <1>5, <1>6, <1>7, <1>8, <1>9, <1>10, <1>11, <1>12 DEF Next

\* Every step preserves ClearsInv: the scan queues everything below the
\* path, each delete removes what it takes from the queue, the final
\* delete of the path runs with the queue empty, and every way remove_all
\* returns Ok leaves nothing at or below the path while nobody else acts.
LEMMA NextClears == OBase /\ ClearsInv /\ [Next]_vars => ClearsInv'
  <1> SUFFICES ASSUME OBase, ClearsInv, [Next]_vars PROVE ClearsInv'
    OBVIOUS
  <1>1. CASE op # "remove_all"
    <2>1. /\ op' = "remove_all" /\ quiet' /\ step' \in {"remove", "delete_self"}
               => Below(arg)' \subseteq pend'
          /\ op' = "remove_all" /\ step' \in {"begin", "info", "scan", "delete_self"}
               => pend' = {}
      BY <1>1, NextOp DEF OpStep, OBase
    <2>2. RemoveAllClears'
      BY <1>1, NextRs DEF RsStep, ClearsInv, RemoveAllClears
    <2>3. QED
      BY <2>1, <2>2 DEF ClearsInv
  <1>2. CASE op = "remove_all"
    <2> USE <1>2
    <2>0. arg \in Keys /\ store \subseteq Keys
      BY DEF OBase, BInv, Ops
    <2>1. CASE StatCall
      <3>1. step = "begin" /\ UNCHANGED store
        BY <2>1 DEF StatCall
      <3>2. CASE Fault /\ StatDone("Err")
        BY <3>1, <3>2, <2>0, StatAnswers, StatClears
      <3>3. CASE Service = "generic" /\ StatDone(GenericStat(arg))
        BY <3>1, <3>3, <2>0, StatAnswers, StatClears
      <3>4. CASE StatDone(StatHead(store, arg))
        BY <3>1, <3>4, <2>0, StatAnswers, StatClears
      <3>5. CASE step' = "info" /\ UNCHANGED <<op, arg, pend, fly, rs, quiet, absent>>
        BY <3>1, <3>5 DEF ClearsInv, RemoveAllClears
      <3>6. QED
        BY <2>1, <3>2, <3>3, <3>4, <3>5 DEF StatCall
    <2>2. CASE StatInfoCall
      <3>1. step = "info" /\ UNCHANGED store
        BY <2>2 DEF StatInfoCall
      <3>2. CASE StatDone("Err")
        BY <3>1, <3>2, <2>0, StatAnswers, StatClears
      <3>3. CASE StatDone(StatInfo(store, arg))
        BY <3>1, <3>3, <2>0, StatAnswers, StatClears
      <3>4. QED
        BY <2>2, <3>2, <3>3 DEF StatInfoCall
    <2>3. CASE ScanCall
      BY <2>3 DEF ScanCall, Finish, Fault, NoFault, ClearsInv, RemoveAllClears, Below
    <2>4. CASE RemoveCall
      <3> USE DEF ClearsInv, RemoveAllClears
      <3>1. step = "remove"
        BY <2>4 DEF RemoveCall
      <3>2. CASE Finish("panic") \/ Finish("Err")
        BY <3>2 DEF Finish
      <3>3. CASE pend = {} /\ step' = "delete_self"
                 /\ UNCHANGED <<store, op, arg, pend, fly, rs, quiet, absent>>
        BY <3>1, <3>3 DEF Below
      <3>4. CASE BatchDelete(step' = "delete_self" /\ UNCHANGED <<op, arg, fly, rs, quiet, absent>>)
        <4>1. CASE \E k : Finish(k) /\ k = "Err"
          BY <4>1 DEF Finish
        <4>2. CASE \E b \in SUBSET pend :
                     /\ store' = store \ b /\ pend' = pend \ b
                     /\ pend' = {} => step' = "delete_self"
                                       /\ UNCHANGED <<op, arg, fly, rs, quiet, absent>>
                     /\ pend' # {} => UNCHANGED <<op, arg, step, fly, rs, quiet, absent>>
          BY <3>1, <4>2 DEF Below
        <4>3. QED
          BY <3>4, <4>1, <4>2, BatchCases
      <3>5. CASE \E v \in pend :
                   /\ store' = store \ {v} /\ pend' = pend \ {v}
                   /\ UNCHANGED <<op, arg, step, fly, rs, quiet, absent>>
        BY <3>1, <3>5 DEF Below
      <3>6. QED
        BY <2>4, <3>2, <3>3, <3>4, <3>5 DEF RemoveCall, NoFault, Fault
    <2>5. CASE DeleteCall
      <3>1. step = "delete_self" /\ pend = {}
        BY <2>5 DEF DeleteCall, ClearsInv
      <3>2. CASE Fault /\ UNCHANGED store /\ Finish("Err")
        BY <3>2 DEF Finish, ClearsInv, RemoveAllClears
      <3>3. CASE NoFault /\ ServiceDelete(arg)
        <4>1. quiet => {x \in store' : x = arg \/ Under(x, arg)} = {}
          BY <3>1, <3>3 DEF ServiceDelete, ClearsInv, Below
        <4>2. QED
          BY <3>3, <4>1 DEF ServiceDelete, Finish, ClearsInv, RemoveAllClears
      <3>4. QED
        BY <2>5, <3>2, <3>3 DEF DeleteCall
    <2>6. CASE Other
      BY <2>6 DEF Other, ClearsInv, RemoveAllClears
    <2>7. CASE UNCHANGED vars
      BY <2>7 DEF vars, ClearsInv, RemoveAllClears, Below
    <2>8. QED
      BY <2>1, <2>2, <2>3, <2>4, <2>5, <2>6, <2>7, RemoveAllSteps
  <1>3. QED
    BY <1>1, <1>2

\* What a step of the operator does to Supabase's second stat request: it
\* is asked only after a HEAD that found no object, and while it is
\* pending the operator changes neither the store nor the path.
InfoStep ==
    step' = "info" =>
        \/ arg' \notin store'
        \/ step = "info" /\ UNCHANGED <<store, arg>>

\* Every step of the operator itself (not of another caller) respects
\* InfoStep.
LEMMA NextInfo ==
    ASSUME [Next]_vars, ~Other
    PROVE  InfoStep
  <1>1. CASE Call
    BY <1>1 DEF Call, Finish, Fault, NoFault, InfoStep, StatHead, HeadStatus
  <1>2. CASE StatCall
    <2>1. ASSUME NEW o, StatDone(o) PROVE step' # "info"
      BY <2>1 DEF StatDone, RemoveAllStat, Finish
    <2>2. ASSUME StatHead(store, arg) = "more" PROVE arg \notin store
      BY <2>2 DEF StatHead, HeadStatus, ModeOf
    <2>3. QED
      BY <1>2, <2>1, <2>2 DEF StatCall, InfoStep
  <1>3. CASE StatInfoCall
    <2>1. ASSUME NEW o, StatDone(o) PROVE step' # "info"
      BY <2>1 DEF StatDone, RemoveAllStat, Finish
    <2>2. QED
      BY <1>3, <2>1 DEF StatInfoCall, InfoStep
  <1>4. CASE ScanCall
    BY <1>4 DEF ScanCall, Finish, Fault, NoFault, InfoStep, StatHead, HeadStatus
  <1>5. CASE RemoveCall
    BY <1>5 DEF RemoveCall, BatchDelete, Finish, Fault, NoFault, InfoStep, StatHead, HeadStatus
  <1>6. CASE DeleteCall
    BY <1>6 DEF DeleteCall, ServiceDelete, Finish, Fault, NoFault, InfoStep, StatHead, HeadStatus
  <1>7. CASE CreateDirCall
    BY <1>7 DEF CreateDirCall, Finish, Fault, NoFault, InfoStep, StatHead, HeadStatus
  <1>8. CASE WriteCall
    BY <1>8 DEF WriteCall, WriteResult, Finish, Fault, NoFault, InfoStep, StatHead, HeadStatus
  <1>9. CASE WriteData
    BY <1>9 DEF WriteData, Finish, Fault, NoFault, InfoStep, StatHead, HeadStatus
  <1>10. CASE WriteClose
    BY <1>10 DEF WriteClose, Finish, Fault, NoFault, InfoStep, StatHead, HeadStatus
  <1>11. CASE ViaCall
    BY <1>11 DEF ViaCall, Finish, Fault, NoFault, InfoStep, StatHead, HeadStatus
  <1>12. CASE ViaBatch
    BY <1>12 DEF ViaBatch, BatchDelete, Finish, Fault, NoFault, InfoStep, StatHead, HeadStatus
  <1>13. CASE ViaStart
    BY <1>13 DEF ViaStart, Finish, Fault, NoFault, InfoStep, StatHead, HeadStatus
  <1>14. CASE ViaDone
    BY <1>14 DEF ViaDone, Finish, Fault, NoFault, InfoStep, StatHead, HeadStatus
  <1>15. CASE ViaEnd
    BY <1>15 DEF ViaEnd, Finish, Fault, NoFault, InfoStep, StatHead, HeadStatus
  <1>16. CASE CheckCall
    BY <1>16 DEF CheckCall, Finish, Fault, NoFault, InfoStep, StatHead, HeadStatus
  <1>17. CASE CheckNext
    BY <1>17 DEF CheckNext, Finish, Fault, NoFault, InfoStep, StatHead, HeadStatus
  <1>18. CASE UNCHANGED vars
    BY <1>18 DEF vars, InfoStep
  <1>19. QED
    BY <1>1, <1>2, <1>3, <1>4, <1>5, <1>6, <1>7, <1>8, <1>9, <1>10, <1>11, <1>12, <1>13, <1>14, <1>15, <1>16, <1>17, <1>18 DEF Next

\* While stat or is_exist runs, only its requests and other callers can step.
LEMMA StatSteps ==
    OBase /\ op \in {"stat", "is_exist"} /\ [Next]_vars =>
        StatCall \/ StatInfoCall \/ Other \/ UNCHANGED vars
  <1> SUFFICES ASSUME OBase, op \in {"stat", "is_exist"}, [Next]_vars
               PROVE  StatCall \/ StatInfoCall \/ Other \/ UNCHANGED vars
    OBVIOUS
  <1>1. ~Call
    BY DEF Call, OBase
  <1>2. ~ScanCall
    BY DEF ScanCall, OBase
  <1>3. ~RemoveCall
    BY DEF RemoveCall, OBase
  <1>4. ~DeleteCall
    BY DEF DeleteCall, OBase
  <1>5. ~CreateDirCall
    BY DEF CreateDirCall, OBase
  <1>6. ~WriteCall
    BY DEF WriteCall, OBase
  <1>7. ~WriteData
    BY DEF WriteData, OBase
  <1>8. ~WriteClose
    BY DEF WriteClose, OBase
  <1>9. ~ViaCall
    BY DEF ViaCall, OBase
  <1>10. ~ViaBatch
    BY DEF ViaBatch, OBase
  <1>11. ~ViaStart
    BY DEF ViaStart, OBase
  <1>12. ~ViaDone
    BY DEF ViaDone, OBase
  <1>13. ~ViaEnd
    BY DEF ViaEnd, OBase
  <1>14. ~CheckCall
    BY DEF CheckCall, OBase
  <1>15. ~CheckNext
    BY DEF CheckNext, OBase
  <1>16. QED
    BY <1>1, <1>2, <1>3, <1>4, <1>5, <1>6, <1>7, <1>8, <1>9, <1>10, <1>11, <1>12, <1>13, <1>14, <1>15 DEF Next

\* A stat answer that is a mode or NotFound makes stat and is_exist
\* return one of their non-error results.
LEMMA StatKind ==
    ASSUME op \in {"stat", "is_exist"}, NEW o \in {"FILE", "DIR", "NotFound"},
           StatDone(o)
    PROVE  rs'.op = op /\ rs'.kind \in {"Ok", "true", "false", "NotFound"}
  BY DEF StatDone, Finish, IsExistResult

\* Over a generic backend, or without other writers, every step preserves
\* StatInv: Supabase's get_object_info is asked of a missing object, and
\* then answers DIR or NotFound.
LEMMA NextStat ==
    ASSUME Service = "generic" \/ ~Writers
    PROVE  OBase /\ StatInv /\ [Next]_vars => StatInv'
  <1> SUFFICES ASSUME OBase, StatInv, [Next]_vars PROVE StatInv'
    OBVIOUS
  <1> USE DEF StatInv, StatErrorActual
  <1>1. CASE Other
    BY <1>1 DEF Other, OBase
  <1>2. CASE ~Other
    <2>1. step' = "info" => arg' \notin store'
      BY <1>2, NextInfo DEF InfoStep
    <2>2. CASE op \notin {"stat", "is_exist"}
      BY <2>1, <2>2, NextRs DEF RsStep
    <2>3. CASE op \in {"stat", "is_exist"}
      <3>1. CASE StatCall
        <4>2. CASE Fault /\ StatDone("Err")
          <5>1. faulted'
            BY <4>2 DEF Fault
          <5>2. rs'.faulted /\ step' = "none"
            BY <2>3, <4>2, <5>1 DEF StatDone, Finish
          <5>3. QED
            BY <5>2
        <4>3. CASE Service = "generic" /\ StatDone(GenericStat(arg))
          <5>1. GenericStat(arg) \in {"FILE", "DIR", "NotFound"}
            BY DEF GenericStat, ModeOf
          <5>2. QED
            BY <2>1, <2>3, <4>3, <5>1, StatKind
        <4>4. CASE StatHead(store, arg) # "more" /\ StatDone(StatHead(store, arg))
          <5>1. StatHead(store, arg) \in {"FILE", "DIR", "NotFound"}
            BY <4>4 DEF StatHead, ModeOf
          <5>2. QED
            BY <2>1, <2>3, <4>4, <5>1, StatKind
        <4>5. CASE step' = "info" /\ UNCHANGED <<op, arg, pend, fly, rs, quiet, absent>>
          BY <2>1, <4>5
        <4>6. QED
          BY <3>1, <4>2, <4>3, <4>4, <4>5 DEF StatCall
      <3>7. CASE StatInfoCall
        <4>1. arg \notin store /\ UNCHANGED store
          BY <3>7 DEF StatInfoCall
        <4>2. CASE Fault /\ StatDone("Err")
          <5>1. faulted'
            BY <4>2 DEF Fault
          <5>2. rs'.faulted /\ step' = "none"
            BY <2>3, <4>2, <5>1 DEF StatDone, Finish
          <5>3. QED
            BY <5>2
        <4>3. CASE StatDone(StatInfo(store, arg))
          <5>1. StatInfo(store, arg) \in {"FILE", "DIR", "NotFound"}
            BY <4>1 DEF StatInfo, InfoStatus, ErrorKindOf
          <5>2. QED
            BY <2>1, <2>3, <4>3, <5>1, StatKind
        <4>4. QED
          BY <3>7, <4>2, <4>3 DEF StatInfoCall
      <3>8. CASE UNCHANGED vars
        BY <2>1, <3>8 DEF vars
      <3>9. QED
        BY <1>2, <2>3, <3>1, <3>7, <3>8, StatSteps
    <2>4. QED
      BY <2>2, <2>3
  <1>3. QED
    BY <1>1, <1>2

\* Operator::remove_via: in every reachable state, a remove_via that
\* returned Ok while nobody else acted left none of its input paths in the
\* store, whether it deleted in batches or concurrently, for every limit,
\* bucket and failure bound: no failed delete is swallowed.
THEOREM RemoveViaErrorSurfacedHolds == Spec => []RemoveViaErrorSurfaced
  <1>1. Init => OBase /\ ViaInv
    BY InitOBase DEF Init, NoResult, ViaInv, RemoveViaErrorSurfaced
  <1>2. OBase /\ ViaInv /\ [Next]_vars => (OBase /\ ViaInv)'
    BY NextOBase, NextVia
  <1>3. QED
    BY <1>1, <1>2, PTL DEF Spec, ViaInv

\* Operator::remove_all: in every reachable state, a remove_all that
\* returned Ok while nobody else acted left nothing at or below its path,
\* for every service, bucket, limit and failure bound, whether the path
\* was missing, a file or a directory deleted in batches or one by one.
THEOREM RemoveAllClearsHolds == Spec => []RemoveAllClears
  <1>1. Init => OBase /\ ClearsInv
    BY InitOBase DEF Init, NoResult, ClearsInv, RemoveAllClears
  <1>2. OBase /\ ClearsInv /\ [Next]_vars => (OBase /\ ClearsInv)'
    BY NextOBase, NextClears
  <1>3. QED
    BY <1>1, <1>2, PTL DEF Spec, ClearsInv

\* Operator::stat and is_exist: in every reachable state, over a generic
\* backend or while no other caller writes the bucket, a stat or is_exist
\* that returned an error other than NotFound had a failed request.  With
\* Supabase and another writer it is not so (a finding).
THEOREM StatErrorActualHolds ==
    ASSUME Service = "generic" \/ ~Writers
    PROVE  Spec => []StatErrorActual
  <1>1. Init => OBase /\ StatInv
    BY InitOBase DEF Init, NoResult, StatInv, StatErrorActual
  <1>2. OBase /\ StatInv /\ [Next]_vars => (OBase /\ StatInv)'
    BY NextOBase, NextStat
  <1>3. QED
    BY <1>1, <1>2, PTL DEF Spec, StatInv
=============================================================================
