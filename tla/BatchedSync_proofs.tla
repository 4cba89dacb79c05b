------------------------- MODULE BatchedSync_proofs -------------------------
(***************************************************************************)
(* The two safety properties of BatchedSync for every set of widgets and   *)
(* slots: no commit is lost, whatever calls JavaScript back, and no change *)
(* of a slot is lost when only widgets do.                                 *)
(*                                                                         *)
(* Each property is inductive together with TypeOK: it says of every point *)
(* of the flush where the changes still are that Slate has not seen.       *)
(***************************************************************************)
EXTENDS BatchedSync, TLAPS

USE DEF Objects

\* The queues hold objects of their own kind, and what the flush has still to
\* visit is in the queue that it walks (UMGManager.cpp, FlushBatchedSync).
THEOREM TypeCorrect == Spec => []TypeOK
<1>1. Init => TypeOK
  BY DEF Init, TypeOK
<1>2. TypeOK /\ [Next]_vars => TypeOK'
  <2> SUFFICES ASSUME TypeOK, [Next]_vars PROVE TypeOK'
    OBVIOUS
  <2>1. ASSUME NEW x \in Objects, Commit(x) PROVE TypeOK'
    BY <2>1 DEF TypeOK, Commit, Queue
  <2>2. ASSUME NEW x \in Objects, Destroy(x) PROVE TypeOK'
    BY <2>2 DEF TypeOK, Destroy
  <2>3. CASE ShowOrHide
    BY <2>3 DEF TypeOK, ShowOrHide
  <2>4. CASE FlushBatchedSync
    BY <2>4 DEF TypeOK, FlushBatchedSync
  <2>5. ASSUME NEW x \in Objects, Visit(x) PROVE TypeOK'
    BY <2>5 DEF TypeOK, Visit
  <2>6. ASSUME NEW x \in Objects, NEW y \in Objects, VisitCallsBack(x, y)
        PROVE  TypeOK'
    <3> DEFINE added == (PendingWidgetSyncs' \ PendingWidgetSyncs)
                        \cup (PendingSlotSyncs' \ PendingSlotSyncs)
    <3>1. PICK seen \in SUBSET added :
            /\ seen \subseteq (IF pc = "widgets" THEN Widgets ELSE Slots)
            /\ todo' = (todo \ {x}) \cup seen
      BY <2>6 DEF VisitCallsBack
    <3>2. /\ PendingWidgetSyncs' = PendingWidgetSyncs \cup ({y} \cap Widgets)
          /\ PendingSlotSyncs' = PendingSlotSyncs \cup ({y} \cap Slots)
          /\ changed' = (changed \ {x}) \cup {y}
          /\ setByHandler' = (setByHandler \ {x}) \cup {y}
          /\ y \in alive /\ x \in todo
          /\ UNCHANGED <<alive, pc, onScreen>>
      BY <2>6 DEF VisitCallsBack, Queue
    <3>3. pc = "widgets" => seen \subseteq PendingWidgetSyncs'
      BY <3>1, <3>2, ObjectsAssumption DEF TypeOK
    <3>4. pc = "slots" => seen \subseteq PendingSlotSyncs'
      BY <3>1, <3>2, ObjectsAssumption DEF TypeOK
    <3>5. pc # "idle"
      BY <3>2 DEF TypeOK
    <3> QED
      BY <3>1, <3>2, <3>3, <3>4, <3>5 DEF TypeOK
  <2>7. CASE EndWidgets
    BY <2>7 DEF TypeOK, EndWidgets
  <2>8. CASE EndFlush
    BY <2>8 DEF TypeOK, EndFlush
  <2>9. CASE UNCHANGED vars
    BY <2>9 DEF TypeOK, vars
  <2> QED
    BY <2>1, <2>2, <2>3, <2>4, <2>5, <2>6, <2>7, <2>8, <2>9 DEF Next, FlushStep
<1> QED
  BY <1>1, <1>2, PTL DEF Spec

-----------------------------------------------------------------------------

\* What the reconciler commits is never lost, whatever runs during a flush: between
\* two steps of it, what Slate has not seen of the commits is in a queue that it has
\* not walked, or in what remains of the one it walks.
THEOREM NoCommitIsLost == Spec => []NoLostCommit
<1> USE DEF Covered
<1>1. Init => NoLostCommit
  BY DEF Init, NoLostCommit
<1>2. TypeOK /\ NoLostCommit /\ [Next]_vars => NoLostCommit'
  <2> SUFFICES ASSUME TypeOK, NoLostCommit, [Next]_vars PROVE NoLostCommit'
    OBVIOUS
  <2>1. ASSUME NEW x \in Objects, Commit(x) PROVE NoLostCommit'
    BY <2>1 DEF NoLostCommit, Commit, Queue
  <2>2. ASSUME NEW x \in Objects, Destroy(x) PROVE NoLostCommit'
    BY <2>2 DEF NoLostCommit, Destroy
  <2>3. CASE ShowOrHide
    BY <2>3 DEF NoLostCommit, ShowOrHide
  <2>4. CASE FlushBatchedSync
    BY <2>4 DEF NoLostCommit, FlushBatchedSync
  <2>5. ASSUME NEW x \in Objects, Visit(x) PROVE NoLostCommit'
    BY <2>5 DEF NoLostCommit, Visit, TypeOK
  <2>6. ASSUME NEW x \in Objects, NEW y \in Objects, VisitCallsBack(x, y)
        PROVE  NoLostCommit'
    <3>1. /\ PendingSlotSyncs \subseteq PendingSlotSyncs'
          /\ todo \ {x} \subseteq todo'
          /\ changed' \ setByHandler' \subseteq (changed \ setByHandler) \ {x}
          /\ pc' = pc
      BY <2>6 DEF VisitCallsBack, Queue
    <3>2. pc \in {"widgets", "slots"}
      BY <2>6 DEF VisitCallsBack, TypeOK
    <3> QED
      BY <3>1, <3>2 DEF NoLostCommit
  <2>7. CASE EndWidgets
    BY <2>7 DEF NoLostCommit, EndWidgets
  <2>8. CASE EndFlush
    BY <2>8 DEF NoLostCommit, EndFlush
  <2>9. CASE UNCHANGED vars
    BY <2>9 DEF NoLostCommit, vars
  <2> QED
    BY <2>1, <2>2, <2>3, <2>4, <2>5, <2>6, <2>7, <2>8, <2>9 DEF Next, FlushStep
<1> QED
  BY <1>1, <1>2, TypeCorrect, PTL DEF Spec

\* A handler that runs during the flush may set panel slots without their changes
\* being lost, as long as handlers belong to widgets: the slots come last.
THEOREM NoSlotIsLost ==
    ASSUME Callbacks \subseteq Widgets
    PROVE  Spec => []NoLostSlotChange
<1> USE DEF Covered
<1>1. Init => NoLostSlotChange
  BY DEF Init, NoLostSlotChange
<1>2. TypeOK /\ NoLostSlotChange /\ [Next]_vars => NoLostSlotChange'
  <2> SUFFICES ASSUME TypeOK, NoLostSlotChange, [Next]_vars PROVE NoLostSlotChange'
    OBVIOUS
  <2>1. ASSUME NEW x \in Objects, Commit(x) PROVE NoLostSlotChange'
    BY <2>1 DEF NoLostSlotChange, Commit, Queue
  <2>2. ASSUME NEW x \in Objects, Destroy(x) PROVE NoLostSlotChange'
    BY <2>2 DEF NoLostSlotChange, Destroy
  <2>3. CASE ShowOrHide
    BY <2>3 DEF NoLostSlotChange, ShowOrHide
  <2>4. CASE FlushBatchedSync
    BY <2>4 DEF NoLostSlotChange, FlushBatchedSync
  <2>5. ASSUME NEW x \in Objects, Visit(x) PROVE NoLostSlotChange'
    BY <2>5 DEF NoLostSlotChange, Visit, TypeOK
  <2>6. ASSUME NEW x \in Objects, NEW y \in Objects, VisitCallsBack(x, y)
        PROVE  NoLostSlotChange'
    <3>1. x \in Widgets /\ x \in todo
      BY <2>6 DEF VisitCallsBack
    <3>2. pc = "widgets"
      BY <3>1, ObjectsAssumption DEF TypeOK
    <3>3. /\ PendingSlotSyncs' = PendingSlotSyncs \cup ({y} \cap Slots)
          /\ changed' = (changed \ {x}) \cup {y}
          /\ pc' = pc
      BY <2>6 DEF VisitCallsBack, Queue
    <3>4. changed \cap Slots \subseteq PendingSlotSyncs
      BY <3>2, ObjectsAssumption DEF NoLostSlotChange, TypeOK
    <3> QED
      BY <3>2, <3>3, <3>4 DEF NoLostSlotChange
  <2>7. CASE EndWidgets
    BY <2>7 DEF NoLostSlotChange, EndWidgets
  <2>8. CASE EndFlush
    BY <2>8 DEF NoLostSlotChange, EndFlush
  <2>9. CASE UNCHANGED vars
    BY <2>9 DEF NoLostSlotChange, vars
  <2> QED
    BY <2>1, <2>2, <2>3, <2>4, <2>5, <2>6, <2>7, <2>8, <2>9 DEF Next, FlushStep
<1> QED
  BY <1>1, <1>2, TypeCorrect, PTL DEF Spec
=============================================================================
