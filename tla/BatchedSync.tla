----------------------------- MODULE BatchedSync -----------------------------
(***************************************************************************)
(* The batched property synchronisation of UUMGManager                     *)
(* (Source/ReactorUMG/Private/UMGManager.cpp).  The reconciler sets        *)
(* properties of widgets and panel slots and queues the objects; the       *)
(* NativeTick of every UReactorUIWidget on screen flushes the two queues,  *)
(* which pushes the properties into Slate.                                 *)
(*                                                                         *)
(* SynchronizeProperties of some widgets calls JavaScript back: that of a  *)
(* USpineWidget applies its animation state, whose listener broadcasts     *)
(* AnimationStart, AnimationEvent and their like.  Such a handler may set  *)
(* and queue properties while the flush walks the queues.                  *)
(***************************************************************************)
CONSTANTS
    Widgets,    \* UWidget objects
    Slots,      \* UPanelSlot objects
    Callbacks   \* those whose SynchronizeProperties may run JavaScript

Objects == Widgets \cup Slots

ASSUME ObjectsAssumption == Widgets \cap Slots = {} /\ Callbacks \subseteq Objects

VARIABLES
    alive,              \* objects that have not been destroyed
    changed,            \* of these, the ones with a property Slate has not seen
    setByHandler,       \* of these, the ones a handler set last, not a commit
    PendingWidgetSyncs,
    PendingSlotSyncs,
    pc,                 \* idle, or in one of the loops of FlushBatchedSync
    todo,               \* what that loop has still to visit
    onScreen            \* a UReactorUIWidget is on screen and ticks

vars == <<alive, changed, setByHandler, PendingWidgetSyncs, PendingSlotSyncs, pc,
          todo, onScreen>>

TypeOK ==
    /\ alive \subseteq Objects
    /\ changed \subseteq alive
    /\ setByHandler \subseteq changed
    /\ PendingWidgetSyncs \subseteq Widgets
    /\ PendingSlotSyncs \subseteq Slots
    /\ pc \in {"idle", "widgets", "slots"}
    /\ todo \subseteq CASE pc = "idle"    -> {}
                        [] pc = "widgets" -> PendingWidgetSyncs
                        [] pc = "slots"   -> PendingSlotSyncs
    /\ onScreen \in BOOLEAN

Init ==
    /\ alive = Objects
    /\ changed = {}
    /\ setByHandler = {}
    /\ PendingWidgetSyncs = {}
    /\ PendingSlotSyncs = {}
    /\ pc = "idle"
    /\ todo = {}
    /\ onScreen = FALSE

-----------------------------------------------------------------------------

\* QueueWidgetForSync or QueueSlotForSync of x.
Queue(x) ==
    /\ PendingWidgetSyncs' = PendingWidgetSyncs \cup ({x} \cap Widgets)
    /\ PendingSlotSyncs' = PendingSlotSyncs \cup ({x} \cap Slots)

\* A commit of the reconciler sets a property of x and queues x.
Commit(x) ==
    /\ pc = "idle"
    /\ x \in alive
    /\ changed' = changed \cup {x}
    /\ setByHandler' = setByHandler \ {x}
    /\ Queue(x)
    /\ UNCHANGED <<alive, pc, todo, onScreen>>

\* The garbage collector destroys x; the weak pointer in the queue goes stale.
Destroy(x) ==
    /\ pc = "idle"
    /\ x \in alive
    /\ alive' = alive \ {x}
    /\ changed' = changed \ {x}
    /\ setByHandler' = setByHandler \ {x}
    /\ UNCHANGED <<PendingWidgetSyncs, PendingSlotSyncs, pc, todo, onScreen>>

ShowOrHide ==
    /\ pc = "idle"
    /\ onScreen' = ~onScreen
    /\ UNCHANGED <<alive, changed, setByHandler, PendingWidgetSyncs, PendingSlotSyncs, pc,
                   todo>>

\* Mutant: an early return when no widget is queued, slots or not.
FlushBatchedSync_EarlyReturn ==
    /\ onScreen
    /\ pc = "idle"
    /\ PendingWidgetSyncs # {}
    /\ pc' = "widgets"
    /\ todo' = PendingWidgetSyncs
    /\ UNCHANGED <<alive, changed, setByHandler, PendingWidgetSyncs, PendingSlotSyncs,
                   onScreen>>

\* NativeTick enters FlushBatchedSync, in a build for UE 5.3 or later
\* (REACTORUMG_HAS_WIDGET_SYNC_PROPERTIES): earlier ones have no widget loop.
FlushBatchedSync ==
    /\ onScreen
    /\ pc = "idle"
    /\ pc' = "widgets"
    /\ todo' = PendingWidgetSyncs
    /\ UNCHANGED <<alive, changed, setByHandler, PendingWidgetSyncs, PendingSlotSyncs,
                   onScreen>>

\* Mutant: a stale weak pointer ends the loop.
Visit_Breaks(x) ==
    /\ x \in todo
    /\ todo' = IF x \in alive THEN todo \ {x} ELSE {}
    /\ changed' = changed \ {x}
    /\ setByHandler' = setByHandler \ {x}
    /\ UNCHANGED <<alive, PendingWidgetSyncs, PendingSlotSyncs, pc, onScreen>>

\* The loop comes to x: it is synchronised, or its weak pointer is stale.
Visit(x) ==
    /\ x \in todo
    /\ todo' = todo \ {x}
    /\ changed' = changed \ {x}
    /\ setByHandler' = setByHandler \ {x}
    /\ UNCHANGED <<alive, PendingWidgetSyncs, PendingSlotSyncs, pc, onScreen>>

\* Mutant: the handler that runs meanwhile flushes, which empties the queues.
VisitCallsBack_Flushes(x, y) ==
    /\ x \in todo \cap Callbacks \cap alive
    /\ y \in alive
    /\ changed' = {}
    /\ setByHandler' = {}
    /\ PendingWidgetSyncs' = {}
    /\ PendingSlotSyncs' = {}
    /\ todo' = todo \ {x}
    /\ UNCHANGED <<alive, pc, onScreen>>

\* Mutant: nothing is queued while a flush runs.
VisitCallsBack_Guarded(x, y) ==
    /\ x \in todo \cap Callbacks \cap alive
    /\ y \in alive
    /\ changed' = (changed \ {x}) \cup {y}
    /\ setByHandler' = (setByHandler \ {x}) \cup {y}
    /\ todo' = todo \ {x}
    /\ UNCHANGED <<alive, PendingWidgetSyncs, PendingSlotSyncs, pc, onScreen>>

\* The same, and JavaScript that runs meanwhile sets a property of y and queues
\* it. The loop over the set comes to a y that was not in it, or does not: that
\* depends on where the set stores it.
VisitCallsBack(x, y) ==
    /\ x \in todo \cap Callbacks \cap alive
    /\ y \in alive
    /\ changed' = (changed \ {x}) \cup {y}
    /\ setByHandler' = (setByHandler \ {x}) \cup {y}
    /\ Queue(y)
    /\ \E seen \in SUBSET ((PendingWidgetSyncs' \ PendingWidgetSyncs)
                           \cup (PendingSlotSyncs' \ PendingSlotSyncs)) :
         /\ seen \subseteq (IF pc = "widgets" THEN Widgets ELSE Slots)
         /\ todo' = (todo \ {x}) \cup seen
    /\ UNCHANGED <<alive, pc, onScreen>>

\* From the widgets on to the slots.
EndWidgets ==
    /\ pc = "widgets"
    /\ todo = {}
    /\ pc' = "slots"
    /\ todo' = PendingSlotSyncs
    /\ UNCHANGED <<alive, changed, setByHandler, PendingWidgetSyncs, PendingSlotSyncs,
                   onScreen>>

\* Both queues are reset, whatever was added to them meanwhile.
EndFlush ==
    /\ pc = "slots"
    /\ todo = {}
    /\ pc' = "idle"
    /\ PendingWidgetSyncs' = {}
    /\ PendingSlotSyncs' = {}
    /\ UNCHANGED <<alive, changed, setByHandler, todo, onScreen>>

-----------------------------------------------------------------------------

FlushStep ==
    \/ \E x \in Objects : Visit(x) \/ \E y \in Objects : VisitCallsBack(x, y)
    \/ EndWidgets
    \/ EndFlush

Next ==
    \/ \E x \in Objects : Commit(x) \/ Destroy(x)
    \/ ShowOrHide
    \/ FlushBatchedSync
    \/ FlushStep

Spec == Init /\ [][Next]_vars

\* A widget on screen ticks again, and a tick comes to its end. Nothing obliges
\* the reconciler to commit or a widget to be shown.
FairSpec == Spec /\ WF_vars(FlushBatchedSync) /\ WF_vars(FlushStep)

-----------------------------------------------------------------------------
(* Correctness.                                                             *)

\* What the flush still comes to, this one or the next.
Covered == CASE pc = "idle"    -> PendingWidgetSyncs \cup PendingSlotSyncs
             [] pc = "widgets" -> todo \cup PendingSlotSyncs
             [] pc = "slots"   -> todo

\* No commit is lost, whatever runs during the flush: what Slate has not seen of it
\* is queued for the next flush, or this one still comes to it.
NoLostCommit == changed \ setByHandler \subseteq Covered

\* Nor is a change of a panel slot, even one that a handler makes during the flush:
\* the handlers belong to widgets, and the slots are visited after them.
NoLostSlotChange == changed \cap Slots \subseteq Covered

\* A commit is seen by Slate as long as a widget on screen ticks.
CommitReachesSlate ==
    \A x \in Objects :
        x \in changed \ setByHandler ~> x \notin changed \ setByHandler \/ ~onScreen

\* UMGManager.h: a queued widget "will be flushed once per frame", whoever queues it.
NoLostChange == changed \subseteq Covered
=============================================================================
