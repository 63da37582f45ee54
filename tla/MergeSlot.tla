----------------------------- MODULE MergeSlot -----------------------------
(***************************************************************************)
(* What take_merge_slot promises, with everything but the promise left     *)
(* out: each milestone has one slot, a task that is 'integrating' holds    *)
(* the slot of its milestone, and the slot passes from one task to another *)
(* only by way of being free.                                              *)
(***************************************************************************)
CONSTANTS Milestones, Tasks

VARIABLE slot   \* slot[m] : the tasks of milestone m that hold its slot

Init == slot = [m \in Milestones |-> {}]

Acquire(m, t) ==
    /\ slot[m] = {}
    /\ slot' = [slot EXCEPT ![m] = {t}]

Release(m) ==
    /\ slot[m] # {}
    /\ slot' = [slot EXCEPT ![m] = {}]

Next ==
    \E m \in Milestones : Release(m) \/ \E t \in Tasks : Acquire(m, t)

Spec == Init /\ [][Next]_slot
=============================================================================
