------------------------------- MODULE RegAlloc -------------------------------
(***************************************************************************)
(* What a register allocator promises the code generator, with no word of  *)
(* how it finds the registers.  live_range_t is documented as "its usage   *)
(* within an instruction index range which it must hold a register or      *)
(* stack slot" (allocation.hpp:19-20): values are given homes one by one;  *)
(* no two values ever share a home while both need it; a value in a        *)
(* register may still be moved to a slot for the whole of its range, but a *)
(* slot is never taken back.                                               *)
(***************************************************************************)
EXTENDS LiveRange

VARIABLES
    ranges,        \* the ranges of the call in progress, or none
    assignments,   \* the values given a register
    spills         \* the values given a stack slot

vars == <<ranges, assignments, spills>>

InRegister == {v \in Value : assignments[v] # NoReg}
InSlot     == {v \in Value : spills[v] # NoSlot}
Placed     == InRegister \cup InSlot

(* The two maps form a correct allocation of the values placed so far. *)
Valid ==
    /\ InRegister \cap InSlot = {}
    /\ \A v, w \in InRegister :
         v # w /\ assignments[v] = assignments[w] => ~Overlap(ranges[v], ranges[w])
    /\ \A v, w \in InSlot : v # w => spills[v] # spills[w]

Init == ranges = <<>> /\ assignments = NoAssignments /\ spills = NoSpills

Begin ==
    /\ ranges' \in Input
    /\ assignments' = NoAssignments
    /\ spills' = NoSpills

PlaceOne ==
    /\ assignments' \in [Value -> Reg \cup {NoReg}]
    /\ spills' \in [Value -> Int]
    /\ \E v \in Value \ Placed : Placed' = Placed \cup {v}
    /\ \A v \in InSlot : spills'[v] = spills[v]
    /\ \A v \in InRegister : assignments'[v] \in {assignments[v], NoReg}
    /\ Valid'
    /\ UNCHANGED ranges

(* The answer goes to the caller only when every value has a home. *)
Finish ==
    /\ Placed = Value
    /\ ranges' = <<>>
    /\ assignments' = NoAssignments
    /\ spills' = NoSpills

Next == Begin \/ PlaceOne \/ Finish

Spec == Init /\ [][Next]_vars
=============================================================================
