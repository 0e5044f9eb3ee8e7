------------------------------- MODULE LiveRange -------------------------------
(***************************************************************************)
(* The data of register allocation: the live ranges a call of              *)
(* register_alloc_t::run is given and the two maps it answers with         *)
(* (src/include/amd64/codegen/allocation.hpp).                             *)
(*                                                                         *)
(* A value is named by the position of its range in the vector sorted by   *)
(* start, so that the N values of a call are 1..N.                         *)
(***************************************************************************)
EXTENDS Integers

CONSTANTS
    N,        \* how many live ranges a call is given
    Index,    \* the instruction indices at which a range starts or ends
    Reg,      \* the machine's registers
    Hint,     \* the registers a hint may name (codegen: ARG_REGISTERS)
    NoReg     \* no hint; in assignments: the value is not in the map

ASSUME NAssumption     == N \in Nat
ASSUME IndexAssumption == Index \subseteq Nat
ASSUME RegAssumption   == NoReg \notin Reg /\ Hint \subseteq Reg

Value     == 1..N
LiveRange == [start : Index, end : Index, hint : Hint \cup {NoReg}]
PTR_SIZE  == 8
NoSlot    == 0      \* in spills: the value is not in the map

NoAssignments == [v \in Value |-> NoReg]
NoSpills      == [v \in Value |-> NoSlot]

(***************************************************************************)
(* The last index at which the home of a value is written or read.  A      *)
(* value that is never used has end = 0 (compute_live_ranges), but the     *)
(* instruction that defines it still writes its home.                      *)
(***************************************************************************)
LastPoint(r) == IF r.end < r.start THEN r.start ELSE r.end

Overlap(r, s) == r.start <= LastPoint(s) /\ s.start <= LastPoint(r)

(***************************************************************************)
(* The vectors the allocator walks: its argument, sorted by start.  Equal  *)
(* starts come in any order.  compute_live_ranges never gives two values   *)
(* one start; the tests of the allocator do, for values that are used, and *)
(* only those are admitted here.                                           *)
(***************************************************************************)
Sorted(rs) == \A v, w \in Value : v < w => rs[v].start <= rs[w].start

UsedIfTied(rs) ==
    \A v, w \in Value : v # w /\ rs[v].start = rs[w].start => rs[v].start <= rs[v].end

Input == {rs \in [Value -> LiveRange] : Sorted(rs) /\ UsedIfTied(rs)}
=============================================================================
