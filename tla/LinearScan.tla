------------------------------ MODULE LinearScan ------------------------------
(***************************************************************************)
(* The linear-scan register allocator, class register_alloc_t of           *)
(* src/include/amd64/codegen/allocation.hpp.                               *)
(*                                                                         *)
(* An allocator object is built from a list of registers (m_free).  Each   *)
(* call of run() sorts the live ranges it is given by their start, walks   *)
(* them in that order and leaves every value in one of two maps:           *)
(* assignments (a register) or spills (a stack slot).  run() is modelled   *)
(* one loop iteration at a time: the iterations of the expiry loop, then   *)
(* the one branch of the main loop that places the current interval.       *)
(***************************************************************************)
EXTENDS LiveRange, SequencesExt

CONSTANTS
    Pool,     \* available_registers, the argument of the constructor
    MaxRuns   \* bound: how many times run() is called on the object

ASSUME PoolAssumption == Pool \in Seq(Reg) /\ IsInjective(Pool)
ASSUME RunsAssumption == MaxRuns \in Nat

VARIABLES
    running,       \* a call of run() is in progress
    runs,          \* how many calls have begun
    m_free,        \* the registers no value holds: the only state of the object
    ranges,        \* the argument of the call, sorted
    next,          \* the interval the main loop is at
    active,        \* the values that hold a register, by increasing end
    assignments,   \* alloc_result_t::assignments
    spills,        \* alloc_result_t::spills
    stack_offset   \* the next slot, counted down from -8

vars == <<running, runs, m_free, ranges, next, active, assignments, spills,
          stack_offset>>

Start(v) == ranges[v].start
End(v)   == ranges[v].end

Init ==
    /\ running = FALSE
    /\ runs = 0
    /\ m_free = Pool
    /\ ranges = <<>>
    /\ next = 1
    /\ active = <<>>
    /\ assignments = NoAssignments
    /\ spills = NoSpills
    /\ stack_offset = -PTR_SIZE

-----------------------------------------------------------------------------
(* A seeded fault: the argument is not sorted. *)
Run_Unsorted ==
    /\ ~running /\ runs < MaxRuns
    /\ running' = TRUE
    /\ runs' = runs + 1
    /\ ranges' \in [Value -> LiveRange]
    /\ UNCHANGED <<m_free, next, active, assignments, spills, stack_offset>>

Run ==
    /\ ~running /\ runs < MaxRuns
    /\ running' = TRUE
    /\ runs' = runs + 1
    /\ ranges' \in Input
    (* the locals are as Init and Return leave them *)
    /\ UNCHANGED <<m_free, next, active, assignments, spills, stack_offset>>

AtInterval == running /\ next \in Value

(* A seeded fault: a value expires at the index of its last use. *)
Expirable_AtStart == active # <<>> /\ End(Head(active)) <= Start(next)

(* expire_old_intervals: the test of its loop, and one iteration. *)
Expirable == active # <<>> /\ End(Head(active)) < Start(next)

(* A seeded fault: the register of an expired value is not given back. *)
Expire_Leaks ==
    /\ AtInterval /\ Expirable
    /\ active' = Tail(active)
    /\ UNCHANGED <<running, runs, m_free, ranges, next, assignments, spills, stack_offset>>

Expire ==
    /\ AtInterval /\ Expirable
    /\ m_free' = Append(m_free, assignments[Head(active)])
    /\ active' = Tail(active)
    /\ UNCHANGED <<running, runs, ranges, next, assignments, spills, stack_offset>>

(* A seeded fault: the value is put at the back. *)
UpperBound_Back(s, v, k) == k = Len(s)

(***************************************************************************)
(* insert_sorted_by_end: std::ranges::upper_bound finds the k that parts   *)
(* the values that end no later than v from those that end after it.       *)
(***************************************************************************)
UpperBound(s, v, k) == \A i \in 1..Len(s) : i <= k <=> End(s[i]) <= End(v)

InsertedByEnd(s, v, t) ==
    \E k \in 0..Len(s) : UpperBound(s, v, k) /\ t = InsertAt(s, k + 1, v)

(* The current interval gets register r and joins the values in held. *)
Assign(r, assigned, held) ==
    /\ assignments' = [assigned EXCEPT ![next] = r]
    /\ InsertedByEnd(held, next, active')
    /\ next' = next + 1
    /\ UNCHANGED <<running, runs, ranges>>

HintFree == \E i \in 1..Len(m_free) : m_free[i] = ranges[next].hint

TakeHint ==
    /\ AtInterval /\ ~Expirable
    /\ \E i \in 1..Len(m_free) :
         /\ m_free[i] = ranges[next].hint
         /\ \A j \in 1..(i - 1) : m_free[j] # m_free[i]
         /\ m_free' = RemoveAt(m_free, i)
    /\ Assign(ranges[next].hint, assignments, active)
    /\ UNCHANGED <<spills, stack_offset>>

(* A seeded fault: the register stays in m_free. *)
TakeFree_NoPop ==
    /\ AtInterval /\ ~Expirable /\ ~HintFree
    /\ m_free # <<>>
    /\ Assign(Last(m_free), assignments, active)
    /\ UNCHANGED <<m_free, spills, stack_offset>>

TakeFree ==
    /\ AtInterval /\ ~Expirable /\ ~HintFree
    /\ m_free # <<>>
    /\ m_free' = Front(m_free)
    /\ Assign(Last(m_free), assignments, active)
    /\ UNCHANGED <<spills, stack_offset>>

(* A seeded fault: every spilled value gets the same slot. *)
Spill_SameSlot(v) ==
    /\ spills' = [spills EXCEPT ![v] = stack_offset]
    /\ stack_offset' = stack_offset

(* spill_at_interval: v gets the next slot ... *)
Spill(v) ==
    /\ spills' = [spills EXCEPT ![v] = stack_offset]
    /\ stack_offset' = stack_offset - PTR_SIZE

(* A seeded fault: the comparison of the ends is the wrong way around. *)
CandidateEndsLater_Reversed == active # <<>> /\ End(Last(active)) < End(next)

(* ... v being the active value that ends last, or the current one. *)
CandidateEndsLater == active # <<>> /\ End(Last(active)) > End(next)

(* A seeded fault: the spilled value stays in assignments. *)
StealFromLast_KeepsHome ==
    /\ AtInterval /\ ~Expirable
    /\ m_free = <<>> /\ CandidateEndsLater
    /\ Spill(Last(active))
    /\ Assign(assignments[Last(active)], assignments, Front(active))
    /\ UNCHANGED m_free

StealFromLast ==
    /\ AtInterval /\ ~Expirable
    /\ m_free = <<>> /\ CandidateEndsLater
    /\ Spill(Last(active))
    /\ Assign(assignments[Last(active)],
              [assignments EXCEPT ![Last(active)] = NoReg], Front(active))
    /\ UNCHANGED m_free

SpillCurrent ==
    /\ AtInterval /\ ~Expirable
    /\ m_free = <<>> /\ ~CandidateEndsLater
    /\ Spill(next)
    /\ next' = next + 1
    /\ UNCHANGED <<running, runs, m_free, ranges, active, assignments>>

(* A seeded fault: the main loop waits for one interval too many. *)
Return_OffByOne ==
    /\ running /\ next = N + 2
    /\ running' = FALSE
    /\ ranges' = <<>>
    /\ next' = 1
    /\ active' = <<>>
    /\ assignments' = NoAssignments
    /\ spills' = NoSpills
    /\ stack_offset' = -PTR_SIZE
    /\ UNCHANGED <<runs, m_free>>

(***************************************************************************)
(* run() hands its maps to the caller and its locals go.  The values that  *)
(* are still active never give their registers back to m_free.             *)
(***************************************************************************)
Return ==
    /\ running /\ next = N + 1
    /\ running' = FALSE
    /\ ranges' = <<>>
    /\ next' = 1
    /\ active' = <<>>
    /\ assignments' = NoAssignments
    /\ spills' = NoSpills
    /\ stack_offset' = -PTR_SIZE
    /\ UNCHANGED <<runs, m_free>>

Place == TakeHint \/ TakeFree \/ StealFromLast \/ SpillCurrent

Next == Run \/ Expire \/ Place \/ Return

(* run() is a loop of one thread: it does not stop before it returns. *)
Spec == Init /\ [][Next]_vars /\ WF_vars(Expire \/ Place \/ Return)

-----------------------------------------------------------------------------
(* Properties *)

Placed == {v \in Value : v < next}

TypeOK ==
    /\ running \in BOOLEAN
    /\ runs \in Nat
    /\ m_free \in Seq(Reg)
    /\ ranges \in (IF running THEN Input ELSE {<<>>})
    /\ next \in 1..(N + 1)
    /\ active \in Seq(Value)
    /\ assignments \in [Value -> Reg \cup {NoReg}]
    /\ spills \in [Value -> Int]
    /\ stack_offset \in Int

(***************************************************************************)
(* Two values given the same register never need it at the same index,     *)
(* whatever was expired, hinted or stolen in between: what lets codegen    *)
(* read an operand from the register its map names.                        *)
(***************************************************************************)
NoInterference ==
    \A v, w \in Value :
        v # w /\ assignments[v] # NoReg /\ assignments[v] = assignments[w]
        => ~Overlap(ranges[v], ranges[w])

(***************************************************************************)
(* Every interval the loop has passed is in exactly one of the two maps    *)
(* (in one: or in_register throws; in one only: or codegen writes one home *)
(* and reads the other), and the slots handed out are -8, -16, ... with no *)
(* gap and no slot shared: the n spilled values need n words of frame.     *)
(***************************************************************************)
Spilled == {v \in Value : spills[v] # NoSlot}

OneHomeEach ==
    /\ \A v \in Placed : (v \in Spilled) <=> (assignments[v] = NoReg)
    /\ \A v \in Value \ Placed : v \notin Spilled /\ assignments[v] = NoReg
    /\ {spills[v] : v \in Spilled} = {-PTR_SIZE * k : k \in 1..Cardinality(Spilled)}

(***************************************************************************)
(* No register is lost or doubled while a call runs: a register is at most *)
(* once in m_free, held by at most one active value and never both; and in *)
(* the first call all of them are in one place or the other.               *)
(***************************************************************************)
RegistersConserved ==
    /\ IsInjective(m_free) /\ IsInjective(active)
    /\ \A v \in ToSet(active) : assignments[v] \in Reg \ ToSet(m_free)
    /\ \A v, w \in ToSet(active) : assignments[v] = assignments[w] => v = w
    /\ runs = 1 /\ running =>
         ToSet(m_free) \cup {assignments[v] : v \in ToSet(active)} = ToSet(Pool)

(***************************************************************************)
(* When the loop has expired what it can, active is exactly the set of     *)
(* assigned values whose range reaches the current interval.  The expiry   *)
(* loop stops at the first value that has not ended, so this depends on    *)
(* every insertion, theft and expiry keeping active in order of end.       *)
(***************************************************************************)
HoldersAreLive ==
    AtInterval /\ ~Expirable =>
        ToSet(active) = {v \in Placed : assignments[v] # NoReg /\ End(v) >= Start(next)}

(***************************************************************************)
(* The allocator spills only under pressure: if a value of a first call is *)
(* spilled, there is an index at which more ranges need a home than the    *)
(* pool has registers.                                                     *)
(***************************************************************************)
NeedAHomeAt(p) == {v \in Value : Start(v) <= p /\ p <= LastPoint(ranges[v])}

SpillsOnlyUnderPressure ==
    runs = 1 /\ Spilled # {} =>
        \E v \in Placed : Cardinality(NeedAHomeAt(Start(v))) > Len(Pool)

(***************************************************************************)
(* The value that goes to the stack is one that ends last of all that want *)
(* a register at that point: none of those that keep one ends later.       *)
(***************************************************************************)
SpillsFurthestEnd ==
    [][\A v \in Spilled' \ Spilled :
          \A w \in ToSet(active') : End(w) <= End(v)]_vars

(* A call of run() returns: the expiry loop and the main loop both end. *)
Returns == running ~> ~running

(***************************************************************************)
(* run() is a register allocator: it gives homes one value at a time,      *)
(* keeps the allocation valid, never takes a slot back, and answers only   *)
(* when every value has a home.                                            *)
(***************************************************************************)
Abstract == INSTANCE RegAlloc

IsRegisterAllocator == Abstract!Spec
=============================================================================
