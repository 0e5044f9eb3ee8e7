------------------------------- MODULE IRPasses -------------------------------
(***************************************************************************)
(* The passes over the IR, put together: the functions a caller can build, *)
(* what the verifier says of each, and the live ranges computed for it.    *)
(* compile_module runs the verifier first, then compute_live_ranges, and   *)
(* gives the ranges to the register allocator.                             *)
(***************************************************************************)
EXTENDS Builder, Verifier, LiveRanges

CONSTANT Symbols   \* the names of the functions of the module

ASSUME SymbolsAssumption == Symbols \subseteq Callee \ {Native}

Accepted == Verified(func, Symbols)
Ranges   == compute_live_ranges(func)
Line     == Layout(func)

-----------------------------------------------------------------------------
(* What the ranges are for: the places at which a value is still needed.   *)

(* The index of the first item of each block. *)
Entries == [b \in Blocks(func) |-> Len(Layout([func EXCEPT !.blocks = SubSeq(@, 1, b - 1)]))]

Successors ==
    LET line == Line  entries == Entries IN
    [p \in Positions(line) |->
        IF line[p + 1].op \in Terminators
        THEN {entries[e.block] : e \in ToSet(line[p + 1].edges)}
        ELSE {p + 1}]

(***************************************************************************)
(* The items before which each value is live: it is read there, or the     *)
(* item does not define it and it is live before one of its successors.    *)
(***************************************************************************)
LiveBefore ==
    LET line == Line  next == Successors IN
    [v \in Values(func) |->
       LET within[n \in 0..Len(line)] ==   \* read in n steps or less
             IF n = 0 THEN {p \in Positions(line) : v \in Reads(line[p + 1])}
             ELSE LET nearer == within[n - 1] IN
                  nearer \cup {p \in Positions(line) : /\ line[p + 1].result # v
                                                   /\ next[p] \cap nearer # {}}
       IN within[Len(line)]]

RangesCover(live) ==
    LET ranges == Ranges IN
    \A v \in Values(func) : \A p \in live[v] : p > ranges[v].start => p <= ranges[v].end

(* The verifier accepts it, and the operands it does not look at are fine. *)
Checked ==
    /\ Accepted
    /\ \A b \in Blocks(func) : \A i \in 1..Len(Instructions(func, b)) :
         Reads(Instructions(func, b)[i]) \subseteq DefinedBefore(func, b, i)

(* The entry block is entered once: no edge goes back to it. *)
EntryOnce == \A item \in ToSet(Line) : \A e \in ToSet(item.edges) : e.block # 1

(* A brif passes no values. *)
PlainBranches == \A item \in ToSet(Line) : item.op = "brif" => PassedOn(item) = {}

(* A loop reads nothing from outside of it but its block parameters. *)
ClosedLoops(live) ==
    LET entries == Entries  line == Line IN
    \A p \in Positions(line) : \A e \in ToSet(line[p + 1].edges) :
        entries[e.block] <= p => \A v \in Values(func) : entries[e.block] \notin live[v]

-----------------------------------------------------------------------------
(* Properties *)

(***************************************************************************)
(* If the operands are all defined before they are used in the order of    *)
(* the walk, compute_live_ranges finds a range for every one of them: its  *)
(* calls of live_ranges.at do not throw.                                   *)
(***************************************************************************)
CheckedIsAnalysable == Checked => Analysable(func)

(***************************************************************************)
(* In an accepted function no block runs on into the next one: every item  *)
(* that is not a terminator is followed by one of the same block, and      *)
(* every terminator is the end of its block.  Code generation emits the    *)
(* blocks one after the other and relies on it.                            *)
(***************************************************************************)
NoFallThrough ==
    Accepted /\ func.blocks # <<>> =>
        LET line == Line
            ends == {Entries[b] - 1 : b \in Blocks(func) \ {1}} \cup {Len(line) - 1}
        IN  \A p \in Positions(line) : line[p + 1].op \in Terminators <=> p \in ends

(***************************************************************************)
(* A range goes on for as long as its value is needed on any path, loops   *)
(* included, so that the register can be given to another value when the   *)
(* range is over.  It holds of the functions whose brifs pass no values    *)
(* and whose loops get what they read as block parameters.                 *)
(***************************************************************************)
RangesCoverLiveness ==
    Checked /\ PlainBranches =>
        LET live == LiveBefore IN ClosedLoops(live) => RangesCover(live)

(***************************************************************************)
(* The ranges are what the allocator takes: they start in the order of the *)
(* ids, no two at one index (its order of placement is then the order of   *)
(* the line), and the end of a range is 0, when it is never used, or not   *)
(* before its start.                                                       *)
(***************************************************************************)
RangesFitAllocator ==
    Checked =>
        LET ranges == Ranges IN
        \A v, w \in Values(func) :
            /\ v < w => ranges[v].start < ranges[w].start
            /\ ranges[v].end # 0 => ranges[v].end >= ranges[v].start

(***************************************************************************)
(* compute_max_live looks at the bounds of the ranges only; that gives the *)
(* largest number of ranges that hold any one index of the function.       *)
(***************************************************************************)
MaxLiveIsPeak ==
    Checked =>
        LET ranges == Ranges IN
        compute_max_live(ranges) =
            Max({0} \cup {Cardinality(LiveAt(ranges, p)) : p \in Positions(Line)})

-----------------------------------------------------------------------------
(* What comments in the code say, and the code does not do *)

(***************************************************************************)
(* codegen.hpp:113-116, "walk every operand usage, now "end" is populated  *)
(* from the last instruction index where each value was used".             *)
(***************************************************************************)
EndIsLastUse ==
    Checked /\ EntryOnce =>
        LET line == Line  ranges == Ranges IN
        \A p \in Positions(line) : \A v \in Reads(line[p + 1]) : p <= ranges[v].end

(***************************************************************************)
(* allocation.hpp:19-20, a live range is "its usage within an instruction  *)
(* index range which it must hold a register or stack slot": also where    *)
(* the use is one more turn of a loop away.                                *)
(***************************************************************************)
RangesCoverLoops ==
    Checked /\ EntryOnce /\ PlainBranches => RangesCover(LiveBefore)
=============================================================================
