------------------------------ MODULE LiveRanges ------------------------------
(***************************************************************************)
(* code_gen_t::compute_live_ranges and compute_max_live                    *)
(* (src/include/amd64/codegen/codegen.hpp).                                *)
(*                                                                         *)
(* A function is laid out in one line: its arguments, then each block's    *)
(* parameters and instructions.  The index of an item counts from 0.  The  *)
(* first pass gives every value a range that starts at the item that       *)
(* defines it and ends at 0; the second moves the end to each item that    *)
(* counts as a use, the last one winning.                                  *)
(***************************************************************************)
EXTENDS IR

(* An argument or a parameter takes an item of the line, like an instruction. *)
Param(v) == Inst("param", v, <<>>, <<>>, Native)

ParamItems(ids) == [k \in 1..Len(ids) |-> Param(ids[k])]

Layout(f) ==
    ParamItems(f.args) \o
    FlattenSeq([b \in Blocks(f) |-> ParamItems(Params(f, b)) \o Instructions(f, b)])

(* A seeded fault: what a jmp passes does not count. *)
Counted_NoJumpArgs(inst) ==
    CASE inst.op \in {"brif", "jmp"}    -> ToSet(inst.operands)
      [] inst.op \in {"call", "load"} -> Reads(inst) \cup {inst.result}
      [] OTHER                        -> Reads(inst)

(* The values whose end the second pass moves to an item: of a brif, it is *)
(* the condition only.                                                     *)
Counted(inst) ==
    CASE inst.op = "brif"             -> ToSet(inst.operands)
      [] inst.op \in {"call", "load"} -> Reads(inst) \cup {inst.result}
      [] OTHER                        -> Reads(inst)

(* live_ranges.at throws when the value has no range. *)
Analysable(f) == \A item \in ToSet(Layout(f)) : Counted(item) \subseteq Values(f)

Positions(layout) == 0..(Len(layout) - 1)

(* A seeded fault: the second pass starts at 0, not after the arguments. *)
compute_live_ranges_FromZero(f) ==
    LET layout == Layout(f) IN
    [v \in Values(f) |->
        [start |-> CHOOSE i \in Positions(layout) : layout[i + 1].result = v,
         end   |-> Max({0} \cup {i - Len(f.args) :
                                   i \in {j \in Positions(layout) : v \in Counted(layout[j + 1])}})]]

compute_live_ranges(f) ==
    LET layout == Layout(f) IN
    [v \in Values(f) |->
        [start |-> CHOOSE i \in Positions(layout) : layout[i + 1].result = v,
         end   |-> Max({0} \cup {i \in Positions(layout) : v \in Counted(layout[i + 1])})]]

LiveAt(ranges, p) == {v \in DOMAIN ranges : ranges[v].start <= p /\ p <= ranges[v].end}

(* A seeded fault: a range does not hold its own end. *)
compute_max_live_Open(ranges) ==
    LET bounds == UNION {{ranges[v].start, ranges[v].end} : v \in DOMAIN ranges}
    IN Max({0} \cup {Cardinality({v \in LiveAt(ranges, p) : p < ranges[v].end}) : p \in bounds})

(* The most ranges that hold one of the bounds of a range. *)
compute_max_live(ranges) ==
    LET bounds == UNION {{ranges[v].start, ranges[v].end} : v \in DOMAIN ranges}
    IN Max({0} \cup {Cardinality(LiveAt(ranges, p)) : p \in bounds})
=============================================================================
