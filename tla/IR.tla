---------------------------------- MODULE IR ----------------------------------
(***************************************************************************)
(* The intermediate representation: function_t, its blocks and its         *)
(* instructions (src/include/amd64/ir/ir.hpp).                             *)
(*                                                                         *)
(* The 25 instruction types fall into the classes that some pass of the    *)
(* program tells apart:                                                    *)
(*    const     iconst                                                     *)
(*    binary    iadd isub imul iand ior ixor                               *)
(*    shift     ishl ishr                                                  *)
(*    divide    idiv udiv                                                  *)
(*    compare   icmp                                                       *)
(*    unary     inot ineg ishl_imm ishr_imm isar_imm                       *)
(*    convert   trunc32 sext32                                             *)
(*    call  load  store  brif  jmp  ret                                    *)
(* An instruction is its class, its result, the values it reads itself,    *)
(* the edges it leaves its block by, each with the values it passes, and   *)
(* the function it names.  Constants, offsets, widths and comparison kinds *)
(* are left out: no pass modelled here looks at them.                      *)
(***************************************************************************)
EXTENDS Integers, SequencesExt

CONSTANT Native   \* the callee of an instruction that names no function

NoResult == -1

Inst(op, result, operands, edges, callee) ==
    [op |-> op, result |-> result, operands |-> operands, edges |-> edges,
     callee |-> callee]

Edge(block, args) == [block |-> block, args |-> args]

Terminators == {"brif", "jmp", "ret"}

(* What function_t::emit appends; load and store are members of their own. *)
Emitted ==
    {"const", "binary", "shift", "divide", "compare", "unary", "convert", "call"}

(* How many values an instruction of each class reads itself; a call, any. *)
NoOperand  == {"const", "jmp"}
OneOperand == {"unary", "convert", "load", "brif", "ret"}

PassedOn(inst) == UNION {ToSet(e.args) : e \in ToSet(inst.edges)}

(* Every value that the code emitted for an instruction reads. *)
Reads(inst) == ToSet(inst.operands) \cup PassedOn(inst)

(***************************************************************************)
(* A function: args holds the ids of its arguments, blocks its blocks with *)
(* the ids of their parameters (param_indices), and types counts the ids   *)
(* given out (types.size()).  Blocks are numbered from 1 here, from 0 in   *)
(* the code.                                                               *)
(***************************************************************************)
Function(args, blocks, types) == [args |-> args, blocks |-> blocks, types |-> types]

Block(params, instructions) == [params |-> params, instructions |-> instructions]

Blocks(f)          == 1..Len(f.blocks)
Params(f, b)       == f.blocks[b].params
Instructions(f, b) == f.blocks[b].instructions

ResultsOf(insts) == {inst.result : inst \in ToSet(insts)} \ {NoResult}

(* A seeded fault: the parameters of the blocks are passed over. *)
Values_NoParams(f) ==
    ToSet(f.args) \cup UNION {ResultsOf(Instructions(f, b)) : b \in Blocks(f)}

(* The values that get a range in the first pass of compute_live_ranges. *)
Values(f) ==
    ToSet(f.args) \cup
    UNION {ToSet(Params(f, b)) \cup ResultsOf(Instructions(f, b)) : b \in Blocks(f)}
=============================================================================
