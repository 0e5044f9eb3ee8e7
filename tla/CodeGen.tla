-------------------------------- MODULE CodeGen --------------------------------
(***************************************************************************)
(* The code that compile_function emits for a function, given the answer   *)
(* of the register allocator (src/include/amd64/codegen/codegen.hpp).      *)
(*                                                                         *)
(* A lowering is the sequence of the machine's instructions that the code  *)
(* emits for an instruction of the IR, operand loads and spills included.  *)
(***************************************************************************)
EXTENDS IRPasses, Machine

CONSTANTS
    GENERAL_PURPOSE,   \* the pool of the allocator
    NoReg              \* in assignments: the value is not in the map

(* What the lowerings borrow, and what arguments come in, is not in the pool. *)
ASSUME PoolAssumption ==
    ToSet(GENERAL_PURPOSE) \subseteq
        CALLEE_SAVED \ (ArgRegisters \cup {rax, rcx, rdx, r10, r11, rbp})

VARIABLES
    assignments,   \* alloc_result_t of its values, in the order of their ids
    spills

-----------------------------------------------------------------------------
(* Where a value lives.  Ids count from 0, the allocator's values from 1.  *)

RegOf(v)  == assignments[v + 1]
SlotOf(v) == spills[v + 1]

(* in_register: the register an operand is read from, and the load of it. *)
In(v, scratch)      == IF RegOf(v) # NoReg THEN RegOf(v) ELSE scratch
Fetch(v, scratch)   == IF RegOf(v) # NoReg THEN <<>> ELSE <<LoadSlot(scratch, SlotOf(v))>>

dest_register(v) == IF RegOf(v) # NoReg THEN RegOf(v) ELSE r10

store_if_spilled(v, reg) == IF SlotOf(v) = 0 THEN <<>> ELSE <<StoreSlot(SlotOf(v), reg)>>

Least(a, b) == IF a < b THEN a ELSE b

(* A seeded fault: the arguments are popped in the order they were pushed. *)
bind_call_args_InOrder(args) ==
    LET n == Least(Len(args), Len(ARG_REGISTERS)) IN
    FlattenSeq([a \in 1..n |-> Append(Fetch(args[a], r10), Push(In(args[a], r10)))])
    \o [a \in 1..n |-> Pop(ARG_REGISTERS[a])]

(* A seeded fault: the last argument is not popped. *)
bind_call_args_NoLastPop(args) ==
    LET n == Least(Len(args), Len(ARG_REGISTERS)) IN
    FlattenSeq([a \in 1..n |-> Append(Fetch(args[a], r10), Push(In(args[a], r10)))])
    \o [a \in 1..(n - 1) |-> Pop(ARG_REGISTERS[n + 1 - a])]

(* bind_call_args: push what fits in the argument registers, and pop it there. *)
bind_call_args(args) ==
    LET n == Least(Len(args), Len(ARG_REGISTERS)) IN
    FlattenSeq([a \in 1..n |-> Append(Fetch(args[a], r10), Push(In(args[a], r10)))])
    \o [a \in 1..n |-> Pop(ARG_REGISTERS[n + 1 - a])]

-----------------------------------------------------------------------------
(* The lowering of each class *)

Binary(inst) ==
    LET lhs == inst.operands[1]  rhs == inst.operands[2]  reg == dest_register(inst.result) IN
    Fetch(lhs, r10) \o Fetch(rhs, r11)
    \o <<Mov(reg, In(lhs, r10)),
         Compute(reg, {<<reg, lhs>>, <<In(rhs, r11), rhs>>}, inst.result)>>

Shift(inst) ==
    LET lhs == inst.operands[1]  rhs == inst.operands[2]  reg == dest_register(inst.result) IN
    Fetch(lhs, r10) \o Fetch(rhs, r11)
    \o <<Mov(rcx, In(rhs, r11)), Mov(reg, In(lhs, r10)),
         Compute(reg, {<<reg, lhs>>, <<rcx, rhs>>}, inst.result)>>

(* A seeded fault: one scratch register for both operands. *)
Divide_OneScratch(inst) ==
    LET lhs == inst.operands[1]  rhs == inst.operands[2] IN
    Fetch(lhs, r11) \o Fetch(rhs, r11)
    \o <<Mov(rax, In(lhs, r11)), Mov(r11, In(rhs, r11)), Clobber(rdx),
         Compute(rax, {<<rax, lhs>>, <<r11, rhs>>}, inst.result),
         Mov(dest_register(inst.result), rax)>>

(* The dividend goes in rdx:rax, the divisor in r11, the quotient comes in rax. *)
Divide(inst) ==
    LET lhs == inst.operands[1]  rhs == inst.operands[2] IN
    Fetch(lhs, r10) \o Fetch(rhs, r11)
    \o <<Mov(rax, In(lhs, r10)), Mov(r11, In(rhs, r11)), Clobber(rdx),
         Compute(rax, {<<rax, lhs>>, <<r11, rhs>>}, inst.result),
         Mov(dest_register(inst.result), rax)>>

Compare(inst) ==
    LET lhs == inst.operands[1]  rhs == inst.operands[2] IN
    Fetch(lhs, r10) \o Fetch(rhs, r11)
    \o <<Compute(rax, {<<In(lhs, r10), lhs>>, <<In(rhs, r11), rhs>>}, inst.result),
         Mov(dest_register(inst.result), rax)>>

Unary(inst) ==
    LET v == inst.operands[1]  reg == dest_register(inst.result) IN
    Fetch(v, r10) \o <<Mov(reg, In(v, r10)), Compute(reg, {<<reg, v>>}, inst.result)>>

Convert(inst) ==
    LET v == inst.operands[1] IN
    Fetch(v, r10)
    \o <<Compute(dest_register(inst.result), {<<In(v, r10), v>>}, inst.result)>>

LowerLoad(inst) ==
    LET base == inst.operands[1] IN
    Fetch(base, rax)
    \o <<Compute(dest_register(inst.result), {<<In(base, rax), base>>}, inst.result)>>

LowerStore(inst) ==
    LET value == inst.operands[1]  base == inst.operands[2] IN
    Fetch(base, r10) \o Fetch(value, r11)
    \o <<StoreMem({<<In(base, r10), base>>, <<In(value, r11), value>>})>>

Call(inst) ==
    bind_call_args(inst.operands)
    \o <<CallFn(inst.operands, inst.result), Mov(dest_register(inst.result), rax)>>

(* The values an edge passes, and the jump to its block. *)
Follow(edge) ==
    Append(bind_call_args(edge.args), Jmp(edge.block, Params(func, edge.block), edge.args))

(* A seeded fault: the jump goes over the code of the wrong edge. *)
Brif_Swapped(inst) ==
    LET condition == inst.operands[1]
        onTrue    == Follow(inst.edges[1])
    IN  Fetch(condition, r10)
        \o <<Jnz({<<In(condition, r10), condition>>}, Len(onTrue),
                 inst.edges[1].block, inst.edges[2].block)>>
        \o onTrue \o Follow(inst.edges[2])

(* edges[1] is taken when the condition is true: its code comes last. *)
Brif(inst) ==
    LET condition == inst.operands[1]
        onFalse   == Follow(inst.edges[2])
    IN  Fetch(condition, r10)
        \o <<Jnz({<<In(condition, r10), condition>>}, Len(onFalse),
                 inst.edges[1].block, inst.edges[2].block)>>
        \o onFalse \o Follow(inst.edges[1])

(* A seeded fault: the saved registers are popped in the order of the pushes. *)
Return_InOrder(inst, saved, words) ==
    LET v == inst.operands[1] IN
    Fetch(v, r10) \o <<Mov(rax, In(v, r10))>>
    \o [k \in 1..Len(saved) |-> Pop(saved[k])]
    \o (IF words > 0 THEN <<Leave>> ELSE <<>>)
    \o <<Ret(v)>>

(* A seeded fault: there is no ret. *)
Return_NoRet(inst, saved, words) ==
    LET v == inst.operands[1] IN
    Fetch(v, r10) \o <<Mov(rax, In(v, r10))>>
    \o [k \in 1..Len(saved) |-> Pop(saved[Len(saved) + 1 - k])]
    \o (IF words > 0 THEN <<Leave>> ELSE <<>>)

Return(inst, saved, words) ==
    LET v == inst.operands[1] IN
    Fetch(v, r10) \o <<Mov(rax, In(v, r10))>>
    \o [k \in 1..Len(saved) |-> Pop(saved[Len(saved) + 1 - k])]
    \o (IF words > 0 THEN <<Leave>> ELSE <<>>)
    \o <<Ret(v)>>

(* saved: the callee-saved registers in use; words: the size of the frame. *)
Lower(inst, saved, words) ==
    CASE inst.op = "const"   -> <<Compute(dest_register(inst.result), {}, inst.result)>>
      [] inst.op = "binary"  -> Binary(inst)
      [] inst.op = "shift"   -> Shift(inst)
      [] inst.op = "divide"  -> Divide(inst)
      [] inst.op = "compare" -> Compare(inst)
      [] inst.op = "unary"   -> Unary(inst)
      [] inst.op = "convert" -> Convert(inst)
      [] inst.op = "load"    -> LowerLoad(inst)
      [] inst.op = "store"   -> LowerStore(inst)
      [] inst.op = "call"    -> Call(inst)
      [] inst.op = "brif"    -> Brif(inst)
      [] inst.op = "jmp"     -> Follow(inst.edges[1])
      [] inst.op = "ret"     -> Return(inst, saved, words)

(* What every lowering of an instruction with a result ends in. *)
Keep(inst) ==
    IF inst.result = NoResult THEN <<>>
    ELSE store_if_spilled(inst.result, dest_register(inst.result))

(* The head of a block: its parameters come in the argument registers. *)
Receive(params) ==
    FlattenSeq([k \in 1..Least(Len(params), Len(ARG_REGISTERS)) |->
        LET dest == dest_register(params[k]) IN
        (IF dest # ARG_REGISTERS[k] THEN <<Mov(dest, ARG_REGISTERS[k])>> ELSE <<>>)
        \o store_if_spilled(params[k], dest)])

BlockCode(b, saved, words) ==
    Receive(IF b = 1 THEN func.args ELSE Params(func, b))
    \o FlattenSeq([i \in 1..Len(Instructions(func, b)) |->
           LET inst == Instructions(func, b)[i] IN Lower(inst, saved, words) \o Keep(inst)])

(***************************************************************************)
(* The frame: a slot for each range of the peak that finds no register.    *)
(***************************************************************************)
FrameWords ==
    LET peak == compute_max_live(compute_live_ranges(func)) IN
    IF peak > Len(GENERAL_PURPOSE) THEN peak - Len(GENERAL_PURPOSE) ELSE 0

(* used_callee_regs, in whatever order the unordered_map has its entries. *)
UsedCalleeRegs ==
    LET used == {assignments[k] : k \in DOMAIN assignments} \cap CALLEE_SAVED
    IN  {s \in [1..Cardinality(used) -> used] : IsInjective(s)}

(* The pushes of the prologue are patched in when the rest has been emitted. *)
CodeOf(saved) ==
    LET words    == FrameWords
        prologue == [k \in 1..Len(saved) |-> Push(saved[k])]
                    \o (IF words > 0 THEN <<Enter(words)>> ELSE <<>>)
        blocks   == [b \in Blocks(func) |-> BlockCode(b, saved, words)]
    IN  [at    |-> prologue \o FlattenSeq(blocks),
         block |-> [b \in Blocks(func) |->
                      1 + Len(prologue) + Len(FlattenSeq(SubSeq(blocks, 1, b - 1)))]]

compile_function == {CodeOf(saved) : saved \in UsedCalleeRegs}
=============================================================================
