-------------------------------- MODULE Machine --------------------------------
(***************************************************************************)
(* The machine that runs compiled code: the registers and the stack, as    *)
(* far as the instructions that code_gen_t has the assembler emit use them *)
(* (src/include/amd64/assembler/assembler.hpp).                            *)
(*                                                                         *)
(* What a register or a word of the stack contains is abstracted to what   *)
(* it means: a value of the IR, if it is that value's current value; what  *)
(* the caller had in a register; an address; the return address; or junk.  *)
(* An instruction that computes leaves the value it is meant to leave if   *)
(* it finds its operands where it looks for them, and junk if it does not. *)
(***************************************************************************)
EXTENDS Integers, Sequences, FiniteSets

CONSTANTS
    CALLEE_SAVED,     \* the registers a function gives back as they were; rbp too
    ARG_REGISTERS,    \* the registers of the first arguments, in order
    rax, rcx, rdx, r10, r11, rbp

VARIABLES
    code,       \* the instructions, and where each block begins
    pc,         \* the next instruction
    regs,       \* what the registers contain, rsp excepted
    sp,         \* rsp, in words from the word of the return address
    mem,        \* the words of the stack that are known
    wrong,      \* an instruction with an effect has not found its operands
    strayed,    \* a slot outside of the frame has been written
    status      \* "idle", "running", "returned" to the caller, or "lost"

machine == <<pc, regs, sp, mem, wrong, strayed, status>>

ArgRegisters == {ARG_REGISTERS[k] : k \in 1..Len(ARG_REGISTERS)}
Register     == CALLEE_SAVED \cup ArgRegisters \cup {rax, rcx, rdx, r10, r11}

-----------------------------------------------------------------------------
(* Contents *)

Value(v)      == <<"value", v>>
Saved(r)      == <<"saved", r>>
Address(a)    == <<"address", a>>
ReturnAddress == <<"return", 0>>
Junk          == <<"junk", 0>>

CallerFrame == 100   \* where the caller's rbp points: above, and not ours

(* The values of ids change: what was one of them is junk from now on. *)
Forget(where, ids) ==
    [x \in DOMAIN where |->
        IF \E v \in ids : where[x] = Value(v) THEN Junk ELSE where[x]]

Word(a) == IF a \in DOMAIN mem THEN mem[a] ELSE Junk

WithWord(a, x) == [b \in DOMAIN mem \cup {a} |-> IF b = a THEN x ELSE mem[b]]

-----------------------------------------------------------------------------
(* Instructions.  reads pairs registers with the values they are taken to  *)
(* contain: the meaning of the instruction in the IR.                      *)

Mov(dst, src)           == [op |-> "mov", dst |-> dst, src |-> src]
LoadSlot(dst, slot)     == [op |-> "load_slot", dst |-> dst, slot |-> slot]
StoreSlot(slot, src)    == [op |-> "store_slot", slot |-> slot, src |-> src]
Push(src)               == [op |-> "push", src |-> src]
Pop(dst)                == [op |-> "pop", dst |-> dst]
Compute(dst, reads, v)  == [op |-> "compute", dst |-> dst, reads |-> reads, value |-> v]
Clobber(dst)            == [op |-> "clobber", dst |-> dst]
StoreMem(reads)         == [op |-> "store_mem", reads |-> reads]
CallFn(args, v)         == [op |-> "call", args |-> args, value |-> v]
Jnz(reads, over, yes, no) ==   \* yes, no: the blocks to go to if it is not 0, if it is
    [op |-> "jnz", reads |-> reads, over |-> over, yes |-> yes, no |-> no]
Jmp(block, params, args) == [op |-> "jmp", block |-> block, params |-> params, args |-> args]
Enter(words)            == [op |-> "enter", words |-> words]
Leave                   == [op |-> "leave"]
Ret(v)                  == [op |-> "ret", value |-> v]

Found(reads) == \A x \in reads : regs[x[1]] = Value(x[2])

(* The arguments of a call: one that has no register is not there. *)
ArgFound(args, k) ==
    k <= Len(ARG_REGISTERS) /\ regs[ARG_REGISTERS[k]] = Value(args[k])

(* The word of the slot that is so many bytes from rbp. *)
SlotWord(slot) == regs[rbp][2] + slot \div 8

-----------------------------------------------------------------------------
(* A call of the compiled function, by a caller that keeps the convention. *)
Start(args) ==
    /\ pc' = 1
    /\ regs' = [r \in Register |->
                  CASE r = rbp -> Address(CallerFrame)
                    [] r \in CALLEE_SAVED \ {rbp} -> Saved(r)
                    [] OTHER ->
                         IF \E k \in 1..Len(args) : r = ARG_REGISTERS[k]
                         THEN Value(args[CHOOSE k \in 1..Len(args) : r = ARG_REGISTERS[k]])
                         ELSE Junk]
    /\ sp' = 0
    /\ mem' = [a \in {0} |-> ReturnAddress]
    /\ wrong' = FALSE
    /\ strayed' = FALSE
    /\ status' = "running"

-----------------------------------------------------------------------------
(* The steps of the machine *)

At(op) == status = "running" /\ pc \in 1..Len(code.at) /\ code.at[pc].op = op

Now == code.at[pc]

Go == pc' = pc + 1

DoMov ==
    /\ At("mov") /\ Go
    /\ regs' = [regs EXCEPT ![Now.dst] = regs[Now.src]]
    /\ UNCHANGED <<code, sp, mem, wrong, strayed, status>>

DoLoadSlot ==
    /\ At("load_slot") /\ Go
    /\ regs' = [regs EXCEPT ![Now.dst] = Word(SlotWord(Now.slot))]
    /\ UNCHANGED <<code, sp, mem, wrong, strayed, status>>

DoStoreSlot ==
    /\ At("store_slot") /\ Go
    /\ LET a == SlotWord(Now.slot) IN
         /\ mem' = WithWord(a, regs[Now.src])
         /\ strayed' = (strayed \/ ~(sp <= a /\ a < 0))
    /\ UNCHANGED <<code, regs, sp, wrong, status>>

DoPush ==
    /\ At("push") /\ Go
    /\ sp' = sp - 1
    /\ mem' = WithWord(sp - 1, regs[Now.src])
    /\ UNCHANGED <<code, regs, wrong, strayed, status>>

DoPop ==
    /\ At("pop") /\ Go
    /\ regs' = [regs EXCEPT ![Now.dst] = Word(sp)]
    /\ sp' = sp + 1
    /\ UNCHANGED <<code, mem, wrong, strayed, status>>

(* The value is new: every copy of what it was before is out of date. *)
DoCompute ==
    /\ At("compute") /\ Go
    /\ regs' = [Forget(regs, {Now.value}) EXCEPT
                   ![Now.dst] = IF Found(Now.reads) THEN Value(Now.value) ELSE Junk]
    /\ mem' = Forget(mem, {Now.value})
    /\ UNCHANGED <<code, sp, wrong, strayed, status>>

DoClobber ==
    /\ At("clobber") /\ Go
    /\ regs' = [regs EXCEPT ![Now.dst] = Junk]
    /\ UNCHANGED <<code, sp, mem, wrong, strayed, status>>

DoStoreMem ==
    /\ At("store_mem") /\ Go
    /\ wrong' = (wrong \/ ~Found(Now.reads))
    /\ UNCHANGED <<code, regs, sp, mem, strayed, status>>

(* rsp is moved by 40 bytes around every call. *)
CallWords == 5

(* The callee keeps the convention too: it may use what it need not save. *)
DoCall ==
    /\ At("call") /\ Go
    /\ wrong' = (wrong \/ \E k \in 1..Len(Now.args) : ~ArgFound(Now.args, k))
    /\ regs' = [r \in Register |->
                  IF r = rax THEN Value(Now.value)
                  ELSE IF r \in CALLEE_SAVED THEN Forget(regs, {Now.value})[r] ELSE Junk]
    /\ mem' = LET kept == [a \in {b \in DOMAIN mem : b >= sp - CallWords} |-> mem[a]]
              IN  Forget(kept, {Now.value})
    /\ UNCHANGED <<code, sp, strayed, status>>

(* Where code without branches ends up, from the instruction at p. *)
Destination(p) ==
    LET jumps == {q \in p..Len(code.at) : code.at[q].op = "jmp"}
    IN  code.at[CHOOSE q \in jumps : \A j \in jumps : q <= j].block

(* The condition is not 0, or it is: the constants are abstracted. *)
DoJnz ==
    /\ At("jnz")
    /\ \E taken \in BOOLEAN :
         /\ pc' = IF taken THEN pc + 1 + Now.over ELSE pc + 1
         /\ wrong' = \/ wrong \/ ~Found(Now.reads)
                     \/ Destination(pc') # IF taken THEN Now.yes ELSE Now.no
    /\ UNCHANGED <<code, regs, sp, mem, strayed, status>>

(***************************************************************************)
(* In the IR, the jump gives the parameters of the block the values passed *)
(* for them, all at once; in the machine those are in registers.           *)
(***************************************************************************)
PassedIn(k, r) ==
    ArgFound(Now.args, k) /\ r = ARG_REGISTERS[k]

DoJmp ==
    /\ At("jmp")
    /\ pc' = code.block[Now.block]
    /\ LET new == {Now.params[k] : k \in 1..Len(Now.params)} IN
         /\ regs' = [r \in Register |->
                       IF \E k \in 1..Len(Now.args) : PassedIn(k, r)
                       THEN Value(Now.params[CHOOSE k \in 1..Len(Now.args) : PassedIn(k, r)])
                       ELSE Forget(regs, new)[r]]
         /\ mem' = Forget(mem, new)
    /\ UNCHANGED <<code, sp, wrong, strayed, status>>

(* push rbp, mov rbp, rsp, and sub of the size, rounded up to 16 bytes. *)
DoEnter ==
    /\ At("enter") /\ Go
    /\ mem' = WithWord(sp - 1, regs[rbp])
    /\ regs' = [regs EXCEPT ![rbp] = Address(sp - 1)]
    /\ sp' = sp - 1 - (Now.words + (Now.words % 2))
    /\ UNCHANGED <<code, wrong, strayed, status>>

(* mov rsp, rbp and pop rbp. *)
DoLeave ==
    /\ At("leave") /\ Go
    /\ regs' = [regs EXCEPT ![rbp] = Word(regs[rbp][2])]
    /\ sp' = regs[rbp][2] + 1
    /\ UNCHANGED <<code, mem, wrong, strayed, status>>

DoRet ==
    /\ At("ret") /\ Go
    /\ wrong' = (wrong \/ regs[rax] # Value(Now.value))
    /\ status' = IF Word(sp) = ReturnAddress THEN "returned" ELSE "lost"
    /\ sp' = sp + 1
    /\ UNCHANGED <<code, regs, mem, strayed>>

Step ==
    \/ DoMov \/ DoLoadSlot \/ DoStoreSlot \/ DoPush \/ DoPop
    \/ DoCompute \/ DoClobber \/ DoStoreMem \/ DoCall
    \/ DoJnz \/ DoJmp \/ DoEnter \/ DoLeave \/ DoRet
=============================================================================
