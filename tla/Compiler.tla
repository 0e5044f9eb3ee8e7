-------------------------------- MODULE Compiler --------------------------------
(***************************************************************************)
(* From the IR to a call of the compiled code: a caller builds a function, *)
(* the verifier accepts it, the allocator is given its live ranges, code   *)
(* is generated from the allocator's answer, and the machine runs it.      *)
(***************************************************************************)
EXTENDS CodeGen

CONSTANT N   \* bound: the functions compiled have N values

ASSUME ValuesAssumption == N \in Nat

(* The pool is a list of registers without repetition. *)
ASSUME RegistersAssumption ==
    /\ GENERAL_PURPOSE \in Seq(Register) /\ IsInjective(GENERAL_PURPOSE)
    /\ ARG_REGISTERS \in Seq(Register)
    /\ NoReg \notin Register

(* The convention: what arguments come in and lowerings borrow is not saved. *)
ASSUME ConventionAssumption ==
    /\ CALLEE_SAVED \cap (ArgRegisters \cup {rax, rcx, rdx, r10, r11}) = {}
    /\ rbp \in CALLEE_SAVED

(***************************************************************************)
(* No register is twice in the list of the argument registers, or is lent  *)
(* for two purposes; rcx and rdx may take arguments, the others do not.    *)
(***************************************************************************)
ASSUME BorrowedAssumption ==
    /\ IsInjective(ARG_REGISTERS) /\ IsInjective(<<rax, rcx, rdx, r10, r11>>)
    /\ {rax, r10, r11} \cap ArgRegisters = {}

(* More of them, and compile_function reads past the end of ARG_REGISTERS. *)
ASSUME ParamAssumption ==
    MaxArgs <= Len(ARG_REGISTERS) /\ MaxParams <= Len(ARG_REGISTERS)

VARIABLES running, runs, m_free, ranges, next, active, stack_offset

allocator == <<running, runs, m_free, ranges, next, active, assignments, spills,
               stack_offset>>

vars == <<func, allocator, code, machine>>

Alloc == INSTANCE LinearScan WITH
            Index <- Nat, Reg <- Register,
            Hint <- ArgRegisters, Pool <- GENERAL_PURPOSE, MaxRuns <- 1

CompilerInit ==
    /\ Init
    /\ Alloc!Init
    /\ code = [at |-> <<>>, block |-> <<>>]
    /\ pc = 0
    /\ regs = <<>>
    /\ sp = 0
    /\ mem = <<>>
    /\ wrong = FALSE
    /\ strayed = FALSE
    /\ status = "idle"

-----------------------------------------------------------------------------
Build ==
    /\ runs = 0
    /\ Next
    /\ UNCHANGED <<allocator, code, machine>>

(* Arguments and block parameters ask for the register they come in. *)
HintOf(v) ==
    LET Comes(k) == \/ k <= Len(func.args) /\ func.args[k] = v
                    \/ \E b \in Blocks(func) :
                         k <= Len(Params(func, b)) /\ Params(func, b)[k] = v
    IN  IF \E k \in 1..Len(ARG_REGISTERS) : Comes(k)
        THEN ARG_REGISTERS[CHOOSE k \in 1..Len(ARG_REGISTERS) : Comes(k)]
        ELSE NoReg

HintedRanges ==
    LET live == compute_live_ranges(func) IN
    [k \in 1..N |-> [start |-> live[k - 1].start, end |-> live[k - 1].end,
                     hint  |-> HintOf(k - 1)]]

(* Neither verify_function throws nor compute_live_ranges: on to the allocator. *)
Compile ==
    /\ Accepted /\ Analysable(func)
    /\ func.blocks # <<>> /\ func.types = N
    /\ ranges' = HintedRanges
    /\ Alloc!Run
    /\ UNCHANGED <<func, code, machine>>

Allocate ==
    /\ Alloc!Expire \/ Alloc!Place
    /\ UNCHANGED <<func, code, machine>>

(* The allocator answers, the code is emitted, and the caller calls it. *)
EmitAndCall ==
    /\ Alloc!Return
    /\ code' \in compile_function
    /\ Start(func.args)
    /\ UNCHANGED func

Execute ==
    /\ Step
    /\ UNCHANGED <<func, allocator>>

CompilerNext == Build \/ Compile \/ Allocate \/ EmitAndCall \/ Execute

CompilerSpec == CompilerInit /\ [][CompilerNext]_vars

-----------------------------------------------------------------------------
(* Properties *)

(***************************************************************************)
(* The functions whose ranges cover liveness (see IRPasses): operands are  *)
(* defined before they are used, in the text and on every path, brifs pass *)
(* no values, loops read nothing from outside.  No edge goes back to the   *)
(* entry block, which has the arguments of the function and no parameters  *)
(* of its own, and a call passes no more than the argument registers hold. *)
(***************************************************************************)
Regular ==
    /\ Checked /\ PlainBranches
    /\ LET live == LiveBefore IN
         /\ ClosedLoops(live)
         /\ \A v \in Values(func) : 0 \notin live[v]
    /\ EntryOnce /\ Params(func, 1) = <<>>
    /\ \A item \in ToSet(Layout(func)) :
         item.op = "call" => Len(item.operands) <= Len(ARG_REGISTERS)

(* No more ranges at any index than registers, and every value is used. *)
Unpressed ==
    LET live == compute_live_ranges(func) IN
    /\ compute_max_live(live) <= Len(GENERAL_PURPOSE)
    /\ \A v \in DOMAIN live : live[v].end >= live[v].start

CompilerTypeOK ==
    /\ Alloc!TypeOK
    /\ status \in {"idle", "running", "returned", "lost"}
    /\ wrong \in BOOLEAN /\ strayed \in BOOLEAN
    /\ status = "running" => pc \in 1..Len(code.at)
    /\ status # "idle" => DOMAIN regs = Register

(***************************************************************************)
(* When the allocator answers, no two values that have one register are    *)
(* needed at one place: where a value is written, and on every path from   *)
(* there to where it is read, its register is its own.                     *)
(***************************************************************************)
NeededAt(live, v, p) == p = Ranges[v].start \/ (p > Ranges[v].start /\ p \in live[v])

RegistersServeInTurn ==
    running /\ next = N + 1 /\ Regular =>
        LET live == LiveBefore IN
        \A v, w \in Values(func) :
            v # w /\ RegOf(v) # NoReg /\ RegOf(v) = RegOf(w) =>
                \A p \in Positions(Line) : ~(NeededAt(live, v, p) /\ NeededAt(live, w, p))

(***************************************************************************)
(* Whatever the compiled code stores, passes, branches on or returns is    *)
(* the value that the IR says, on every path, spilled or not, as long as   *)
(* no slot it has written is outside of its frame.                         *)
(***************************************************************************)
ComputesTheIR == wrong /\ ~strayed => ~Regular

(***************************************************************************)
(* Code that needs no slots goes back to its caller with the stack and the *)
(* callee-saved registers as they were, from whichever ret it leaves by.   *)
(***************************************************************************)
CallerAsItWas ==
    /\ status = "returned" /\ sp = 1 /\ ~strayed
    /\ \A r \in CALLEE_SAVED : regs[r] = IF r = rbp THEN Address(CallerFrame) ELSE Saved(r)

GivesBackItsRegisters ==
    status \in {"returned", "lost"} /\ ~CallerAsItWas => ~(Regular /\ Unpressed)

(***************************************************************************)
(* The convention wants rsp to be a multiple of 16 where a function is     *)
(* called, as it was, before the return address, where this one was.  It   *)
(* is one exactly in the functions whose prologue pushes an even number of *)
(* words, one for each register saved and one for a frame: on no path does *)
(* anything before the call leave a word on the stack, and the 40 bytes of *)
(* the call do not depend on what the prologue has pushed.                 *)
(***************************************************************************)
IsAligned == (sp - CallWords) % 2 = 1

Pushed == code.block[1] - 1   \* each instruction of the prologue is a push or enter

CallsAreAligned == At("call") => (IsAligned <=> Pushed % 2 = 0)

-----------------------------------------------------------------------------
(* What is said of the code, and the code does not do *)

(***************************************************************************)
(* allocation.hpp:19-20: where a value is live it holds a register or a    *)
(* stack slot, so that code that uses it finds it.  The frame has fewer    *)
(* words than the allocator gives slots: it counts the ranges at a peak,   *)
(* and slots are not given back, nor are unused values counted.            *)
(***************************************************************************)
HoldsItsValues == wrong => ~Regular

(***************************************************************************)
(* README.md:16, "Linux (system v)": a function returns to its caller.     *)
(* With a frame, the saved registers are pushed before enter but popped    *)
(* before leave, and ret takes what was pushed for an address.             *)
(***************************************************************************)
ReturnsToItsCaller == status = "lost" => ~Regular
=============================================================================
