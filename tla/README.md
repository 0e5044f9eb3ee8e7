# A verification development for amd64

This directory holds TLA+ modules that model the JIT compiler in `src/`, the TLC
configurations that model-check them on small instances, and theorems about them
that TLAPS checks for every value of the constants. Paths below are relative to
`src/include/amd64/` unless they say otherwise.

## 1. The system

A caller builds a function in an SSA intermediate representation, either through
`function_t` or from text. `compile_module` verifies every function, computes
the live range of every value, gives every value a register or a stack slot, and
writes machine code into a buffer through an assembler; then it makes the buffer
executable and hands out the entry points. Everything runs in the caller's
thread. There are no threads, no messages and no persistent state: what is hard
here is the *order of steps over shared mutable structures* (the pool of
registers, the list of active values, the fixups of the labels, the position in
the buffer), *exceptions in the middle of an operation*, and the *agreement of
passes* that each have their own idea of what a value, an index or a function is.

| Component | Source | State it keeps | Operations |
|---|---|---|---|
| IR and builder | `ir/ir.hpp` | `args`, `types`, `blocks`, `param_indices` of a function; the functions of a module | `create_function`, `create_block`, one member per instruction, through `emit`, `emit_term`, `load`, `store` |
| Verifier | `codegen/verify.hpp` | the set of values defined so far in the walk | `verify_function`, `verify_module` |
| Live ranges | `codegen/codegen.hpp` 64-209 | none: two functions of the IR | `compute_live_ranges`, `compute_max_live` |
| Register allocator | `codegen/allocation.hpp` | `m_free` (lives as long as the object); in a call: `active`, `assignments`, `spills`, `stack_offset` | `run`, `expire_old_intervals`, `spill_at_interval`, `insert_sorted_by_end` |
| Code generator | `codegen/codegen.hpp` 211-586 | the position of the prologue, the labels of the blocks, the callee-saved registers in use | `compile_function` and the lowering of each instruction |
| Compile session | `codegen/codegen.hpp` 47-57, 512-525 | the table of compiled functions; the assembler, which outlives the call | `compile_module`, `get_function` |
| Assembler | `assembler/assembler.hpp` | `m_labels`: target and fixups of every label | one member per machine instruction, `label`, `bind`, `jmp`/`jcc`, `patch_at`, `commit`, `entry_at` |
| Code buffer | `memory/buffer.hpp` | `m_pos`, the memory and its protection | `write_byte(s)`, `write_imm`, `skip`, `make_exec` |
| Instruction encoding | `core/encode.hpp`, `assembler/registers.hpp`, `assembler.hpp` 90-278 and 287-369 | none | `rex`, `mod_rm`, the `emit_*` helpers, the members that write instructions |
| Text IR | `ir/fmt.hpp`, `ir/parser.hpp` | the lexer's position and the next token; the parser's map from written ids to ids, and the function it is in | `to_string`, the lexer, `parse_module` |
| Entry point, examples, tests | `src/source`, `src/examples`, `src/tests` | none of their own | read for what the code promises |

How they interact: all calls are synchronous. The builder's ids are the keys of
every later map. The verifier's acceptance is the only precondition of code
generation. The indices of `compute_live_ranges` are the time line of the
allocator. The allocator's two maps are what every lowering reads its operands
from. The lowerings write through one assembler, whose labels tie together
places of the buffer that are written at different times; the prologue is
patched into space reserved for it when the body is done.

What makes each component correct, and what is hard about it:

* **Register allocator.** Two values that need a home at the same index never
  share one; each value has exactly one home; a register is never lost or given
  out twice; it spills only under pressure, and the value that ends last; it
  returns. Hard: all of it rests on `active` staying sorted through every
  insertion, expiry and theft, which a test on five ranges hardly reaches, and
  on what happens to values that are never used (`end` is 0, before `start`).
* **Assembler and buffer.** Every jump lands where its label is bound, however
  jumps, binds, rebinds and labels interleave; no patch touches bytes that are
  not its own; the position never leaves the buffer. Hard: an overflow throws
  between two chunks of one instruction; a backward displacement is copied
  *before* the end of the buffer is checked; the caller may catch and go on.
* **Builder, verifier, live ranges.** Ids are unique; an accepted function can
  be analysed and laid out in a line; a range lasts for as long as its value is
  needed on any path. Hard: the passes enumerate instruction types separately,
  so one can forget a case the others have; text order is not control flow.
* **Code generator.** A compiled function computes what the IR means, restores
  the callee-saved registers and the stack pointer, and stays in its frame.
* **Compile session.** A call goes to the function it names; what is handed out is
  whole, and so is all that it calls. Hard: any function may throw, at any of its
  calls or writes, and the caller may go on with the same assembler; the verifier
  and the compiler look for the target of a call in different places.
* **Encoding.** The processor reads what the member stands for, and ends where the
  next instruction begins. Hard: the exceptions of the format (SIB, REX for bytes)
  concern a few registers out of sixteen.
* **Text IR.** Parsing a formatted module gives it back; an accepted text means
  what it says; every text gets an answer. Hard: 25 productions written by hand on
  each side, ids that must match those of the builder, and a map of ids that
  outlives a function.

## 2. The modules

    LiveRange ──┬── RegAlloc                       (abstract: what an allocator promises)
                └── LinearScan ── MCLinearScan     (register_alloc_t, one loop iteration a step)
                        └── LinearScanProofs       (with SequenceLemmas)

    Assembler ──┬── MCAssembler                    (Assembler over buffer_t, one write a step)
                └── AssemblerProofs

    IR ──┬── Builder ────┐
         ├── Verifier ───┼── IRPasses ──┬── MCIRPasses
         └── LiveRanges ─┘              └── IRPassesProofs          (with SequenceLemmas)

    IRPasses ──┬── CodeGen ── Compiler ──┬── MCCompiler             (LinearScan is an instance)
    Machine ───┘                         └── CompilerProofs ── ContentsProofs
                                             (with IRPassesProofs, and LinearScanProofs as an instance)

    Builder ──┬── Parser ──┐
    Text ─────┘            ├── TextToCode ──┬── MCTextToCode
    Verifier ──── Session ─┘                └── TextToCodeProofs
                                                (with SequenceLemmas)

    Decoder ── Encoding ──┬── MCEncoding
                          └── EncodingProofs

**LinearScan** models `register_alloc_t`. `Run` begins a call with any vector of
ranges, sorted as line 46 sorts it (the order of equal starts is left open, as
`std::ranges::sort` leaves it). `Expire` is one iteration of the loop of
`expire_old_intervals`; when it can do no more, one of `TakeHint`, `TakeFree`,
`StealFromLast` and `SpillCurrent` places the current interval (the branches of
lines 58-86, with `spill_at_interval` 107-131); `Return` hands the maps over and
drops the locals, but not `m_free`, which is the object's. `active` is the
code's vector, with `std::ranges::upper_bound` by its specification. A value is
named by the position of its range in the sorted vector.

**RegAlloc** is the abstract allocator: homes are given one value at a time, the
maps form a valid allocation after every step, a value may move from a register
to a slot and never back, and the answer comes when all have a home. It knows
nothing of pools, expiry or order.

**Assembler** models `Assembler` over `buffer_t`. An operation puts the chunks it
writes in `pending`; `Write`, `WriteForward` and `WriteBackward` write one chunk
each and check the end of the buffer as `write_bytes` and `skip` do; `Overflow`
is the exception, which leaves the first chunks of an instruction behind.
Bytes are abstracted to sizes, but for the 4-byte displacement of a jump
(`fields`). `Bind` patches the fixups, `Patch` is `patch_at` as `compile_function`
uses it (over nops, before the commit), `Commit` makes the buffer read-only;
writing after that is `WriteToExec` / `BindInExec`, which kill the process.
A rebind is allowed, as in the code; `boundAt` records every position a label was
bound at, for the properties only.

**IR**, **Builder**, **Verifier**, **LiveRanges**: a function as a record, the
members that grow it as actions, `verify_function` as the condition `Verified`
under which it does not throw, `compute_live_ranges` and `compute_max_live` as
operators. The 25 instructions fall into 13 classes, those that some part tells
apart; to the passes before code generation, shifts, divisions and comparisons
are binary. The builder checks nothing, so neither do the actions: `Ahead` lets a
caller name ids and blocks that do not exist (yet). Blocks count from 1 instead
of 0. **IRPasses** puts the passes together and adds a reference: liveness by
dataflow over the real edges (`LiveBefore`), written without looking at ranges.

**Machine**, **CodeGen**, **Compiler**: what becomes of a function after the
verifier. `Machine` has registers, `rsp`, the stack in words and one action per
kind of machine instruction. A register or a word contains a *meaning*: a value of
the IR, what the caller had in a register, an address, the return address, or
junk. An instruction that computes carries the registers it reads and the values
the IR says they hold (`reads`): it leaves the new value if it finds these, and
junk if not; a store, branch, call or ret that does not find them sets `wrong`.
Defining a value turns its older copies into junk (`Forget`), so that a value of
the last turn of a loop is not taken for this turn's. This is how the machine is
compared with the IR's own meaning without numbers. `CodeGen` is `compile_function`:
`In`, `Fetch`, `dest_register`, `store_if_spilled` and `bind_call_args` as in the
code, one operator per lowering, the head of a block, the frame, the prologue and
the epilogues; the order of `used_callee_regs`, that of an `unordered_map`, is left
open. `Compiler` puts it all together, with the specifications above as they are: a
caller builds a function (`Build`: `Builder`), `Compile` takes a function for which
neither the verifier nor `compute_live_ranges` throws and gives its `HintedRanges` to
`LinearScan` (`Run`), whose indices are the naturals here, `Allocate` is the loop of
the allocator, `EmitAndCall` takes its answer, emits the code and calls it as a
caller that keeps the System V convention, and `Execute` is a step of the machine.
A callee keeps the convention too: it leaves junk in every register that it need
not save, and below the stack pointer.

**Text** has the lexemes of the text, what the lexer makes of one, and `to_string` as
operators. It adds to `IR` what only the text tells apart, an instruction's name,
constant, offset, comparison and width. Since a text is a sequence of lexemes,
how characters make them is left out. **Parser** is `parser_t`: a step is one
iteration of one of its loops, with the head of a function, the head of a block or
an instruction; `RetAt` to `CallAt` are its productions, each the set of the
instructions (one or none) that `expect` finds from a position on; `CheckIds` and
`resolve` are `check_id` and `resolve`. `Refuse` is the exception, which loses the
module, so that it does not matter where in a production it is thrown.
`Modulus` stands for the 2^32 numbers of a `Value`.

**Session** is `compile_module` and what a caller makes of it. The code of a function
is one piece of the buffer, which knows the pieces that its calls go to.
`CompileFunction` compiles a whole function and enters it into the table;
`LiveRangesThrow`, `CallTargetNotFound` and `Overflow` are the exceptions in the middle,
the last two with some of a function written; `Commit` and `CommitFails` are the
end; `WriteToExec` is the write to a buffer that is read-only, which kills the
process. **TextToCode** puts it behind the parser, in the order of
`src/examples/textual_ir.cpp`: a caller builds a module (with the actions of
`Builder`), writes it out (`Write`), maybe with one slip in the text
(`WriteAndEdit`: lexemes cut out, doubled or replaced), and reads it in again; it
compiles what it built or read, and again after a failure or a success, with
the functions in another order.

**Encoding** has the members of `Assembler` that write instructions, each as a piece:
its bytes, and the assembly it stands for; `EmitAccess` adds the loads and stores of the
IR, for which the code generator chooses the member by width and sign. **Decoder** is the other side, what an
x86-64 processor reads, for the opcodes and the forms of ModRM that occur. It is
written from the format and not from the code: tables of opcodes with the order
and width of their operands, prefix, REX, SIB, displacement and immediate.

The operators whose comments begin with *A seeded fault* are the plausible bugs
the properties were tried against: put in the place of the definition that
follows it, each makes TLC report the property named with it in `PROJECT.json`.
No specification and no run uses them.

## 3. The runs

| Run | Instance | What it shows |
|---|---|---|
| `linear_scan` | 4 ranges over indices 0-3, 2 registers, hints to one of them or to none, 2 calls on one object | the safety properties, `Returns`, and that every behaviour is one of `RegAlloc` |
| `assembler` | 12 bytes, one two-chunk instruction (3+3), `nop(3)`, jumps with 2-byte opcodes, 2 labels, 2 binds each | `JumpsLand`, `FixupsAreExact`, `FieldsAreApart`, `OnlyBindMovesJumps` under every interleaving |
| `ir_verify` | functions of ≤ 2 blocks, ≤ 2 instructions of all ten classes, one id ahead | ids are unique; what the verifier accepts, with its missing cases filled in, can be analysed; no block falls through |
| `live_ranges` | ≤ 3 blocks, ≤ 4 instructions, every control-flow graph, loops included | ranges cover liveness where section 4 does not say otherwise; they are what the allocator takes; the peak is a peak |
| `compiled_lines` | ≤ 2 arguments, ≤ 2 blocks, ≤ 3 instructions of all classes but `brif`, ≤ 2 values passed to a block or call, 4 values; 1 register | `ComputesTheIR` where nearly everything is spilled, and `CallsAreAligned` |
| `compiled_branches` | ≤ 2 arguments, ≤ 3 blocks, ≤ 4 constants, branches, jumps and rets, 3 values; 2 registers | `RegistersServeInTurn`, `ComputesTheIR` on every path, and `GivesBackItsRegisters` |
| `text_to_code` | a function of ≤ 2 blocks and ≤ 2 instructions, one or two of each class, or two functions with 3 instructions, calls and rets; every such text, and every slip in one of ≤ 25 lexemes; 2 calls of `compile_module` | that texts are read as they were written, that what is accepted means what it says, and all of the compile session |
| `encodings` | every member with all 16 registers (all pairs where it takes two), three numbers, the sizes 0, 8 and 16; each followed by `ret`, `cqo` or `nop` | what the processor reads in the bytes, and where it ends |
| `branch_arguments`, `loop_carried`, `small_frames`, `frames_and_saves` | the smallest functions that show it | 2 to 5 of section 4 |

The properties, by the hazard they are for:

* `NoInterference`: two values in one register never need it at the same index.
  `LastPoint` makes an unused value need its register where it is written.
* `OneHomeEach`: after the loop has passed a value it is in exactly one map
  (else `in_register` throws, or one home is written and the other read), and
  the slots are -8, -16, … without gap or repetition.
* `RegistersConserved`, `HoldersAreLive`: `m_free` and the values in `active`
  partition the pool (in a first call; a later one starts with what is left), and
  after expiry `active` is *exactly* the assigned values that reach the current
  interval: expiry, which stops at the first value still alive, missed nobody.
* `SpillsOnlyUnderPressure`, `SpillsFurthestEnd`: quality as the code intends it.
* `Returns`: `running ~> ~running`.
* `IsRegisterAllocator`: `LinearScan` implements `RegAlloc`; the three variables of
  the same name are the refinement mapping.
* `JumpsLand`: read as the processor reads it, a displacement takes the jump to a
  place its label was bound at. `FixupsAreExact`: while a label has no target,
  its fixups are all the jumps to it. `FieldsAreApart`: displacements and the
  space for the prologue lie in written code and do not overlap.
  `OnlyBindMovesJumps`: a displacement changes only at a bind of its own label.
* `IdsAreUnique`, `CheckedIsAnalysable`, `NoFallThrough`, `RangesCoverLiveness`,
  `RangesFitAllocator`, `MaxLiveIsPeak`: what each pass hands the next. With
  `Input` of `LiveRange`, `RangesFitAllocator` ties the output of one model to the
  input of the other: ranges start in the order of the ids, no two at one index.
* `RegistersServeInTurn`: what the passes and the allocator are for, taken together.
  Two values in one register are never both needed at one place, where needed is
  what dataflow says and not what the ranges say. It fails if ranges are too
  short, if a register is given out too early, or if a theft leaves its mark in
  one structure and not in the other.
* `ComputesTheIR`: whatever the compiled code stores, passes, branches on or returns
  is the value that the IR says. It depends on every part at once: an error in the
  ranges, the expiry, the homes, the scratch registers of a lowering or the order
  of the pops of `bind_call_args` ends in a wrong value.
* `GivesBackItsRegisters`: a function without slots returns with the callee-saved
  registers and the stack as they were, from whichever ret it leaves by.

* `RoundTrip`: what is written is read again as it was, and refused only for the
  three reasons that `Readable` names. `AcceptedPrintsBack`, from the other side: a
  text that is accepted, after whatever slip, is the text that the module read from
  it is written as; so no mark, operand or label is missing or exchanged unnoticed.
* `AcceptedReadsAreDefined`, `ResolvesOwnIds`: values of a text are defined above their use,
  in their own function, and mean the builder's values.
* `HandedOutIsWhole`, `CallsReachTheNamed`, `CompilesInCallOrder`, `DiesOnlyAfterHandOut`:
  whatever a caller has caught before, what it is handed is whole and linked as
  the names say; which modules come through; and when the process dies.
* `ReadingEnds`: `phase = "parsing" ~> phase \in {"parsed", "refused"}`.
* `CallsAreAligned`: whatever a function pushes between prologue and call it pops again,
  so that the alignment of the stack at a call rests on the prologue alone.
* `ReadsAsMeant`, `EndsBeforeTheNext`: exactly the instructions that section 4 names
  are read as something else, and only those with the base `r12` spoil the next.

`Regular` is what `ComputesTheIR` and `GivesBackItsRegisters` are stated for: the functions whose ranges are right
(section 4, 2 and 3), that read no value before it is defined on any path (the
verifier checks it in the order of the text only), whose entry block is no target,
and whose calls pass no more than the argument registers hold.

**Bounds.** `linear_scan`: with two registers, four ranges are enough for two to
hold registers, one to be spilled and one to come after an expiry, and for a
theft to be followed by an insertion before or after what is left; four indices
allow every order of the starts and ends that matters, ties and never-used
values included; the second call begins with the pool the first has left in some
order, smaller when values were active at the end. The counts of values, registers and calls
are unbounded in the proofs. `assembler`: 12 bytes hold two jumps, or a jump and
the space of one saved register, and every operation can overflow at every
offset; 2 labels make one label's bind a danger to the other's jumps; 2 binds
are the first rebind. `MaxLabels` and `MaxBinds` also bound the proofs' actions,
but as arbitrary naturals. `ir_verify` and `live_ranges`: a use in another block, a
loop of two blocks, a block that is skipped and a diamond without its join need
three blocks; the bounds on arguments, parameters and passed values are in
the configurations. `Tidy` (a constraint of the runs about ranges) discards
functions with terminators in the wrong place, which the verifier rejects and
`ir_verify` covers. `compiled_lines` and `compiled_branches`: `OfInterest` discards
functions that the verifier will reject or that are not `Regular`. One register
makes the pressure with which any operand of any lowering is spilled, both of
two operands included; two registers make the order of saves and restores matter.
The code has five, all of them callee-saved and none of them an argument or scratch
register, and `PoolAssumption` states exactly that. `MC_Arguments` has two argument
registers, `rdx` and `rcx`, in the place of six: the two that divisions and shifts
also use, in an order in which popping the wrong way round is seen. Three blocks
and four instructions, with two arguments and a constant, hold a loop that ends, a
block that is skipped, and a branch to two rets. `ParamAssumption` keeps out more arguments than argument registers,
which read past the end of `ARG_REGISTERS`. At a `brif` both ways are open, and
`Jnz` carries the blocks that the IR goes to in each case.

`text_to_code`: `OfInterest` builds functions of two shapes. A function alone has
one instruction of any class, or two of which the first is a constant or a
conversion; with two blocks and their parameters it has every kind of lexeme that
the formatter writes and every way to name a value: of an argument, a parameter,
a result, one that comes later (`Ahead` is 2, so that a conversion can read what no
instruction defines). Modules of two functions have calls and rets; with three
instructions two calls can be in one function, one before or behind the other
function. The names `f`, `g` and the keyword `ret` are enough for a call to itself, to
the other and to none, for two functions of one name, and for a name that is
refused. `MC_Details` has the data that the text might lose: a negative constant, an
unsigned comparison, a shift by 64, signed and unsigned loads, a negative offset.
`Modulus` is 16, above the number of ids (`ModulusAssumption`) and equal to one of the
`MC_Replacements`, so that an id wraps. 25 lexemes (`MaxEdited`) are enough for a
function of one argument with an instruction of any class; an edit cuts up to four lexemes (`MaxCut`), enough
to take out a list, an operand with its comma, or a label. Two calls of
`compile_module` put a module behind what an exception has left, and a write
behind a commit. In the proofs there are no such bounds. `encodings`: the
numbers have both signs, four bytes, and a byte that looks like the SIB of `rsp`; one
instruction and its successor are enough because the processor's reading depends on
nothing that comes before.

Runs switch the deadlock check off: an allocator whose calls are used up, a full
function, code that has returned and a dead process have no next step. That `run()` never gets stuck is
`Returns`.

**Fairness.** `LinearScan` has `WF_vars(Expire \/ Place \/ Return)`: `run()` is a loop of
one thread that waits for nothing, so while it has a next step it takes it. `Run`
has none: nobody has to call. `TextToCode` has `WF_vars(Read)`: `parse_module` is a call
too, and its loops wait for nothing; building, editing and compiling have none. The
other specifications have no fairness, and no liveness property.

## 4. Disagreements found

2 to 5 are runs that must end in a violation; the others are what the properties
of a run that passes say of the code as it is.

1. **`trunc32` and `sext32` are not verified** (`AcceptedReadsAreDefined`, `CheckedIsAnalysable`).
   `verify.hpp` says that it checks all operands, but the two conversions are in
   none of its cases. An operand that does not exist is accepted, and
   `compute_live_ranges` leaves `compile_module` with `std::out_of_range`:
   `LiveRangesThrow` of `Session`, which `text_to_code` reaches. A module that was read
   from a text is safe from it, because the parser resolves every operand.
2. **Values passed by a `brif` do not extend their ranges** (`EndIsLastUse`). The second
   pass of `compute_live_ranges` counts the condition only; `compile_function`
   reads the passed values at the branch, when their registers may already
   belong to others.
3. **Ranges do not follow back edges** (`RangesCoverLoops`). A value defined before a
   loop and read in it is over at its last use in the text, although the next
   turn reads it again.
4. **A frame has too few words** (`HoldsItsValues`). It is sized by how many more
   ranges there are at the peak than registers. But a slot is never used again, so
   that spills at several peaks add up, and a value that is never used is not
   counted at the peak and still makes the allocator spill. A slot below `rsp` is
   overwritten by the next push or call; with no frame at all, slots are written
   below the `rbp` of the caller, in the caller's frame (`strayed`). `ComputesTheIR` is
   what holds of the code whose slots all lie in its frame.
5. **A function with a frame does not return** (`ReturnsToItsCaller`). The prologue
   pushes the callee-saved registers and then enters; the epilogue pops them first
   and then leaves. The pops read words of the frame, and `ret` takes what was
   pushed for the return address. With five registers it takes six live values
   to see it, and no test of the repository has as many.
6. **A base in `r12` is encoded without its SIB byte** (`ReadsAsMeant`, `EndsBeforeTheNext`).
   The low three bits of `r12` are those of `rsp`, for which alone the code writes one
   (`assembler.hpp` 335, 348, 359). The processor takes a byte of the displacement for
   it, and the first byte of the next instruction for the last of the displacement.
   `r12` is the second register of `GENERAL_PURPOSE`, so the IR reaches it with a load or
   a store through a value that has been given that register.
7. **`movsd_reg_reg` moves the other way** (`ReadsAsMeant`): the opcode is that of a load and
   the order of the registers that of a store. Nothing uses the member. Nor
   does the code generator use the byte registers that `ReadsAsMeant` excludes:
   `set_cc` of any but the first four registers, and accesses to `spl` to `dil` (a
   register of those numbers without REX is `ah` to `bh`).
8. **`udiv` is read as `idiv`** (`RoundTrip`, `AcceptedPrintsBack`). Builder, formatter and code
   generator have unsigned division; the parser builds the signed one. The one other thing that a module loses in
   its text is the sign of a 4-byte load, which the code generator does not look at.
9. **A call to the function itself verifies and does not compile** (`CompilesInCallOrder`).
   The verifier, and a test of it, accept a call to any function of the module; the
   compiler knows those it has compiled, and throws.
10. **`load.i32` and `store.i32` move 8 bytes** (`ReadsAsMeant`). The code generator has cases
   for the widths 1 and 2 and takes all others for 8, so that a store overwrites
   the 4 bytes after its own.
11. **The stack is aligned at a call only by chance** (`CallsAreAligned`). `call` moves `rsp` by 40
   bytes, whatever the prologue has pushed: right for an even number of words,
   wrong for one saved register without a frame, or two with one.
12. **`store.i8s` is accepted** (`AcceptedPrintsBack`). The documentation has signed kinds for loads only, but
   the production of the store calls the `parse_load_kind` of the load and drops the sign it answers, so that
   `store.i8s` and `store.i16s` are written back as `i8` and `i16`. Found when the property, which did
   not except them, could not be proved; no edit of the run had put such a kind in yet.

Besides, with no statement in the repository that says otherwise: the sign of a
negative hexadecimal literal is lost (`ValueOf`), numbers of values and offsets are
cast to 32 bits (`CheckIds`, `Int32`), and a second function of a name takes the table's
entry of the first.

`RangesCoverLiveness` says where ranges *are* right: no values on brifs, and
loops that read nothing from outside but their block parameters. Both conditions
are stated over the function, not over the ranges. `EntryOnce` keeps jumps to the
entry block, which the code treats differently again, out of 2 and 3.

## 5. What is proved

`LinearScanProofs`, `AssemblerProofs`, `IRPassesProofs`, `CompilerProofs`, `ContentsProofs`,
`TextToCodeProofs` and `EncodingProofs`, and the lemmas about sequences
in `SequenceLemmas`. The constants are arbitrary but for the named assumptions of
the modules: numbers and bounds are naturals, the pool is a sequence of distinct
registers (`PoolAssumption`, `RegistersAssumption`), hints are registers, `NoReg` is not
one, the chunks of an instruction are not empty. For the compiler: what the
lowerings borrow and arguments come in is neither in the pool (`PoolAssumption` of
`CodeGen`) nor saved by a callee, and `rbp` is (`ConventionAssumption`); no register takes two arguments
or is lent for two purposes, and `rax`, `r10` and `r11` take none (`BorrowedAssumption`), as the lists
at the head of `codegen.hpp` and the System V convention have it; and neither a function nor a
block takes more values than there are argument registers (`ParamAssumption`, section 3).
That the buffer is smaller than 2 GiB (`Int32Assumption`) is what makes displacements
exact integers in the model; no proof step needs it.

**Allocator.** `NoInterference` is not inductive: giving a register out again is safe
only if its former owner ended before everything still to come. `IInv` adds
`BetweenCalls` (a call starts from a clean state), `ActiveSorted` (`active` is in order
of end and holds placed values), `ExpiredAreOver` (an assigned value that is no
longer active ended before the start of every interval still to come, which
needs `active` sorted to survive the theft of the last) and `SlotsCounted`
(`stack_offset` counts the spilled). There is one lemma per action and one step per
conjunct; the facts about `erase`, `insert`, `push_back` and `pop_back` on sequences
are in `SequenceLemmas`. Proved from it: `TypeCorrect`, `RegistersAreNotShared`,
`HomesAreUnique`, `RegistersAreConserved`, `ActiveIsExact`, `FurthestEndIsSpilled` (an
action property), and `ImplementsRegAlloc`: every step is a step of `RegAlloc` or
leaves its variables alone. `SpillsNeedPressure` counts: when a first call finds no
register free, `RegistersConserved` says that the active values hold the whole pool,
each its own register, and `ActiveReach` that all of them reach the current
interval; with the current value, which is not active, that is one more than the
pool has (lemmas `Pressure` and `StepPressure`). That homes come from the pool
(`HomesFromPool`) is kept for the compiler, which borrows only registers outside of it.

**Assembler.** `JumpsLand` is not inductive: that a bind makes the jumps of its label
land needs every unresolved jump to be among the fixups and every fixup to be a
jump to that label. `IInv` adds `PendingOK` (a displacement about to be written
names a label there is, and has four bytes) and `TargetsAreBound` (a target is
where the label was bound last). Proved: `TypeCorrect`, `EveryJumpLands`,
`NoJumpIsForgotten`, `PatchesStayApart`, and `ResolvedJumpsStay`, the action property.

**Passes.** `IdsAreUnique` speaks of the text of a function, the ranges of the line that the
blocks are laid out in, and neither is a variable: both are flattenings of the
function, so that every action of the builder has to be followed through them.
`IRInv` says that the function is well formed and well typed (each class has the
operands, edges and result that its member gives it), that its definitions are
exactly 0, 1, 2, …, `types` - 1 `InOrder`, and that the line is `Numbered` by them.
Whatever a member does, it puts items at the end of the line (`GrownLine` for an
instruction, `WidenedLine` for a block with its parameters), and what is numbered
stays so. From `IRInv`, for functions of any size: `BuilderTypes`,
`IdsAreHandedOutInOrder`, `CheckedFunctionsAreAnalysable`, `AllocatorGetsRanges` and
`BlocksDoNotRunOn`. `RangesLastAsLongAsNeeded` is about a function defined by recursion,
`LiveBefore` with the number of steps a path may take: if a value is needed before a
position within n steps, its range reaches there. That is an induction over n, along the set
of the numbers for which it is true, and not over data. A step along the line or
forward over an edge is in the range because the place it leads to is; a step
back over an edge there is not, because into a closed loop no value is live.
`MaxLiveIsThePeak`: from any place of the line one can go back to where the last of the
ranges there begins and loses none of them, and that is a bound that
`compute_max_live` looks at.

**Compiler.** Code is a sequence that `CodeGen` puts together from a whole function, so
nothing is said of it instruction by instruction; it is said by composition. `Fits`
is the rule of one instruction at one height of the stack, `Flow` that a code has a
height at each place, `Runs` that it takes height a to height b. There is a lemma for
each lowering, and lemmas for one code behind another (`RunsTogether`), for a row of
codes (`RowsRun`, for the pushes and pops of `bind_call_args`) and for the flattening of
any number of lowerings and blocks (`PlainFlat`, `ClosedFlat`). `CodeIsWellBuilt` is what comes of
them: the code of any function has one height at each place, however it is
reached, all blocks begin at the height of the body, and calls are made there. Code is
*bare* if it has neither frame nor slot; then a pop below the height of the saved
registers restores the one that was pushed there, in `Fits`. `RunTime` relates the
machine to this: `sp` is at the height of the place, the words below the body hold
what the prologue saved, and a register that is not saved has not been written
(`Underway`). There is a lemma for each kind of machine instruction. `CompilerInv` is that with
`IRInv` and the inductive invariant of the allocator, which comes over from
`LinearScanProofs` by instance (`AllocP`), since every step of the compiler is a step of
the allocator or leaves it alone (`TheAllocatorRuns`). Proved: `CompilerTypes`,
`CallsKeepTheAlignment`, and `RegistersAreGivenBack`, which needs that a function whose
peak does not exceed the pool, and whose values are all used, is bare. That is a count (`UnpressedIsBare`): the
allocator spills only with more values at one place than registers
(`StepPressure`), as many ranges are then at the peak, and the peak is what
`compute_max_live` finds.

Two theorems join what other modules prove. `EveryFunctionIsAllocated`: the ranges of
a function that can be analysed, with any hints, are in `Input`, so that what is
proved of the allocator from its input on is true of every function. `NoRegisterIsNeededTwice`:
ranges cover what is needed on any path, and the allocator keeps ranges that
overlap apart; so no register is needed by two values at one place.

**Contents.** `CompiledCodeComputesTheIR` is what the parts are for: whatever the code stores,
passes, branches on or returns is the value that the IR names. Its invariant says for each
place of the code which values are where, in the manner of `Flow` for heights. A
*claim* is a set of pairs of a register, a slot or a pushed word with a value of the IR;
`Carries` is the rule of one instruction, which finds its operands in the claim before
it and leads to the claim behind it; `Leads` is the rule of a code, and composes.
Between two items of the line the claim is `Note`: each value that is needed there is
in its home; where one is needed that the line has not made yet, no path leads. Through a lowering it goes step by step, over what is borrowed for it
(`rax`, `rcx`, `rdx`, `r10`, `r11`), the pushes and pops of `bind_call_args`, each an
induction over the number of arguments, and calls, which leave the registers of the
pool alone. That writing a home destroys nothing that is needed is `InTurn`,
which comes from `NoRegisterIsNeededTwice`; that no two values share a slot, and that
no home is borrowed, comes from the allocator (`OneHomeEach`, `HomesFromPool`); `Settled` is
the sum of that. What an edge
leads to is live where it is taken, which is a step of `LiveBefore`; the parameters of
its block get theirs from the argument registers (`Target`). `CodeClaimed`
says all that of the code of a function, and `Rightly` of the run: the claim at `pc` is
true of registers, slots and stack, and nothing has been wrong, or a slot was written outside of
the frame. There is a lemma for each machine instruction, and `ContentsInv` is all that with
`CompilerInv`, `FromPool` and the bounds on parameters, from which
`ParamAssumption` gives that all of them have a register. The theorem excuses what
section 4 reports and section 6 leaves out: functions that are not `Regular`, in which
a path reads what it has not defined, ranges are too short, the entry block is a target
or a call passes too many arguments; and runs that have written a slot outside of the frame.

**Compile session.** The theorems are about `TextToCode`, so a module comes from a builder
or a text, and the only assumption used is that `MaxCompiles` is a natural number. That
what is handed out is whole needs that every table is (`Buffer`: its entries
are whole pieces of their names, and every piece calls whole pieces), the current
one while it grows included. The other properties need to know what is in the
table: `Progress` says that behind n functions it has their names and no others, that
each function so far has called only functions before it, and, if no name
occurs twice, that its calls go where the table says; `Executable` ties the protection
of the buffer to what has been handed out, and `Ends` says how a call can end. With `IsSequence`
for the sequences and `Counters` for the rest they make `SessionInv`. There is a
lemma for each action of `Session`; the steps of parser and caller leave its
variables alone, and only have to keep `functions` a sequence. Proved: `SessionTypes`,
`WholeCodeIsHandedOut`, `CallsGoToTheNamed`, `OnlyCallsBackCompile` and
`DeathFollowsHandOut`.

**Parser** (also in `TextToCodeProofs`). An operand of an accepted text is one that the map of ids resolved, and the
verifier does not look at all operands; that each is nevertheless defined above
its use is a property of the whole reader. `ParserInv` says of the function being
read that its values are the ids handed out so far (`Numbering`) and that the map
goes one to one onto these (`Exact`). The parser only ever adds at the end, and all
values of a function are defined before its end (`AllDefinedAtEnd`), so what
resolves is defined where it is read; and what is added later does not change
what is defined before an instruction (`Continuing`, `DefinedAsBefore`).
`AnswerInv` carries that from the function to the module that is returned and to
`compile_module`, which therefore never ends with `out_of_range`. Proved: `IdsAreResolved` and
`ReadsAreDefined`, for every sequence of lexemes. Nothing but what `SessionInv`
says of the session is assumed; ids may be equal modulo any `Modulus`.

**Text** (also in `TextToCodeProofs`). `AcceptedIsPrintedBack`: `AcceptedPrintsBack` for every sequence of
lexemes, whatever its length, and every module that was written out. Its texts are made by folds over all
instructions, but no induction over them is needed: the invariant (`ReadingInv`) says that what has been
read *so far*, up to the line behind which the parser stands, is what would be written for
it (`Covers`, `Again`), and each step of the parser adds one piece at the end of both. So the lemmas come
in pairs: what the formatter writes when a function has one line, block or head more
(`TextGrows`, `TextWidens`, `TextOfCreated`), and that each production takes lexemes that say what is written for the
item it builds (`RetCovers` to `BrifCovers`, `FunctionHeadCovers`, `BlockHeadCovers`); `Laid` says which
data belong to which instruction. A body without a block (`HasEmptyBody`) is left out by the property,
and the invariant needs to remember that it has been passed. That a number in the text and the id it stands
for are the same as Values comes from `check_id`, and that operands are written as they
were read from the one-to-one map of `ParserInv`. Besides, what a caller has built can be written at all
(`WriterInv`: its pieces are sequences of lexemes), and an edit leaves a text (`EditedIsText`).
Assumed of the constants: the details of instructions are what the members of the builder can be
given (`DetailsAssumption`: an offset has 32 bits, a comparison a condition), a lexeme put in by an
edit is one that the lexer can return (`ReplacementsAssumption`), names are not empty,
and `Native`, the model's mark of a call by address, is no name (`NamesAssumption`).

**Encoding.** `NumbersSurvive`: the four bytes of `write_imm` are read back as the number, for
every number of 32 bits. `RegistersSurvive`: `rex` and `mod_rm` give back both registers and
the width. From these, `EncodingsAreRead` and `EncodingsEnd`: `ReadsAsMeant` and
`EndsBeforeTheNext` for every register, every number of 32 bits and code of any
length, where the run has three numbers and one instruction with its successor.
What `Decode` answers depends on the bytes from where it begins (`Located`), so
that the lemmas are about pieces of code and say what is read of them wherever
they stand; they follow the processor: the ways to an opcode (`AfterRex`, `AfterPrefix`,
`Opcodes`), what the byte `ModRM` and an address behind it give (`TwoRead`, `DigitRead`,
`AddressRead`), the order of the operands (`RegThenRm`, `RmThenImm` and so on), and then one lemma
for each group of members. The inductive invariant is
`AllWellRead`: every piece is read as the properties say if what comes behind it does not
begin with one of four bytes, and begins itself with none of these. The condition
is needed: with the base `r12` the processor takes the first byte of the offset for
a SIB byte, ends one byte late, and would read what was meant after all if that
byte and the next instruction's first were both a SIB byte of `r12` (`AddressMisread`, `ReadLate`).
No member's first byte is one, and behind the end there are zeros (`Harmless`): a base in
`r12` is therefore *never* read rightly, not only in the cases that TLC tries. Likewise
none of the four kinds is ever right by chance, so that the properties are
equivalences. `EncodingAssumption` says that the numbers have 32 bits, and the
frames too when they are rounded up.

**Only model-checked.** `Returns` and `ReadingEnds`, because they rest on fairness, and `RoundTrip`.

## 6. What is not modelled, and the plan

Done in this order, because each rests on the one before: the allocator (every
operand goes through its maps), the assembler (every jump and the prologue),
the passes that feed the allocator, the code generator with all of them composed;
then the two ends, the text and the compile session around it and the bytes below
it. Left:

1. `Compiler`, widened: functions with two pressure peaks all of whose values are
   used; modules of two functions whose calls really run each other's code.
2. Proofs: refinement of `Assembler` to an abstract linker.
3. `Assembler` with the bytes of `Encoding` in the place of sizes. The two are
   separate because the one needs many operations with few sizes and the other few
   operations with all registers.

Not modelled, and why:

* An edge back to the entry block (`codegen.hpp` 263-276), parameters of an entry
  block that `create_block` made (268), more arguments than argument registers (556):
  nothing in the repository says what should happen, so the properties are stated
  for functions without them.
* What a load or store does to memory other than the stack. What the callee makes
  of a stack that is not aligned is outside of the repository.
* The reference that `create_function` returns, after the next `create_function`: what it
  does is undefined. A caller of the models builds one function after the other.
* The lexer's characters: white space, what may be in a name (one such as `bb1` is a
  block), malformed and too large literals, characters that start nothing. The
  lexemes of the models stand apart and are well formed.
* The four types: formatter and parser copy them, and neither the verifier nor the
  code generator looks at them.
* The wording of errors and which of several faults the verifier reports first;
  `get_args`; what the operating system does behind `make_exec` beyond succeeding or
  failing; the Windows build.
* The examples (`tinyc.cpp` is a language of its own on top of the builder) and the
  demo in `src/source`.

In `IR`, `LiveRanges` and `Compiler` immediate values, offsets, widths and comparison kinds
are abstracted, since those passes do not look at them.
