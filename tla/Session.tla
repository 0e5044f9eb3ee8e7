--------------------------------- MODULE Session ---------------------------------
(***************************************************************************)
(* compile_module, and what a caller makes of one assembler with it        *)
(* (src/include/amd64/codegen/codegen.hpp): the functions of a module are  *)
(* verified, compiled one after the other behind what the buffer already   *)
(* has, each entered into a table by its name, and at the end the buffer   *)
(* is made executable and the table handed out.                            *)
(*                                                                         *)
(* The code of a function is one piece of the buffer here.  An exception   *)
(* leaves compile_module with what was written still in the buffer, and    *)
(* the caller may go on with the same assembler.                           *)
(***************************************************************************)
EXTENDS Verifier

CONSTANT MaxCompiles   \* bound: calls of compile_module on one assembler

ASSUME CompilesAssumption == MaxCompiles \in Nat

VARIABLES
    mod_ir,    \* the module: a sequence of functions with their names
    next,      \* the function whose turn it is
    table,     \* gen_module_t::functions: names to pieces
    code,      \* the pieces in the buffer
    exec,      \* the buffer has been made executable, and read-only
    handed,    \* the tables that compile_module has returned
    compiles,  \* how often compile_module has been called
    outcome    \* of the last call, or "compiling"

session == <<mod_ir, next, table, code, exec, handed, compiles, outcome>>

(* Exceptions of compile_module, by where they come from. *)
Exceptions == {"verify_error", "out_of_range", "unresolved", "overflow", "make_exec"}

Outcomes == Exceptions \cup {"none", "compiling", "returned", "killed"}

SessionInit ==
    /\ mod_ir = <<>> /\ next = 0 /\ table = <<>>
    /\ code = <<>> /\ exec = FALSE
    /\ handed = <<>> /\ compiles = 0 /\ outcome = "none"

-----------------------------------------------------------------------------
Names(mod) == {fn.name : fn \in ToSet(mod)}

InstructionsOf(f) == FlattenSeq([b \in Blocks(f) |-> Instructions(f, b)])

IsNamed(inst) == inst.op = "call" /\ inst.callee # Native

(* The functions that a function calls by name, in the order of its text. *)
Calls(f) ==
    LET calls == SelectSeq(InstructionsOf(f), IsNamed)
    IN  [k \in 1..Len(calls) |-> calls[k].callee]

(* compute_live_ranges throws when an instruction reads what is no value;  *)
(* what a brif passes it does not look up, but that has been verified.     *)
Analysable(f) ==
    \A b \in Blocks(f) : \A inst \in ToSet(Instructions(f, b)) : Reads(inst) \subseteq Values(f)

(* A piece knows the piece that each of its calls goes to. *)
Piece(name, whole, targets) == [name |-> name, whole |-> whole, targets |-> targets]

Current == mod_ir[next]

Throw(reason) == outcome' = reason /\ UNCHANGED <<next, table, exec, handed>>

-----------------------------------------------------------------------------
(* verify_module: it looks for the targets of calls in the whole module. *)
Accepted(mod) == \A fn \in ToSet(mod) : Verified(fn.func, Names(mod))

(* A seeded fault: the table is one of the assembler's, not of the call's. *)
CompileModule_KeepTable(mod) ==
    /\ outcome \notin {"compiling", "killed"} /\ compiles < MaxCompiles
    /\ mod_ir' = mod /\ next' = 1
    /\ outcome' = IF Accepted(mod) THEN "compiling" ELSE "verify_error"
    /\ compiles' = compiles + 1
    /\ UNCHANGED <<table, code, exec, handed>>

(* verify_module, then a new table. *)
CompileModule(mod) ==
    /\ outcome \notin {"compiling", "killed"} /\ compiles < MaxCompiles
    /\ mod_ir' = mod /\ next' = 1 /\ table' = <<>>
    /\ outcome' = IF Accepted(mod) THEN "compiling" ELSE "verify_error"
    /\ compiles' = compiles + 1
    /\ UNCHANGED <<code, exec, handed>>

Compiling == outcome = "compiling" /\ next <= Len(mod_ir)

(* Its calls so far have gone through get_function of the table so far. *)
Resolves(names) == ToSet(names) \subseteq DOMAIN table

Targets(names) == [k \in DOMAIN names |-> table[names[k]]]

WithEntry(name, piece) ==
    [n \in DOMAIN table \cup {name} |-> IF n = name THEN piece ELSE table[n]]

(* A seeded fault: the name is in the table before its calls are resolved. *)
CompileFunction_EntryFirst ==
    /\ Compiling /\ ~exec
    /\ Analysable(Current.func)
    /\ LET names == Calls(Current.func)
           early == WithEntry(Current.name, Len(code) + 1) IN
         /\ ToSet(names) \subseteq DOMAIN early
         /\ code' = Append(code, Piece(Current.name, TRUE,
                                       [k \in DOMAIN names |-> early[names[k]]]))
         /\ table' = early
    /\ next' = next + 1
    /\ UNCHANGED <<mod_ir, exec, handed, compiles, outcome>>

(* compile_function, to its end: the last thing it does is the entry. *)
CompileFunction ==
    /\ Compiling /\ ~exec
    /\ Analysable(Current.func)
    /\ LET names == Calls(Current.func) IN
         /\ Resolves(names)
         /\ code' = Append(code, Piece(Current.name, TRUE, Targets(names)))
         /\ table' = WithEntry(Current.name, Len(code) + 1)
    /\ next' = next + 1
    /\ UNCHANGED <<mod_ir, exec, handed, compiles, outcome>>

(* A seeded fault: the table has an entry before there is code for it. *)
LiveRangesThrow_WithEntry ==
    /\ Compiling
    /\ ~Analysable(Current.func)
    /\ outcome' = "out_of_range"
    /\ table' = WithEntry(Current.name, Len(code) + 1)
    /\ UNCHANGED <<mod_ir, next, code, exec, handed, compiles>>

(* compute_live_ranges throws before anything is written. *)
LiveRangesThrow ==
    /\ Compiling
    /\ ~Analysable(Current.func)
    /\ Throw("out_of_range")
    /\ UNCHANGED <<mod_ir, code, compiles>>

(* What is left of a function whose first n calls have been written. *)
Abandon(n) ==
    code' = Append(code, Piece(Current.name, FALSE,
                               Targets(SubSeq(Calls(Current.func), 1, n))))

(* A seeded fault: the compiler goes on behind the call it cannot resolve. *)
CallTargetNotFound_GoOn ==
    /\ Compiling /\ ~exec
    /\ Analysable(Current.func)
    /\ ~Resolves(Calls(Current.func))
    /\ Abandon(0)
    /\ table' = WithEntry(Current.name, Len(code) + 1)
    /\ next' = next + 1
    /\ UNCHANGED <<mod_ir, exec, handed, compiles, outcome>>

(* A call finds no entry: what was written before it stays. *)
CallTargetNotFound ==
    /\ Compiling /\ ~exec
    /\ Analysable(Current.func)
    /\ LET names == Calls(Current.func) IN
       \E n \in DOMAIN names :
          /\ Resolves(SubSeq(names, 1, n - 1)) /\ names[n] \notin DOMAIN table
          /\ Abandon(n - 1)
    /\ Throw("unresolved")
    /\ UNCHANGED <<mod_ir, compiles>>

(***************************************************************************)
(* The buffer may be full at any write before the exception above.  When   *)
(* it has been made read-only, that is at the first write of all.          *)
(***************************************************************************)
Overflow ==
    /\ Compiling
    /\ Analysable(Current.func)
    /\ IF exec THEN UNCHANGED code
       ELSE \E n \in 0..Len(Calls(Current.func)) :
              /\ Resolves(SubSeq(Calls(Current.func), 1, n))
              /\ Abandon(n)
    /\ Throw("overflow")
    /\ UNCHANGED <<mod_ir, compiles>>

(* The first write to a buffer that is read-only kills the process. *)
WriteToExec ==
    /\ Compiling /\ exec
    /\ Analysable(Current.func)
    /\ outcome' = "killed"
    /\ UNCHANGED <<mod_ir, next, table, code, exec, handed, compiles>>

AllCompiled == outcome = "compiling" /\ next > Len(mod_ir)

(* A seeded fault: commit after the first function. *)
Commit_Early ==
    /\ outcome = "compiling"
    /\ next > Len(mod_ir) \/ (next > 1 /\ ~exec)
    /\ exec' = TRUE
    /\ IF AllCompiled THEN handed' = Append(handed, table) /\ outcome' = "returned"
       ELSE UNCHANGED <<handed, outcome>>
    /\ UNCHANGED <<mod_ir, next, table, code, compiles>>

Commit ==
    /\ AllCompiled
    /\ exec' = TRUE
    /\ handed' = Append(handed, table)
    /\ outcome' = "returned"
    /\ UNCHANGED <<mod_ir, next, table, code, compiles>>

(* mprotect fails, and the table is lost. *)
CommitFails ==
    /\ AllCompiled
    /\ Throw("make_exec")
    /\ UNCHANGED <<mod_ir, code, compiles>>

SessionStep ==
    \/ CompileFunction \/ LiveRangesThrow \/ CallTargetNotFound \/ Overflow
    \/ WriteToExec \/ Commit \/ CommitFails

-----------------------------------------------------------------------------
(* Properties *)

SessionTypeOK ==
    /\ next \in 0..(Len(mod_ir) + 1)
    /\ \A n \in DOMAIN table : table[n] \in 1..Len(code)
    /\ \A p \in ToSet(code) : p.whole \in BOOLEAN /\ ToSet(p.targets) \subseteq 1..Len(code)
    /\ exec \in BOOLEAN
    /\ compiles \in 0..MaxCompiles
    /\ outcome \in Outcomes

(***************************************************************************)
(* What a caller is handed can be run: every entry is the code of the      *)
(* function of that name, and whole, and so is whatever it calls, directly *)
(* or not: no call in code that is whole goes to the remains of a function *)
(* whose compilation an exception cut short.                               *)
(***************************************************************************)
HandedOutIsWhole ==
    /\ \A k \in 1..Len(handed) : \A n \in DOMAIN handed[k] :
         exec /\ code[handed[k][n]].whole /\ code[handed[k][n]].name = n
    /\ \A p \in ToSet(code) : p.whole => \A t \in ToSet(p.targets) : code[t].whole

(***************************************************************************)
(* A call in a module that has been compiled goes to the function that     *)
(* get_function hands out under the name in the call, whatever earlier     *)
(* calls of compile_module have left in the buffer.  Two functions of one  *)
(* name would break this, and nothing keeps a caller from it.              *)
(***************************************************************************)
UniqueNames(mod) == \A j, k \in 1..Len(mod) : mod[j].name = mod[k].name => j = k

CallsReachTheNamed ==
    outcome = "returned" /\ UniqueNames(mod_ir) =>
       \A fn \in ToSet(mod_ir) :
          Resolves(Calls(fn.func)) /\ code[table[fn.name]].targets = Targets(Calls(fn.func))

(***************************************************************************)
(* A verified module comes through if each function calls only functions   *)
(* before it, and not otherwise: one that calls itself or a later function *)
(* is accepted by the verifier and fails while it is compiled, whatever    *)
(* was compiled before with this assembler.                                *)
(***************************************************************************)
CallsOnlyBack(mod) ==
    \A k \in 1..Len(mod) : \A name \in ToSet(Calls(mod[k].func)) :
        \E j \in 1..(k - 1) : mod[j].name = name

CompilesInCallOrder ==
    /\ outcome \in {"returned", "make_exec"} => CallsOnlyBack(mod_ir)
    /\ outcome = "unresolved" => ~CallsOnlyBack(mod_ir) /\ Accepted(mod_ir)

(***************************************************************************)
(* The process dies of a write to the buffer only after a table has been   *)
(* handed out: whatever exceptions a caller has caught, it can go on with  *)
(* the assembler until compile_module has returned once.                   *)
(***************************************************************************)
DiesOnlyAfterHandOut == outcome = "killed" => handed # <<>>
=============================================================================
