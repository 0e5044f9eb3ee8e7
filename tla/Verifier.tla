------------------------------- MODULE Verifier -------------------------------
(***************************************************************************)
(* verify_function, the check that compile_module makes of every function  *)
(* before it generates code (src/include/amd64/codegen/verify.hpp).        *)
(*                                                                         *)
(* It walks the blocks in order and throws at the first fault it finds.    *)
(* Verified is the condition under which it does not throw.  The set of    *)
(* defined values grows along the walk: it is not the set of the values    *)
(* that dominate an instruction.                                           *)
(***************************************************************************)
EXTENDS IR

(* A seeded fault: a terminator may be followed by more. *)
Terminated_NoMiddle(insts) == insts # <<>> /\ Last(insts).op \in Terminators

(* A block is not empty, and its terminator is its last instruction. *)
Terminated(insts) ==
    /\ insts # <<>>
    /\ Last(insts).op \in Terminators
    /\ \A inst \in ToSet(Front(insts)) : inst.op \notin Terminators

(* What the walk has put in the set when it is at instruction i of block b. *)
DefinedBefore(f, b, i) ==
    ToSet(f.args)
    \cup (UNION {ToSet(Params(f, c)) : c \in 1..b})
    \cup (UNION {ResultsOf(Instructions(f, c)) : c \in 1..(b - 1)})
    \cup ResultsOf(SubSeq(Instructions(f, b), 1, i - 1))

(* The operands it requires: trunc32 and sext32 are in none of its cases. *)
Required(inst) == IF inst.op = "convert" THEN {} ELSE Reads(inst)

EdgeFits(f, e) == e.block \in Blocks(f) /\ Len(e.args) = Len(Params(f, e.block))

(* symbols: the names of the functions of the module. *)
Verified(f, symbols) ==
    \A b \in Blocks(f) :
      /\ Terminated(Instructions(f, b))
      /\ \A i \in 1..Len(Instructions(f, b)) :
           LET inst == Instructions(f, b)[i] IN
           /\ Required(inst) \subseteq DefinedBefore(f, b, i)
           /\ inst.callee \in symbols \cup {Native}
           /\ \A e \in ToSet(inst.edges) : EdgeFits(f, e)
=============================================================================
