------------------------------- MODULE MCCompiler -------------------------------
(* The instances of Compiler that TLC checks. *)
EXTENDS Compiler

CONSTANTS rbx, r12

MC_OneRegister == <<rbx>>
MC_Pool      == <<rbx, r12>>
MC_Arguments == <<rdx, rcx>>
MC_Saved     == {rbx, r12, rbp}

(***************************************************************************)
(* The function has N values at most, and the verifier can still accept    *)
(* it: there is an instruction left for every block without a terminator.  *)
(***************************************************************************)
Promising ==
    LET last  == Len(func.blocks)
        named == {e.block : e \in UNION {ToSet(item.edges) : item \in ToSet(Layout(func))}}
        open  == {b \in (last + 1)..MaxBlocks : \E c \in named : b <= c}
                 \cup {b \in Blocks(func) : ~Terminated(Instructions(func, b))}
    IN  /\ func.types <= N
        /\ 1 \notin named /\ \A b \in open : b >= last
        /\ Size + Cardinality(open) <= MaxInstructions
        /\ \A b \in Blocks(func) : \A i \in 1..(Len(Instructions(func, b)) - 1) :
              Instructions(func, b)[i].op \notin Terminators

(***************************************************************************)
(* What the runs leave out: functions that are rejected, and functions of  *)
(* which no property says anything.                                        *)
(***************************************************************************)
OfInterest == status = "idle" => IF runs = 0 THEN Promising ELSE Regular
=============================================================================
