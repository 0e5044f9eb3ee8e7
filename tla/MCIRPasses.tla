------------------------------ MODULE MCIRPasses ------------------------------
(* The instances of IRPasses that TLC checks. *)
EXTENDS IRPasses

CONSTANTS f, g

(***************************************************************************)
(* A caller with manners, for the instances about the ranges: it puts one  *)
(* terminator at the end of a block and starts the next block after it.    *)
(* The verifier rejects all the rest.                                      *)
(***************************************************************************)
Tidy ==
    \A b \in Blocks(func) :
        LET insts == Instructions(func, b) IN
        /\ b < Len(func.blocks) => Terminated(insts)
        /\ \A i \in 1..(Len(insts) - 1) : insts[i].op \notin Terminators

=============================================================================
