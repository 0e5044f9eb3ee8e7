------------------------------ MODULE MCAssembler ------------------------------
(* The instance of Assembler that TLC checks. *)
EXTENDS Assembler

(* An instruction that is written in two chunks. *)
MC_Encodings == {<<3, 3>>}
=============================================================================
