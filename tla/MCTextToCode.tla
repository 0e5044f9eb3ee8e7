------------------------------ MODULE MCTextToCode ------------------------------
(* The instance of TextToCode that TLC checks. *)
EXTENDS TextToCode

CONSTANT Linked   \* bound: instructions of a module of several functions

(* One or two of each class, with what the text might lose or refuse. *)
MC_Details ==
    {Numbered("iconst", -1),
     Plain("isub"), Plain("ishl"), Plain("udiv"), Comparison("ult"),
     Numbered("ishr_imm", 1), Numbered("ishl_imm", 64), Plain("isext32"),
     Numbered("call", 0), Numbered("call", 7),
     Access("load", 4, TRUE, -4), Access("load", 1, TRUE, 3), Access("store", 2, FALSE, 3),
     Plain("brif"), Plain("jmp"), Plain("ret")}

(* Ids that wrap, a negative literal in hexadecimal, a comma too many, a store *)
(* with a sign.                                                            *)
MC_Replacements ==
    {Percent(1), Percent(16), Hex(-1), Bb(2), Word(","), Word("f"), Word("idiv"),
     Word("i8s")}

Total(mod) == FoldSeq(LAMBDA fn, n : n + Len(fn.data), 0, mod)

(***************************************************************************)
(* Functions of any kind come alone, are named f, and have one argument or *)
(* parameter, or two for a subtraction; a constant or a conversion, which  *)
(* another instruction may follow, has none.  Only a conversion reads a   *)
(* value that is never defined and no result of its own.  The functions of *)
(* a module of several have other names than keywords, one block and calls *)
(* by name that pass nothing, and end in their first ret.                  *)
(***************************************************************************)
Near(inst, f) ==
    /\ \A v \in Reads(inst) : v < f.types \/ (v = f.types /\ inst.op \in {"convert", "ret"})
    /\ \A e \in ToSet(inst.edges) : e.block <= MaxBlocks + 1

Alone(n, d, f) ==
    LET results == Cardinality(UNION {ResultsOf(Instructions(f, b)) : b \in Blocks(f)})
        inputs  == f.types - results
    IN
    /\ n = "f"
    /\ inputs <= (IF d = <<>> \/ d[1].name = "isub" THEN 2 ELSE 1)
    /\ d # <<>> /\ d[1].name \in {"iconst", "isext32"} => inputs = 0
    /\ \A inst \in ToSet(InstructionsOf(f)) : Near(inst, f)
    /\ Len(d) = 2 => d[1].name \in {"iconst", "isext32"}

Linking(n, d, f) ==
    /\ n # "ret" /\ Len(f.blocks) <= 1
    /\ \A i \in 1..Len(d) : d[i].name = "call" \/ (d[i].name = "ret" /\ i = Len(d))
    /\ \A inst \in ToSet(InstructionsOf(f)) :
          inst.op = "call" => inst.operands = <<>> /\ inst.callee \notin {Native, "ret"}

OfInterest ==
    phase = "building" =>
        \/ functions = <<>> /\ (name # "" => Alone(name, data, func))
        \/ Len(functions) = 1 /\ name = "" /\ Alone("f", functions[1].data, functions[1].func)
        \/ /\ \A fn \in ToSet(functions) : Linking(fn.name, fn.data, fn.func)
           /\ Linking(name, data, func)
           /\ Total(functions) + Len(data) <= Linked
=============================================================================
