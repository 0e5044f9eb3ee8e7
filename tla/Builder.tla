-------------------------------- MODULE Builder --------------------------------
(***************************************************************************)
(* Building a function, through the member functions of function_t and     *)
(* module_t::create_function (src/include/amd64/ir/ir.hpp).                *)
(*                                                                         *)
(* An id is the size of the vector of types when the value is created.     *)
(* Instructions always go to the last block.  The builder checks nothing   *)
(* else: a caller may name an id that does not exist, branch to a block    *)
(* that does not exist, and go on after a terminator.                      *)
(***************************************************************************)
EXTENDS IR

CONSTANTS
    Classes,           \* the instruction classes the caller uses
    Callee,            \* what a call may name, Native included
    MaxArgs,           \* bounds: arguments of the function,
    MaxBlocks,         \*   blocks,
    MaxParams,         \*   parameters of a block, values passed by a jmp or a call,
    MaxBranchArgs,     \*   values passed by an edge of a brif,
    MaxInstructions,   \*   instructions of the function,
    Ahead              \*   and ids, blocks named that are not there or not yet

ASSUME CalleeAssumption == Native \in Callee
ASSUME BoundAssumption ==
    /\ MaxArgs \in Nat /\ MaxBlocks \in Nat
    /\ MaxParams \in Nat /\ MaxBranchArgs \in Nat
    /\ MaxInstructions \in Nat /\ Ahead \in Nat

VARIABLE func

(* A seeded fault: the id is the size before the one before. *)
Ids_OffByOne(id, n) == [k \in 1..n |-> id + k - 2]

(* n ids in a row, the first of them id. *)
Ids(id, n) == [k \in 1..n |-> id + k - 1]

(* create_function gives ids to the arguments and creates the entry block. *)
CreateFunction(n) == Function(Ids(0, n), <<Block(<<>>, <<>>)>>, n)

(* A function_t that is not made by create_function starts with no block. *)
BareFunction == Function(<<>>, <<>>, 0)

Init == func \in {CreateFunction(n) : n \in 0..MaxArgs} \cup {BareFunction}

-----------------------------------------------------------------------------
CreateBlock ==
    /\ Len(func.blocks) < MaxBlocks
    /\ \E n \in 0..MaxParams :
         func' = [func EXCEPT
                    !.blocks = Append(@, Block(Ids(func.types, n), <<>>)),
                    !.types  = @ + n]

Size == FoldSeq(LAMBDA b, n : n + Len(b.instructions), 0, func.blocks)

(* emit, emit_term, load and store throw when there is no block. *)
CanAppend == func.blocks # <<>> /\ Size < MaxInstructions

AppendInst(f, inst) ==
    [f EXCEPT !.blocks[Len(f.blocks)].instructions = Append(@, inst)]

AppendResult(op, operands, callee) ==
    func' = [AppendInst(func, Inst(op, func.types, operands, <<>>, callee))
             EXCEPT !.types = @ + 1]

(* What the caller may name: the ids there are, and the next ones. *)
Nameable == 0..(func.types - 1 + Ahead)

Lists(max) == UNION {[1..n -> Nameable] : n \in 0..max}

Operands(op) ==
    CASE op \in NoOperand  -> {<<>>}
      [] op \in OneOperand -> {<<v>> : v \in Nameable}
      [] op = "call"       -> Lists(MaxParams)
      [] OTHER             -> Nameable \X Nameable

Emit ==
    /\ CanAppend
    /\ \E op \in Classes \cap Emitted :
       \E operands \in Operands(op), callee \in (IF op = "call" THEN Callee ELSE {Native}) :
          AppendResult(op, operands, callee)

(* A seeded fault: load does not record the type of its result. *)
Load_NoType ==
    /\ CanAppend /\ "load" \in Classes
    /\ \E operands \in Operands("load") :
         func' = AppendInst(func, Inst("load", func.types, operands, <<>>, Native))

Load ==
    /\ CanAppend /\ "load" \in Classes
    /\ \E operands \in Operands("load") : AppendResult("load", operands, Native)

Store ==
    /\ CanAppend /\ "store" \in Classes
    /\ \E operands \in Operands("store") :
         func' = AppendInst(func, Inst("store", NoResult, operands, <<>>, Native))

(* The blocks a caller may name: those it may still create, and more. *)
Edges(max) == {Edge(b, args) : b \in 1..(MaxBlocks + Ahead), args \in Lists(max)}

EdgesOf(op) ==
    CASE op = "ret"  -> {<<>>}
      [] op = "jmp"  -> {<<e>> : e \in Edges(MaxParams)}
      [] op = "brif" -> Edges(MaxBranchArgs) \X Edges(MaxBranchArgs)

EmitTerm ==
    /\ CanAppend
    /\ \E op \in Classes \cap Terminators :
       \E operands \in Operands(op), edges \in EdgesOf(op) :
          func' = AppendInst(func, Inst(op, NoResult, operands, edges, Native))

Next == CreateBlock \/ Emit \/ Load \/ Store \/ EmitTerm

Spec == Init /\ [][Next]_func

-----------------------------------------------------------------------------
(* Properties *)

TypeOK ==
    /\ func.types \in Nat
    /\ func.args \in Seq(Nat)
    /\ \A b \in Blocks(func) :
         /\ Params(func, b) \in Seq(Nat)
         /\ \A inst \in ToSet(Instructions(func, b)) :
              /\ inst.op \in Classes /\ inst.callee \in Callee
              /\ inst.result \in Nat \cup {NoResult}
              /\ inst.operands \in Seq(Nat)
              /\ \A e \in ToSet(inst.edges) : e.block \in Nat /\ e.args \in Seq(Nat)

(***************************************************************************)
(* The ids of a function are 0 .. types.size() - 1, each given to one      *)
(* argument, parameter or result, in the order of the text: five functions *)
(* of the builder hand out ids, and compute_live_ranges and the allocator  *)
(* key their maps by them.                                                 *)
(***************************************************************************)
Given(inst) == IF inst.result = NoResult THEN <<>> ELSE <<inst.result>>

(* What the arguments, the parameters and the instructions define, in line. *)
Definitions(f) ==
    f.args \o FlattenSeq([b \in Blocks(f) |->
        Params(f, b) \o FlattenSeq([i \in DOMAIN Instructions(f, b) |->
                                        Given(Instructions(f, b)[i])])])

IdsAreUnique ==
    /\ Values(func) = 0..(func.types - 1)
    /\ Definitions(func) = [k \in 1..func.types |-> k - 1]
=============================================================================
