--------------------------------- MODULE Parser ---------------------------------
(***************************************************************************)
(* parser_t (src/include/amd64/ir/parser.hpp): recursive descent over the  *)
(* tokens of a text, which builds each function with the members of        *)
(* function_t and refuses the whole text at the first fault.               *)
(*                                                                         *)
(* A step is an iteration of one of its loops: the head of a function, the *)
(* head of a block, an instruction, the end of a function, the end.  An    *)
(* exception leaves parse_module, and the module so far is lost with it:   *)
(* where in a step it is thrown makes no difference.                       *)
(***************************************************************************)
EXTENDS Builder, Text

CONSTANT Modulus   \* how many numbers a Value has, and an offset: 2^32

ASSUME ModulusAssumption ==
    Modulus \in Nat /\ Modulus > MaxArgs + MaxBlocks * MaxParams + MaxInstructions

VARIABLES
    text,        \* the lexemes of the source
    position,    \* the next one: m_current
    m_ids,       \* the ids of the text to the ids of the function
    first_block, \* no block of the function has been read yet
    name,        \* of the function func, "" when there is none
    data,        \* the data of its instructions
    functions,   \* the functions of the module before it
    phase        \* "building" (no parser yet), "parsing", "parsed" or "refused"

parser == <<func, text, position, m_ids, first_block, name, data, functions, phase>>

(* A parser for a text, at its first token, and an empty module. *)
Parse(t) ==
    /\ text' = t
    /\ position' = 1
    /\ m_ids' = <<>>
    /\ first_block' = TRUE
    /\ name' = "" /\ func' = BareFunction /\ data' = <<>>
    /\ functions' = <<>>
    /\ phase' = "parsing"

-----------------------------------------------------------------------------
(* Reading *)

Type(p)  == IF p <= Len(text) THEN TypeOf(text[p]) ELSE "eof"
Num(p)   == ValueOf(text[p])
Spell(p) == text[p].text

(* A number of calls of expect in a row. *)
Expect(p, types) == \A k \in 1..Len(types) : Type(p + k - 1) = types[k]

(* A seeded fault: no comma is asked for. *)
IsList_AnyComma(p, item, n) ==
    LET size == Len(item) + 1 IN
    /\ Type(p) = "("
    /\ \A k \in 1..n : Expect(p + (k - 1) * size + 1, item)
    /\ Type(p + (IF n = 0 THEN 1 ELSE n * size)) = ")"

(* A list of n items in parentheses, with commas between them. *)
IsList(p, item, n) ==
    LET size == Len(item) + 1 IN
    /\ Type(p) = "("
    /\ \A k \in 1..n : /\ k > 1 => Type(p + (k - 1) * size) = ","
                       /\ Expect(p + (k - 1) * size + 1, item)
    /\ Type(p + (IF n = 0 THEN 1 ELSE n * size)) = ")"

(* Its length, when there is a list at p. *)
Lengths(p, item) == {n \in 0..Len(text) : IsList(p, item, n)}

(* The numbers in it, each the last token of its item, and what comes next. *)
NumsOf(p, item, n) == [k \in 1..n |-> Num(p + k * (Len(item) + 1) - 1)]
Behind(p, item, n) == p + 1 + (IF n = 0 THEN 1 ELSE n * (Len(item) + 1))

Declared == <<"i64", "%">>
Passed   == <<"%">>

-----------------------------------------------------------------------------
(* Instructions as the text has them: the ids and blocks are its own.      *)

Item(op, d, operands, edges, callee, next) ==
    [op |-> op, data |-> d, operands |-> operands, edges |-> edges,
     callee |-> callee, next |-> next]

If(condition, item) == IF condition THEN {item} ELSE {}

(* What expect finds from p on: the instruction whose name is at p.        *)

RetAt(p) ==
    If(Expect(p, <<"ret", "%">>),
       Item("ret", Plain("ret"), <<Num(p + 1)>>, <<>>, Native, p + 2))

(* The block a jump names, and the n values after it. *)
Target(p, n) == Edge(Num(p) + 1, NumsOf(p + 1, Passed, n))

JmpAt(p) ==
    {Item("jmp", Plain("jmp"), <<>>, <<Target(p + 1, n)>>, Native, Behind(p + 2, Passed, n))
       : n \in {k \in Lengths(p + 2, Passed) : Expect(p, <<"jmp", "bb">>)}}

(* The second edge of a brif, behind the first with its n values. *)
Second(p, n) == Behind(p + 4, Passed, n) + 1

(* How many values each edge passes. *)
BrifLengths(p) ==
    {l \in Lengths(p + 4, Passed) \X (0..Len(text)) :
       /\ Expect(p, <<"brif", "%", ",", "bb">>)
       /\ Expect(Second(p, l[1]) - 1, <<",", "bb">>)
       /\ IsList(Second(p, l[1]) + 1, Passed, l[2])}

(* A seeded fault: the two edges are taken in the wrong order. *)
BrifAt_Swapped(p) ==
    {Item("brif", Plain("brif"), <<Num(p + 1)>>,
          <<Target(Second(p, l[1]), l[2]), Target(p + 3, l[1])>>,
          Native, Behind(Second(p, l[1]) + 1, Passed, l[2])) : l \in BrifLengths(p)}

BrifAt(p) ==
    {Item("brif", Plain("brif"), <<Num(p + 1)>>,
          <<Target(p + 3, l[1]), Target(Second(p, l[1]), l[2])>>,
          Native, Behind(Second(p, l[1]) + 1, Passed, l[2])) : l \in BrifLengths(p)}

(* parse_load_kind: the width, and whether the sign is extended. *)
LoadKinds ==
    [i8 |-> <<1, FALSE>>, i8s |-> <<1, TRUE>>, i16 |-> <<2, FALSE>>, i16s |-> <<2, TRUE>>,
     i32 |-> <<4, FALSE>>, i64 |-> <<8, FALSE>>]

IsKind(p) == Type(p) \in {"identifier", "i64", "i32"} /\ Spell(p) \in DOMAIN LoadKinds

(* The cast of an offset to 32 bits. *)
Int32(n) == ((n + Modulus \div 2) % Modulus) - Modulus \div 2

StoreAt(p) ==
    If(/\ Expect(p, <<"store", ".">>) /\ IsKind(p + 2)
       /\ Expect(p + 3, <<"%", ",", "%", ",", "#">>),
       Item("store", Access("store", LoadKinds[Spell(p + 2)][1], FALSE, Int32(Num(p + 7))),
            <<Num(p + 3), Num(p + 5)>>, <<>>, Native, p + 8))

WithoutResult(p) == RetAt(p) \cup JmpAt(p) \cup BrifAt(p) \cup StoreAt(p)

ConstAt(p) ==
    If(Expect(p, <<"iconst", "#">>),
       Item("const", Numbered("iconst", Num(p + 1)), <<>>, <<>>, Native, p + 2))

(* The case of udiv calls idiv. *)
BuiltAs(n) == IF n = "udiv" THEN "idiv" ELSE n

(* A seeded fault: the operands are taken in the wrong order. *)
PairAt_Swapped(p) ==
    If(Type(p) \in Pairs /\ Expect(p + 1, <<"%", ",", "%">>),
       Item(ClassOf[Type(p)], Plain(BuiltAs(Type(p))), <<Num(p + 3), Num(p + 1)>>, <<>>,
            Native, p + 4))

PairAt(p) ==
    If(Type(p) \in Pairs /\ Expect(p + 1, <<"%", ",", "%">>),
       Item(ClassOf[Type(p)], Plain(BuiltAs(Type(p))), <<Num(p + 1), Num(p + 3)>>, <<>>,
            Native, p + 4))

SingleAt(p) ==
    If(Type(p) \in Singles /\ Expect(p + 1, <<"%">>),
       Item(ClassOf[Type(p)], Plain(Type(p)), <<Num(p + 1)>>, <<>>, Native, p + 2))

ShiftByAt(p) ==
    If(Type(p) \in Shifts /\ Expect(p + 1, <<"%", ",", "#">>) /\ Num(p + 3) \in 0..63,
       Item("unary", Numbered(Type(p), Num(p + 3)), <<Num(p + 1)>>, <<>>, Native, p + 4))

IcmpAt(p) ==
    If(/\ Expect(p, <<"icmp", ".", "identifier", "%", ",", "%">>)
       /\ Spell(p + 2) \in Conditions,
       Item("compare", Comparison(Spell(p + 2)), <<Num(p + 3), Num(p + 5)>>, <<>>,
            Native, p + 6))

LoadAt(p) ==
    If(Expect(p, <<"load", ".">>) /\ IsKind(p + 2) /\ Expect(p + 3, <<"%", ",", "#">>),
       LET kind == LoadKinds[Spell(p + 2)] IN
       Item("load", Access("load", kind[1], kind[2], Int32(Num(p + 5))), <<Num(p + 3)>>,
            <<>>, Native, p + 6))

CallTo(callee, address, p) ==
    {Item("call", Numbered("call", address), NumsOf(p, Passed, n), <<>>, callee,
          Behind(p, Passed, n)) : n \in Lengths(p, Passed)}

CallAt(p) ==
    IF Expect(p, <<"call", "native", "@", "#">>) THEN CallTo(Native, Num(p + 3), p + 4)
    ELSE IF Expect(p, <<"call", "@", "identifier">>) THEN CallTo(Spell(p + 2), 0, p + 3)
    ELSE {}

WithResult(p) ==
    ConstAt(p) \cup PairAt(p) \cup SingleAt(p) \cup ShiftByAt(p)
    \cup IcmpAt(p) \cup LoadAt(p) \cup CallAt(p)

-----------------------------------------------------------------------------
(* The ids *)

(* check_id: the number in the text, cast to a Value, is the id it has got. *)
CheckIds(parsed, real) ==
    /\ Len(parsed) = Len(real)
    /\ \A k \in 1..Len(parsed) : parsed[k] % Modulus = real[k]

WithIds(ids, parsed, real) ==
    [v \in DOMAIN ids \cup ToSet(parsed) |->
        IF v \in ToSet(parsed) THEN real[CHOOSE k \in 1..Len(parsed) : parsed[k] = v]
        ELSE ids[v]]

(* resolve throws when a number is not in the map. *)
Known(numbers)    == ToSet(numbers) \subseteq DOMAIN m_ids
resolve(numbers)  == [k \in 1..Len(numbers) |-> m_ids[numbers[k]]]
ResolveEdge(edge) == Edge(edge.block, resolve(edge.args))

-----------------------------------------------------------------------------
(* The steps *)

Parsing == phase = "parsing"
Inside  == Parsing /\ name # ""

(* The head of a function with n arguments, whose list is at list. *)
IsFunctionHead(list, n) ==
    /\ Expect(position, <<"fn", "@", "identifier">>)
    /\ IsList(list, Declared, n)
    /\ Expect(Behind(list, Declared, n), <<"->", "i64", "{">>)
    /\ CheckIds(NumsOf(list, Declared, n), Ids(0, n))

(* A seeded fault: the ids of the function before are kept. *)
ParseFunction_KeepIds ==
    /\ Parsing /\ name = ""
    /\ \E n \in 0..Len(text) : LET list == position + 3 IN
         /\ IsFunctionHead(list, n)
         /\ func' = CreateFunction(n)
         /\ m_ids' = WithIds(m_ids, NumsOf(list, Declared, n), Ids(0, n))
         /\ position' = Behind(list, Declared, n) + 3
    /\ name' = Spell(position + 2) /\ data' = <<>>
    /\ first_block' = TRUE
    /\ UNCHANGED <<text, functions, phase>>

(* The head of parse_function: create_function, and the arguments' ids. *)
ParseFunction ==
    /\ Parsing /\ name = ""
    /\ \E n \in 0..Len(text) : LET list == position + 3 IN
         /\ IsFunctionHead(list, n)
         /\ func' = CreateFunction(n)
         /\ m_ids' = WithIds(<<>>, NumsOf(list, Declared, n), Ids(0, n))
         /\ position' = Behind(list, Declared, n) + 3
    /\ name' = Spell(position + 2) /\ data' = <<>>
    /\ first_block' = TRUE
    /\ UNCHANGED <<text, functions, phase>>

(* The entry block is there already, without parameters; others are created. *)
BlockIndex == IF first_block THEN 0 ELSE Len(func.blocks)

NewParams(n) == IF BlockIndex = 0 THEN Params(func, 1) ELSE Ids(func.types, n)

IsBlockHead(list, n) ==
    /\ Type(position) = "bb" /\ IsList(list, Declared, n)
    /\ Type(Behind(list, Declared, n)) = ":"
    /\ Num(position) = BlockIndex
    /\ CheckIds(NumsOf(list, Declared, n), NewParams(n))

ParseBlock ==
    /\ Inside
    /\ \E n \in 0..Len(text) : LET list == position + 1 IN
         /\ IsBlockHead(list, n)
         /\ func' = IF BlockIndex = 0 THEN func
                    ELSE [func EXCEPT !.blocks = Append(@, Block(NewParams(n), <<>>)),
                                      !.types  = @ + n]
         /\ m_ids' = WithIds(m_ids, NumsOf(list, Declared, n), NewParams(n))
         /\ position' = Behind(list, Declared, n) + 1
    /\ first_block' = FALSE
    /\ UNCHANGED <<text, name, data, functions, phase>>

InBlock == Inside /\ ~first_block

KnowsAll(item) ==
    Known(item.operands) /\ \A e \in ToSet(item.edges) : Known(e.args)

(* ret, jmp, brif and store. *)
ParseEffect ==
    /\ InBlock
    /\ \E item \in WithoutResult(position) :
         /\ KnowsAll(item)
         /\ func' = AppendInst(func, Inst(item.op, NoResult, resolve(item.operands),
                                 [k \in 1..Len(item.edges) |-> ResolveEdge(item.edges[k])],
                                 Native))
         /\ data' = Append(data, item.data)
         /\ position' = item.next
    /\ UNCHANGED <<text, m_ids, first_block, name, functions, phase>>

IsResult == Expect(position, <<"%", "=">>)

(* A seeded fault: the result is known before the operands are resolved. *)
ParseResult_EarlyId ==
    /\ InBlock /\ IsResult
    /\ LET ids == WithIds(m_ids, <<Num(position)>>, <<func.types>>) IN
       \E item \in WithResult(position + 2) :
         /\ ToSet(item.operands) \subseteq DOMAIN ids
         /\ CheckIds(<<Num(position)>>, <<func.types>>)
         /\ AppendResult(item.op, [k \in 1..Len(item.operands) |-> ids[item.operands[k]]],
                         item.callee)
         /\ m_ids' = ids
         /\ data' = Append(data, item.data)
         /\ position' = item.next
    /\ UNCHANGED <<text, first_block, name, functions, phase>>

(* Operands are resolved before the result is known. *)
ParseResult ==
    /\ InBlock /\ IsResult
    /\ \E item \in WithResult(position + 2) :
         /\ KnowsAll(item)
         /\ CheckIds(<<Num(position)>>, <<func.types>>)
         /\ AppendResult(item.op, resolve(item.operands), item.callee)
         /\ m_ids' = WithIds(m_ids, <<Num(position)>>, <<func.types>>)
         /\ data' = Append(data, item.data)
         /\ position' = item.next
    /\ UNCHANGED <<text, first_block, name, functions, phase>>

EndFunction ==
    /\ Inside /\ Type(position) = "}"
    /\ functions' = Append(functions, Named(name, func, data))
    /\ name' = "" /\ func' = BareFunction /\ data' = <<>>
    /\ position' = position + 1
    /\ UNCHANGED <<text, m_ids, first_block, phase>>

EndModule ==
    /\ Parsing /\ name = "" /\ Type(position) = "eof"
    /\ phase' = "parsed"
    /\ UNCHANGED <<func, text, position, m_ids, first_block, name, data, functions>>

(* What each of the steps above asks for. *)
Continues ==
    IF name = "" THEN \/ Type(position) = "eof"
                      \/ \E n \in 0..Len(text) : IsFunctionHead(position + 3, n)
    ELSE \/ Type(position) = "}"
         \/ \E n \in 0..Len(text) : IsBlockHead(position + 1, n)
         \/ /\ ~first_block
            /\ \/ \E item \in WithoutResult(position) : KnowsAll(item)
               \/ /\ IsResult /\ CheckIds(<<Num(position)>>, <<func.types>>)
                  /\ \E item \in WithResult(position + 2) : KnowsAll(item)

(* A seeded fault: the end of the text does not end the loops. *)
Refuse_NotAtEof ==
    /\ Parsing /\ ~Continues /\ Type(position) # "eof"
    /\ phase' = "refused"
    /\ functions' = <<>> /\ name' = "" /\ func' = BareFunction /\ data' = <<>>
    /\ m_ids' = <<>>
    /\ UNCHANGED <<text, position, first_block>>

(* An exception: the module goes with the call. *)
Refuse ==
    /\ Parsing /\ ~Continues
    /\ phase' = "refused"
    /\ functions' = <<>> /\ name' = "" /\ func' = BareFunction /\ data' = <<>>
    /\ m_ids' = <<>>
    /\ UNCHANGED <<text, position, first_block>>

ParserStep ==
    \/ ParseFunction \/ ParseBlock \/ ParseEffect \/ ParseResult
    \/ EndFunction \/ EndModule \/ Refuse
=============================================================================
