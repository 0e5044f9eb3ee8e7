---------------------------------- MODULE Text ----------------------------------
(***************************************************************************)
(* The text of a module of the IR: the lexemes it is written in, what the  *)
(* lexer makes of one (src/include/amd64/ir/parser.hpp), and the formatter *)
(* (src/include/amd64/ir/fmt.hpp).                                         *)
(*                                                                         *)
(* Lexemes stand apart, as spaces and punctuation keep them apart in the   *)
(* text.  The four types are alike to everything here: i64 stands for all. *)
(***************************************************************************)
EXTENDS IR

(* A lexeme is a word or a mark, or a number: of a value (%), of a block   *)
(* (bb), or on its own (#).                                                *)
Lexeme(text, num, hex) == [text |-> text, num |-> num, hex |-> hex]

Word(w)    == Lexeme(w, 0, FALSE)
Percent(v) == Lexeme("%", v, FALSE)
Bb(b)      == Lexeme("bb", b - 1, FALSE)
Decimal(n) == Lexeme("#", n, FALSE)
Hex(n)     == Lexeme("#", n, TRUE)

Words(ws) == [k \in 1..Len(ws) |-> Word(ws[k])]

Numeric == {"%", "bb", "#"}

IsSpelling(w) == w \notin {"", Native}

IsLexeme(l) ==
    /\ l = Lexeme(l.text, l.num, l.hex)
    /\ IsSpelling(l.text) /\ l.num \in Int /\ l.hex \in BOOLEAN
    /\ l.text \notin Numeric => l = Word(l.text)

-----------------------------------------------------------------------------
(* What the text says of an instruction and IR leaves out: which of its    *)
(* class it is, and its constant, offset, native address, comparison or    *)
(* width.                                                                  *)

Data(name, num, cond, width, sign) ==
    [name |-> name, num |-> num, cond |-> cond, width |-> width, sign |-> sign]

Plain(name)        == Data(name, 0, "", 0, FALSE)
Numbered(name, n)  == Data(name, n, "", 0, FALSE)
Comparison(cond)   == Data("icmp", 0, cond, 0, FALSE)
Access(name, width, sign, offset) == Data(name, offset, "", width, sign)

(* The class of each instruction. *)
ClassOf ==
    [iconst |-> "const",
     iadd |-> "binary", isub |-> "binary", imul |-> "binary",
     iand |-> "binary", ior |-> "binary", ixor |-> "binary",
     ishl |-> "shift", ishr |-> "shift", idiv |-> "divide", udiv |-> "divide",
     icmp |-> "compare", inot |-> "unary", ineg |-> "unary",
     ishl_imm |-> "unary", ishr_imm |-> "unary", isar_imm |-> "unary",
     itrunc32 |-> "convert", isext32 |-> "convert",
     call |-> "call", load |-> "load", store |-> "store",
     brif |-> "brif", jmp |-> "jmp", ret |-> "ret"]

Pairs   == {n \in DOMAIN ClassOf : ClassOf[n] \in {"binary", "shift", "divide"}}
Shifts  == {"ishl_imm", "ishr_imm", "isar_imm"}
Singles == {n \in DOMAIN ClassOf : ClassOf[n] \in {"unary", "convert"}} \ Shifts

Conditions == {"eq", "ne", "lt", "le", "gt", "ge", "ult", "ule", "ugt", "uge"}

(* A function of a module; data has an entry for each of its instructions. *)
Named(name, func, data) == [name |-> name, func |-> func, data |-> data]

-----------------------------------------------------------------------------
(* The lexer *)

Keywords == DOMAIN ClassOf \cup {"fn", "native", "i64", "i32", "bool", "ptr"}
Marks    == {"@", ".", ",", ":", "->", "(", ")", "{", "}", "="}

(* token_type_t: a word that is no keyword is an identifier. *)
TypeOf(l) == IF l.text \in Keywords \cup Marks \cup Numeric THEN l.text
             ELSE "identifier"

(* process_int starts after -0x: the sign of a hexadecimal number is lost. *)
ValueOf(l) == IF l.hex /\ l.num < 0 THEN -l.num ELSE l.num

-----------------------------------------------------------------------------
(* The formatter *)

(* Items, each a sequence of lexemes, with commas between them. *)
List(items) ==
    <<Word("(")>>
    \o FlattenSeq([k \in 1..Len(items) |->
                      IF k = 1 THEN items[k] ELSE <<Word(",")>> \o items[k]])
    \o <<Word(")")>>

FmtValues(ids) == List([k \in 1..Len(ids) |-> <<Percent(ids[k])>>])
FmtParams(ids) == List([k \in 1..Len(ids) |-> <<Word("i64"), Percent(ids[k])>>])

FmtEdge(e) == <<Bb(e.block)>> \o FmtValues(e.args)

fmt_load_kind(width, sign) ==
    CASE width = 1 -> IF sign THEN "i8s" ELSE "i8"
      [] width = 2 -> IF sign THEN "i16s" ELSE "i16"
      [] width = 4 -> "i32"
      [] OTHER     -> "i64"

FmtTarget(callee, address) ==
    IF callee = Native THEN Words(<<"native", "@">>) \o <<Hex(address)>>
    ELSE Words(<<"@", callee>>)

(* Values with commas between them, and no parentheses. *)
FmtOperands(ids) ==
    FlattenSeq([k \in 1..Len(ids) |->
        IF k = 1 THEN <<Percent(ids[k])>> ELSE <<Word(","), Percent(ids[k])>>])

(* What follows the name of the instruction. *)
FmtRest(inst, data) ==
    CASE inst.op = "const"   -> <<Decimal(data.num)>>
      [] inst.op = "compare" -> Words(<<".", data.cond>>) \o FmtOperands(inst.operands)
      [] inst.op = "load"    -> Words(<<".", fmt_load_kind(data.width, data.sign)>>)
                                \o FmtOperands(inst.operands) \o <<Word(","), Decimal(data.num)>>
      [] inst.op = "store"   -> Words(<<".", fmt_load_kind(data.width, FALSE)>>)
                                \o FmtOperands(inst.operands) \o <<Word(","), Decimal(data.num)>>
      [] data.name \in Shifts -> FmtOperands(inst.operands) \o <<Word(","), Decimal(data.num)>>
      [] inst.op = "call"    -> FmtTarget(inst.callee, data.num) \o FmtValues(inst.operands)
      [] inst.op = "jmp"     -> FmtEdge(inst.edges[1])
      [] inst.op = "brif"    -> FmtOperands(inst.operands)
                                \o <<Word(",")>> \o FmtEdge(inst.edges[1])
                                \o <<Word(",")>> \o FmtEdge(inst.edges[2])
      [] OTHER               -> FmtOperands(inst.operands)

(* A seeded fault: the result of a call is not written. *)
fmt_inst_NoCallResult(inst, data) ==
    (IF inst.result = NoResult \/ inst.op = "call" THEN <<>>
     ELSE <<Percent(inst.result), Word("=")>>)
    \o <<Word(data.name)>> \o FmtRest(inst, data)

fmt_inst(inst, data) ==
    (IF inst.result = NoResult THEN <<>> ELSE <<Percent(inst.result), Word("=")>>)
    \o <<Word(data.name)>> \o FmtRest(inst, data)

(* data: of the instructions of this block. *)
fmt_block(f, b, data) ==
    <<Bb(b)>> \o FmtParams(Params(f, b)) \o <<Word(":")>>
    \o FlattenSeq([i \in 1..Len(Instructions(f, b)) |->
                      fmt_inst(Instructions(f, b)[i], data[i])])

(* How many instructions come before block b in the text. *)
Before(f, b) == Len(FlattenSeq([c \in 1..(b - 1) |-> Instructions(f, c)]))

fmt_function(fn) ==
    Words(<<"fn", "@", fn.name>>) \o FmtParams(fn.func.args) \o Words(<<"->", "i64", "{">>)
    \o FlattenSeq([b \in Blocks(fn.func) |->
           fmt_block(fn.func, b, SubSeq(fn.data, Before(fn.func, b) + 1, Len(fn.data)))])
    \o <<Word("}")>>

fmt_module(mod) == FlattenSeq([k \in 1..Len(mod) |-> fmt_function(mod[k])])
=============================================================================
