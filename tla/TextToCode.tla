-------------------------------- MODULE TextToCode --------------------------------
(***************************************************************************)
(* The way of a module from its builder to code, with the text between:    *)
(* a caller builds functions, writes the module out and reads it in again, *)
(* maybe after an edit, and compiles it, as src/examples/textual_ir.cpp    *)
(* does with a file; or compiles what was built.                           *)
(*                                                                         *)
(* Before there is a parser its variables func, name, data and functions   *)
(* are those of the caller: both call the same members of function_t.      *)
(***************************************************************************)
EXTENDS Parser, Session

CONSTANTS
    FunctionNames,   \* what the caller calls its functions
    Details,         \* what it may say of an instruction besides its class
    Replacements,    \* the lexemes that an edit may put in a text
    Followed,        \* bounds: the instructions after which another may come,
    MaxFunctions,    \*   functions of a module,
    MaxEdited,       \*   lexemes of a text that is edited,
    MaxCut           \*   lexemes that an edit takes out

(* What there is to say of an instruction of each class. *)
IsData(d) ==
    /\ d.name \in DOMAIN ClassOf /\ d.num \in Int
    /\ LET class == ClassOf[d.name] IN
       \/ class = "compare" /\ d.cond \in Conditions /\ d = Comparison(d.cond)
       \/ /\ class \in {"load", "store"}
          /\ d.num = Int32(d.num) /\ d.width \in Nat /\ d.sign \in BOOLEAN
          /\ d = Access(d.name, d.width, d.sign, d.num)
       \/ (class \in {"const", "call"} \/ d.name \in Shifts) /\ d = Numbered(d.name, d.num)
       \/ /\ class \notin {"compare", "load", "store", "const", "call"}
          /\ d.name \notin Shifts
          /\ d = Plain(d.name)

ASSUME DetailsAssumption ==
    /\ {ClassOf[d.name] : d \in Details} = Classes
    /\ \A d \in Details : IsData(d)

ASSUME NamesAssumption ==
    /\ "" \notin FunctionNames \cup Callee
    /\ Native \notin FunctionNames \cup Keywords \cup Marks \cup Numeric
                     \cup Conditions \cup DOMAIN LoadKinds

ASSUME ReplacementsAssumption == \A l \in Replacements : IsLexeme(l)

VARIABLES
    original,   \* the module that was written out
    edited      \* the text has been edited since

vars == <<parser, session, original, edited>>

caller == <<text, position, m_ids, first_block, original, edited>>

PathInit ==
    /\ func = BareFunction
    /\ text = <<>> /\ position = 1 /\ m_ids = <<>> /\ first_block = TRUE
    /\ name = "" /\ data = <<>> /\ functions = <<>>
    /\ phase = "building"
    /\ SessionInit
    /\ original = <<>> /\ edited = FALSE

-----------------------------------------------------------------------------
(* Building *)

Building == phase = "building" /\ outcome = "none"

BeginFunction ==
    /\ Building /\ name = "" /\ Len(functions) < MaxFunctions
    /\ name' \in FunctionNames
    /\ \E n \in 0..MaxArgs : func' = CreateFunction(n)
    /\ UNCHANGED <<data, functions, phase, session, caller>>

AddBlock ==
    /\ Building /\ name # ""
    /\ CreateBlock
    /\ UNCHANGED <<name, data, functions, phase, session, caller>>

(* A bound: another instruction comes after few of them, and no arguments. *)
Continued ==
    data # <<>> =>
      /\ Last(data).name \in Followed
      /\ \A inst \in ToSet(InstructionsOf(func)) : inst.op = "call" => inst.operands = <<>>

(* A call by name has no address. *)
Describes(d, inst) == ClassOf[d.name] = inst.op /\ (IsNamed(inst) => d.num = 0)

AddInstruction ==
    /\ Building /\ name # ""
    /\ Continued
    /\ Emit \/ Load \/ Store \/ EmitTerm
    /\ \E d \in Details :
         /\ Describes(d, Last(Last(func'.blocks).instructions))
         /\ data' = Append(data, d)
    /\ UNCHANGED <<name, functions, phase, session, caller>>

FinishFunction ==
    /\ Building /\ name # ""
    /\ functions' = Append(functions, Named(name, func, data))
    /\ name' = "" /\ func' = BareFunction /\ data' = <<>>
    /\ UNCHANGED <<phase, session, caller>>

-----------------------------------------------------------------------------
(* Writing, editing, reading *)

Built == Building /\ name = "" /\ functions # <<>>

Write ==
    /\ Built
    /\ Parse(fmt_module(functions))
    /\ original' = functions /\ edited' = FALSE
    /\ UNCHANGED session

Cut(t, p, n)      == SubSeq(t, 1, p - 1) \o SubSeq(t, p + n, Len(t))
Doubled(t, p)     == SubSeq(t, 1, p) \o SubSeq(t, p, Len(t))
Replaced(t, p, l) == [t EXCEPT ![p] = l]

(* One slip of the hand; the types are left alone, since one stands for all. *)
Edits(t) ==
    UNION {{Cut(t, p, n) : n \in 1..MaxCut} \cup {Doubled(t, p)}
           \cup {Replaced(t, p, l) : l \in Replacements}
             : p \in {q \in 1..Len(t) : t[q].text # "i64"}}

IsName(n) == n \notin Keywords

(* The functions whose text has a reading. *)
Readable(fn) ==
    /\ IsName(fn.name)
    /\ \A d \in ToSet(fn.data) : d.name \in Shifts => d.num \in 0..63
    /\ \A b \in Blocks(fn.func) : \A i \in 1..Len(Instructions(fn.func, b)) :
         LET inst == Instructions(fn.func, b)[i] IN
         /\ Reads(inst) \subseteq DefinedBefore(fn.func, b, i)
         /\ IsNamed(inst) => IsName(inst.callee)

(* A bound: only texts with a reading are edited. *)
WriteAndEdit ==
    /\ Built
    /\ \A fn \in ToSet(functions) : Readable(fn)
    /\ LET t == fmt_module(functions) IN
         /\ Len(t) <= MaxEdited
         /\ \E e \in Edits(t) \ {t} : Parse(e)
    /\ original' = functions /\ edited' = TRUE
    /\ UNCHANGED session

Read == ParserStep /\ UNCHANGED <<session, original, edited>>

-----------------------------------------------------------------------------
(* Compiling *)

HasModule == Built \/ phase = "parsed"

(* After a failure a caller may try again, with the functions in another order. *)
Orders == {s \in [1..Len(functions) -> 1..Len(functions)] : IsInjective(s)}

Compile ==
    /\ HasModule \/ outcome \in Exceptions \cup {"returned"}
    /\ \E s \in Orders :
         /\ outcome = "none" => s = [k \in 1..Len(functions) |-> k]
         /\ CompileModule([k \in 1..Len(functions) |-> functions[s[k]]])
    /\ UNCHANGED <<parser, original, edited>>

Generate == SessionStep /\ UNCHANGED <<parser, original, edited>>

PathNext ==
    \/ BeginFunction \/ AddBlock \/ AddInstruction \/ FinishFunction
    \/ Write \/ WriteAndEdit \/ Read
    \/ Compile \/ Generate

(* parse_module is a call: it does not stop half way. *)
Fairness == WF_vars(Read)

PathSpec == PathInit /\ [][PathNext]_vars /\ Fairness

-----------------------------------------------------------------------------
(* Properties *)

(* What the parser makes of the data that the formatter writes. *)
Normal(d) ==
    CASE d.name = "udiv"  -> [d EXCEPT !.name = "idiv"]
      [] d.name = "load"  -> Access("load", IF d.width \in {1, 2, 4} THEN d.width ELSE 8,
                                    d.sign /\ d.width \in {1, 2}, d.num)
      [] d.name = "store" -> Access("store", IF d.width \in {1, 2, 4} THEN d.width ELSE 8,
                                    FALSE, d.num)
      [] OTHER -> d

Normalised(mod) ==
    [k \in 1..Len(mod) |-> [mod[k] EXCEPT !.data = [i \in DOMAIN @ |-> Normal(@[i])]]]

(***************************************************************************)
(* What to_string writes, parse_module reads: the same functions, blocks,  *)
(* ids, operands and edges, and the same data but for what section 4 of    *)
(* the README says of udiv and the sign of a 4-byte load.  It refuses a    *)
(* module only for a name that is a keyword, a shift by more than 63 or a  *)
(* value that is not written above its use.                                *)
(***************************************************************************)
RoundTrip ==
    ~edited =>
      /\ phase = "parsed" => functions = Normalised(original)
      /\ phase = "refused" => \E fn \in ToSet(original) : ~Readable(fn)

(* Two lexemes that say the same; ids and offsets have Modulus values. *)
SaysTheSame(a, b) ==
    \/ a.text = b.text /\ (ValueOf(a) - b.num) % Modulus = 0
    \/ a.text = "udiv" /\ b.text = "idiv"

(* A body without any block: the function has its entry block all the same. *)
HasEmptyBody ==
    \E p \in 1..(Len(text) - 1) : text[p].text = "{" /\ text[p + 1].text = "}"

(* The kind of a store may have a sign, which says nothing. *)
SignOfStore(p, a) ==
    /\ p > 2 /\ text[p - 2] = Word("store")
    /\ <<text[p].text, a.text>> \in {<<"i8s", "i8">>, <<"i16s", "i16">>}

(***************************************************************************)
(* A text that is accepted means what it says: the module built from it,   *)
(* written out, is that text again, lexeme for lexeme.  So no comma, mark, *)
(* operand or label can be missing, doubled or exchanged unnoticed.        *)
(***************************************************************************)
AcceptedPrintsBack ==
    phase = "parsed" /\ ~HasEmptyBody =>
       LET again == fmt_module(functions) IN
       /\ Len(again) = Len(text)
       /\ \A p \in 1..Len(text) : SaysTheSame(text[p], again[p]) \/ SignOfStore(p, again[p])

(***************************************************************************)
(* Every value that an accepted text reads is defined above, in its own    *)
(* function, the operands of itrunc32 and isext32 included: the parser     *)
(* refuses what the verifier lets through, so that of the exceptions of    *)
(* code generation out_of_range never comes to a reader of texts.          *)
(***************************************************************************)
AcceptedReadsAreDefined ==
    /\ phase = "parsed" =>
         \A fn \in ToSet(functions) : \A b \in Blocks(fn.func) :
           \A i \in 1..Len(Instructions(fn.func, b)) :
             Reads(Instructions(fn.func, b)[i]) \subseteq DefinedBefore(fn.func, b, i)
    /\ outcome = "out_of_range" => phase # "parsed"

(***************************************************************************)
(* While a function is read the map goes from the numbers of its text, and *)
(* from no others, onto the ids that its builder has given out, each to    *)
(* the one it is equal to as a Value.                                      *)
(***************************************************************************)
ResolvesOwnIds ==
    phase = "parsing" /\ name # "" =>
       /\ \A v \in DOMAIN m_ids : m_ids[v] = v % Modulus
       /\ {m_ids[v] : v \in DOMAIN m_ids} = 0..(func.types - 1)
       /\ \A v, w \in DOMAIN m_ids : m_ids[v] = m_ids[w] => v = w

(***************************************************************************)
(* Every text gets an answer, one that breaks off anywhere included.       *)
(***************************************************************************)
ReadingEnds == phase = "parsing" ~> phase \in {"parsed", "refused"}
=============================================================================
