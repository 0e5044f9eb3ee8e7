----------------------------- MODULE TextToCodeProofs -----------------------------
(***************************************************************************)
(* The properties of compile_module, for every number of functions, calls  *)
(* of compile_module and ways a caller can come to a module.               *)
(*                                                                         *)
(* The invariant says of every table, the current one and those handed     *)
(* out, that its entries are whole pieces of the buffer, and of every      *)
(* piece that its calls go to whole ones; and it follows the table through *)
(* a module: behind n functions it has their names and no others.          *)
(*                                                                         *)
(* Of the parser it says that the map of ids goes one to one onto the ids  *)
(* of the builder, and that what has been read so far is what would be     *)
(* written for it.                                                         *)
(***************************************************************************)
EXTENDS TextToCode, SequenceLemmas

(* The entries of a table are whole, each the code of its name. *)
WholeIn(t, c) ==
    \A n \in DOMAIN t : t[n] \in 1..Len(c) /\ c[t[n]].whole = TRUE /\ c[t[n]].name = n

Wholes(c) == {k \in 1..Len(c) : c[k].whole = TRUE}

PiecesOK(c) ==
    \A k \in 1..Len(c) : c[k].whole \in BOOLEAN /\ ToSet(c[k].targets) \subseteq Wholes(c)

(* A piece that can come behind the pieces of c. *)
Fits(p, c) == p.whole \in BOOLEAN /\ ToSet(p.targets) \subseteq Wholes(c)

Entered(t, x, l) == [y \in DOMAIN t \cup {x} |-> IF y = x THEN l ELSE t[y]]

TargetsIn(t, names) == [k \in DOMAIN names |-> t[names[k]]]

(* The table behind the first n - 1 functions of module m. *)
NamesBefore(m, n) == {m[j].name : j \in 1..(n - 1)}

CallsBefore(m, n) == \A j \in 1..(n - 1) : ToSet(Calls(m[j].func)) \subseteq NamesBefore(m, j)

LinkedIn(m, n, t, c) ==
    \A j \in 1..(n - 1) :
        /\ ToSet(Calls(m[j].func)) \subseteq DOMAIN t
        /\ c[t[m[j].name]].targets = TargetsIn(t, Calls(m[j].func))

Underway == outcome \notin {"none", "verify_error"}

Sequences == IsSequence(mod_ir) /\ IsSequence(code) /\ IsSequence(handed)

Counters ==
    /\ next \in Nat /\ next <= Len(mod_ir) + 1
    /\ compiles \in 0..MaxCompiles /\ exec \in BOOLEAN /\ outcome \in Outcomes

Buffer ==
    /\ WholeIn(table, code) /\ PiecesOK(code)
    /\ \A k \in 1..Len(handed) : WholeIn(handed[k], code)

Executable ==
    /\ exec <=> handed # <<>>
    /\ outcome = "killed" => exec

Progress ==
    Underway =>
      /\ next >= 1 /\ Accepted(mod_ir)
      /\ DOMAIN table = NamesBefore(mod_ir, next)
      /\ CallsBefore(mod_ir, next)
      /\ UniqueNames(mod_ir) => LinkedIn(mod_ir, next, table, code)

Ends ==
    /\ outcome \in {"returned", "make_exec"} => next = Len(mod_ir) + 1
    /\ outcome = "unresolved" => ~CallsOnlyBack(mod_ir)

SessionInv ==
    /\ IsSequence(functions)
    /\ Sequences /\ Counters /\ Buffer /\ Executable /\ Progress /\ Ends

-----------------------------------------------------------------------------
(* The buffer *)

(* A piece more in the buffer spoils no table and no piece. *)
LEMMA PieceAppended ==
    ASSUME NEW c, IsSequence(c), PiecesOK(c), NEW p, Fits(p, c)
    PROVE  /\ PiecesOK(Append(c, p))
           /\ \A t : WholeIn(t, c) => WholeIn(t, Append(c, p))
<1> DEFINE d == Append(c, p)
<1>1. /\ Len(d) = Len(c) + 1 /\ d[Len(c) + 1] = p
      /\ \A k \in 1..Len(c) : d[k] = c[k]
  BY AppendedElements
<1>2. Len(c) \in Nat
  BY SequenceElements
<1> HIDE DEF d
<1>3. Wholes(c) \subseteq Wholes(d)
  BY <1>1, <1>2 DEF Wholes
<1>4. PiecesOK(d)
  <2> SUFFICES ASSUME NEW k \in 1..Len(d)
               PROVE  d[k].whole \in BOOLEAN /\ ToSet(d[k].targets) \subseteq Wholes(d)
    BY DEF PiecesOK
  <2>1. CASE k \in 1..Len(c)
    BY <2>1, <1>1, <1>3 DEF PiecesOK
  <2>2. CASE k = Len(c) + 1
    BY <2>2, <1>1, <1>3 DEF Fits
  <2>3. QED
    BY <2>1, <2>2, <1>1, <1>2
<1>5. ASSUME NEW t, WholeIn(t, c)
      PROVE  WholeIn(t, d)
  BY <1>1, <1>2, <1>5 DEF WholeIn
<1>6. QED
  BY <1>4, <1>5 DEF d

(* The targets of calls that a table resolves are whole. *)
LEMMA TargetsAreWhole ==
    ASSUME NEW t, NEW c, WholeIn(t, c), NEW names, ToSet(names) \subseteq DOMAIN t
    PROVE  ToSet(TargetsIn(t, names)) \subseteq Wholes(c)
BY DEF ToSet, TargetsIn, WholeIn, Wholes

LEMMA NothingBefore == ASSUME NEW m PROVE NamesBefore(m, 1) = {} /\ CallsBefore(m, 1)
BY DEF NamesBefore, CallsBefore

(* The table after function n of module m has been compiled. *)
LEMMA FunctionAdded ==
    ASSUME NEW m, NEW n \in Nat, n >= 1, NEW t, NEW l,
           DOMAIN t = NamesBefore(m, n), CallsBefore(m, n),
           ToSet(Calls(m[n].func)) \subseteq DOMAIN t
    PROVE  /\ DOMAIN Entered(t, m[n].name, l) = NamesBefore(m, n + 1)
           /\ CallsBefore(m, n + 1)
<1>1. 1..((n + 1) - 1) = (1..(n - 1)) \cup {n}
  OBVIOUS
<1>2. NamesBefore(m, n + 1) = NamesBefore(m, n) \cup {m[n].name}
  BY <1>1 DEF NamesBefore
<1>3. CallsBefore(m, n + 1)
  BY <1>1 DEF CallsBefore
<1>4. QED
  BY <1>2, <1>3 DEF Entered

LEMMA FunctionLinked ==
    ASSUME NEW m, NEW n \in Nat, n >= 1, n <= Len(m), Len(m) \in Nat, UniqueNames(m),
           NEW t, NEW c, NEW d, NEW l,
           DOMAIN t = NamesBefore(m, n), WholeIn(t, c), LinkedIn(m, n, t, c),
           ToSet(Calls(m[n].func)) \subseteq DOMAIN t,
           \A k \in 1..Len(c) : d[k] = c[k],
           d[l].targets = TargetsIn(t, Calls(m[n].func))
    PROVE  LinkedIn(m, n + 1, Entered(t, m[n].name, l), d)
<1> DEFINE u == Entered(t, m[n].name, l)
<1>1. \A j \in 1..(n - 1) : m[j].name # m[n].name
  BY DEF UniqueNames
<1>2. \A x \in DOMAIN t : x # m[n].name /\ u[x] = t[x]
  BY <1>1 DEF NamesBefore, Entered
<1>3. \A names : ToSet(names) \subseteq DOMAIN t => TargetsIn(u, names) = TargetsIn(t, names)
  BY <1>2 DEF TargetsIn, ToSet
<1>4. DOMAIN t \subseteq DOMAIN u /\ u[m[n].name] = l
  BY DEF Entered
<1> HIDE DEF u
<1> SUFFICES ASSUME NEW j \in 1..((n + 1) - 1)
             PROVE  /\ ToSet(Calls(m[j].func)) \subseteq DOMAIN u
                    /\ d[u[m[j].name]].targets = TargetsIn(u, Calls(m[j].func))
  BY DEF LinkedIn, u
<1>5. CASE j = n
  BY <1>5, <1>3, <1>4
<1>6. CASE j \in 1..(n - 1)
  <2>1. m[j].name \in DOMAIN t
    BY <1>6 DEF NamesBefore
  <2>2. t[m[j].name] \in 1..Len(c)
    BY <2>1 DEF WholeIn
  <2>3. /\ ToSet(Calls(m[j].func)) \subseteq DOMAIN t
        /\ c[t[m[j].name]].targets = TargetsIn(t, Calls(m[j].func))
    BY <1>6 DEF LinkedIn
  <2>4. QED
    BY <1>2, <1>3, <1>4, <2>1, <2>2, <2>3
<1>7. QED
  BY <1>5, <1>6

(* Pieces more in the buffer leave the calls of those before where they are. *)
LEMMA LinkedStays ==
    ASSUME NEW m, NEW n \in Nat, NEW t, NEW c, NEW d,
           DOMAIN t = NamesBefore(m, n), WholeIn(t, c), LinkedIn(m, n, t, c),
           \A k \in 1..Len(c) : d[k] = c[k]
    PROVE  LinkedIn(m, n, t, d)
<1> SUFFICES ASSUME NEW j \in 1..(n - 1)
             PROVE  /\ ToSet(Calls(m[j].func)) \subseteq DOMAIN t
                    /\ d[t[m[j].name]].targets = TargetsIn(t, Calls(m[j].func))
  BY DEF LinkedIn
<1>1. m[j].name \in DOMAIN t
  BY DEF NamesBefore
<1>2. t[m[j].name] \in 1..Len(c)
  BY <1>1 DEF WholeIn
<1>3. QED
  BY <1>2 DEF LinkedIn

-----------------------------------------------------------------------------
(* The steps of compile_module *)

LEMMA InitEstablishes == PathInit => SessionInv
<1> SUFFICES ASSUME PathInit PROVE SessionInv
  OBVIOUS
<1>0. /\ functions = <<>> /\ mod_ir = <<>> /\ next = 0 /\ table = <<>>
      /\ code = <<>> /\ exec = FALSE
      /\ handed = <<>> /\ compiles = 0 /\ outcome = "none"
  BY DEF PathInit, SessionInit
<1>1. Sequences /\ IsSequence(functions)
  BY <1>0, EmptySequence DEF Sequences
<1>2. Counters
  <2>1. next \in Nat /\ next <= Len(mod_ir) + 1 /\ compiles \in 0..MaxCompiles
    <3>1. Len(mod_ir) = 0
      BY <1>0, EmptySequence
    <3>2. QED
      BY <1>0, <3>1, CompilesAssumption
  <2>2. exec \in BOOLEAN /\ outcome \in Outcomes
    BY <1>0 DEF Outcomes
  <2>3. QED
    BY <2>1, <2>2 DEF Counters
<1>3. Buffer
  <2>1. Len(code) = 0 /\ Len(handed) = 0 /\ DOMAIN table = {}
    BY <1>0, EmptySequence, SequenceElements
  <2>2. 1..0 = {}
    OBVIOUS
  <2>3. QED
    BY <2>1, <2>2 DEF Buffer, WholeIn, PiecesOK
<1>4. Executable /\ Progress /\ Ends
  BY <1>0 DEF Executable, Progress, Ends, Underway
<1>5. QED
  BY <1>1, <1>2, <1>3, <1>4 DEF SessionInv

LEMMA CompileModuleKeeps ==
    ASSUME SessionInv, NEW mod, IsSequence(mod), CompileModule(mod), UNCHANGED functions
    PROVE  SessionInv'
<1>1. /\ mod_ir' = mod /\ next' = 1 /\ table' = <<>>
      /\ outcome' = IF Accepted(mod) THEN "compiling" ELSE "verify_error"
      /\ compiles' = compiles + 1 /\ compiles < MaxCompiles
      /\ UNCHANGED <<code, exec, handed>>
  BY DEF CompileModule
<1>2. Len(mod) \in Nat
  BY SequenceElements
<1>3. Sequences' /\ IsSequence(functions)'
  BY <1>1 DEF SessionInv, Sequences, IsSequence, ToSet
<1>4. Counters'
  <2>1. (next \in Nat /\ next <= Len(mod_ir) + 1 /\ compiles \in 0..MaxCompiles)'
    BY <1>1, <1>2, CompilesAssumption DEF SessionInv, Counters
  <2>2. (exec \in BOOLEAN /\ outcome \in Outcomes)'
    BY <1>1 DEF SessionInv, Counters, Outcomes, Exceptions
  <2>3. QED
    BY <2>1, <2>2 DEF Counters
<1>5. Buffer'
  BY <1>1 DEF SessionInv, Buffer, WholeIn, PiecesOK, Wholes
<1>6. Executable' /\ Ends'
  BY <1>1 DEF SessionInv, Executable, Ends
<1>7. Progress'
  <2> SUFFICES ASSUME Underway'
               PROVE  (/\ next >= 1 /\ Accepted(mod_ir)
                       /\ DOMAIN table = NamesBefore(mod_ir, next)
                       /\ CallsBefore(mod_ir, next)
                       /\ UniqueNames(mod_ir) => LinkedIn(mod_ir, next, table, code))'
    BY DEF Progress
  <2>1. Accepted(mod)
    BY <1>1 DEF Underway
  <2>2. Accepted(mod_ir)'
    BY <1>1, <2>1 DEF Accepted, Names, Verified
  <2>3. (DOMAIN table = NamesBefore(mod_ir, next) /\ CallsBefore(mod_ir, next))'
    BY <1>1, NothingBefore DEF NamesBefore, CallsBefore
  <2>4. LinkedIn(mod_ir, next, table, code)'
    BY <1>1 DEF LinkedIn
  <2>5. QED
    BY <1>1, <2>2, <2>3, <2>4
<1>8. QED
  BY <1>3, <1>4, <1>5, <1>6, <1>7 DEF SessionInv

LEMMA CompileFunctionKeeps ==
    ASSUME SessionInv, CompileFunction, UNCHANGED functions
    PROVE  SessionInv'
<1>0. PICK m, n, t, b, u, c, calls, piece :
        /\ m = mod_ir /\ n = next /\ t = table /\ b = code /\ u = table' /\ c = code'
        /\ calls = Calls(m[n].func) /\ piece = Piece(m[n].name, TRUE, TargetsIn(t, calls))
  OBVIOUS
<1>1. /\ outcome = "compiling" /\ next <= Len(mod_ir) /\ ~exec
      /\ UNCHANGED <<mod_ir, exec, handed, compiles, outcome>>
  BY DEF CompileFunction, Compiling
<1>2. /\ ToSet(calls) \subseteq DOMAIN t
      /\ c = Append(b, piece)
      /\ u = Entered(t, m[n].name, Len(b) + 1)
      /\ next' = n + 1
  BY <1>0 DEF CompileFunction, Resolves, Targets, TargetsIn, WithEntry, Entered, Current
<1>3. /\ Len(m) \in Nat /\ n \in Nat /\ n >= 1 /\ n <= Len(m) /\ Underway
      /\ IsSequence(b) /\ WholeIn(t, b) /\ PiecesOK(b)
      /\ \A k \in 1..Len(handed) : WholeIn(handed[k], b)
      /\ Accepted(m) /\ DOMAIN t = NamesBefore(m, n) /\ CallsBefore(m, n)
      /\ UniqueNames(m) => LinkedIn(m, n, t, b)
  BY <1>0, <1>1, SequenceElements DEF SessionInv, Sequences, Counters, Buffer, Progress, Underway
<1>4. piece.name = m[n].name /\ piece.whole = TRUE /\ piece.targets = TargetsIn(t, calls)
  BY <1>0 DEF Piece
<1>5. Len(b) \in Nat
  BY <1>3, SequenceElements
<1>6. /\ IsSequence(c) /\ Len(c) = Len(b) + 1 /\ c[Len(b) + 1] = piece
      /\ \A k \in 1..Len(b) : c[k] = b[k]
      /\ PiecesOK(c)
      /\ \A s : WholeIn(s, b) => WholeIn(s, c)
  <2>1. ToSet(piece.targets) \subseteq Wholes(b)
    BY <1>2, <1>3, <1>4, TargetsAreWhole
  <2>2. Fits(piece, b)
    BY <1>4, <2>1 DEF Fits
  <2>3. PiecesOK(c) /\ \A s : WholeIn(s, b) => WholeIn(s, c)
    BY <1>2, <1>3, <2>2, PieceAppended
  <2>4. QED
    BY <1>2, <1>3, <2>3, AppendedElements
<1>7. Sequences' /\ IsSequence(functions)'
  BY <1>0, <1>1, <1>6 DEF SessionInv, Sequences, IsSequence, ToSet
<1>8. Counters'
  BY <1>0, <1>1, <1>2, <1>3 DEF SessionInv, Counters
<1>9. Buffer'
  <2>1. WholeIn(u, c)
    <3>1. WholeIn(t, c)
      BY <1>3, <1>6
    <3>2. c[Len(b) + 1].whole = TRUE /\ c[Len(b) + 1].name = m[n].name /\ Len(b) + 1 \in 1..Len(c)
      BY <1>4, <1>5, <1>6
    <3>3. QED
      BY <1>2, <3>1, <3>2 DEF WholeIn, Entered
  <2>2. \A k \in 1..Len(handed) : WholeIn(handed[k], c)
    BY <1>3, <1>6
  <2>3. QED
    BY <1>0, <1>1, <1>6, <2>1, <2>2 DEF Buffer, WholeIn, PiecesOK, Wholes
<1>10. Executable' /\ Ends'
  BY <1>1 DEF SessionInv, Executable, Ends
<1>11. Progress'
  <2>1. DOMAIN u = NamesBefore(m, n + 1) /\ CallsBefore(m, n + 1)
    BY <1>0, <1>2, <1>3, FunctionAdded
  <2>2. UniqueNames(m) => LinkedIn(m, n + 1, u, c)
    BY <1>0, <1>2, <1>3, <1>4, <1>6, FunctionLinked, ZenonT(30)
  <2>3. n + 1 >= 1
    BY <1>3
  <2>4. /\ mod_ir' = m /\ next' = n + 1 /\ table' = u /\ code' = c
        /\ mod_ir = m
    BY <1>0, <1>1, <1>2
  <2>5. Accepted(mod_ir)'
    BY <1>3, <2>4 DEF Accepted, Names, Verified
  <2>6. (DOMAIN table = NamesBefore(mod_ir, next) /\ CallsBefore(mod_ir, next))'
    BY <2>1, <2>4 DEF NamesBefore, CallsBefore
  <2>7. (UniqueNames(mod_ir) => LinkedIn(mod_ir, next, table, code))'
    BY <2>2, <2>4 DEF UniqueNames, LinkedIn, TargetsIn
  <2>8. QED
    BY <2>3, <2>4, <2>5, <2>6, <2>7 DEF Progress
<1>12. QED
  BY <1>7, <1>8, <1>9, <1>10, <1>11 DEF SessionInv

Kept == UNCHANGED <<mod_ir, next, table, exec, handed, compiles, functions>>

(* A step that ends the call, with or without remains of a function. *)
LEMMA BrokenOff ==
    ASSUME SessionInv, outcome = "compiling", Kept,
           outcome' \in Outcomes, Executable', Ends',
           code' = code \/ \E p : Fits(p, code) /\ code' = Append(code, p)
    PROVE  SessionInv'
<1>0. PICK m, n, t, b, c :
        m = mod_ir /\ n = next /\ t = table /\ b = code /\ c = code'
  OBVIOUS
<1>1. mod_ir' = m /\ next' = n /\ table' = t /\ UNCHANGED <<exec, handed, compiles, functions>>
  BY <1>0 DEF Kept
<1>2. /\ IsSequence(b) /\ WholeIn(t, b) /\ PiecesOK(b)
      /\ \A k \in 1..Len(handed) : WholeIn(handed[k], b)
      /\ n \in Nat /\ n >= 1 /\ Accepted(m)
      /\ DOMAIN t = NamesBefore(m, n) /\ CallsBefore(m, n)
      /\ UniqueNames(m) => LinkedIn(m, n, t, b)
  BY <1>0 DEF SessionInv, Sequences, Counters, Buffer, Progress, Underway
<1>3. /\ IsSequence(c) /\ PiecesOK(c)
      /\ \A k \in 1..Len(b) : c[k] = b[k]
      /\ \A s : WholeIn(s, b) => WholeIn(s, c)
  <2>1. CASE c = b
    BY <1>2, <2>1
  <2>2. CASE \E p : Fits(p, b) /\ c = Append(b, p)
    <3>1. PICK p : Fits(p, b) /\ c = Append(b, p)
      BY <2>2
    <3>2. PiecesOK(c) /\ \A s : WholeIn(s, b) => WholeIn(s, c)
      BY <1>2, <3>1, PieceAppended
    <3>3. QED
      BY <1>2, <3>1, <3>2, AppendedElements
  <2>3. QED
    BY <1>0, <2>1, <2>2
<1>4. Sequences' /\ IsSequence(functions)'
  BY <1>0, <1>1, <1>3 DEF SessionInv, Sequences, IsSequence, ToSet
<1>5. Counters'
  BY <1>0, <1>1 DEF SessionInv, Counters
<1>6. Buffer'
  <2>1. WholeIn(t, c) /\ \A k \in 1..Len(handed) : WholeIn(handed[k], c)
    BY <1>2, <1>3
  <2>2. QED
    BY <1>0, <1>1, <1>3, <2>1 DEF Buffer, WholeIn, PiecesOK, Wholes
<1>7. Progress'
  <2>1. UniqueNames(m) => LinkedIn(m, n, t, c)
    BY <1>2, <1>3, LinkedStays
  <2>2. Accepted(mod_ir)'
    BY <1>1, <1>2 DEF Accepted, Names, Verified
  <2>3. (DOMAIN table = NamesBefore(mod_ir, next) /\ CallsBefore(mod_ir, next))'
    BY <1>1, <1>2 DEF NamesBefore, CallsBefore
  <2>4. (UniqueNames(mod_ir) => LinkedIn(mod_ir, next, table, code))'
    BY <1>0, <1>1, <2>1 DEF UniqueNames, LinkedIn, TargetsIn
  <2>5. QED
    BY <1>1, <1>2, <2>2, <2>3, <2>4 DEF Progress
<1>8. QED
  BY <1>4, <1>5, <1>6, <1>7 DEF SessionInv

(* What is left of a function has calls to whole code, and to no other. *)
LEMMA RemainsFit ==
    ASSUME SessionInv, NEW k, Abandon(k),
           Resolves(SubSeq(Calls(Current.func), 1, k))
    PROVE  \E p : Fits(p, code) /\ code' = Append(code, p)
<1>0. PICK names : names = SubSeq(Calls(Current.func), 1, k)
  OBVIOUS
<1>1. PICK p : p = Piece(Current.name, FALSE, Targets(names))
  OBVIOUS
<1>2. code' = Append(code, p)
  BY <1>0, <1>1 DEF Abandon
<1>3. p.targets = TargetsIn(table, names) /\ p.whole = FALSE
  BY <1>1 DEF Piece, Targets, TargetsIn
<1>4. WholeIn(table, code) /\ ToSet(names) \subseteq DOMAIN table
  BY <1>0 DEF SessionInv, Buffer, Resolves
<1>5. ToSet(p.targets) \subseteq Wholes(code)
  BY <1>3, <1>4, TargetsAreWhole
<1>6. Fits(p, code)
  BY <1>3, <1>5 DEF Fits
<1>7. QED
  BY <1>2, <1>6

LEMMA LiveRangesThrowKeeps ==
    ASSUME SessionInv, LiveRangesThrow, UNCHANGED functions
    PROVE  SessionInv'
<1>1. /\ outcome = "compiling" /\ Kept /\ code' = code
      /\ outcome' = "out_of_range"
  BY DEF LiveRangesThrow, Compiling, Throw, Kept
<1>2. outcome' \in Outcomes
  BY <1>1 DEF Outcomes, Exceptions
<1>3. Executable' /\ Ends'
  BY <1>1 DEF SessionInv, Executable, Ends, Kept
<1>4. QED
  BY <1>1, <1>2, <1>3, BrokenOff

LEMMA OverflowKeeps ==
    ASSUME SessionInv, Overflow, UNCHANGED functions
    PROVE  SessionInv'
<1>1. /\ outcome = "compiling" /\ Kept /\ outcome' = "overflow"
  BY DEF Overflow, Compiling, Throw, Kept
<1>2. outcome' \in Outcomes
  BY <1>1 DEF Outcomes, Exceptions
<1>3. Executable' /\ Ends'
  BY <1>1 DEF SessionInv, Executable, Ends, Kept
<1>4. code' = code \/ \E p : Fits(p, code) /\ code' = Append(code, p)
  BY RemainsFit DEF Overflow
<1>5. QED
  BY <1>1, <1>2, <1>3, <1>4, BrokenOff

LEMMA CallTargetNotFoundKeeps ==
    ASSUME SessionInv, CallTargetNotFound, UNCHANGED functions
    PROVE  SessionInv'
<1>1. /\ outcome = "compiling" /\ Kept /\ outcome' = "unresolved" /\ mod_ir' = mod_ir
      /\ next <= Len(mod_ir)
  BY DEF CallTargetNotFound, Compiling, Throw, Kept
<1>2. outcome' \in Outcomes
  BY <1>1 DEF Outcomes, Exceptions
<1>3. PICK k \in DOMAIN Calls(Current.func) :
        /\ Resolves(SubSeq(Calls(Current.func), 1, k - 1))
        /\ Calls(Current.func)[k] \notin DOMAIN table
        /\ Abandon(k - 1)
  BY DEF CallTargetNotFound
<1>4. ~CallsOnlyBack(mod_ir)
  <2>1. Calls(Current.func)[k] \in ToSet(Calls(Current.func))
    BY <1>3 DEF ToSet
  <2>2. Calls(Current.func)[k] \notin NamesBefore(mod_ir, next)
    BY <1>1, <1>3 DEF SessionInv, Progress, Underway
  <2>3. next \in 1..Len(mod_ir)
    BY <1>1, SequenceElements DEF SessionInv, Sequences, Counters, Progress, Underway
  <2>4. QED
    BY <2>1, <2>2, <2>3 DEF CallsOnlyBack, NamesBefore, Current
<1>5. Executable'
  BY <1>1 DEF SessionInv, Executable, Kept
<1>6. Ends'
  BY <1>1, <1>4, SMTT(20) DEF Ends, CallsOnlyBack
<1>7. \E p : Fits(p, code) /\ code' = Append(code, p)
  BY <1>3, RemainsFit
<1>8. QED
  BY <1>1, <1>2, <1>5, <1>6, <1>7, BrokenOff

LEMMA WriteToExecKeeps ==
    ASSUME SessionInv, WriteToExec, UNCHANGED functions
    PROVE  SessionInv'
<1>1. /\ outcome = "compiling" /\ Kept /\ outcome' = "killed" /\ code' = code /\ exec
  BY DEF WriteToExec, Compiling, Kept
<1>2. outcome' \in Outcomes
  BY <1>1 DEF Outcomes
<1>3. Executable' /\ Ends'
  BY <1>1 DEF SessionInv, Executable, Ends, Kept
<1>4. QED
  BY <1>1, <1>2, <1>3, BrokenOff

LEMMA CommitFailsKeeps ==
    ASSUME SessionInv, CommitFails, UNCHANGED functions
    PROVE  SessionInv'
<1>1. /\ outcome = "compiling" /\ Kept /\ outcome' = "make_exec" /\ code' = code
      /\ next > Len(mod_ir)
  BY DEF CommitFails, AllCompiled, Throw, Kept
<1>2. outcome' \in Outcomes
  BY <1>1 DEF Outcomes, Exceptions
<1>3. next = Len(mod_ir) + 1
  BY <1>1, SequenceElements DEF SessionInv, Sequences, Counters
<1>4. Executable' /\ Ends'
  BY <1>1, <1>3 DEF SessionInv, Executable, Ends, Kept
<1>5. QED
  BY <1>1, <1>2, <1>4, BrokenOff

LEMMA CommitKeeps ==
    ASSUME SessionInv, Commit, UNCHANGED functions
    PROVE  SessionInv'
<1>0. PICK h : h = handed'
  OBVIOUS
<1>1. /\ outcome = "compiling" /\ next > Len(mod_ir)
      /\ exec' = TRUE /\ h = Append(handed, table) /\ outcome' = "returned"
      /\ UNCHANGED <<mod_ir, next, table, code, compiles, functions>>
  BY <1>0 DEF Commit, AllCompiled
<1>2. /\ IsSequence(h) /\ Len(h) = Len(handed) + 1 /\ h # <<>>
      /\ \A k \in 1..Len(handed) : h[k] = handed[k]
      /\ h[Len(handed) + 1] = table
  BY <1>1, AppendedElements DEF SessionInv, Sequences
<1>3. Len(handed) \in Nat /\ Len(mod_ir) \in Nat
  BY SequenceElements DEF SessionInv, Sequences
<1>4. Sequences' /\ IsSequence(functions)'
  BY <1>0, <1>1, <1>2 DEF SessionInv, Sequences, IsSequence, ToSet
<1>5. Counters'
  <2>1. (next \in Nat /\ next <= Len(mod_ir) + 1 /\ compiles \in 0..MaxCompiles)'
    BY <1>1 DEF SessionInv, Counters
  <2>2. (exec \in BOOLEAN /\ outcome \in Outcomes)'
    BY <1>1 DEF Outcomes
  <2>3. QED
    BY <2>1, <2>2 DEF Counters
<1>6. Buffer'
  <2>1. \A k \in 1..Len(h) : WholeIn(h[k], code)
    <3> SUFFICES ASSUME NEW k \in 1..Len(h) PROVE WholeIn(h[k], code)
      OBVIOUS
    <3>1. CASE k \in 1..Len(handed)
      BY <3>1, <1>2 DEF SessionInv, Buffer
    <3>2. CASE k = Len(handed) + 1
      BY <3>2, <1>2 DEF SessionInv, Buffer
    <3>3. QED
      BY <3>1, <3>2, <1>2, <1>3
  <2>2. QED
    BY <1>0, <1>1, <2>1 DEF SessionInv, Buffer, WholeIn, PiecesOK, Wholes
<1>7. Executable'
  BY <1>0, <1>1, <1>2 DEF Executable
<1>8. Ends'
  <2>1. next' = Len(mod_ir') + 1
    BY <1>1, <1>3 DEF SessionInv, Counters
  <2>2. QED
    BY <1>1, <2>1 DEF Ends
<1>9. Progress'
  <2>1. /\ next >= 1 /\ Accepted(mod_ir)
        /\ DOMAIN table = NamesBefore(mod_ir, next) /\ CallsBefore(mod_ir, next)
        /\ UniqueNames(mod_ir) => LinkedIn(mod_ir, next, table, code)
    BY <1>1 DEF SessionInv, Progress, Underway
  <2>2. Accepted(mod_ir)'
    BY <1>1, <2>1 DEF Accepted, Names, Verified
  <2>3. (DOMAIN table = NamesBefore(mod_ir, next) /\ CallsBefore(mod_ir, next))'
    BY <1>1, <2>1 DEF NamesBefore, CallsBefore
  <2>4. (UniqueNames(mod_ir) => LinkedIn(mod_ir, next, table, code))'
    BY <1>1, <2>1 DEF UniqueNames, LinkedIn, TargetsIn
  <2>5. QED
    BY <1>1, <2>1, <2>2, <2>3, <2>4 DEF Progress
<1>10. QED
  BY <1>4, <1>5, <1>6, <1>7, <1>8, <1>9 DEF SessionInv

LEMMA SessionStepKeeps ==
    ASSUME SessionInv, SessionStep, UNCHANGED functions
    PROVE  SessionInv'
<1>1. CASE CompileFunction
  BY <1>1, CompileFunctionKeeps
<1>2. CASE LiveRangesThrow
  BY <1>2, LiveRangesThrowKeeps
<1>3. CASE CallTargetNotFound
  BY <1>3, CallTargetNotFoundKeeps
<1>4. CASE Overflow
  BY <1>4, OverflowKeeps
<1>5. CASE WriteToExec
  BY <1>5, WriteToExecKeeps
<1>6. CASE Commit
  BY <1>6, CommitKeeps
<1>7. CASE CommitFails
  BY <1>7, CommitFailsKeeps
<1>8. QED
  BY <1>1, <1>2, <1>3, <1>4, <1>5, <1>6, <1>7 DEF SessionStep

(* The session does not mind what happens besides. *)
LEMMA SessionUntouched ==
    ASSUME SessionInv, UNCHANGED session, IsSequence(functions')
    PROVE  SessionInv'
<1>1. UNCHANGED <<mod_ir, next, table, code, exec, handed, compiles, outcome>>
  BY DEF session
<1>2. Sequences' /\ IsSequence(functions)'
  BY <1>1 DEF SessionInv, Sequences, IsSequence, ToSet
<1>3. Counters' /\ Executable'
  BY <1>1 DEF SessionInv, Counters, Executable
<1>4. Buffer'
  BY <1>1 DEF SessionInv, Buffer, WholeIn, PiecesOK, Wholes
<1>5. Ends'
  BY <1>1 DEF SessionInv, Ends, CallsOnlyBack
<1>6. Progress'
  <2> SUFFICES ASSUME Underway'
               PROVE  (/\ next >= 1 /\ Accepted(mod_ir)
                       /\ DOMAIN table = NamesBefore(mod_ir, next)
                       /\ CallsBefore(mod_ir, next)
                       /\ UniqueNames(mod_ir) => LinkedIn(mod_ir, next, table, code))'
    BY DEF Progress
  <2>1. /\ next >= 1 /\ Accepted(mod_ir)
        /\ DOMAIN table = NamesBefore(mod_ir, next) /\ CallsBefore(mod_ir, next)
        /\ UniqueNames(mod_ir) => LinkedIn(mod_ir, next, table, code)
    BY <1>1 DEF SessionInv, Progress, Underway
  <2>2. Accepted(mod_ir)'
    BY <1>1, <2>1 DEF Accepted, Names, Verified
  <2>3. (DOMAIN table = NamesBefore(mod_ir, next) /\ CallsBefore(mod_ir, next))'
    BY <1>1, <2>1 DEF NamesBefore, CallsBefore
  <2>4. (UniqueNames(mod_ir) => LinkedIn(mod_ir, next, table, code))'
    BY <1>1, <2>1 DEF UniqueNames, LinkedIn, TargetsIn
  <2>5. QED
    BY <1>1, <2>1, <2>2, <2>3, <2>4
<1>7. QED
  BY <1>2, <1>3, <1>4, <1>5, <1>6 DEF SessionInv

(* The functions remain a sequence, whoever adds one. *)
LEMMA FunctionsAppended ==
    ASSUME IsSequence(functions), NEW fn, functions' = Append(functions, fn)
    PROVE  IsSequence(functions')
<1>1. PICK s : s = functions'
  OBVIOUS
<1>2. IsSequence(s)
  BY <1>1, AppendedElements
<1>3. QED
  BY <1>1, <1>2 DEF IsSequence, ToSet

LEMMA NoFunctions ==
    ASSUME functions' = <<>>
    PROVE  IsSequence(functions')
<1>1. PICK s : s = functions'
  OBVIOUS
<1>2. IsSequence(s)
  BY <1>1, EmptySequence
<1>3. QED
  BY <1>1, <1>2 DEF IsSequence, ToSet

LEMMA UnchangedFunctions ==
    ASSUME IsSequence(functions), UNCHANGED functions
    PROVE  IsSequence(functions')
BY DEF IsSequence, ToSet

LEMMA BuilderKeeps ==
    ASSUME SessionInv, BeginFunction \/ AddBlock \/ AddInstruction \/ FinishFunction
    PROVE  SessionInv'
<1>1. UNCHANGED session
  BY DEF BeginFunction, AddBlock, AddInstruction, FinishFunction
<1>2. UNCHANGED functions \/ \E fn : functions' = Append(functions, fn)
  BY DEF BeginFunction, AddBlock, AddInstruction, FinishFunction
<1>3. IsSequence(functions)
  BY DEF SessionInv
<1>4. IsSequence(functions')
  BY <1>2, <1>3, FunctionsAppended, UnchangedFunctions
<1>5. QED
  BY <1>1, <1>4, SessionUntouched

LEMMA TextKeeps ==
    ASSUME SessionInv, Write \/ WriteAndEdit \/ Read
    PROVE  SessionInv'
<1>1. UNCHANGED session
  BY DEF Write, WriteAndEdit, Read
<1>2. IsSequence(functions)
  BY DEF SessionInv
<1>3. \/ UNCHANGED functions \/ \E fn : functions' = Append(functions, fn)
      \/ functions' = <<>>
  BY DEF Write, WriteAndEdit, Parse, Read, ParserStep, ParseFunction, ParseBlock,
         ParseEffect, ParseResult, EndFunction, EndModule, Refuse
<1>4. IsSequence(functions')
  BY <1>2, <1>3, FunctionsAppended, UnchangedFunctions, NoFunctions
<1>5. QED
  BY <1>1, <1>4, SessionUntouched

LEMMA CompileKeeps ==
    ASSUME SessionInv, Compile
    PROVE  SessionInv'
<1>1. PICK s \in Orders : CompileModule([k \in 1..Len(functions) |-> functions[s[k]]])
  BY DEF Compile
<1>2. PICK mod : mod = [k \in 1..Len(functions) |-> functions[s[k]]]
  OBVIOUS
<1>3. Len(functions) \in Nat
  BY SequenceElements DEF SessionInv
<1>4. IsSequence(mod)
  BY <1>2, <1>3, FunctionIsSequence
<1>5. UNCHANGED functions
  BY DEF Compile, parser
<1>6. CompileModule(mod)
  BY <1>1, <1>2
<1>7. QED
  BY <1>4, <1>5, <1>6, CompileModuleKeeps

LEMMA StepKeeps == SessionInv /\ [PathNext]_vars => SessionInv'
<1> SUFFICES ASSUME SessionInv, [PathNext]_vars PROVE SessionInv'
  OBVIOUS
<1>1. CASE BeginFunction \/ AddBlock \/ AddInstruction \/ FinishFunction
  BY <1>1, BuilderKeeps
<1>2. CASE Write \/ WriteAndEdit \/ Read
  BY <1>2, TextKeeps
<1>3. CASE Compile
  BY <1>3, CompileKeeps
<1>4. CASE Generate
  <2>1. SessionStep /\ UNCHANGED functions
    BY <1>4 DEF Generate, parser
  <2>2. QED
    BY <2>1, SessionStepKeeps
<1>5. CASE UNCHANGED vars
  <2>1. UNCHANGED session /\ UNCHANGED functions
    BY <1>5 DEF vars, parser
  <2>2. IsSequence(functions')
    BY <2>1, UnchangedFunctions DEF SessionInv
  <2>3. QED
    BY <2>1, <2>2, SessionUntouched
<1>6. QED
  BY <1>1, <1>2, <1>3, <1>4, <1>5 DEF PathNext

(* The tables, pieces and names of the header, in every state. *)
THEOREM SessionHolds == PathSpec => []SessionInv
<1>1. PathInit => SessionInv
  BY InitEstablishes
<1>2. SessionInv /\ [PathNext]_vars => SessionInv'
  BY StepKeeps
<1>3. QED
  BY <1>1, <1>2, PTL DEF PathSpec

-----------------------------------------------------------------------------
(* What follows *)

(* Every table, and every call in the buffer, points into the buffer. *)
THEOREM SessionTypes == PathSpec => []SessionTypeOK
<1>1. SessionInv => SessionTypeOK
  <2> SUFFICES ASSUME SessionInv PROVE SessionTypeOK
    OBVIOUS
  <2>1. Len(mod_ir) \in Nat /\ Len(code) \in Nat /\ ToSet(code) = {code[i] : i \in 1..Len(code)}
    BY SequenceElements DEF SessionInv, Sequences
  <2>2. next \in 0..(Len(mod_ir) + 1) /\ compiles \in 0..MaxCompiles
    BY <2>1 DEF SessionInv, Counters
  <2>3. exec \in BOOLEAN /\ outcome \in Outcomes
    BY DEF SessionInv, Counters
  <2>4. \A n \in DOMAIN table : table[n] \in 1..Len(code)
    BY DEF SessionInv, Buffer, WholeIn
  <2>5. \A p \in ToSet(code) : p.whole \in BOOLEAN /\ ToSet(p.targets) \subseteq 1..Len(code)
    BY <2>1 DEF SessionInv, Buffer, PiecesOK, Wholes
  <2>6. QED
    BY <2>2, <2>3, <2>4, <2>5 DEF SessionTypeOK
<1>2. QED
  BY <1>1, SessionHolds, PTL

(* An entry that a caller holds is whole code, whose calls go to whole code. *)
THEOREM WholeCodeIsHandedOut == PathSpec => []HandedOutIsWhole
<1>1. SessionInv => HandedOutIsWhole
  <2> SUFFICES ASSUME SessionInv PROVE HandedOutIsWhole
    OBVIOUS
  <2>1. ToSet(code) = {code[i] : i \in 1..Len(code)} /\ Len(handed) \in Nat
    BY SequenceElements DEF SessionInv, Sequences
  <2>2. ASSUME NEW k \in 1..Len(handed), NEW n \in DOMAIN handed[k]
        PROVE  exec /\ code[handed[k][n]].whole /\ code[handed[k][n]].name = n
    <3>1. exec
      BY <2>1, EmptySequence DEF SessionInv, Executable
    <3>2. code[handed[k][n]].whole = TRUE /\ code[handed[k][n]].name = n
      BY DEF SessionInv, Buffer, WholeIn
    <3>3. QED
      BY <3>1, <3>2
  <2>3. ASSUME NEW p \in ToSet(code), NEW t \in ToSet(p.targets)
        PROVE  code[t].whole
    <3>1. code[t].whole = TRUE
      BY <2>1 DEF SessionInv, Buffer, PiecesOK, Wholes
    <3>2. QED
      BY <3>1
  <2>4. QED
    BY <2>2, <2>3 DEF HandedOutIsWhole
<1>2. QED
  BY <1>1, SessionHolds, PTL

(* In a module that came through, calls go where get_function says. *)
THEOREM CallsGoToTheNamed == PathSpec => []CallsReachTheNamed
<1>1. SessionInv => CallsReachTheNamed
  <2> SUFFICES ASSUME SessionInv, outcome = "returned", UniqueNames(mod_ir),
                      NEW fn \in ToSet(mod_ir)
               PROVE  /\ Resolves(Calls(fn.func))
                      /\ code[table[fn.name]].targets = Targets(Calls(fn.func))
    BY DEF CallsReachTheNamed
  <2>1. Len(mod_ir) \in Nat /\ ToSet(mod_ir) = {mod_ir[i] : i \in 1..Len(mod_ir)}
    BY SequenceElements DEF SessionInv, Sequences
  <2>2. PICK j \in 1..Len(mod_ir) : fn = mod_ir[j]
    BY <2>1
  <2>3. next = Len(mod_ir) + 1
    BY DEF SessionInv, Ends
  <2>4. LinkedIn(mod_ir, next, table, code)
    BY DEF SessionInv, Progress, Underway
  <2>5. j \in 1..(next - 1)
    BY <2>1, <2>3
  <2>6. QED
    BY <2>2, <2>4, <2>5 DEF LinkedIn, TargetsIn, Resolves, Targets
<1>2. QED
  BY <1>1, SessionHolds, PTL

(* compile_module returns just when calls only go back. *)
THEOREM OnlyCallsBackCompile == PathSpec => []CompilesInCallOrder
<1>1. SessionInv => CompilesInCallOrder
  <2> SUFFICES ASSUME SessionInv PROVE CompilesInCallOrder
    OBVIOUS
  <2>1. Len(mod_ir) \in Nat
    BY SequenceElements DEF SessionInv, Sequences
  <2>2. ASSUME outcome \in {"returned", "make_exec"}
        PROVE  CallsOnlyBack(mod_ir)
    <3>1. next = Len(mod_ir) + 1 /\ CallsBefore(mod_ir, next)
      BY <2>2 DEF SessionInv, Ends, Progress, Underway
    <3>2. QED
      BY <2>1, <3>1 DEF CallsBefore, NamesBefore, CallsOnlyBack
  <2>3. outcome = "unresolved" => ~CallsOnlyBack(mod_ir) /\ Accepted(mod_ir)
    BY DEF SessionInv, Ends, Progress, Underway
  <2>4. QED
    BY <2>2, <2>3 DEF CompilesInCallOrder
<1>2. QED
  BY <1>1, SessionHolds, PTL

(* No exception leaves an assembler that the next call dies of. *)
THEOREM DeathFollowsHandOut == PathSpec => []DiesOnlyAfterHandOut
<1>1. SessionInv => DiesOnlyAfterHandOut
  BY DEF SessionInv, Executable, DiesOnlyAfterHandOut
<1>2. QED
  BY <1>1, SessionHolds, PTL

-----------------------------------------------------------------------------
(***************************************************************************)
(* What an accepted text means, for every text, however long: while the    *)
(* parser reads a function its map of ids and the ids of its builder are   *)
(* one to one, and what it has accepted reads only what is defined above,  *)
(* so that code generation of it never throws out_of_range.                *)
(*                                                                         *)
(* The invariant follows the function through its parser: its values are   *)
(* the ids handed out, which the map goes onto, so that an operand that    *)
(* resolves is a value that has been defined where the parser is, at the   *)
(* end of the function so far; and what comes later does not change what   *)
(* is defined before an instruction.                                       *)
(***************************************************************************)

(* A function with a block for its instructions to go to. *)
Total(f) ==
    /\ f = Function(f.args, f.blocks, f.types)
    /\ f.types \in Nat /\ IsSequence(f.blocks) /\ f.blocks # <<>>
    /\ \A b \in Blocks(f) : /\ f.blocks[b] = Block(Params(f, b), Instructions(f, b))
                            /\ IsSequence(Instructions(f, b))

ReadsDefined(f) ==
    \A b \in Blocks(f) : \A i \in 1..Len(Instructions(f, b)) :
        Reads(Instructions(f, b)[i]) \subseteq DefinedBefore(f, b, i)

Closed(f) == Total(f) /\ ReadsDefined(f)

(* A function whose ids are those that the builder has handed out. *)
Numbering(f) == Closed(f) /\ Values(f) = 0..(f.types - 1)

(* A map from numbers onto the first t ids. *)
Exact(ids, t) ==
    /\ \A v \in DOMAIN ids : ids[v] = v % Modulus
    /\ {ids[v] : v \in DOMAIN ids} = 0..(t - 1)
    /\ \A v, w \in DOMAIN ids : ids[v] = ids[w] => v = w

AllClosed(mod) == \A k \in 1..Len(mod) : Closed(mod[k].func)

ReaderInv ==
    Inside => /\ Numbering(func) /\ Exact(m_ids, func.types)
              /\ first_block => Params(func, 1) = <<>>

AnswerInv ==
    /\ phase \in {"parsing", "parsed"} => AllClosed(functions)
    /\ phase = "parsing" => outcome = "none"
    /\ phase = "parsed" /\ outcome # "none" => AllClosed(mod_ir) /\ outcome # "out_of_range"

ParserInv == SessionInv /\ ReaderInv /\ AnswerInv

-----------------------------------------------------------------------------
(* The ids *)

(* What check_id lets through enlarges the map by the ids that come next. *)
LEMMA IdsAdded ==
    ASSUME NEW ids, NEW t \in Nat, Exact(ids, t), NEW n \in Nat,
           NEW parsed, NEW real, Len(parsed) = n, DOMAIN parsed = 1..n, real = Ids(t, n),
           \A k \in 1..n : parsed[k] % Modulus = real[k]
    PROVE  Exact(WithIds(ids, parsed, real), t + n)
<1> DEFINE m == WithIds(ids, parsed, real)
<1>1. \A k \in 1..n : parsed[k] % Modulus = t + k - 1
  BY DEF Ids
<1>2. \A k \in 1..n : real[k] = t + k - 1
  BY DEF Ids
<1>3. DOMAIN m = DOMAIN ids \cup {parsed[k] : k \in 1..n}
  BY DEF WithIds, ToSet
<1>4. \A k \in 1..n : m[parsed[k]] = t + k - 1
  <2> SUFFICES ASSUME NEW k \in 1..n PROVE m[parsed[k]] = t + k - 1
    OBVIOUS
  <2>1. parsed[k] \in ToSet(parsed)
    BY DEF ToSet
  <2> DEFINE j == CHOOSE i \in 1..Len(parsed) : parsed[i] = parsed[k]
  <2>2. j \in 1..n /\ parsed[j] = parsed[k]
    OBVIOUS
  <2>3. m[parsed[k]] = real[j]
    BY <2>1 DEF WithIds
  <2>4. QED
    BY <1>1, <1>2, <2>2, <2>3
<1>5. \A v \in DOMAIN ids : ids[v] = v % Modulus /\ ids[v] \in 0..(t - 1)
  BY DEF Exact
<1>6. \A v \in DOMAIN ids : \A k \in 1..n : v # parsed[k]
  BY <1>1, <1>5
<1>7. \A v \in DOMAIN ids : m[v] = ids[v]
  BY <1>6 DEF WithIds, ToSet
<1>8. \A v \in DOMAIN m : m[v] = v % Modulus
  BY <1>1, <1>3, <1>4, <1>5, <1>7
<1>9. \A v, w \in DOMAIN m : m[v] = m[w] => v = w
  <2>1. \A v, w \in DOMAIN ids : ids[v] = ids[w] => v = w
    BY DEF Exact
  <2>2. \A v \in DOMAIN ids : \A k \in 1..n : m[v] # m[parsed[k]]
    BY <1>4, <1>5, <1>7
  <2>3. \A k, j \in 1..n : m[parsed[k]] = m[parsed[j]] => k = j
    BY <1>4
  <2>4. QED
    BY <1>3, <1>7, <2>1, <2>2, <2>3
<1>10. {m[v] : v \in DOMAIN m} = 0..(t + n - 1)
  <2>1. {m[v] : v \in DOMAIN m} = {ids[v] : v \in DOMAIN ids} \cup {m[parsed[k]] : k \in 1..n}
    BY <1>3, <1>7
  <2>2. {m[parsed[k]] : k \in 1..n} = t..(t + n - 1)
    <3>1. \A k \in 1..n : m[parsed[k]] \in t..(t + n - 1)
      BY <1>4
    <3>2. \A i \in t..(t + n - 1) : i - t + 1 \in 1..n /\ m[parsed[i - t + 1]] = i
      BY <1>4
    <3>3. QED
      BY <3>1, <3>2
  <2>3. {ids[v] : v \in DOMAIN ids} = 0..(t - 1)
    BY DEF Exact
  <2>4. (0..(t - 1)) \cup (t..(t + n - 1)) = 0..(t + n - 1)
    OBVIOUS
  <2>5. QED
    BY <2>1, <2>2, <2>3, <2>4
<1>11. QED
  BY <1>8, <1>9, <1>10 DEF Exact

(* The map that a function starts with has nothing in it. *)
LEMMA NoIds == Exact(<<>>, 0)
BY DEF Exact

(* A list of no parameters changes nothing. *)
LEMMA NothingAdded ==
    ASSUME NEW ids, NEW t, Exact(ids, t), NEW parsed, DOMAIN parsed = {}, NEW real
    PROVE  Exact(WithIds(ids, parsed, real), t)
<1> DEFINE m == WithIds(ids, parsed, real)
<1>1. ToSet(parsed) = {}
  BY DEF ToSet
<1>2. DOMAIN m = DOMAIN ids /\ \A v \in DOMAIN ids : m[v] = ids[v]
  BY <1>1 DEF WithIds
<1>3. QED
  BY <1>2 DEF Exact

-----------------------------------------------------------------------------
(* What is defined before an instruction *)

(* The results of the first i - 1 instructions. *)
ResultsBefore(s, i) == {s[j].result : j \in 1..(i - 1)} \ {NoResult}

LEMMA ResultsOfSome ==
    ASSUME NEW s, IsSequence(s), NEW i \in 1..(Len(s) + 1)
    PROVE  /\ ResultsOf(SubSeq(s, 1, i - 1)) = ResultsBefore(s, i)
           /\ ResultsOf(s) = ResultsBefore(s, Len(s) + 1)
<1>1. s \in Seq(ToSet(s)) /\ Len(s) \in Nat
  BY SequenceElements DEF IsSequence
<1>2. ToSet(s) = {s[j] : j \in 1..Len(s)}
  BY SequenceElements
<1> DEFINE u == SubSeq(s, 1, i - 1)
<1>3. Len(u) = i - 1 /\ DOMAIN u = 1..(i - 1) /\ \A j \in 1..(i - 1) : u[j] = s[j]
  BY <1>1
<1> HIDE DEF u
<1>4. ToSet(u) = {s[j] : j \in 1..(i - 1)}
  BY <1>3 DEF ToSet
<1>5. {inst.result : inst \in ToSet(u)} = {s[j].result : j \in 1..(i - 1)}
  BY <1>4
<1>6. {inst.result : inst \in ToSet(s)} = {s[j].result : j \in 1..Len(s)}
  BY <1>2
<1>7. (Len(s) + 1) - 1 = Len(s)
  BY <1>1
<1>8. QED
  BY <1>5, <1>6, <1>7 DEF ResultsOf, ResultsBefore, u

(* g has what f has, where f has it, and may go on where f ends. *)
Continuing(g, f) ==
    /\ Total(f) /\ Total(g)
    /\ g.args = f.args /\ Len(f.blocks) <= Len(g.blocks)
    /\ \A b \in Blocks(f) :
         /\ Params(g, b) = Params(f, b)
         /\ Len(Instructions(f, b)) <= Len(Instructions(g, b))
         /\ \A i \in 1..Len(Instructions(f, b)) : Instructions(g, b)[i] = Instructions(f, b)[i]
         /\ b < Len(f.blocks) => Instructions(g, b) = Instructions(f, b)

LEMMA DefinedAsBefore ==
    ASSUME NEW f, NEW g, Continuing(g, f),
           NEW b \in Blocks(f), NEW i \in 1..(Len(Instructions(f, b)) + 1)
    PROVE  DefinedBefore(g, b, i) = DefinedBefore(f, b, i)
<1>1. Len(f.blocks) \in Nat /\ Len(g.blocks) \in Nat
  BY SequenceElements DEF Continuing, Total
<1>2. b \in Nat /\ b <= Len(f.blocks)
  BY <1>1 DEF Blocks
<1>3. /\ IsSequence(Instructions(f, b)) /\ IsSequence(Instructions(g, b))
      /\ Len(Instructions(f, b)) \in Nat /\ Len(Instructions(g, b)) \in Nat
  <2>1. b \in Blocks(g)
    BY <1>1, <1>2 DEF Blocks, Continuing
  <2>2. QED
    BY <2>1, SequenceElements DEF Continuing, Total
<1>4. /\ \A c \in 1..b : Params(g, c) = Params(f, c)
      /\ \A c \in 1..(b - 1) : Instructions(g, c) = Instructions(f, c)
  BY <1>1, <1>2, SMTT(20) DEF Continuing, Blocks
<1>5. /\ Len(Instructions(f, b)) <= Len(Instructions(g, b))
      /\ \A j \in 1..Len(Instructions(f, b)) : Instructions(g, b)[j] = Instructions(f, b)[j]
  BY DEF Continuing
<1>6. i \in 1..(Len(Instructions(g, b)) + 1)
  BY <1>3, <1>5
<1>7. ResultsBefore(Instructions(g, b), i) = ResultsBefore(Instructions(f, b), i)
  <2>1. \A j \in 1..(i - 1) : Instructions(g, b)[j] = Instructions(f, b)[j]
    BY <1>3, <1>5
  <2>2. QED
    BY <2>1 DEF ResultsBefore
<1>8. ResultsOf(SubSeq(Instructions(g, b), 1, i - 1)) = ResultsOf(SubSeq(Instructions(f, b), 1, i - 1))
  BY <1>3, <1>6, <1>7, ResultsOfSome
<1>9. UNION {ToSet(Params(g, c)) : c \in 1..b} = UNION {ToSet(Params(f, c)) : c \in 1..b}
  BY <1>4
<1>10. UNION {ResultsOf(Instructions(g, c)) : c \in 1..(b - 1)}
       = UNION {ResultsOf(Instructions(f, c)) : c \in 1..(b - 1)}
  BY <1>4
<1>11. g.args = f.args
  BY DEF Continuing
<1>12. QED
  BY <1>8, <1>9, <1>10, <1>11 DEF DefinedBefore

(* The parts of DefinedBefore. *)
ParamsTo(f, b)  == UNION {ToSet(Params(f, c)) : c \in 1..b}
ResultsTo(f, b) == UNION {ResultsOf(Instructions(f, c)) : c \in 1..(b - 1)}
Above(f, b, i)  == ResultsOf(SubSeq(Instructions(f, b), 1, i - 1))

LEMMA DefinedParts ==
    ASSUME NEW f, NEW b, NEW i
    PROVE  DefinedBefore(f, b, i) = ToSet(f.args) \cup ParamsTo(f, b) \cup ResultsTo(f, b) \cup Above(f, b, i)
BY DEF DefinedBefore, ParamsTo, ResultsTo, Above

(* All that is defined is a value of the function. *)
LEMMA DefinedAreValues ==
    ASSUME NEW f, Total(f), NEW b \in Blocks(f), NEW i \in 1..(Len(Instructions(f, b)) + 1)
    PROVE  DefinedBefore(f, b, i) \subseteq Values(f)
<1>1. Len(f.blocks) \in Nat /\ IsSequence(Instructions(f, b)) /\ Len(Instructions(f, b)) \in Nat
  BY SequenceElements DEF Total
<1>2. b \in Nat /\ \A c \in 1..b : c \in Blocks(f)
  BY <1>1 DEF Blocks
<1>3. \A c \in 1..(b - 1) : c \in Blocks(f)
  BY <1>1, <1>2 DEF Blocks
<1>4. ResultsOf(SubSeq(Instructions(f, b), 1, i - 1)) \subseteq ResultsOf(Instructions(f, b))
  <2>1. ResultsBefore(Instructions(f, b), i) \subseteq ResultsBefore(Instructions(f, b), Len(Instructions(f, b)) + 1)
    BY <1>1 DEF ResultsBefore
  <2>2. QED
    BY <2>1, <1>1, ResultsOfSome
<1>5. \A c \in Blocks(f) : ToSet(Params(f, c)) \subseteq Values(f)
  BY DEF Values
<1>6. \A c \in Blocks(f) : ResultsOf(Instructions(f, c)) \subseteq Values(f)
  BY DEF Values
<1>7. ToSet(f.args) \subseteq Values(f)
  BY DEF Values
<1>8. ParamsTo(f, b) \subseteq Values(f)
  BY <1>2, <1>5 DEF ParamsTo
<1>9. ResultsTo(f, b) \subseteq Values(f)
  BY <1>3, <1>6 DEF ResultsTo
<1>10. Above(f, b, i) \subseteq Values(f)
  BY <1>4, <1>6 DEF Above
<1>11. QED
  BY <1>7, <1>8, <1>9, <1>10, DefinedParts

(* Where the parser is, at the end of the function, all its values are. *)
LEMMA AllDefinedAtEnd ==
    ASSUME NEW f, Total(f), NEW b, b = Len(f.blocks), NEW i, i = Len(Instructions(f, b)) + 1
    PROVE  b \in Blocks(f) /\ DefinedBefore(f, b, i) = Values(f)
<1>1. Len(f.blocks) \in Nat /\ Len(f.blocks) # 0
  BY SequenceElements, EmptySequence DEF Total, IsSequence
<1>2. b \in Blocks(f) /\ Blocks(f) = 1..b /\ b \in Nat /\ Blocks(f) = (1..(b - 1)) \cup {b}
  BY <1>1 DEF Blocks
<1>3. IsSequence(Instructions(f, b)) /\ Len(Instructions(f, b)) \in Nat
  BY <1>2, SequenceElements DEF Total
<1>4. i \in 1..(Len(Instructions(f, b)) + 1)
  BY <1>3
<1>5. ResultsOf(SubSeq(Instructions(f, b), 1, i - 1)) = ResultsOf(Instructions(f, b))
  BY <1>3, <1>4, ResultsOfSome
<1>6. ASSUME NEW v, NEW c \in Blocks(f), v \in ResultsOf(Instructions(f, c))
      PROVE  v \in DefinedBefore(f, b, i)
  <2>1. CASE c = b
    BY <1>5, <1>6, <2>1, DefinedParts DEF Above
  <2>2. CASE c \in 1..(b - 1)
    <3>1. v \in ResultsTo(f, b)
      BY <1>6, <2>2 DEF ResultsTo
    <3>2. QED
      BY <3>1, DefinedParts
  <2>3. QED
    BY <1>2, <2>1, <2>2
<1>7. ASSUME NEW v, NEW c \in Blocks(f), v \in ToSet(Params(f, c))
      PROVE  v \in DefinedBefore(f, b, i)
  BY <1>2, <1>7 DEF DefinedBefore
<1>8. \A v \in ToSet(f.args) : v \in DefinedBefore(f, b, i)
  BY DEF DefinedBefore
<1>9. Values(f) \subseteq DefinedBefore(f, b, i)
  BY <1>6, <1>7, <1>8 DEF Values
<1>10. QED
  BY <1>2, <1>4, <1>9, DefinedAreValues

(* A closed function can be analysed. *)
LEMMA ClosedIsAnalysable == ASSUME NEW f, Closed(f) PROVE Analysable(f)
<1> SUFFICES ASSUME NEW b \in Blocks(f), NEW inst \in ToSet(Instructions(f, b))
             PROVE  Reads(inst) \subseteq Values(f)
  BY DEF Analysable
<1>1. PICK i \in 1..Len(Instructions(f, b)) : inst = Instructions(f, b)[i]
  BY SequenceElements DEF Closed, Total
<1>2. Len(Instructions(f, b)) \in Nat
  BY SequenceElements DEF Closed, Total
<1>3. i \in 1..(Len(Instructions(f, b)) + 1)
  BY <1>2
<1>4. QED
  BY <1>1, <1>3, DefinedAreValues DEF Closed, ReadsDefined

-----------------------------------------------------------------------------
(* How a function grows *)

(* An instruction more in the last block; t counts the ids. *)
Grown(f, inst, t) ==
    Function(f.args,
             [b \in Blocks(f) |-> IF b = Len(f.blocks)
                                  THEN Block(Params(f, b), Append(Instructions(f, b), inst))
                                  ELSE f.blocks[b]],
             t)

(* A block more behind the last, its parameters the ids that come next. *)
Widened(f, params, t) == Function(f.args, Append(f.blocks, Block(params, <<>>)), t)

LEMMA ValuesAre ==
    ASSUME NEW f, NEW v
    PROVE  v \in Values(f) <=> \/ v \in ToSet(f.args)
                               \/ \E b \in Blocks(f) : \/ v \in ToSet(Params(f, b))
                                                       \/ v \in ResultsOf(Instructions(f, b))
BY DEF Values

LEMMA Growing ==
    ASSUME NEW f, Total(f), NEW inst, NEW t \in Nat, NEW g, g = Grown(f, inst, t)
    PROVE  /\ Total(g) /\ Continuing(g, f) /\ g.types = t
           /\ Blocks(g) = Blocks(f)
           /\ \A b \in Blocks(f) :
                Instructions(g, b) = IF b = Len(f.blocks) THEN Append(Instructions(f, b), inst)
                                     ELSE Instructions(f, b)
<1> DEFINE n == Len(f.blocks)
<1>1. n \in Nat /\ Blocks(f) = 1..n
  BY SequenceElements DEF Total, Blocks
<1>2. n # 0
  BY EmptySequence DEF Total, IsSequence
<1>3. \A b \in Blocks(f) : /\ f.blocks[b] = Block(Params(f, b), Instructions(f, b))
                           /\ IsSequence(Instructions(f, b))
  BY DEF Total
<1>4. g.args = f.args /\ g.types = t /\ g = Function(g.args, g.blocks, g.types)
  BY DEF Grown, Function
<1>5. g.blocks = [b \in 1..n |-> IF b = n THEN Block(Params(f, b), Append(Instructions(f, b), inst))
                                 ELSE f.blocks[b]]
  BY <1>1 DEF Grown, Function
<1>6. IsSequence(g.blocks) /\ Len(g.blocks) = n
  <2>1. \E s : s = g.blocks
    OBVIOUS
  <2>2. g.blocks = [b \in 1..n |-> g.blocks[b]]
    BY <1>5
  <2>3. IsSequence(g.blocks)
    BY <1>1, <2>2, FunctionIsSequence
  <2>4. QED
    BY <1>1, <1>5, <2>3 DEF IsSequence
<1>7. Blocks(g) = Blocks(f)
  BY <1>1, <1>6 DEF Blocks
<1>8. \A b \in Blocks(f) : /\ Params(g, b) = Params(f, b)
                           /\ g.blocks[b] = Block(Params(g, b), Instructions(g, b))
                           /\ Instructions(g, b) = IF b = n THEN Append(Instructions(f, b), inst)
                                                   ELSE Instructions(f, b)
  <2> SUFFICES ASSUME NEW b \in Blocks(f)
               PROVE  /\ Params(g, b) = Params(f, b)
                      /\ g.blocks[b] = Block(Params(g, b), Instructions(g, b))
                      /\ Instructions(g, b) = IF b = n THEN Append(Instructions(f, b), inst)
                                             ELSE Instructions(f, b)
    OBVIOUS
  <2>1. CASE b = n
    <3>1. g.blocks[b] = Block(Params(f, b), Append(Instructions(f, b), inst))
      BY <1>1, <1>5, <2>1
    <3>2. /\ g.blocks[b].params = Params(f, b)
          /\ g.blocks[b].instructions = Append(Instructions(f, b), inst)
      BY <3>1 DEF Block
    <3>3. Params(g, b) = g.blocks[b].params /\ Instructions(g, b) = g.blocks[b].instructions
      BY DEF Params, Instructions
    <3>4. QED
      BY <2>1, <3>1, <3>2, <3>3
  <2>2. CASE b # n
    <3>1. g.blocks[b] = f.blocks[b]
      BY <1>1, <1>5, <2>2
    <3>2. Params(g, b) = Params(f, b) /\ Instructions(g, b) = Instructions(f, b)
      BY <3>1 DEF Params, Instructions
    <3>3. QED
      BY <1>3, <2>2, <3>1, <3>2
  <2>3. QED
    BY <2>1, <2>2
<1>9. \A b \in Blocks(f) :
         /\ IsSequence(Instructions(g, b))
         /\ Len(Instructions(f, b)) <= Len(Instructions(g, b))
         /\ \A i \in 1..Len(Instructions(f, b)) : Instructions(g, b)[i] = Instructions(f, b)[i]
  <2> SUFFICES ASSUME NEW b \in Blocks(f)
               PROVE  /\ IsSequence(Instructions(g, b))
                      /\ Len(Instructions(f, b)) <= Len(Instructions(g, b))
                      /\ \A i \in 1..Len(Instructions(f, b)) : Instructions(g, b)[i] = Instructions(f, b)[i]
    OBVIOUS
  <2>1. IsSequence(Instructions(f, b)) /\ Len(Instructions(f, b)) \in Nat
    BY <1>3, SequenceElements
  <2>2. /\ IsSequence(Append(Instructions(f, b), inst))
        /\ Len(Append(Instructions(f, b), inst)) = Len(Instructions(f, b)) + 1
        /\ \A i \in 1..Len(Instructions(f, b)) : Append(Instructions(f, b), inst)[i] = Instructions(f, b)[i]
    BY <2>1, AppendedElements
  <2>3. CASE b = n
    <3>1. Instructions(g, b) = Append(Instructions(f, b), inst)
      BY <1>8, <2>3
    <3>2. Len(Instructions(f, b)) <= Len(Instructions(f, b)) + 1
      BY <2>1
    <3>3. QED
      BY <2>2, <3>1, <3>2
  <2>4. CASE b # n
    BY <1>8, <2>1, <2>4
  <2>5. QED
    BY <2>3, <2>4
<1>10. Total(g)
  <2>1. g.blocks # <<>>
    BY <1>2, <1>6, EmptySequence
  <2>2. QED
    BY <1>4, <1>6, <1>7, <1>8, <1>9, <2>1 DEF Total
<1>11. Continuing(g, f)
  BY <1>1, <1>4, <1>6, <1>8, <1>9, <1>10 DEF Continuing
<1>12. QED
  BY <1>4, <1>7, <1>8, <1>10, <1>11

(* An instruction that reads values of the function leaves it closed. *)
LEMMA InstructionAdded ==
    ASSUME NEW f, Closed(f), NEW inst, Reads(inst) \subseteq Values(f),
           NEW t \in Nat, NEW g, g = Grown(f, inst, t)
    PROVE  Closed(g) /\ g.types = t /\ Values(g) = Values(f) \cup ({inst.result} \ {NoResult})
<1> DEFINE n == Len(f.blocks)
<1>1. /\ Total(g) /\ Continuing(g, f) /\ g.types = t /\ Blocks(g) = Blocks(f)
      /\ \A b \in Blocks(f) :
           Instructions(g, b) = IF b = n THEN Append(Instructions(f, b), inst) ELSE Instructions(f, b)
  BY Growing DEF Closed
<1>2. /\ n \in Blocks(f)
      /\ DefinedBefore(f, n, Len(Instructions(f, n)) + 1) = Values(f)
  BY AllDefinedAtEnd DEF Closed
<1>3. IsSequence(Instructions(f, n)) /\ Len(Instructions(f, n)) \in Nat
  BY <1>2, SequenceElements DEF Closed, Total
<1>4. /\ Len(Append(Instructions(f, n), inst)) = Len(Instructions(f, n)) + 1
      /\ \A i \in 1..Len(Instructions(f, n)) : Append(Instructions(f, n), inst)[i] = Instructions(f, n)[i]
      /\ Append(Instructions(f, n), inst)[Len(Instructions(f, n)) + 1] = inst
      /\ IsSequence(Append(Instructions(f, n), inst))
  BY <1>3, AppendedElements
<1>5. ReadsDefined(g)
  <2> SUFFICES ASSUME NEW b \in Blocks(f), NEW i \in 1..Len(Instructions(g, b))
               PROVE  Reads(Instructions(g, b)[i]) \subseteq DefinedBefore(g, b, i)
    BY <1>1 DEF ReadsDefined
  <2>1. Len(Instructions(f, b)) \in Nat
    BY SequenceElements DEF Closed, Total
  <2>2. CASE i \in 1..Len(Instructions(f, b))
    <3>1. i \in 1..(Len(Instructions(f, b)) + 1)
      BY <2>1, <2>2
    <3>2. DefinedBefore(g, b, i) = DefinedBefore(f, b, i)
      BY <1>1, <3>1, DefinedAsBefore
    <3>3. Instructions(g, b)[i] = Instructions(f, b)[i]
      BY <1>1, <2>2 DEF Continuing
    <3>4. Reads(Instructions(f, b)[i]) \subseteq DefinedBefore(f, b, i)
      BY <2>2 DEF Closed, ReadsDefined
    <3>5. QED
      BY <3>2, <3>3, <3>4
  <2>3. CASE i \notin 1..Len(Instructions(f, b))
    <3>1. b = n
      BY <1>1, <2>3
    <3>2. i = Len(Instructions(f, n)) + 1
      BY <1>1, <1>3, <1>4, <2>3, <3>1
    <3>3. i \in 1..(Len(Instructions(f, b)) + 1)
      BY <1>3, <3>1, <3>2
    <3>4. DefinedBefore(g, b, i) = DefinedBefore(f, b, i)
      BY <1>1, <3>3, DefinedAsBefore
    <3>5. DefinedBefore(g, b, i) = Values(f)
      BY <1>2, <3>1, <3>2, <3>4
    <3>6. Instructions(g, b)[i] = inst
      BY <1>1, <1>4, <3>1, <3>2
    <3>7. QED
      BY <3>5, <3>6
  <2>4. QED
    BY <2>2, <2>3
<1>6. Values(g) = Values(f) \cup ({inst.result} \ {NoResult})
  <2>1. \A b \in Blocks(f) : Params(g, b) = Params(f, b)
    BY <1>1 DEF Continuing
  <2>2. ResultsOf(Append(Instructions(f, n), inst))
        = ResultsOf(Instructions(f, n)) \cup ({inst.result} \ {NoResult})
    <3>1. ToSet(Append(Instructions(f, n), inst)) = ToSet(Instructions(f, n)) \cup {inst}
      <4> DEFINE s == Instructions(f, n)
                 a == Append(Instructions(f, n), inst)
      <4>1. ToSet(s) = {s[i] : i \in 1..Len(s)} /\ ToSet(a) = {a[i] : i \in 1..Len(a)}
        BY <1>3, <1>4, SequenceElements
      <4>2. 1..Len(a) = (1..Len(s)) \cup {Len(s) + 1}
        BY <1>3, <1>4
      <4>3. (\A i \in 1..Len(s) : a[i] = s[i]) /\ a[Len(s) + 1] = inst
        BY <1>4
      <4> HIDE DEF s, a
      <4>4. QED
        BY <4>1, <4>2, <4>3 DEF s, a
    <3>2. QED
      BY <3>1 DEF ResultsOf
  <2>3. \A b \in Blocks(f) : b # n => Instructions(g, b) = Instructions(f, b)
    BY <1>1
  <2>4. Instructions(g, n) = Append(Instructions(f, n), inst)
    BY <1>1, <1>2
  <2>5. g.args = f.args
    BY <1>1 DEF Continuing
  <2>6. ASSUME NEW v \in Values(g)
        PROVE  v \in Values(f) \cup ({inst.result} \ {NoResult})
    BY <1>1, <1>2, <2>1, <2>2, <2>3, <2>4, <2>5, <2>6, ValuesAre, ZenonT(30)
  <2>7. ASSUME NEW v \in Values(f)
        PROVE  v \in Values(g)
    BY <1>1, <1>2, <2>1, <2>2, <2>3, <2>4, <2>5, <2>7, ValuesAre
  <2>8. {inst.result} \ {NoResult} \subseteq Values(g)
    BY <1>1, <1>2, <2>2, <2>4, ValuesAre
  <2>9. QED
    BY <2>6, <2>7, <2>8
<1>7. QED
  BY <1>1, <1>5, <1>6 DEF Closed

(* A block more, which is empty, leaves it closed. *)
LEMMA BlockAdded ==
    ASSUME NEW f, Closed(f), NEW params, NEW t \in Nat, NEW g, g = Widened(f, params, t)
    PROVE  Closed(g) /\ g.types = t /\ Values(g) = Values(f) \cup ToSet(params)
<1> DEFINE n == Len(f.blocks)
           block == Block(params, <<>>)
<1>1. n \in Nat /\ Blocks(f) = 1..n /\ IsSequence(f.blocks)
  BY SequenceElements DEF Closed, Total, Blocks
<1>2. g.args = f.args /\ g.types = t /\ g.blocks = Append(f.blocks, block)
      /\ g = Function(g.args, g.blocks, g.types)
  BY DEF Widened, Function
<1>3. /\ IsSequence(g.blocks) /\ Len(g.blocks) = n + 1 /\ g.blocks # <<>>
      /\ g.blocks[n + 1] = block
      /\ \A b \in 1..n : g.blocks[b] = f.blocks[b]
  BY <1>1, <1>2, AppendedElements
<1>4. Blocks(g) = Blocks(f) \cup {n + 1} /\ n + 1 \notin Blocks(f)
  BY <1>1, <1>3 DEF Blocks
<1>5. \A b \in Blocks(f) : Params(g, b) = Params(f, b) /\ Instructions(g, b) = Instructions(f, b)
  BY <1>1, <1>3 DEF Params, Instructions
<1>6. Params(g, n + 1) = params /\ Instructions(g, n + 1) = <<>>
  BY <1>3 DEF Params, Instructions, Block
<1>7. \A b \in Blocks(f) : /\ f.blocks[b] = Block(Params(f, b), Instructions(f, b))
                           /\ IsSequence(Instructions(f, b))
  BY DEF Closed, Total
<1>8. \A b \in Blocks(g) : /\ g.blocks[b] = Block(Params(g, b), Instructions(g, b))
                           /\ IsSequence(Instructions(g, b))
  <2>1. \A b \in Blocks(f) : /\ g.blocks[b] = Block(Params(g, b), Instructions(g, b))
                             /\ IsSequence(Instructions(g, b))
    BY <1>1, <1>3, <1>5, <1>7
  <2>2. /\ g.blocks[n + 1] = Block(Params(g, n + 1), Instructions(g, n + 1))
        /\ IsSequence(Instructions(g, n + 1))
    BY <1>3, <1>6, EmptySequence
  <2>3. QED
    BY <1>4, <2>1, <2>2
<1>9. Total(g)
  BY <1>2, <1>3, <1>8 DEF Total
<1>10. Continuing(g, f)
  <2>1. n <= n + 1
    BY <1>1
  <2>2. \A b \in Blocks(f) : Len(Instructions(f, b)) \in Nat
    BY <1>7, SequenceElements
  <2>3. \A b \in Blocks(f) : Len(Instructions(f, b)) <= Len(Instructions(g, b))
    BY <1>5, <2>2
  <2>4. QED
    BY <1>2, <1>3, <1>5, <1>9, <2>1, <2>3 DEF Continuing, Closed
<1>11. ReadsDefined(g)
  <2> SUFFICES ASSUME NEW b \in Blocks(g), NEW i \in 1..Len(Instructions(g, b))
               PROVE  Reads(Instructions(g, b)[i]) \subseteq DefinedBefore(g, b, i)
    BY DEF ReadsDefined
  <2>1. b \in Blocks(f)
    BY <1>4, <1>6, EmptySequence
  <2>2. i \in 1..(Len(Instructions(f, b)) + 1)
    BY <1>5, <1>7, <2>1, SequenceElements
  <2>3. DefinedBefore(g, b, i) = DefinedBefore(f, b, i)
    BY <1>10, <2>1, <2>2, DefinedAsBefore
  <2>4. QED
    BY <1>5, <2>1, <2>3 DEF Closed, ReadsDefined
<1>12. Values(g) = Values(f) \cup ToSet(params)
  <2>1. ResultsOf(<<>>) = {}
    BY DEF ResultsOf, ToSet
  <2>2. ASSUME NEW v \in Values(g)
        PROVE  v \in Values(f) \cup ToSet(params)
    BY <1>2, <1>4, <1>5, <1>6, <2>1, <2>2, ValuesAre
  <2>3. ASSUME NEW v \in Values(f)
        PROVE  v \in Values(g)
    BY <1>2, <1>4, <1>5, <2>3, ValuesAre
  <2>4. ToSet(params) \subseteq Values(g)
    BY <1>4, <1>6, ValuesAre
  <2>5. QED
    BY <2>2, <2>3, <2>4
<1>13. QED
  BY <1>2, <1>9, <1>11, <1>12 DEF Closed

LEMMA IdsInARow ==
    ASSUME NEW t \in Nat, NEW n \in Nat
    PROVE  ToSet(Ids(t, n)) = t..(t + n - 1)
<1>1. DOMAIN Ids(t, n) = 1..n /\ \A k \in 1..n : Ids(t, n)[k] = t + k - 1
  BY DEF Ids
<1>2. \A i \in t..(t + n - 1) : i - t + 1 \in 1..n /\ Ids(t, n)[i - t + 1] = i
  BY <1>1
<1>3. \A k \in 1..n : Ids(t, n)[k] \in t..(t + n - 1)
  BY <1>1
<1>4. ToSet(Ids(t, n)) = {Ids(t, n)[k] : k \in 1..n}
  BY <1>1 DEF ToSet
<1>5. QED
  BY <1>2, <1>3, <1>4

(* A function that create_function has made. *)
LEMMA FunctionCreated ==
    ASSUME NEW n \in Nat, NEW f, f = CreateFunction(n)
    PROVE  Numbering(f) /\ f.types = n /\ Params(f, 1) = <<>>
<1>1. /\ f.args = Ids(0, n) /\ f.types = n /\ f.blocks = <<Block(<<>>, <<>>)>>
      /\ f = Function(f.args, f.blocks, f.types)
  BY DEF CreateFunction, Function
<1>2. IsSequence(f.blocks) /\ Len(f.blocks) = 1 /\ f.blocks[1] = Block(<<>>, <<>>) /\ f.blocks # <<>>
  <2>1. Len(f.blocks) = 1 /\ f.blocks[1] = Block(<<>>, <<>>)
    BY <1>1
  <2>2. IsSequence(f.blocks)
    BY <1>1 DEF IsSequence, ToSet
  <2>3. QED
    BY <2>1, <2>2, EmptySequence
<1>3. Blocks(f) = {1} /\ Params(f, 1) = <<>> /\ Instructions(f, 1) = <<>>
  BY <1>2 DEF Blocks, Params, Instructions, Block
<1>4. Total(f)
  BY <1>1, <1>2, <1>3, EmptySequence DEF Total
<1>5. ReadsDefined(f)
  BY <1>3, EmptySequence DEF ReadsDefined
<1>6. Values(f) = 0..(n - 1)
  <2>1. ToSet(f.args) = 0..(n - 1)
    BY <1>1, IdsInARow
  <2>2. ToSet(<<>>) = {} /\ ResultsOf(<<>>) = {}
    BY DEF ToSet, ResultsOf
  <2>3. \A v : v \in Values(f) <=> v \in ToSet(f.args)
    BY <1>3, <2>2, ValuesAre
  <2>4. QED
    BY <2>1, <2>3
<1>7. QED
  BY <1>1, <1>3, <1>4, <1>5, <1>6 DEF Numbering, Closed

-----------------------------------------------------------------------------
(* What the productions make *)

(* An instruction of a text that names its values in sequences. *)
WellMade(item) ==
    /\ IsSequence(item.operands) /\ IsSequence(item.edges)
    /\ \A e \in ToSet(item.edges) : IsSequence(e.args)

LEMMA ShortSequences ==
    ASSUME NEW a, NEW b
    PROVE  /\ IsSequence(<<a>>) /\ ToSet(<<a>>) = {a}
           /\ IsSequence(<<a, b>>) /\ ToSet(<<a, b>>) = {a, b}
BY DEF IsSequence, ToSet

LEMMA NumsAreSequence ==
    ASSUME NEW p, NEW item, NEW n \in 0..Len(text)
    PROVE  IsSequence(NumsOf(p, item, n)) /\ DOMAIN NumsOf(p, item, n) = 1..n /\ Len(NumsOf(p, item, n)) = n
<1>1. n \in Nat
  OBVIOUS
<1>2. PICK s : s = NumsOf(p, item, n)
  OBVIOUS
<1>3. DOMAIN s = 1..n /\ s = [k \in 1..n |-> s[k]]
  BY <1>2 DEF NumsOf
<1>4. IsSequence(s)
  BY <1>1, <1>3, FunctionIsSequence
<1>5. Len(s) = n
  BY <1>1, <1>3, <1>4, SequenceElements
<1>6. QED
  BY <1>2, <1>3, <1>4, <1>5

(* It is enough to look at the operands and edges that an Item is given. *)
LEMMA ItemIsWellMade ==
    ASSUME NEW op, NEW d, NEW operands, NEW edges, NEW callee, NEW n, IsSequence(operands),
           \/ edges = <<>>
           \/ \E e : edges = <<e>> /\ IsSequence(e.args)
           \/ \E e, f : edges = <<e, f>> /\ IsSequence(e.args) /\ IsSequence(f.args)
    PROVE  WellMade(Item(op, d, operands, edges, callee, n))
<1>1. PICK item : item = Item(op, d, operands, edges, callee, n)
  OBVIOUS
<1>2. item.operands = operands /\ item.edges = edges
  BY <1>1 DEF Item
<1>3. IsSequence(edges) /\ \A e \in ToSet(edges) : IsSequence(e.args)
  <2>1. CASE edges = <<>>
    BY <2>1, EmptySequence DEF ToSet
  <2>2. CASE \E e : edges = <<e>> /\ IsSequence(e.args)
    BY <2>2, ShortSequences, ZenonT(30)
  <2>3. CASE \E e, f : edges = <<e, f>> /\ IsSequence(e.args) /\ IsSequence(f.args)
    <3>1. PICK e, f : edges = <<e, f>> /\ IsSequence(e.args) /\ IsSequence(f.args)
      BY <2>3
    <3>2. IsSequence(edges) /\ ToSet(edges) = {e, f}
      BY <3>1, ShortSequences
    <3>3. QED
      BY <3>1, <3>2
  <2>4. QED
    BY <2>1, <2>2, <2>3
<1>4. QED
  BY <1>1, <1>2, <1>3 DEF WellMade

LEMMA TargetArgs ==
    ASSUME NEW p, NEW n \in 0..Len(text)
    PROVE  IsSequence(Target(p, n).args)
<1>1. Target(p, n).args = NumsOf(p + 1, Passed, n)
  BY DEF Target, Edge
<1>2. QED
  BY <1>1, NumsAreSequence

LEMMA ItemsAreWellMade ==
    ASSUME NEW p, NEW item \in WithoutResult(p) \cup WithResult(p)
    PROVE  WellMade(item)
<1>1. CASE item \in RetAt(p) \cup StoreAt(p) \cup ConstAt(p) \cup PairAt(p) \cup SingleAt(p)
                    \cup ShiftByAt(p) \cup IcmpAt(p) \cup LoadAt(p)
  <2>1. \E op, d, operands, n :
           /\ item = Item(op, d, operands, <<>>, Native, n)
           /\ operands = <<>> \/ (\E a : operands = <<a>>) \/ \E a, b : operands = <<a, b>>
    <3>1. CASE item \in RetAt(p)
      BY <3>1 DEF RetAt, If
    <3>2. CASE item \in StoreAt(p)
      BY <3>2 DEF StoreAt, If
    <3>3. CASE item \in ConstAt(p)
      BY <3>3 DEF ConstAt, If
    <3>4. CASE item \in PairAt(p)
      BY <3>4 DEF PairAt, If
    <3>5. CASE item \in SingleAt(p)
      BY <3>5 DEF SingleAt, If
    <3>6. CASE item \in ShiftByAt(p)
      BY <3>6 DEF ShiftByAt, If
    <3>7. CASE item \in IcmpAt(p)
      BY <3>7 DEF IcmpAt, If
    <3>8. CASE item \in LoadAt(p)
      BY <3>8 DEF LoadAt, If
    <3>9. QED
      BY <1>1, <3>1, <3>2, <3>3, <3>4, <3>5, <3>6, <3>7, <3>8
  <2>2. PICK op, d, operands, n :
           /\ item = Item(op, d, operands, <<>>, Native, n)
           /\ operands = <<>> \/ (\E a : operands = <<a>>) \/ \E a, b : operands = <<a, b>>
    BY <2>1
  <2>3. IsSequence(operands)
    <3>1. CASE operands = <<>>
      BY <3>1, EmptySequence
    <3>2. CASE \E a : operands = <<a>>
      BY <3>2, ShortSequences
    <3>3. CASE \E a, b : operands = <<a, b>>
      <4>1. PICK a, b : operands = <<a, b>>
        BY <3>3
      <4>2. QED
        BY <4>1, ShortSequences
    <3>4. QED
      BY <2>2, <3>1, <3>2, <3>3
  <2>4. QED
    BY <2>2, <2>3, ItemIsWellMade
<1>2. CASE item \in CallAt(p)
  <2>1. PICK callee, address, q : item \in CallTo(callee, address, q)
    BY <1>2 DEF CallAt
  <2>2. PICK n \in 0..Len(text) :
           item = Item("call", Numbered("call", address), NumsOf(q, Passed, n), <<>>, callee,
                       Behind(q, Passed, n))
    BY <2>1 DEF CallTo, Lengths
  <2>3. QED
    BY <2>2, NumsAreSequence, ItemIsWellMade
<1>3. CASE item \in JmpAt(p)
  <2>1. PICK n \in 0..Len(text) :
           item = Item("jmp", Plain("jmp"), <<>>, <<Target(p + 1, n)>>, Native,
                       Behind(p + 2, Passed, n))
    BY <1>3 DEF JmpAt, Lengths
  <2>2. QED
    BY <2>1, TargetArgs, EmptySequence, ItemIsWellMade
<1>4. CASE item \in BrifAt(p)
  <2>1. PICK l \in BrifLengths(p) :
           item = Item("brif", Plain("brif"), <<Num(p + 1)>>,
                       <<Target(p + 3, l[1]), Target(Second(p, l[1]), l[2])>>,
                       Native, Behind(Second(p, l[1]) + 1, Passed, l[2]))
    BY <1>4 DEF BrifAt
  <2>2. l[1] \in 0..Len(text) /\ l[2] \in 0..Len(text)
    BY DEF BrifLengths, Lengths
  <2>3. IsSequence(Target(p + 3, l[1]).args) /\ IsSequence(Target(Second(p, l[1]), l[2]).args)
    BY <2>2, TargetArgs
  <2>4. IsSequence(<<Num(p + 1)>>)
    BY ShortSequences
  <2>5. QED
    BY <2>1, <2>3, <2>4, ItemIsWellMade
<1>5. QED
  BY <1>1, <1>2, <1>3, <1>4 DEF WithoutResult, WithResult

(* A map onto the first t ids makes values of them of what it knows. *)
LEMMA Resolved ==
    ASSUME NEW numbers, IsSequence(numbers), Known(numbers), NEW t, Exact(m_ids, t)
    PROVE  ToSet(resolve(numbers)) \subseteq 0..(t - 1)
<1>1. ToSet(numbers) = {numbers[k] : k \in 1..Len(numbers)}
  BY SequenceElements
<1>2. \A k \in 1..Len(numbers) : m_ids[numbers[k]] \in 0..(t - 1)
  BY <1>1 DEF Known, Exact
<1>3. QED
  BY <1>2 DEF resolve, ToSet

ResolvedEdges(edges) == [k \in 1..Len(edges) |-> ResolveEdge(edges[k])]

LEMMA ResolvedReads ==
    ASSUME NEW item, WellMade(item), KnowsAll(item), NEW t, Exact(m_ids, t),
           NEW op, NEW result, NEW callee, NEW edges, edges \in {<<>>, ResolvedEdges(item.edges)}
    PROVE  Reads(Inst(op, result, resolve(item.operands), edges, callee)) \subseteq 0..(t - 1)
<1>1. ToSet(resolve(item.operands)) \subseteq 0..(t - 1)
  BY Resolved DEF WellMade, KnowsAll
<1>2. \A e \in ToSet(edges) : ToSet(e.args) \subseteq 0..(t - 1)
  <2>1. CASE edges = <<>>
    BY <2>1 DEF ToSet
  <2>2. CASE edges = ResolvedEdges(item.edges)
    <3>1. ToSet(item.edges) = {item.edges[k] : k \in 1..Len(item.edges)}
      BY SequenceElements DEF WellMade
    <3>2. \A k \in 1..Len(item.edges) : ToSet(resolve(item.edges[k].args)) \subseteq 0..(t - 1)
      BY <3>1, Resolved DEF WellMade, KnowsAll
    <3>3. \A k \in 1..Len(item.edges) : ResolveEdge(item.edges[k]).args = resolve(item.edges[k].args)
      BY DEF ResolveEdge, Edge
    <3>4. \A e \in ToSet(edges) : \E k \in 1..Len(item.edges) : e = ResolveEdge(item.edges[k])
      BY <2>2 DEF ResolvedEdges, ToSet
    <3>5. QED
      BY <3>2, <3>3, <3>4
  <2>3. QED
    BY <2>1, <2>2
<1>3. PICK inst : inst = Inst(op, result, resolve(item.operands), edges, callee)
  OBVIOUS
<1>4. inst.operands = resolve(item.operands) /\ inst.edges = edges
  BY <1>3 DEF Inst
<1>5. QED
  BY <1>1, <1>2, <1>3, <1>4 DEF Reads, PassedOn

-----------------------------------------------------------------------------
(* The steps of the parser *)

LEMMA AppendedIsGrown ==
    ASSUME NEW f, Total(f), NEW inst
    PROVE  /\ AppendInst(f, inst) = Grown(f, inst, f.types)
           /\ [AppendInst(f, inst) EXCEPT !.types = @ + 1] = Grown(f, inst, f.types + 1)
<1> DEFINE n == Len(f.blocks)
           grown == Grown(f, inst, f.types).blocks
<1>1. n \in Nat /\ n # 0 /\ DOMAIN f.blocks = 1..n /\ Blocks(f) = 1..n
  BY SequenceElements, EmptySequence DEF Total, IsSequence, Blocks
<1>2. f.blocks = [b \in 1..n |-> f.blocks[b]]
  BY <1>1 DEF Total, IsSequence
<1>3. f.blocks[n] = Block(Params(f, n), Instructions(f, n))
  BY <1>1 DEF Total
<1>4. [f.blocks EXCEPT ![n].instructions = Append(@, inst)] = grown
  <2>1. [f.blocks[n] EXCEPT !.instructions = Append(@, inst)]
        = Block(Params(f, n), Append(Instructions(f, n), inst))
    BY <1>3 DEF Block
  <2>2. QED
    BY <1>1, <1>2, <2>1 DEF Grown, Function
<1>5. f = [args |-> f.args, blocks |-> f.blocks, types |-> f.types]
  BY DEF Total, Function
<1>6. AppendInst(f, inst) = [args |-> f.args, blocks |-> grown, types |-> f.types]
  BY <1>4, <1>5, SMTT(20) DEF AppendInst
<1>7. QED
  BY <1>6 DEF Grown, Function

LEMMA ParseFunctionReads ==
    ASSUME ParseFunction
    PROVE  ReaderInv'
<1>1. PICK n \in 0..Len(text) :
        /\ IsFunctionHead(position + 3, n)
        /\ func' = CreateFunction(n)
        /\ m_ids' = WithIds(<<>>, NumsOf(position + 3, Declared, n), Ids(0, n))
  BY DEF ParseFunction
<1>2. PICK parsed : parsed = NumsOf(position + 3, Declared, n)
  OBVIOUS
<1>3. n \in Nat /\ DOMAIN parsed = 1..n /\ Len(parsed) = n
  BY <1>2, NumsAreSequence
<1>4. \A k \in 1..n : parsed[k] % Modulus = Ids(0, n)[k]
  BY <1>1, <1>2, <1>3 DEF IsFunctionHead, CheckIds
<1>5. Exact(WithIds(<<>>, parsed, Ids(0, n)), 0 + n)
  BY <1>3, <1>4, NoIds, IdsAdded
<1>6. Numbering(func') /\ func'.types = n /\ Params(func', 1) = <<>>
  BY <1>1, <1>3, FunctionCreated
<1>7. Exact(m_ids', func'.types)
  BY <1>1, <1>2, <1>3, <1>5, <1>6
<1>8. QED
  BY <1>6, <1>7 DEF ReaderInv

LEMMA ParseBlockReads ==
    ASSUME ReaderInv, ParseBlock
    PROVE  ReaderInv'
<1>1. PICK n \in 0..Len(text) :
        /\ IsBlockHead(position + 1, n)
        /\ func' = IF BlockIndex = 0 THEN func
                   ELSE [func EXCEPT !.blocks = Append(@, Block(NewParams(n), <<>>)),
                                     !.types  = @ + n]
        /\ m_ids' = WithIds(m_ids, NumsOf(position + 1, Declared, n), NewParams(n))
  BY DEF ParseBlock
<1>2. PICK parsed : parsed = NumsOf(position + 1, Declared, n)
  OBVIOUS
<1>3. n \in Nat /\ DOMAIN parsed = 1..n /\ Len(parsed) = n
  BY <1>2, NumsAreSequence
<1>4. /\ Len(parsed) = Len(NewParams(n))
      /\ \A k \in 1..n : parsed[k] % Modulus = NewParams(n)[k]
  BY <1>1, <1>2, <1>3 DEF IsBlockHead, CheckIds
<1>5. /\ Numbering(func) /\ Exact(m_ids, func.types) /\ func.types \in Nat
      /\ first_block => Params(func, 1) = <<>>
  BY DEF ReaderInv, ParseBlock, Inside, Numbering, Closed, Total
<1>6. first_block' = FALSE
  BY DEF ParseBlock
<1>7. Len(func.blocks) \in Nat /\ Len(func.blocks) # 0
  BY <1>5, SequenceElements, EmptySequence DEF Numbering, Closed, Total, IsSequence
<1>8. Numbering(func') /\ Exact(m_ids', func'.types)
  <2>1. CASE first_block
    <3>1. BlockIndex = 0 /\ NewParams(n) = <<>>
      BY <1>5, <2>1 DEF BlockIndex, NewParams
    <3>2. DOMAIN parsed = {}
      BY <1>3, <1>4, <3>1, EmptySequence
    <3>3. Exact(WithIds(m_ids, parsed, NewParams(n)), func.types)
      BY <1>5, <3>2, NothingAdded
    <3>4. QED
      BY <1>1, <1>2, <1>5, <3>1, <3>3
  <2>2. CASE ~first_block
    <3>1. BlockIndex # 0 /\ NewParams(n) = Ids(func.types, n)
      BY <1>7, <2>2 DEF BlockIndex, NewParams
    <3>2. Exact(WithIds(m_ids, parsed, NewParams(n)), func.types + n)
      BY <1>3, <1>4, <1>5, <3>1, IdsAdded
    <3>3. func' = Widened(func, NewParams(n), func.types + n)
      BY <1>1, <1>5, <3>1 DEF Widened, Numbering, Closed, Total, Function
    <3>4. /\ Closed(func') /\ func'.types = func.types + n
          /\ Values(func') = Values(func) \cup ToSet(NewParams(n))
      BY <1>3, <1>5, <3>3, BlockAdded DEF Numbering
    <3>5. Values(func') = 0..(func.types + n - 1)
      <4>1. ToSet(Ids(func.types, n)) = func.types..(func.types + n - 1)
        BY <1>3, <1>5, IdsInARow
      <4>2. (0..(func.types - 1)) \cup (func.types..(func.types + n - 1)) = 0..(func.types + n - 1)
        BY <1>3, <1>5
      <4>3. QED
        BY <1>5, <3>1, <3>4, <4>1, <4>2 DEF Numbering
    <3>6. Numbering(func')
      <4>1. func'.types - 1 = func.types + n - 1
        BY <1>3, <1>5, <3>4
      <4>2. QED
        BY <3>4, <3>5, <4>1 DEF Numbering
    <3>7. QED
      BY <1>1, <1>2, <3>2, <3>4, <3>6
  <2>3. QED
    BY <2>1, <2>2
<1>9. QED
  BY <1>6, <1>8 DEF ReaderInv

(* The step without its choice: an instruction that has no result. *)
LEMMA ParseEffectReads ==
    ASSUME ReaderInv, ParseEffect
    PROVE  ReaderInv'
<1>1. PICK item \in WithoutResult(position) :
        /\ KnowsAll(item)
        /\ func' = AppendInst(func, Inst(item.op, NoResult, resolve(item.operands),
                                [k \in 1..Len(item.edges) |-> ResolveEdge(item.edges[k])],
                                Native))
  BY DEF ParseEffect
<1>2. Numbering(func) /\ Exact(m_ids, func.types) /\ func.types \in Nat /\ UNCHANGED <<m_ids, first_block>>
      /\ ~first_block
  BY DEF ReaderInv, ParseEffect, InBlock, Inside, Numbering, Closed, Total
<1>3. PICK inst : inst = Inst(item.op, NoResult, resolve(item.operands), ResolvedEdges(item.edges), Native)
  OBVIOUS
<1>4. Reads(inst) \subseteq Values(func)
  <2>1. WellMade(item)
    BY ItemsAreWellMade
  <2>2. Reads(inst) \subseteq 0..(func.types - 1)
    BY <1>1, <1>2, <1>3, <2>1, ResolvedReads
  <2>3. QED
    BY <1>2, <2>2 DEF Numbering
<1>5. func' = Grown(func, inst, func.types)
  BY <1>1, <1>2, <1>3, AppendedIsGrown DEF ResolvedEdges, Numbering, Closed
<1>6. inst.result = NoResult
  BY <1>3 DEF Inst
<1>7. Closed(func') /\ func'.types = func.types /\ Values(func') = Values(func)
  <2>1. /\ Closed(func') /\ func'.types = func.types
        /\ Values(func') = Values(func) \cup ({inst.result} \ {NoResult})
    BY <1>2, <1>4, <1>5, InstructionAdded DEF Numbering
  <2>2. QED
    BY <1>6, <2>1
<1>8. Numbering(func') /\ Exact(m_ids', func'.types)
  BY <1>2, <1>7 DEF Numbering
<1>9. QED
  BY <1>2, <1>8 DEF ReaderInv

(* The result is an id more, for the function and for the map. *)
LEMMA ParseResultReads ==
    ASSUME ReaderInv, ParseResult
    PROVE  ReaderInv'
<1>1. PICK item \in WithResult(position + 2) :
        /\ KnowsAll(item)
        /\ CheckIds(<<Num(position)>>, <<func.types>>)
        /\ AppendResult(item.op, resolve(item.operands), item.callee)
        /\ m_ids' = WithIds(m_ids, <<Num(position)>>, <<func.types>>)
  BY DEF ParseResult
<1>2. Numbering(func) /\ Exact(m_ids, func.types) /\ func.types \in Nat /\ UNCHANGED first_block
      /\ ~first_block
  BY DEF ReaderInv, ParseResult, InBlock, Inside, Numbering, Closed, Total
<1>3. PICK inst : inst = Inst(item.op, func.types, resolve(item.operands), <<>>, item.callee)
  OBVIOUS
<1>4. Reads(inst) \subseteq Values(func)
  <2>1. WellMade(item)
    BY ItemsAreWellMade
  <2>2. Reads(inst) \subseteq 0..(func.types - 1)
    BY <1>1, <1>2, <1>3, <2>1, ResolvedReads
  <2>3. QED
    BY <1>2, <2>2 DEF Numbering
<1>5. func' = Grown(func, inst, func.types + 1)
  BY <1>1, <1>2, <1>3, AppendedIsGrown DEF AppendResult, Numbering, Closed
<1>6. inst.result = func.types /\ func.types # NoResult
  BY <1>2, <1>3 DEF Inst, NoResult
<1>7. /\ Closed(func') /\ func'.types = func.types + 1
      /\ Values(func') = Values(func) \cup {func.types}
  <2>1. func.types + 1 \in Nat
    BY <1>2
  <2>2. QED
    BY <1>2, <1>4, <1>5, <1>6, <2>1, InstructionAdded DEF Numbering
<1>8. Numbering(func')
  <2>1. (0..(func.types - 1)) \cup {func.types} = 0..((func.types + 1) - 1)
    BY <1>2
  <2>2. QED
    BY <1>2, <1>7, <2>1 DEF Numbering
<1>9. Exact(m_ids', func'.types)
  <2>1. <<func.types>> = Ids(func.types, 1)
    BY <1>2 DEF Ids
  <2>2. Len(<<Num(position)>>) = 1 /\ DOMAIN <<Num(position)>> = 1..1
    OBVIOUS
  <2>3. \A k \in 1..1 : <<Num(position)>>[k] % Modulus = <<func.types>>[k]
    BY <1>1 DEF CheckIds
  <2>4. Exact(WithIds(m_ids, <<Num(position)>>, <<func.types>>), func.types + 1)
    BY <1>2, <2>1, <2>2, <2>3, IdsAdded
  <2>5. QED
    BY <1>1, <1>7, <2>4
<1>10. QED
  BY <1>2, <1>8, <1>9 DEF ReaderInv

(* Only the four steps above read the function or its ids. *)
LEMMA ReaderElsewhere ==
    ASSUME ReaderInv,
           \/ name' = "" \/ phase' # "parsing"
           \/ UNCHANGED <<phase, name, func, m_ids, first_block>>
    PROVE  ReaderInv'
BY DEF ReaderInv, Inside, Parsing

LEMMA ReaderKeeps ==
    ASSUME ReaderInv, [PathNext]_vars
    PROVE  ReaderInv'
<1>1. CASE BeginFunction \/ AddBlock \/ AddInstruction \/ FinishFunction
  <2>1. phase' # "parsing"
    BY <1>1 DEF BeginFunction, AddBlock, AddInstruction, FinishFunction, Building
  <2>2. QED
    BY <2>1, ReaderElsewhere
<1>2. CASE Write \/ WriteAndEdit
  <2>1. name' = ""
    BY <1>2 DEF Write, WriteAndEdit, Parse
  <2>2. QED
    BY <2>1, ReaderElsewhere
<1>3. CASE Read
  <2>1. CASE ParseFunction
    BY <2>1, ParseFunctionReads
  <2>2. CASE ParseBlock
    BY <2>2, ParseBlockReads
  <2>3. CASE ParseEffect
    BY <2>3, ParseEffectReads
  <2>4. CASE ParseResult
    BY <2>4, ParseResultReads
  <2>5. CASE EndFunction \/ EndModule \/ Refuse
    BY <2>5, ReaderElsewhere DEF EndFunction, EndModule, Refuse
  <2>6. QED
    BY <1>3, <2>1, <2>2, <2>3, <2>4, <2>5 DEF Read, ParserStep
<1>4. CASE Compile \/ Generate \/ UNCHANGED vars
  <2>1. UNCHANGED <<phase, name, func, m_ids, first_block>>
    BY <1>4 DEF Compile, Generate, vars, parser
  <2>2. QED
    BY <2>1, ReaderElsewhere
<1>5. QED
  BY <1>1, <1>2, <1>3, <1>4 DEF PathNext

-----------------------------------------------------------------------------
(* The module that was read, and what becomes of it *)

LEMMA ClosedAppended ==
    ASSUME NEW mod, IsSequence(mod), AllClosed(mod), NEW fn, Closed(fn.func)
    PROVE  AllClosed(Append(mod, fn))
<1>1. Len(mod) \in Nat
  BY SequenceElements
<1>2. /\ Len(Append(mod, fn)) = Len(mod) + 1
      /\ \A k \in 1..Len(mod) : Append(mod, fn)[k] = mod[k]
      /\ Append(mod, fn)[Len(mod) + 1] = fn
  BY AppendedElements
<1> DEFINE m == Append(mod, fn)
<1> HIDE DEF m
<1>3. ASSUME NEW k \in 1..Len(m)
      PROVE  Closed(m[k].func)
  <2>1. CASE k \in 1..Len(mod)
    BY <1>2, <2>1 DEF AllClosed, m
  <2>2. CASE k = Len(mod) + 1
    BY <1>2, <2>2 DEF m
  <2>3. QED
    BY <1>1, <1>2, <2>1, <2>2 DEF m
<1>4. QED
  BY <1>3 DEF AllClosed, m

LEMMA AnswerAfterRead ==
    ASSUME ParserInv, Read
    PROVE  AnswerInv'
<1>1. phase = "parsing" /\ outcome = "none" /\ UNCHANGED <<outcome, mod_ir>> /\ AllClosed(functions)
  BY DEF Read, ParserStep, ParseFunction, ParseBlock, ParseEffect, ParseResult, EndFunction,
         EndModule, Refuse, ParserInv, AnswerInv, InBlock, Inside, Parsing, session
<1>2. CASE EndFunction
  <2>1. functions' = Append(functions, Named(name, func, data)) /\ UNCHANGED phase
    BY <1>2 DEF EndFunction
  <2>2. Closed(func)
    BY <1>2 DEF EndFunction, ParserInv, ReaderInv, Numbering
  <2>3. Named(name, func, data).func = func
    BY DEF Named
  <2>4. AllClosed(functions')
    BY <1>1, <2>1, <2>2, <2>3, ClosedAppended DEF ParserInv, SessionInv
  <2>5. QED
    BY <1>1, <2>1, <2>4 DEF AnswerInv
<1>3. CASE Refuse
  BY <1>1, <1>3 DEF AnswerInv, Refuse
<1>4. CASE UNCHANGED functions
  BY <1>1, <1>4 DEF AnswerInv
<1>5. QED
  BY <1>2, <1>3, <1>4 DEF Read, ParserStep, ParseFunction, ParseBlock, ParseEffect, ParseResult,
                          EndModule

LEMMA AnswerAfterCompile ==
    ASSUME ParserInv, Compile
    PROVE  AnswerInv'
<1>1. PICK s \in Orders : CompileModule([k \in 1..Len(functions) |-> functions[s[k]]])
  BY DEF Compile
<1>2. PICK mod : mod = [k \in 1..Len(functions) |-> functions[s[k]]]
  OBVIOUS
<1>3. /\ UNCHANGED <<phase, functions>> /\ mod_ir' = mod
      /\ outcome' \in {"compiling", "verify_error"} /\ phase # "parsing"
  BY <1>1, <1>2 DEF Compile, CompileModule, parser, HasModule, Built, Building, Exceptions,
                    ParserInv, AnswerInv
<1>4. Len(functions) \in Nat
  BY SequenceElements DEF ParserInv, SessionInv
<1>5. ASSUME phase = "parsed"
      PROVE  AllClosed(functions) /\ AllClosed(mod)
  <2>1. AllClosed(functions)
    BY <1>5 DEF ParserInv, AnswerInv
  <2>2. Len(mod) = Len(functions)
    BY <1>2, <1>4
  <2>3. \A k \in 1..Len(functions) : s[k] \in 1..Len(functions) /\ mod[k] = functions[s[k]]
    BY <1>2 DEF Orders
  <2>4. QED
    BY <2>1, <2>2, <2>3 DEF AllClosed
<1>6. QED
  BY <1>3, <1>5 DEF AnswerInv

(* A module that was read is analysable, so that nothing throws out_of_range. *)
LEMMA AnswerAfterGenerate ==
    ASSUME ParserInv, Generate
    PROVE  AnswerInv'
<1>1. UNCHANGED <<phase, functions, mod_ir>> /\ outcome = "compiling"
  BY DEF Generate, parser, SessionStep, CompileFunction, LiveRangesThrow, CallTargetNotFound,
         Overflow, WriteToExec, Commit, CommitFails, Compiling, AllCompiled
<1>2. phase # "parsing"
  BY <1>1 DEF ParserInv, AnswerInv
<1>3. ASSUME phase = "parsed"
      PROVE  AllClosed(mod_ir) /\ outcome' # "out_of_range"
  <2>1. AllClosed(mod_ir)
    BY <1>1, <1>3 DEF ParserInv, AnswerInv
  <2>2. CASE LiveRangesThrow
    <3>1. next \in Nat /\ next >= 1 /\ Len(mod_ir) \in Nat
      BY <1>1, SequenceElements DEF ParserInv, SessionInv, Counters, Progress, Underway, Sequences
    <3>2. next \in 1..Len(mod_ir)
      BY <2>2, <3>1 DEF LiveRangesThrow, Compiling
    <3>3. Analysable(Current.func)
      BY <2>1, <3>2, ClosedIsAnalysable DEF AllClosed, Current
    <3>4. QED
      BY <2>2, <3>3 DEF LiveRangesThrow
  <2>3. CASE ~LiveRangesThrow
    <3>1. CASE CompileFunction
      BY <1>1, <2>1, <3>1 DEF CompileFunction
    <3>2. CASE CallTargetNotFound
      BY <2>1, <3>2 DEF CallTargetNotFound, Throw
    <3>3. CASE Overflow
      BY <2>1, <3>3 DEF Overflow, Throw
    <3>4. CASE WriteToExec \/ Commit \/ CommitFails
      BY <2>1, <3>4 DEF WriteToExec, Commit, CommitFails, Throw
    <3>5. QED
      BY <2>3, <3>1, <3>2, <3>3, <3>4 DEF Generate, SessionStep
  <2>4. QED
    BY <2>1, <2>2, <2>3
<1>4. AllClosed(functions) \/ phase # "parsed"
  BY DEF ParserInv, AnswerInv
<1>5. QED
  BY <1>1, <1>2, <1>3, <1>4 DEF AnswerInv

LEMMA AnswerKeeps ==
    ASSUME ParserInv, [PathNext]_vars
    PROVE  AnswerInv'
<1>1. CASE BeginFunction \/ AddBlock \/ AddInstruction \/ FinishFunction
  BY <1>1 DEF BeginFunction, AddBlock, AddInstruction, FinishFunction, Building, AnswerInv
<1>2. CASE Write \/ WriteAndEdit
  <2>1. phase' = "parsing" /\ functions' = <<>> /\ outcome' = "none"
    BY <1>2 DEF Write, WriteAndEdit, Parse, Built, Building, session
  <2>2. AllClosed(<<>>)
    BY EmptySequence DEF AllClosed
  <2>3. QED
    BY <2>1, <2>2 DEF AnswerInv
<1>3. CASE UNCHANGED vars
  BY <1>3 DEF vars, parser, session, ParserInv, AnswerInv
<1>4. QED
  BY <1>1, <1>2, <1>3, AnswerAfterRead, AnswerAfterCompile, AnswerAfterGenerate DEF PathNext

(* Ids, map and definitions agree while a text is read and after. *)
THEOREM ParserHolds == PathSpec => []ParserInv
<1>1. PathInit => ParserInv
  BY InitEstablishes DEF PathInit, SessionInit, ParserInv, ReaderInv, AnswerInv, Inside, Parsing
<1>2. ParserInv /\ [PathNext]_vars => ParserInv'
  BY StepKeeps, ReaderKeeps, AnswerKeeps DEF ParserInv
<1>3. QED
  BY <1>1, <1>2, PTL DEF PathSpec

(* The map of ids goes one to one onto the ids of the builder. *)
THEOREM IdsAreResolved == PathSpec => []ResolvesOwnIds
<1>1. ParserInv => ResolvesOwnIds
  BY DEF ParserInv, ReaderInv, Exact, Inside, Parsing, ResolvesOwnIds
<1>2. QED
  BY <1>1, ParserHolds, PTL

(* What has been accepted reads what is defined above, and does not throw. *)
THEOREM ReadsAreDefined == PathSpec => []AcceptedReadsAreDefined
<1>1. ParserInv => AcceptedReadsAreDefined
  <2> SUFFICES ASSUME ParserInv PROVE AcceptedReadsAreDefined
    OBVIOUS
  <2>1. ASSUME phase = "parsed", NEW fn \in ToSet(functions)
        PROVE  ReadsDefined(fn.func)
    <3>1. PICK k \in 1..Len(functions) : fn = functions[k]
      BY SequenceElements DEF ParserInv, SessionInv
    <3>2. QED
      BY <2>1, <3>1 DEF ParserInv, AnswerInv, AllClosed, Closed
  <2>2. outcome = "out_of_range" => phase # "parsed"
    BY DEF ParserInv, AnswerInv
  <2>3. QED
    BY <2>1, <2>2 DEF AcceptedReadsAreDefined, ReadsDefined
<1>2. QED
  BY <1>1, ParserHolds, PTL

(***************************************************************************)
(* What is written out again: AcceptedPrintsBack.                          *)
(***************************************************************************)

IsText(t) == IsSequence(t) /\ \A p \in 1..Len(t) : IsLexeme(t[p])

(* The text says s from p up to q. *)
SaysAt(p, l) == SaysTheSame(text[p], l) \/ SignOfStore(p, l)

Covers(p, q, s) ==
    /\ p \in Nat \ {0} /\ q \in Nat
    /\ IsSequence(s) /\ q = p + Len(s)
    /\ q <= Len(text) + 1
    /\ \A k \in 1..Len(s) : SaysAt(p + k - 1, s[k])

(* Numbers that are equal as Values. *)
LEMMA RestIsMultiple ==
    ASSUME NEW m \in Nat, m > 0, NEW x \in Int
    PROVE  /\ x % m \in Int /\ (x - (x % m)) % m = 0 /\ 0 % m = 0
<1>1. x % m \in Int
  OBVIOUS
<1>2. (x - (x % m)) % m = 0
  BY SMTT(30)
<1>3. 0 % m = 0
  OBVIOUS
<1>. QED BY <1>1, <1>2, <1>3

LEMMA CastIsEqual ==
    ASSUME NEW n \in Int
    PROVE  Int32(n) \in Int /\ (n - Int32(n)) % Modulus = 0
<1>1. Modulus \in Nat /\ Modulus > 0
  BY ModulusAssumption, BoundAssumption
<1>. DEFINE h == Modulus \div 2
            x == n + h
            r == x % Modulus
<1>2. h \in Int /\ x \in Int
  BY <1>1
<1>3. Int32(n) = r - h
  BY DEF Int32
<1>4. n = x - h
  BY <1>2
<1>. HIDE DEF x, h
<1>5. r \in Int /\ (x - r) % Modulus = 0
  <2>1. x % Modulus \in Int
    BY <1>1, <1>2, RestIsMultiple
  <2>2. (x - (x % Modulus)) % Modulus = 0
    BY <1>1, <1>2, RestIsMultiple
  <2>. QED BY <1>1, <1>2, <2>1, <2>2
<1>. HIDE DEF r
<1>6. n - Int32(n) = x - r
  BY <1>2, <1>3, <1>4, <1>5
<1>. QED BY <1>2, <1>3, <1>5, <1>6

(* A lexeme that is no number of any kind has none. *)
LEMMA WordSaysItself ==
    ASSUME IsText(text), NEW p \in 1..Len(text), text[p].text \notin Numeric
    PROVE  text[p] = Word(text[p].text) /\ SaysAt(p, Word(text[p].text))
<1>1. text[p] = Word(text[p].text)
  BY DEF IsText, IsLexeme
<1>2. Word(text[p].text).num = 0 /\ Word(text[p].text).hex = FALSE /\ Word(text[p].text).text = text[p].text
  BY DEF Word, Lexeme
<1>3. ValueOf(text[p]) = 0
  BY <1>1, <1>2 DEF ValueOf
<1>4. (0 - 0) % Modulus = 0
  BY RestIsMultiple, ModulusAssumption, BoundAssumption
<1>. QED BY <1>1, <1>2, <1>3, <1>4 DEF SaysAt, SaysTheSame

LEMMA NumberSays ==
    ASSUME IsText(text), NEW p \in 1..Len(text), NEW l, text[p].text = l.text,
           (Num(p) - l.num) % Modulus = 0
    PROVE  SaysAt(p, l)
BY DEF SaysAt, SaysTheSame, Num

LEMMA NumIsNumber ==
    ASSUME IsText(text), NEW p \in 1..Len(text)
    PROVE  Num(p) \in Int /\ (Num(p) - Num(p)) % Modulus = 0
<1>1. Num(p) \in Int
  BY DEF IsText, IsLexeme, Num, ValueOf
<1>. QED BY <1>1, RestIsMultiple, ModulusAssumption, BoundAssumption

-----------------------------------------------------------------------------
(* Pieces of text *)

LEMMA CoversOne ==
    ASSUME NEW p \in Nat \ {0}, p <= Len(text), NEW l, SaysAt(p, l)
    PROVE  Covers(p, p + 1, <<l>>)
<1>1. IsSequence(<<l>>) /\ Len(<<l>>) = 1 /\ <<l>>[1] = l
  BY DEF IsSequence, ToSet
<1>. QED BY <1>1 DEF Covers

LEMMA CoversNothing ==
    ASSUME NEW p \in Nat \ {0}, p <= Len(text) + 1
    PROVE  Covers(p, p, <<>>)
BY EmptySequence DEF Covers

LEMMA CoversJoined ==
    ASSUME NEW p, NEW q, NEW r, NEW s, NEW t, Covers(p, q, s), Covers(q, r, t)
    PROVE  Covers(p, r, s \o t)
<1>1. IsSequence(s) /\ IsSequence(t) /\ Len(s) \in Nat /\ Len(t) \in Nat /\ p \in Nat \ {0}
  BY SequenceElements DEF Covers
<1>2. /\ IsSequence(s \o t)
      /\ Len(s \o t) = Len(s) + Len(t)
      /\ \A i \in 1..Len(s) : (s \o t)[i] = s[i]
      /\ \A i \in 1..Len(t) : (s \o t)[Len(s) + i] = t[i]
  BY <1>1, ConcatElements
<1>3. q = p + Len(s) /\ r = q + Len(t) /\ r <= Len(text) + 1 /\ r \in Nat
  BY DEF Covers
<1>4. ASSUME NEW k \in 1..(Len(s) + Len(t))
      PROVE  SaysAt(p + k - 1, (s \o t)[k])
  <2>1. CASE k <= Len(s)
    BY <1>1, <1>2, <2>1 DEF Covers
  <2>2. CASE k > Len(s)
    <3>1. PICK i \in 1..Len(t) : k = Len(s) + i
      <4>1. k - Len(s) \in 1..Len(t) /\ k = Len(s) + (k - Len(s))
        BY <1>1, <2>2
      <4>. QED BY <4>1
    <3>2. SaysAt(q + i - 1, t[i])
      BY DEF Covers
    <3>3. q + i - 1 = p + k - 1
      BY <1>1, <1>3, <3>1
    <3>. QED BY <1>2, <3>1, <3>2, <3>3
  <2>. QED BY <1>1, <2>1, <2>2
<1>5. r = p + Len(s \o t)
  BY <1>1, <1>2, <1>3
<1>. QED BY <1>1, <1>2, <1>3, <1>4, <1>5 DEF Covers

LEMMA CoversSequence == \A p, q, s : Covers(p, q, s) => IsSequence(s)
BY DEF Covers

(* Pieces in a row, with what is between them. *)
LEMMA CoversFlat ==
    ASSUME NEW ss, Parts(ss), NEW e, e[0] \in Nat \ {0}, e[0] <= Len(text) + 1,
           \A k \in 1..Len(ss) : Covers(e[k - 1], e[k], ss[k])
    PROVE  Covers(e[0], e[Len(ss)], FlattenSeq(ss))
<1>1. Len(ss) \in Nat /\ IsSequence(ss)
  BY SequenceElements DEF Parts
<1>2. /\ Joined(ss, 0) = <<>> /\ Joined(ss, Len(ss)) = FlattenSeq(ss)
      /\ \A k \in 0..Len(ss) : JoinedWell(ss, k)
  BY <1>1, JoinedNone, JoinedParts
<1>. DEFINE S == {k \in Nat : k <= Len(ss) => Covers(e[0], e[k], Joined(ss, k))}
<1>3. 0 \in S
  <2>1. Covers(e[0], e[0], <<>>)
    BY CoversNothing
  <2>. QED BY <1>2, <2>1
<1>4. ASSUME NEW k \in S
      PROVE  k + 1 \in S
  <2>. SUFFICES ASSUME k + 1 <= Len(ss)
                PROVE  Covers(e[0], e[k + 1], Joined(ss, k + 1))
    OBVIOUS
  <2>1. Covers(e[0], e[k], Joined(ss, k))
    BY <1>1
  <2>2. k + 1 \in 1..Len(ss) /\ (k + 1) - 1 = k /\ k + 1 \in 0..Len(ss) /\ k + 1 > 0
    BY <1>1
  <2>3. Covers(e[k], e[k + 1], ss[k + 1])
    BY <2>2
  <2>4. Joined(ss, k + 1) = Joined(ss, k) \o ss[k + 1]
    BY <1>2, <2>2 DEF JoinedWell
  <2>. QED BY <2>1, <2>3, <2>4, CoversJoined
<1>5. S = Nat
  <2>. HIDE DEF S
  <2>1. S \in SUBSET Nat
    BY DEF S
  <2>. QED BY <1>3, <1>4, <2>1, Induction
<1>6. Len(ss) \in S
  BY <1>1, <1>5
<1>. QED BY <1>1, <1>2, <1>6

-----------------------------------------------------------------------------
(* Tokens *)

Names25 ==
    {"iconst", "iadd", "isub", "imul", "iand", "ior", "ixor", "ishl", "ishr", "idiv", "udiv",
     "icmp", "inot", "ineg", "ishl_imm", "ishr_imm", "isar_imm", "itrunc32", "isext32",
     "call", "load", "store", "brif", "jmp", "ret"}

LEMMA NamesOfInstructions == DOMAIN ClassOf = Names25
BY DEF ClassOf, Names25

LEMMA Vocabulary ==
    /\ {"eof", "identifier"} \cap (Keywords \cup Marks \cup Numeric) = {}
    /\ Numeric \cap (Keywords \cup Marks) = {}
    /\ Marks \cap Keywords = {}
    /\ {"fn", "native", "i64", "i32"} \cup Names25 \subseteq Keywords
BY NamesOfInstructions DEF Keywords, Marks, Numeric, Names25

LEMMA TypeIs ==
    ASSUME NEW p \in Nat \ {0}, Len(text) \in Nat, NEW w, Type(p) = w
    PROVE  /\ w \in Keywords \cup Marks \cup Numeric => p \in 1..Len(text) /\ text[p].text = w
           /\ w = "identifier" => /\ p \in 1..Len(text)
                                  /\ text[p].text \notin Keywords \cup Marks \cup Numeric
<1>1. "eof" # "identifier" /\ {"eof", "identifier"} \cap (Keywords \cup Marks \cup Numeric) = {}
  BY Vocabulary
<1>2. ASSUME p > Len(text)
      PROVE  w = "eof"
  BY <1>2 DEF Type
<1>3. ASSUME p <= Len(text)
      PROVE  w = TypeOf(text[p]) /\ p \in 1..Len(text)
  BY <1>3 DEF Type
<1>. QED BY <1>1, <1>2, <1>3 DEF TypeOf

LEMMA WordCovers ==
    ASSUME IsText(text), NEW p \in Nat \ {0}, NEW w \in Keywords \cup Marks, Type(p) = w
    PROVE  p \in 1..Len(text) /\ text[p] = Word(w) /\ Covers(p, p + 1, <<Word(w)>>)
<1>1. Len(text) \in Nat
  BY SequenceElements DEF IsText
<1>2. p \in 1..Len(text) /\ text[p].text = w
  BY <1>1, TypeIs
<1>3. w \notin Numeric
  BY Vocabulary
<1>. QED BY <1>2, <1>3, WordSaysItself, CoversOne

LEMMA NameCovers ==
    ASSUME IsText(text), NEW p \in Nat \ {0}, Type(p) = "identifier"
    PROVE  /\ p \in 1..Len(text) /\ IsSpelling(Spell(p)) /\ Spell(p) \notin Keywords
           /\ Covers(p, p + 1, <<Word(Spell(p))>>)
<1>1. Len(text) \in Nat
  BY SequenceElements DEF IsText
<1>2. p \in 1..Len(text) /\ text[p].text \notin Keywords \cup Marks \cup Numeric
  BY <1>1, TypeIs
<1>3. IsSpelling(text[p].text)
  BY <1>2 DEF IsText, IsLexeme
<1>. QED BY <1>2, <1>3, WordSaysItself, CoversOne DEF Spell

(* A number of some kind, and one that is equal to it as a Value. *)
LEMMA NumberCovers ==
    ASSUME IsText(text), NEW p \in Nat \ {0}, NEW w \in Numeric, Type(p) = w
    PROVE  /\ p \in 1..Len(text) /\ Num(p) \in Int
           /\ \A x \in Int : (Num(p) - x) % Modulus = 0 =>
                /\ w = "%" => Covers(p, p + 1, <<Percent(x)>>)
                /\ w = "#" => Covers(p, p + 1, <<Decimal(x)>>) /\ Covers(p, p + 1, <<Hex(x)>>)
           /\ w = "%" => Covers(p, p + 1, <<Percent(Num(p))>>)
           /\ w = "bb" => Covers(p, p + 1, <<Bb(Num(p) + 1)>>)
           /\ w = "#" => Covers(p, p + 1, <<Decimal(Num(p))>>) /\ Covers(p, p + 1, <<Hex(Num(p))>>)
<1>1. Len(text) \in Nat
  BY SequenceElements DEF IsText
<1>2. p \in 1..Len(text) /\ text[p].text = w
  BY <1>1, TypeIs
<1>3. Num(p) \in Int /\ (Num(p) - Num(p)) % Modulus = 0
  BY <1>2, NumIsNumber
<1>4. ASSUME NEW x \in Int, (Num(p) - x) % Modulus = 0, NEW l, l.text = w, l.num = x
      PROVE  Covers(p, p + 1, <<l>>)
  <2>1. SaysAt(p, l)
    BY <1>2, <1>4, NumberSays
  <2>. QED BY <1>2, <2>1, CoversOne
<1>5. \A x \in Int : /\ Percent(x).text = "%" /\ Percent(x).num = x
                     /\ Decimal(x).text = "#" /\ Decimal(x).num = x
                     /\ Hex(x).text = "#" /\ Hex(x).num = x
  BY DEF Percent, Decimal, Hex, Lexeme
<1>6. Bb(Num(p) + 1).text = "bb" /\ Bb(Num(p) + 1).num = Num(p)
  BY <1>3 DEF Bb, Lexeme
<1>7. ASSUME NEW x \in Int, (Num(p) - x) % Modulus = 0
      PROVE  /\ w = "%" => Covers(p, p + 1, <<Percent(x)>>)
             /\ w = "#" => Covers(p, p + 1, <<Decimal(x)>>) /\ Covers(p, p + 1, <<Hex(x)>>)
  BY <1>4, <1>5, <1>7
<1>8. w = "bb" => Covers(p, p + 1, <<Bb(Num(p) + 1)>>)
  BY <1>3, <1>4, <1>6
<1>. QED BY <1>2, <1>3, <1>7, <1>8

LEMMA Expected ==
    ASSUME NEW p \in Nat \ {0}, NEW a, NEW b, NEW c, NEW d, NEW e, NEW f
    PROVE  /\ Expect(p, <<a>>) <=> Type(p) = a
           /\ Expect(p, <<a, b>>) <=> Type(p) = a /\ Type(p + 1) = b
           /\ Expect(p, <<a, b, c>>) <=> Type(p) = a /\ Type(p + 1) = b /\ Type(p + 2) = c
           /\ Expect(p, <<a, b, c, d>>) <=> /\ Type(p) = a /\ Type(p + 1) = b
                                            /\ Type(p + 2) = c /\ Type(p + 3) = d
           /\ Expect(p, <<a, b, c, d, e>>) <=>
                /\ Type(p) = a /\ Type(p + 1) = b /\ Type(p + 2) = c
                /\ Type(p + 3) = d /\ Type(p + 4) = e
           /\ Expect(p, <<a, b, c, d, e, f>>) <=>
                /\ Type(p) = a /\ Type(p + 1) = b /\ Type(p + 2) = c
                /\ Type(p + 3) = d /\ Type(p + 4) = e /\ Type(p + 5) = f
<1>1. Expect(p, <<a>>) <=> Type(p) = a
  BY DEF Expect
<1>2. Expect(p, <<a, b>>) <=> Type(p) = a /\ Type(p + 1) = b
  BY DEF Expect
<1>3. Expect(p, <<a, b, c>>) <=> Type(p) = a /\ Type(p + 1) = b /\ Type(p + 2) = c
  BY DEF Expect
<1>4. Expect(p, <<a, b, c, d>>) <=> /\ Type(p) = a /\ Type(p + 1) = b
                                    /\ Type(p + 2) = c /\ Type(p + 3) = d
  BY DEF Expect
<1>5. Expect(p, <<a, b, c, d, e>>) <=>
        /\ Type(p) = a /\ Type(p + 1) = b /\ Type(p + 2) = c
        /\ Type(p + 3) = d /\ Type(p + 4) = e
  BY DEF Expect
<1>6. Expect(p, <<a, b, c, d, e, f>>) <=>
        /\ Type(p) = a /\ Type(p + 1) = b /\ Type(p + 2) = c
        /\ Type(p + 3) = d /\ Type(p + 4) = e /\ Type(p + 5) = f
  BY DEF Expect
<1>. QED BY <1>1, <1>2, <1>3, <1>4, <1>5, <1>6

-----------------------------------------------------------------------------
(* Lists *)

(* Marks by their names. *)
Comma  == ","
Opens  == "{"
Closes == "}"

LEMMA MarksAre == {"(", ")", Comma, ":", "@", ".", "->", Opens, Closes, "="} \subseteq Keywords \cup Marks
BY Zenon DEF Marks, Comma, Opens, Closes

(* Items of one size in parentheses, with commas between them. *)
LEMMA ListCovers ==
    ASSUME IsText(text), NEW p \in Nat \ {0}, NEW size \in {2, 3}, NEW n \in Nat,
           NEW items, IsSequence(items), Len(items) = n,
           NEW last, last = p + (IF n = 0 THEN 1 ELSE n * size),
           Type(p) = "(", Type(last) = ")",
           \A k \in 1..n : /\ k > 1 => Type(p + (k - 1) * size) = Comma
                           /\ Covers(p + (k - 1) * size + 1, p + k * size, items[k])
    PROVE  Covers(p, last + 1, List(items))
<1>. DEFINE ss == [k \in 1..n |-> IF k = 1 THEN items[k] ELSE <<Word(Comma)>> \o items[k]]
            e == [k \in 0..n |-> IF k = 0 THEN p + 1 ELSE p + k * size]
<1>2. Covers(p, p + 1, <<Word("(")>>) /\ p + 1 <= Len(text) + 1
  <2>1. Covers(p, p + 1, <<Word("(")>>)
    BY WordCovers, MarksAre
  <2>. QED BY <2>1 DEF Covers
<1>3. ASSUME NEW k \in 1..n
      PROVE  Covers(e[k - 1], e[k], ss[k])
  <2>1. Covers(p + (k - 1) * size + 1, p + k * size, items[k])
    OBVIOUS
  <2>2. CASE k = 1
    <3>1. e[k - 1] = p + 1 /\ e[k] = p + k * size /\ p + (k - 1) * size + 1 = p + 1 /\ ss[k] = items[k]
      BY <2>2
    <3>. QED BY <2>1, <3>1
  <2>3. CASE k > 1
    <3>. DEFINE q == p + (k - 1) * size
    <3>1. q \in Nat \ {0} /\ e[k - 1] = q /\ e[k] = p + k * size /\ ss[k] = <<Word(Comma)>> \o items[k]
      <4>1. k - 1 \in 0..n /\ k - 1 # 0 /\ k # 0 /\ k \in 0..n /\ k # 1
        BY <2>3
      <4>2. e[k - 1] = q /\ e[k] = p + k * size /\ ss[k] = <<Word(Comma)>> \o items[k]
        BY <4>1
      <4>3. CASE size = 2
        BY <4>1, <4>2, <4>3
      <4>4. CASE size = 3
        BY <4>1, <4>2, <4>4
      <4>. QED BY <4>3, <4>4
    <3>2. Type(q) = Comma
      BY <2>3
    <3>. HIDE DEF q
    <3>3. Covers(q, q + 1, <<Word(Comma)>>)
      BY <3>1, <3>2, WordCovers, MarksAre
    <3>4. Covers(q + 1, p + k * size, items[k])
      BY <2>1 DEF q
    <3>. HIDE DEF ss, e
    <3>. QED BY <3>1, <3>3, <3>4, CoversJoined
  <2>. QED BY <2>2, <2>3
<1>4. Parts(ss) /\ Len(ss) = n
  <2>1. IsSequence(ss) /\ Len(ss) = n
    BY FunctionIsSequence
  <2>2. \A k \in 1..n : IsSequence(ss[k])
    <3>. HIDE DEF ss, e
    <3>. QED BY <1>3 DEF Covers
  <2>. HIDE DEF ss
  <2>. QED BY <2>1, <2>2 DEF Parts
<1>5. e[0] = p + 1 /\ e[n] = last /\ last \in Nat \ {0}
  OBVIOUS
<1>6. List(items) = (<<Word("(")>> \o FlattenSeq(ss)) \o <<Word(")")>>
  BY Zenon, <1>4 DEF List, Comma
<1>. HIDE DEF ss, e
<1>8. Covers(e[0], e[n], FlattenSeq(ss))
  <2>1. e[0] \in Nat \ {0} /\ e[0] <= Len(text) + 1 /\ Len(ss) = n /\ Parts(ss)
    BY <1>2, <1>4, <1>5
  <2>2. \A k \in 1..Len(ss) : Covers(e[k - 1], e[k], ss[k])
    BY <1>3, <2>1
  <2>3. Covers(e[0], e[Len(ss)], FlattenSeq(ss))
    BY <2>1, <2>2, CoversFlat
  <2>. QED BY <2>1, <2>3
<1>9. Covers(p, e[n], <<Word("(")>> \o FlattenSeq(ss))
  BY <1>2, <1>5, <1>8, CoversJoined
<1>10. Covers(e[n], last + 1, <<Word(")")>>)
  BY <1>5, WordCovers, MarksAre
<1>. QED BY <1>6, <1>9, <1>10, CoversJoined

(* The numbers are those values. *)
SameValues(nums, ids) ==
    /\ IsSequence(ids) /\ Len(nums) = Len(ids)
    /\ \A k \in 1..Len(ids) : ids[k] \in Int /\ (nums[k] - ids[k]) % Modulus = 0

(* Where the closing parenthesis is. *)
End(p, n, size) == p + (IF n = 0 THEN 1 ELSE n * size)

ListOf(p, item, n, size) ==
    /\ Type(p) = "(" /\ Type(End(p, n, size)) = ")"
    /\ \A k \in 1..n : /\ k > 1 => Type(p + (k - 1) * size) = Comma
                       /\ Expect(p + (k - 1) * size + 1, item)

LEMMA ListIs ==
    ASSUME NEW p \in Nat \ {0}, NEW n \in Nat
    PROVE  /\ Behind(p, Passed, n) = End(p, n, 2) + 1
           /\ Behind(p, Declared, n) = End(p, n, 3) + 1
           /\ IsList(p, Passed, n) <=> ListOf(p, Passed, n, 2)
           /\ IsList(p, Declared, n) <=> ListOf(p, Declared, n, 3)
<1>1. Len(Passed) + 1 = 2 /\ Len(Declared) + 1 = 3
  BY DEF Passed, Declared
<1>2. \A item, size : Len(item) + 1 = size =>
         (IsList(p, item, n) <=> ListOf(p, item, n, size))
  BY Zenon DEF IsList, ListOf, End, Comma
<1>3. Behind(p, Passed, n) = p + 1 + (IF n = 0 THEN 1 ELSE n * 2)
  BY <1>1 DEF Behind
<1>4. Behind(p, Declared, n) = p + 1 + (IF n = 0 THEN 1 ELSE n * 3)
  BY <1>1 DEF Behind
<1>. QED BY <1>1, <1>2, <1>3, <1>4 DEF End

LEMMA ValuesCover ==
    ASSUME IsText(text), NEW p \in Nat \ {0}, NEW n \in Nat, IsList(p, Passed, n),
           NEW ids, SameValues(NumsOf(p, Passed, n), ids)
    PROVE  Covers(p, Behind(p, Passed, n), FmtValues(ids))
<1>. DEFINE items == [k \in 1..Len(ids) |-> <<Percent(ids[k])>>]
<1>1. Behind(p, Passed, n) = End(p, n, 2) + 1 /\ ListOf(p, Passed, n, 2)
  BY ListIs
<1>3. Len(NumsOf(p, Passed, n)) = n /\ \A k \in 1..n : NumsOf(p, Passed, n)[k] = Num(p + k * 2 - 1)
  <2>1. Len(Passed) + 1 = 2
    BY DEF Passed
  <2>. QED BY <2>1 DEF NumsOf
<1>4. Len(ids) = n /\ \A k \in 1..n : ids[k] \in Int /\ (Num(p + k * 2 - 1) - ids[k]) % Modulus = 0
  BY <1>3 DEF SameValues
<1>5. IsSequence(items) /\ Len(items) = n
  BY <1>4, FunctionIsSequence
<1>6. ASSUME NEW k \in 1..n
      PROVE  Covers(p + (k - 1) * 2 + 1, p + k * 2, items[k])
  <2>. DEFINE q == p + (k - 1) * 2 + 1
  <2>1. q \in Nat \ {0} /\ q = p + k * 2 - 1 /\ q + 1 = p + k * 2
    OBVIOUS
  <2>2. Expect(q, Passed)
    BY <1>1 DEF ListOf
  <2>3. items[k] = <<Percent(ids[k])>>
    BY <1>4
  <2>4. ids[k] \in Int /\ (Num(q) - ids[k]) % Modulus = 0
    BY <1>4, <2>1
  <2>. HIDE DEF q, items
  <2>5. Type(q) = "%"
    BY <2>1, <2>2, Expected DEF Passed
  <2>6. Covers(q, q + 1, items[k])
    BY <2>1, <2>3, <2>4, <2>5, NumberCovers DEF Numeric
  <2>. QED BY <2>1, <2>6 DEF q
<1>7. FmtValues(ids) = List(items)
  BY DEF FmtValues
<1>. HIDE DEF items
<1>. QED BY <1>1, <1>5, <1>6, <1>7, ListCovers DEF ListOf, End

LEMMA ParamsCover ==
    ASSUME IsText(text), NEW p \in Nat \ {0}, NEW n \in Nat, IsList(p, Declared, n),
           NEW ids, SameValues(NumsOf(p, Declared, n), ids)
    PROVE  Covers(p, Behind(p, Declared, n), FmtParams(ids))
<1>. DEFINE items == [k \in 1..Len(ids) |-> <<Word("i64"), Percent(ids[k])>>]
<1>1. Behind(p, Declared, n) = End(p, n, 3) + 1 /\ ListOf(p, Declared, n, 3)
  BY ListIs
<1>3. Len(NumsOf(p, Declared, n)) = n /\ \A k \in 1..n : NumsOf(p, Declared, n)[k] = Num(p + k * 3 - 1)
  <2>1. Len(Declared) + 1 = 3
    BY DEF Declared
  <2>. QED BY <2>1 DEF NumsOf
<1>4. Len(ids) = n /\ \A k \in 1..n : ids[k] \in Int /\ (Num(p + k * 3 - 1) - ids[k]) % Modulus = 0
  BY <1>3 DEF SameValues
<1>5. IsSequence(items) /\ Len(items) = n
  BY <1>4, FunctionIsSequence
<1>6. ASSUME NEW k \in 1..n
      PROVE  Covers(p + (k - 1) * 3 + 1, p + k * 3, items[k])
  <2>. DEFINE q == p + (k - 1) * 3 + 1
              r == q + 1
  <2>1. q \in Nat \ {0} /\ r \in Nat \ {0} /\ r = p + k * 3 - 1 /\ r + 1 = p + k * 3
    OBVIOUS
  <2>2. Expect(q, Declared)
    BY <1>1 DEF ListOf
  <2>3. items[k] = <<Word("i64"), Percent(ids[k])>>
    BY <1>4
  <2>4. ids[k] \in Int /\ (Num(r) - ids[k]) % Modulus = 0
    BY <1>4, <2>1
  <2>. HIDE DEF q, items
  <2>5. Type(q) = "i64" /\ Type(r) = "%"
    BY <2>1, <2>2, Expected DEF Declared
  <2>6. Covers(q, r, <<Word("i64")>>)
    BY <2>1, <2>5, WordCovers, Vocabulary
  <2>. HIDE DEF r
  <2>7. Covers(r, r + 1, <<Percent(ids[k])>>)
    BY <2>1, <2>4, <2>5, NumberCovers DEF Numeric
  <2>8. items[k] = <<Word("i64")>> \o <<Percent(ids[k])>>
    BY <2>3
  <2>9. Covers(q, r + 1, items[k])
    BY <2>6, <2>7, <2>8, CoversJoined
  <2>. QED BY <2>1, <2>9 DEF q
<1>7. FmtParams(ids) = List(items)
  BY DEF FmtParams
<1>. HIDE DEF items
<1>. QED BY <1>1, <1>5, <1>6, <1>7, ListCovers DEF ListOf, End

-----------------------------------------------------------------------------
(* Instructions *)

LEMMA FlattenFew ==
    ASSUME NEW ss, IsSequence(ss)
    PROVE  /\ Len(ss) = 1 /\ IsSequence(ss[1]) => FlattenSeq(ss) = ss[1]
           /\ Len(ss) = 2 /\ IsSequence(ss[1]) /\ IsSequence(ss[2]) => FlattenSeq(ss) = ss[1] \o ss[2]
<1>1. ASSUME Len(ss) = 1, IsSequence(ss[1])
      PROVE  FlattenSeq(ss) = ss[1]
  <2>1. Parts(ss)
    BY <1>1 DEF Parts
  <2>2. 1 \in 1..Len(ss)
    BY <1>1
  <2>3. Joined(ss, 1) = ss[1]
    BY <2>1, <2>2, JoinedNext
  <2>4. Joined(ss, Len(ss)) = FlattenSeq(ss)
    BY JoinedNone
  <2>. QED BY <1>1, <2>3, <2>4
<1>2. ASSUME Len(ss) = 2, IsSequence(ss[1]), IsSequence(ss[2])
      PROVE  FlattenSeq(ss) = ss[1] \o ss[2]
  <2>1. Parts(ss)
    BY <1>2 DEF Parts
  <2>2. 1 \in 1..Len(ss) /\ 2 \in 1..Len(ss) /\ 2 # 1 /\ 2 - 1 = 1
    BY <1>2
  <2>3. Joined(ss, 1) = ss[1]
    BY <2>1, <2>2, JoinedNext
  <2>4. Joined(ss, 2) = Joined(ss, 1) \o ss[2]
    BY <2>1, <2>2, JoinedNext
  <2>5. Joined(ss, Len(ss)) = FlattenSeq(ss)
    BY JoinedNone
  <2>. QED BY <1>2, <2>3, <2>4, <2>5
<1>. QED BY <1>1, <1>2

LEMMA OperandsAre ==
    ASSUME NEW a, NEW b
    PROVE  /\ FmtOperands(<<a>>) = <<Percent(a)>>
           /\ FmtOperands(<<a, b>>) = <<Percent(a)>> \o <<Word(Comma), Percent(b)>>
<1>. DEFINE ss(ids) == [k \in 1..Len(ids) |->
                           IF k = 1 THEN <<Percent(ids[k])>> ELSE <<Word(Comma), Percent(ids[k])>>]
<1>1. \A ids : FmtOperands(ids) = FlattenSeq(ss(ids))
  BY Zenon DEF FmtOperands, Comma
<1>2. Len(ss(<<a>>)) = 1 /\ ss(<<a>>)[1] = <<Percent(a)>> /\ IsSequence(ss(<<a>>))
  BY FunctionIsSequence
<1>3. /\ Len(ss(<<a, b>>)) = 2 /\ ss(<<a, b>>)[1] = <<Percent(a)>>
      /\ ss(<<a, b>>)[2] = <<Word(Comma), Percent(b)>> /\ IsSequence(ss(<<a, b>>))
  <2>1. Len(<<a, b>>) = 2 /\ <<a, b>>[1] = a /\ <<a, b>>[2] = b
    OBVIOUS
  <2>2. /\ Len(ss(<<a, b>>)) = 2 /\ ss(<<a, b>>)[1] = <<Percent(a)>>
        /\ ss(<<a, b>>)[2] = <<Word(Comma), Percent(b)>>
    BY <2>1
  <2>3. IsSequence(ss(<<a, b>>))
    BY <2>1, FunctionIsSequence
  <2>. QED BY <2>2, <2>3
<1>4. IsSequence(<<Percent(a)>>) /\ IsSequence(<<Word(Comma), Percent(b)>>)
  BY ShortSequences
<1>. HIDE DEF ss
<1>. QED BY <1>1, <1>2, <1>3, <1>4, FlattenFew

(* A value that a text names, or two. *)
LEMMA OperandCovers ==
    ASSUME IsText(text), NEW p \in Nat \ {0}, NEW a \in Int,
           Type(p) = "%", (Num(p) - a) % Modulus = 0
    PROVE  Covers(p, p + 1, <<Percent(a)>>) /\ Covers(p, p + 1, FmtOperands(<<a>>))
<1>1. Covers(p, p + 1, <<Percent(a)>>)
  BY NumberCovers DEF Numeric
<1>. QED BY <1>1, OperandsAre

LEMMA OperandsCover ==
    ASSUME IsText(text), NEW p \in Nat \ {0}, NEW a \in Int, NEW b \in Int,
           Type(p) = "%", Type(p + 1) = Comma, Type(p + 2) = "%",
           (Num(p) - a) % Modulus = 0, (Num(p + 2) - b) % Modulus = 0
    PROVE  Covers(p, p + 3, FmtOperands(<<a, b>>))
<1>. DEFINE q == p + 1
            r == p + 2
<1>1. q \in Nat \ {0} /\ r \in Nat \ {0} /\ q + 1 = r /\ r + 1 = p + 3
  OBVIOUS
<1>2. Covers(p, q, <<Percent(a)>>)
  BY OperandCovers
<1>3. Type(q) = Comma /\ Type(r) = "%" /\ (Num(r) - b) % Modulus = 0
  OBVIOUS
<1>. HIDE DEF q, r
<1>4. Covers(q, r, <<Word(Comma)>>)
  BY <1>1, <1>3, WordCovers, MarksAre
<1>5. Covers(r, p + 3, <<Percent(b)>>)
  BY <1>1, <1>3, OperandCovers
<1>6. <<Word(Comma), Percent(b)>> = <<Word(Comma)>> \o <<Percent(b)>>
  OBVIOUS
<1>7. Covers(q, p + 3, <<Word(Comma), Percent(b)>>)
  BY <1>4, <1>5, <1>6, CoversJoined
<1>8. Covers(p, p + 3, <<Percent(a)>> \o <<Word(Comma), Percent(b)>>)
  BY <1>2, <1>7, CoversJoined
<1>. QED BY <1>8, OperandsAre

(* What follows the name of an instruction, by its class. *)
CommaDecimal(n) == <<Word(Comma), Decimal(n)>>

RestOf(inst, d) ==
    CASE inst.op = "const"   -> <<Decimal(d.num)>>
      [] inst.op = "compare" -> Words(<<".", d.cond>>) \o FmtOperands(inst.operands)
      [] inst.op = "load"    -> Words(<<".", fmt_load_kind(d.width, d.sign)>>)
                                \o FmtOperands(inst.operands) \o <<Word(Comma), Decimal(d.num)>>
      [] inst.op = "store"   -> Words(<<".", fmt_load_kind(d.width, FALSE)>>)
                                \o FmtOperands(inst.operands) \o <<Word(Comma), Decimal(d.num)>>
      [] d.name \in Shifts   -> FmtOperands(inst.operands) \o <<Word(Comma), Decimal(d.num)>>
      [] inst.op = "call"    -> FmtTarget(inst.callee, d.num) \o FmtValues(inst.operands)
      [] inst.op = "jmp"     -> FmtEdge(inst.edges[1])
      [] inst.op = "brif"    -> FmtOperands(inst.operands)
                                \o <<Word(Comma)>> \o FmtEdge(inst.edges[1])
                                \o <<Word(Comma)>> \o FmtEdge(inst.edges[2])
      [] OTHER               -> FmtOperands(inst.operands)

LEMMA RestIs == \A inst, d : FmtRest(inst, d) = RestOf(inst, d)
BY Zenon DEF FmtRest, RestOf, Comma

LEMMA RestByClass ==
    ASSUME NEW inst, NEW d, NEW op, inst.op = op
    PROVE  /\ op = "const" /\ d.name \notin Shifts => FmtRest(inst, d) = <<Decimal(d.num)>>
           /\ op = "compare" /\ d.name \notin Shifts => FmtRest(inst, d) = Words(<<".", d.cond>>) \o FmtOperands(inst.operands)
           /\ op = "load" /\ d.name \notin Shifts => FmtRest(inst, d) = (Words(<<".", fmt_load_kind(d.width, d.sign)>>)
                                \o FmtOperands(inst.operands)) \o CommaDecimal(d.num)
           /\ op = "store" /\ d.name \notin Shifts => FmtRest(inst, d) = (Words(<<".", fmt_load_kind(d.width, FALSE)>>)
                                \o FmtOperands(inst.operands)) \o CommaDecimal(d.num)
           /\ op = "unary" /\ d.name \in Shifts
                => FmtRest(inst, d) = FmtOperands(inst.operands) \o CommaDecimal(d.num)
           /\ op \in {"unary", "convert", "binary", "shift", "divide", "ret"} /\ d.name \notin Shifts
                => FmtRest(inst, d) = FmtOperands(inst.operands)
           /\ op = "call" /\ d.name \notin Shifts
                => FmtRest(inst, d) = FmtTarget(inst.callee, d.num) \o FmtValues(inst.operands)
           /\ op = "jmp" /\ d.name \notin Shifts => FmtRest(inst, d) = FmtEdge(inst.edges[1])
           /\ op = "brif" /\ d.name \notin Shifts
                => FmtRest(inst, d) = (((FmtOperands(inst.operands)
                                \o <<Word(Comma)>>) \o FmtEdge(inst.edges[1]))
                                \o <<Word(Comma)>>) \o FmtEdge(inst.edges[2])
<1>1. op = "const" /\ d.name \notin Shifts => FmtRest(inst, d) = <<Decimal(d.num)>>
  BY RestIs DEF RestOf, CommaDecimal
<1>2. op = "compare" /\ d.name \notin Shifts => FmtRest(inst, d) = Words(<<".", d.cond>>) \o FmtOperands(inst.operands)
  BY RestIs DEF RestOf, CommaDecimal
<1>3. op = "load" /\ d.name \notin Shifts => FmtRest(inst, d) = (Words(<<".", fmt_load_kind(d.width, d.sign)>>) \o FmtOperands(inst.operands)) \o CommaDecimal(d.num)
  BY RestIs DEF RestOf, CommaDecimal
<1>4. op = "store" /\ d.name \notin Shifts => FmtRest(inst, d) = (Words(<<".", fmt_load_kind(d.width, FALSE)>>) \o FmtOperands(inst.operands)) \o CommaDecimal(d.num)
  BY RestIs DEF RestOf, CommaDecimal
<1>5. op = "unary" /\ d.name \in Shifts => FmtRest(inst, d) = FmtOperands(inst.operands) \o CommaDecimal(d.num)
  BY RestIs DEF RestOf, CommaDecimal
<1>6. op \in {"unary", "convert", "binary", "shift", "divide", "ret"} /\ d.name \notin Shifts => FmtRest(inst, d) = FmtOperands(inst.operands)
  BY RestIs DEF RestOf, CommaDecimal
<1>7. op = "call" /\ d.name \notin Shifts => FmtRest(inst, d) = FmtTarget(inst.callee, d.num) \o FmtValues(inst.operands)
  BY RestIs DEF RestOf, CommaDecimal
<1>8. op = "jmp" /\ d.name \notin Shifts => FmtRest(inst, d) = FmtEdge(inst.edges[1])
  BY RestIs DEF RestOf, CommaDecimal
<1>9. op = "brif" /\ d.name \notin Shifts => FmtRest(inst, d) = (((FmtOperands(inst.operands) \o <<Word(Comma)>>) \o FmtEdge(inst.edges[1])) \o <<Word(Comma)>>) \o FmtEdge(inst.edges[2])
  BY RestIs DEF RestOf, CommaDecimal
<1>. QED BY <1>1, <1>2, <1>3, <1>4, <1>5, <1>6, <1>7, <1>8, <1>9

(* An instruction with the operands and edges of the text, as Values. *)
Builds(item, inst) ==
    /\ inst.op = item.op /\ inst.callee = item.callee
    /\ SameValues(item.operands, inst.operands)
    /\ IsSequence(inst.edges) /\ Len(inst.edges) = Len(item.edges)
    /\ \A k \in 1..Len(item.edges) :
         /\ inst.edges[k].block = item.edges[k].block
         /\ SameValues(item.edges[k].args, inst.edges[k].args)

WrittenAt(p, q, inst, d) ==
    Covers(p, q, <<Word(d.name)>> \o FmtRest(inst, d)) /\ IsSequence(FmtRest(inst, d))

LEMMA FewElements ==
    ASSUME NEW s, IsSequence(s)
    PROVE  /\ Len(s) = 1 => s = <<s[1]>>
           /\ Len(s) = 2 => s = <<s[1], s[2]>>
<1>1. ASSUME Len(s) = 1 PROVE s = <<s[1]>>
  <2>1. IsSequence(<<s[1]>>) /\ Len(<<s[1]>>) = 1 /\ <<s[1]>>[1] = s[1]
    BY ShortSequences
  <2>. QED BY <1>1, <2>1, SameElements
<1>2. ASSUME Len(s) = 2 PROVE s = <<s[1], s[2]>>
  <2>. DEFINE t == <<s[1], s[2]>>
  <2>1. IsSequence(t) /\ Len(t) = 2 /\ t[1] = s[1] /\ t[2] = s[2]
    BY ShortSequences
  <2>. HIDE DEF t
  <2>2. \A k \in 1..Len(s) : s[k] = t[k]
    BY <1>2, <2>1
  <2>3. s = t
    BY <1>2, <2>1, <2>2, SameElements
  <2>. QED BY <2>3 DEF t
<1>. QED BY <1>1, <1>2

LEMMA OperandsBuilt ==
    ASSUME NEW a, NEW b, NEW ids
    PROVE  /\ SameValues(<<a>>, ids)
                => ids = <<ids[1]>> /\ ids[1] \in Int /\ (a - ids[1]) % Modulus = 0
           /\ SameValues(<<a, b>>, ids)
                => /\ ids = <<ids[1], ids[2]>> /\ ids[1] \in Int /\ ids[2] \in Int
                   /\ (a - ids[1]) % Modulus = 0 /\ (b - ids[2]) % Modulus = 0
<1>1. ASSUME SameValues(<<a>>, ids)
      PROVE  ids = <<ids[1]>> /\ ids[1] \in Int /\ (a - ids[1]) % Modulus = 0
  <2>1. IsSequence(ids) /\ Len(ids) = 1
    BY <1>1 DEF SameValues
  <2>2. ids[1] \in Int /\ (<<a>>[1] - ids[1]) % Modulus = 0
    BY <1>1, <2>1 DEF SameValues
  <2>. QED BY <2>1, <2>2, FewElements
<1>2. ASSUME SameValues(<<a, b>>, ids)
      PROVE  /\ ids = <<ids[1], ids[2]>> /\ ids[1] \in Int /\ ids[2] \in Int
             /\ (a - ids[1]) % Modulus = 0 /\ (b - ids[2]) % Modulus = 0
  <2>1. IsSequence(ids) /\ Len(ids) = 2
    BY <1>2 DEF SameValues
  <2>2. \A k \in 1..2 : ids[k] \in Int /\ (<<a, b>>[k] - ids[k]) % Modulus = 0
    BY <1>2, <2>1 DEF SameValues
  <2>3. ids[1] \in Int /\ (a - ids[1]) % Modulus = 0
    BY <2>2
  <2>4. ids[2] \in Int /\ (b - ids[2]) % Modulus = 0
    BY <2>2
  <2>. QED BY <2>1, <2>3, <2>4, FewElements
<1>. QED BY <1>1, <1>2

LEMMA ClassesOfNames ==
    /\ \A n \in Pairs : n \in Keywords /\ n \notin Shifts /\ BuiltAs(n) \in Pairs
                        /\ ClassOf[n] \in {"binary", "shift", "divide"}
    /\ \A n \in Singles : n \in Keywords /\ n \notin Shifts /\ ClassOf[n] \in {"unary", "convert"}
    /\ \A n \in Shifts : n \in Keywords
<1>1. \A n \in Shifts : n \in DOMAIN ClassOf /\ ClassOf[n] = "unary"
  BY DEF ClassOf, Shifts
<1>2. ClassOf["udiv"] = "divide" /\ ClassOf["idiv"] = "divide" /\ "idiv" \in DOMAIN ClassOf
  BY DEF ClassOf
<1>3. DOMAIN ClassOf \subseteq Keywords
  BY DEF Keywords
<1>. QED BY <1>1, <1>2, <1>3 DEF Pairs, Singles, BuiltAs

LEMMA ItemParts ==
    ASSUME NEW op, NEW d, NEW operands, NEW edges, NEW callee, NEW n,
           NEW item, item = Item(op, d, operands, edges, callee, n)
    PROVE  /\ item.op = op /\ item.data = d /\ item.operands = operands
           /\ item.edges = edges /\ item.callee = callee /\ item.next = n
BY DEF Item

LEMMA BuiltAsItem ==
    ASSUME NEW item, NEW inst, Builds(item, inst)
    PROVE  inst.op = item.op /\ inst.callee = item.callee /\ SameValues(item.operands, inst.operands)
BY DEF Builds

LEMMA DataParts ==
    ASSUME NEW n, NEW x, NEW c, NEW w, NEW s
    PROVE  /\ Plain(n).name = n
           /\ Numbered(n, x).name = n /\ Numbered(n, x).num = x
           /\ Comparison(c).name = "icmp" /\ Comparison(c).cond = c
           /\ Access(n, w, s, x).name = n /\ Access(n, w, s, x).num = x
           /\ Access(n, w, s, x).width = w /\ Access(n, w, s, x).sign = s
BY DEF Plain, Numbered, Comparison, Access, Data

(* One operand behind the name, and nothing else. *)
LEMMA OneOperandCovers ==
    ASSUME IsText(text), NEW p \in Nat \ {0}, NEW n \in Keywords \ Shifts, Type(p) = n, Type(p + 1) = "%",
           NEW inst, NEW d, d.name = n, inst.op \in {"unary", "convert", "ret"},
           SameValues(<<Num(p + 1)>>, inst.operands)
    PROVE  WrittenAt(p, p + 2, inst, d)
<1>. DEFINE q == p + 1
            a == inst.operands[1]
<1>1. inst.operands = <<a>> /\ a \in Int /\ (Num(q) - a) % Modulus = 0
  BY OperandsBuilt
<1>2. Covers(p, q, <<Word(n)>>)
  BY WordCovers
<1>3. q \in Nat \ {0} /\ q + 1 = p + 2 /\ Type(q) = "%"
  OBVIOUS
<1>. HIDE DEF q, a
<1>4. Covers(q, p + 2, FmtOperands(<<a>>))
  BY <1>1, <1>3, OperandCovers
<1>5. FmtRest(inst, d) = FmtOperands(<<a>>)
  BY <1>1, RestByClass
<1>. QED BY <1>2, <1>4, <1>5, CoversJoined, CoversSequence DEF WrittenAt

LEMMA RetCovers ==
    ASSUME IsText(text), NEW p \in Nat \ {0}, NEW item \in RetAt(p), NEW inst, Builds(item, inst)
    PROVE  WrittenAt(p, item.next, inst, item.data)
<1>1. /\ item = Item("ret", Plain("ret"), <<Num(p + 1)>>, <<>>, Native, p + 2)
      /\ Type(p) = "ret" /\ Type(p + 1) = "%"
  BY Expected DEF RetAt, If
<1>2. /\ inst.op = "ret" /\ item.data.name = "ret" /\ item.next = p + 2
      /\ SameValues(<<Num(p + 1)>>, inst.operands)
  BY <1>1, ItemParts, BuiltAsItem, DataParts
<1>3. "ret" \in Keywords \ Shifts
  BY Vocabulary DEF Names25, Shifts
<1>. QED BY <1>1, <1>2, <1>3, OneOperandCovers

LEMMA SingleCovers ==
    ASSUME IsText(text), NEW p \in Nat \ {0}, NEW item \in SingleAt(p), NEW inst, Builds(item, inst)
    PROVE  WrittenAt(p, item.next, inst, item.data)
<1>. DEFINE n == Type(p)
<1>1. /\ item = Item(ClassOf[n], Plain(n), <<Num(p + 1)>>, <<>>, Native, p + 2)
      /\ n \in Singles /\ Expect(p + 1, <<"%">>)
  BY DEF SingleAt, If
<1>4. Type(p + 1) = "%"
  <2>. DEFINE q == p + 1
  <2>1. q \in Nat \ {0} /\ Expect(q, <<"%">>)
    BY <1>1
  <2>. HIDE DEF q
  <2>2. Type(q) = "%"
    BY <2>1, Expected
  <2>. QED BY <2>2 DEF q
<1>2. /\ inst.op = ClassOf[n] /\ item.data.name = n /\ item.next = p + 2
      /\ SameValues(<<Num(p + 1)>>, inst.operands)
  BY <1>1, ItemParts, BuiltAsItem, DataParts
<1>3. n \in Keywords \ Shifts /\ ClassOf[n] \in {"unary", "convert"}
  BY <1>1, ClassesOfNames
<1>. QED BY <1>1, <1>2, <1>3, <1>4, OneOperandCovers

LEMMA PairCovers ==
    ASSUME IsText(text), NEW p \in Nat \ {0}, NEW item \in PairAt(p), NEW inst, Builds(item, inst)
    PROVE  WrittenAt(p, item.next, inst, item.data)
<1>. DEFINE n == Type(p)
            m == BuiltAs(n)
            q == p + 1
            a == inst.operands[1]
            b == inst.operands[2]
<1>1. /\ item = Item(ClassOf[n], Plain(m), <<Num(p + 1), Num(p + 3)>>, <<>>, Native, p + 4)
      /\ n \in Pairs /\ Expect(q, <<"%", Comma, "%">>)
  BY Zenon DEF PairAt, If, Comma
<1>2. q \in Nat \ {0} /\ q + 3 = p + 4 /\ q + 2 = p + 3
  OBVIOUS
<1>3. Type(q) = "%" /\ Type(q + 1) = Comma /\ Type(q + 2) = "%"
  BY <1>1, <1>2, Expected
<1>4. /\ n \in Keywords /\ m \notin Shifts
      /\ ClassOf[n] \in {"binary", "shift", "divide"}
  BY <1>1, ClassesOfNames
<1>5. /\ inst.op = ClassOf[n] /\ item.data.name = m /\ item.next = p + 4
      /\ SameValues(<<Num(q), Num(q + 2)>>, inst.operands)
  BY <1>1, <1>2, ItemParts, BuiltAsItem, DataParts
<1>6. /\ inst.operands = <<a, b>> /\ a \in Int /\ b \in Int
      /\ (Num(q) - a) % Modulus = 0 /\ (Num(q + 2) - b) % Modulus = 0
  <2>. DEFINE x == Num(q)
              y == Num(q + 2)
              ids == inst.operands
  <2>1. SameValues(<<x, y>>, ids)
    BY <1>5
  <2>. HIDE DEF n, m, q, x, y, ids
  <2>2. /\ ids = <<ids[1], ids[2]>> /\ ids[1] \in Int /\ ids[2] \in Int
        /\ (x - ids[1]) % Modulus = 0 /\ (y - ids[2]) % Modulus = 0
    BY <2>1, OperandsBuilt
  <2>. QED BY <2>2 DEF x, y, ids
<1>7. p \in 1..Len(text) /\ text[p] = Word(n)
  BY <1>4, WordCovers
<1>8. text[p].text = n /\ Word(n).text = n /\ Word(m).text = m
  BY <1>7 DEF Word, Lexeme
<1>9. SaysAt(p, Word(m))
  <2>1. CASE n = "udiv"
    BY <1>8, <2>1 DEF BuiltAs, SaysAt, SaysTheSame
  <2>2. CASE n # "udiv"
    <3>1. m = n
      BY <2>2 DEF BuiltAs
    <3>2. text[p].text \notin Numeric
      BY <1>4, <1>8, Vocabulary
    <3>. QED BY <1>7, <1>8, <3>1, <3>2, WordSaysItself
  <2>. QED BY <2>1, <2>2
<1>10. Covers(p, q, <<Word(m)>>)
  BY <1>7, <1>9, CoversOne
<1>. HIDE DEF n, m, q, a, b
<1>11. Covers(q, p + 4, FmtOperands(<<a, b>>))
  BY <1>2, <1>3, <1>6, OperandsCover
<1>12. FmtRest(inst, item.data) = FmtOperands(<<a, b>>)
  BY <1>4, <1>5, <1>6, RestByClass
<1>. QED BY <1>5, <1>10, <1>11, <1>12, CoversJoined, CoversSequence DEF WrittenAt

LEMMA CommaDecimalCovers ==
    ASSUME IsText(text), NEW p \in Nat \ {0}, Type(p) = Comma, Type(p + 1) = "#",
           NEW x \in Int, (Num(p + 1) - x) % Modulus = 0
    PROVE  Covers(p, p + 2, CommaDecimal(x))
<1>. DEFINE q == p + 1
<1>1. q \in Nat \ {0} /\ q + 1 = p + 2 /\ Type(q) = "#" /\ (Num(q) - x) % Modulus = 0
  OBVIOUS
<1>2. Covers(p, q, <<Word(Comma)>>)
  BY WordCovers, MarksAre
<1>. HIDE DEF q
<1>3. Covers(q, p + 2, <<Decimal(x)>>)
  BY <1>1, NumberCovers DEF Numeric
<1>4. CommaDecimal(x) = <<Word(Comma)>> \o <<Decimal(x)>>
  BY DEF CommaDecimal
<1>. QED BY <1>2, <1>3, <1>4, CoversJoined

LEMMA WordsAre ==
    ASSUME NEW a, NEW b, NEW c
    PROVE  /\ Words(<<a>>) = <<Word(a)>>
           /\ Words(<<a, b>>) = <<Word(a)>> \o <<Word(b)>>
           /\ Words(<<a, b, c>>) = (<<Word(a)>> \o <<Word(b)>>) \o <<Word(c)>>
<1>1. Words(<<a>>) = <<Word(a)>>
  BY DEF Words
<1>2. Words(<<a, b>>) = <<Word(a), Word(b)>>
  BY DEF Words
<1>3. Words(<<a, b, c>>) = <<Word(a), Word(b), Word(c)>>
  BY DEF Words
<1>. QED BY <1>1, <1>2, <1>3

(* A word of the vocabulary and a piece that ends at q. *)
LEMMA WordThen ==
    ASSUME IsText(text), NEW p \in Nat \ {0}, NEW w \in Keywords \cup Marks, Type(p) = w,
           NEW q, NEW s, Covers(p + 1, q, s)
    PROVE  Covers(p, q, <<Word(w)>> \o s)
BY WordCovers, CoversJoined

LEMMA DotAndKind ==
    ASSUME IsText(text), NEW p \in Nat \ {0}, Type(p) = ".", NEW k, Covers(p + 1, p + 2, <<Word(k)>>)
    PROVE  Covers(p, p + 2, Words(<<".", k>>))
<1>1. Covers(p, p + 2, <<Word(".")>> \o <<Word(k)>>)
  BY WordThen, MarksAre
<1>. QED BY <1>1, WordsAre

LEMMA KindsAre ==
    /\ DOMAIN LoadKinds = {"i8", "i8s", "i16", "i16s", "i32", "i64"}
    /\ \A k \in DOMAIN LoadKinds :
         /\ fmt_load_kind(LoadKinds[k][1], LoadKinds[k][2]) = k
         /\ \/ fmt_load_kind(LoadKinds[k][1], FALSE) = k
            \/ <<k, fmt_load_kind(LoadKinds[k][1], FALSE)>> \in {<<"i8s", "i8">>, <<"i16s", "i16">>}
<1>1. DOMAIN LoadKinds = {"i8", "i8s", "i16", "i16s", "i32", "i64"}
  BY DEF LoadKinds
<1>2. /\ LoadKinds["i8"][1] = 1 /\ LoadKinds["i8"][2] = FALSE
      /\ LoadKinds["i8s"][1] = 1 /\ LoadKinds["i8s"][2] = TRUE
      /\ LoadKinds["i16"][1] = 2 /\ LoadKinds["i16"][2] = FALSE
      /\ LoadKinds["i16s"][1] = 2 /\ LoadKinds["i16s"][2] = TRUE
      /\ LoadKinds["i32"][1] = 4 /\ LoadKinds["i32"][2] = FALSE
      /\ LoadKinds["i64"][1] = 8 /\ LoadKinds["i64"][2] = FALSE
  BY DEF LoadKinds
<1>3. /\ fmt_load_kind(1, FALSE) = "i8" /\ fmt_load_kind(1, TRUE) = "i8s"
      /\ fmt_load_kind(2, FALSE) = "i16" /\ fmt_load_kind(2, TRUE) = "i16s"
      /\ fmt_load_kind(4, FALSE) = "i32" /\ fmt_load_kind(8, FALSE) = "i64"
  BY DEF fmt_load_kind
<1>. QED BY <1>1, <1>2, <1>3

LEMMA KindCovers ==
    ASSUME IsText(text), NEW p \in Nat \ {0}, IsKind(p)
    PROVE  LET kind == LoadKinds[Spell(p)] IN
           /\ Covers(p, p + 1, <<Word(fmt_load_kind(kind[1], kind[2]))>>)
           /\ p > 2 /\ text[p - 2] = Word("store") => Covers(p, p + 1, <<Word(fmt_load_kind(kind[1], FALSE))>>)
<1>. DEFINE k == Spell(p)
            short == fmt_load_kind(LoadKinds[k][1], FALSE)
<1>1. k \in DOMAIN LoadKinds /\ Type(p) \in {"identifier", "i64", "i32"}
  BY DEF IsKind
<1>2. p \in 1..Len(text) /\ Covers(p, p + 1, <<Word(k)>>)
  <2>1. CASE Type(p) = "identifier"
    BY <2>1, NameCovers
  <2>2. CASE Type(p) \in {"i64", "i32"}
    <3>1. Type(p) \in Keywords
      BY <2>2, Vocabulary
    <3>2. p \in 1..Len(text) /\ text[p] = Word(Type(p)) /\ Covers(p, p + 1, <<Word(Type(p))>>)
      BY <3>1, WordCovers
    <3>3. k = Type(p)
      BY <3>2 DEF Spell, Word, Lexeme
    <3>. QED BY <3>2, <3>3
  <2>. QED BY <1>1, <2>1, <2>2
<1>3. fmt_load_kind(LoadKinds[k][1], LoadKinds[k][2]) = k
  BY <1>1, KindsAre
<1>4. ASSUME p > 2, text[p - 2] = Word("store")
      PROVE  Covers(p, p + 1, <<Word(short)>>)
  <2>1. CASE short = k
    BY <1>2, <2>1
  <2>2. CASE <<k, short>> \in {<<"i8s", "i8">>, <<"i16s", "i16">>}
    <3>1. text[p].text = k /\ Word(short).text = short
      BY DEF Spell, Word, Lexeme
    <3>2. SaysAt(p, Word(short))
      BY <1>4, <2>2, <3>1 DEF SaysAt, SignOfStore
    <3>. HIDE DEF short
    <3>3. p <= Len(text)
      BY <1>2
    <3>. QED BY <3>2, <3>3, CoversOne
  <2>. QED BY <1>1, <2>1, <2>2, KindsAre
<1>. QED BY <1>2, <1>3, <1>4

LEMMA ConstCovers ==
    ASSUME IsText(text), NEW p \in Nat \ {0}, NEW item \in ConstAt(p), NEW inst, Builds(item, inst)
    PROVE  WrittenAt(p, item.next, inst, item.data)
<1>. DEFINE q == p + 1
<1>1. /\ item = Item("const", Numbered("iconst", Num(q)), <<>>, <<>>, Native, p + 2)
      /\ Expect(p, <<"iconst", "#">>)
  BY DEF ConstAt, If
<1>2. Type(p) = "iconst" /\ Type(q) = "#"
  BY <1>1, Expected
<1>3. q \in Nat \ {0} /\ q + 1 = p + 2
  OBVIOUS
<1>4. Covers(p, q, <<Word("iconst")>>)
  BY <1>2, WordCovers, Vocabulary DEF Names25
<1>. HIDE DEF q
<1>5. /\ inst.op = "const" /\ item.data.name = "iconst" /\ item.data.num = Num(q)
      /\ item.next = p + 2
  BY <1>1, ItemParts, BuiltAsItem, DataParts
<1>6. Covers(q, p + 2, <<Decimal(Num(q))>>)
  BY <1>2, <1>3, NumberCovers DEF Numeric
<1>7. FmtRest(inst, item.data) = <<Decimal(Num(q))>>
  BY <1>5, RestByClass DEF Shifts
<1>. QED BY <1>4, <1>5, <1>6, <1>7, CoversJoined, CoversSequence DEF WrittenAt

LEMMA ShiftByCovers ==
    ASSUME IsText(text), NEW p \in Nat \ {0}, NEW item \in ShiftByAt(p), NEW inst, Builds(item, inst)
    PROVE  WrittenAt(p, item.next, inst, item.data)
<1>. DEFINE n == Type(p)
            q == p + 1
            r == p + 2
            x == Num(p + 3)
            y == Num(q)
            a == inst.operands[1]
<1>1. /\ item = Item("unary", Numbered(n, x), <<y>>, <<>>, Native, p + 4)
      /\ n \in Shifts /\ Expect(q, <<"%", Comma, "#">>)
  BY Zenon DEF ShiftByAt, If, Comma
<1>2. /\ q \in Nat \ {0} /\ r \in Nat \ {0} /\ q + 1 = r /\ r + 2 = p + 4 /\ q + 2 = p + 3
      /\ r + 1 = p + 3
  OBVIOUS
<1>3. Type(q) = "%" /\ Type(r) = Comma /\ Type(p + 3) = "#"
  <2>. HIDE DEF n, q, r, y, x
  <2>1. Expect(q, <<"%", Comma, "#">>) /\ q \in Nat \ {0}
    BY <1>1, <1>2
  <2>2. Type(q) = "%" /\ Type(q + 1) = Comma /\ Type(q + 2) = "#"
    BY <2>1, Expected
  <2>. QED BY <1>2, <2>2
<1>4. n \in Keywords
  BY <1>1, ClassesOfNames
<1>5. Covers(p, q, <<Word(n)>>)
  BY <1>4, WordCovers
<1>6. x \in Int /\ (x - x) % Modulus = 0
  BY <1>2, <1>3, NumIsNumber, TypeIs, SequenceElements DEF IsText, Numeric
<1>. HIDE DEF n, q, r, y, x
<1>7. /\ inst.op = "unary" /\ item.data.name = n /\ item.data.num = x /\ item.next = p + 4
      /\ SameValues(<<y>>, inst.operands)
  BY <1>1, ItemParts, BuiltAsItem, DataParts
<1>8. inst.operands = <<a>> /\ a \in Int /\ (y - a) % Modulus = 0
  BY <1>7, OperandsBuilt
<1>. HIDE DEF a
<1>9. Covers(q, r, FmtOperands(<<a>>))
  BY <1>2, <1>3, <1>8, OperandCovers DEF y
<1>10. Type(r + 1) = "#" /\ (Num(r + 1) - x) % Modulus = 0
  BY <1>2, <1>3, <1>6 DEF x
<1>11. Covers(r, p + 4, CommaDecimal(x))
  BY <1>2, <1>3, <1>6, <1>10, CommaDecimalCovers
<1>12. FmtRest(inst, item.data) = FmtOperands(<<a>>) \o CommaDecimal(x)
  <2>1. FmtRest(inst, item.data) = FmtOperands(inst.operands) \o CommaDecimal(item.data.num)
    BY <1>1, <1>7, RestByClass
  <2>. QED BY <1>7, <1>8, <2>1
<1>. QED BY <1>5, <1>7, <1>9, <1>11, <1>12, CoversJoined, CoversSequence DEF WrittenAt

LEMMA IcmpCovers ==
    ASSUME IsText(text), NEW p \in Nat \ {0}, NEW item \in IcmpAt(p), NEW inst, Builds(item, inst)
    PROVE  WrittenAt(p, item.next, inst, item.data)
<1>. DEFINE q == p + 1
            r == p + 3
            c == Spell(p + 2)
            x == Num(r)
            y == Num(r + 2)
            a == inst.operands[1]
            b == inst.operands[2]
<1>1. r + 2 = p + 5 /\ r \in Nat \ {0} /\ q \in Nat \ {0} /\ q + 1 = p + 2 /\ q + 2 = r /\ r + 3 = p + 6
      /\ r + 1 = p + 4 /\ p + 2 \in Nat \ {0} /\ (p + 2) + 1 = r
  OBVIOUS
<1>2. /\ item = Item("compare", Comparison(c), <<Num(p + 3), Num(p + 5)>>, <<>>, Native, p + 6)
      /\ Expect(p, <<"icmp", ".", "identifier", "%", Comma, "%">>)
  BY Zenon DEF IcmpAt, If, Comma
<1>3. /\ Type(p) = "icmp" /\ Type(q) = "." /\ Type(p + 2) = "identifier"
      /\ Type(r) = "%" /\ Type(r + 1) = Comma /\ Type(r + 2) = "%"
  <2>1. /\ Type(p) = "icmp" /\ Type(p + 1) = "." /\ Type(p + 2) = "identifier"
        /\ Type(p + 3) = "%" /\ Type(p + 4) = Comma /\ Type(p + 5) = "%"
    BY <1>2, Expected
  <2>. QED BY <1>1, <2>1
<1>4. Covers(q, r, Words(<<".", c>>))
  <2>1. Covers(p + 2, (p + 2) + 1, <<Word(c)>>)
    BY <1>1, <1>3, NameCovers
  <2>. HIDE DEF q, r, c
  <2>2. Covers(q + 1, q + 2, <<Word(c)>>)
    BY <1>1, <2>1
  <2>. QED BY <1>1, <1>3, <2>2, DotAndKind
<1>5. item = Item("compare", Comparison(c), <<x, y>>, <<>>, Native, p + 6)
  BY <1>1, <1>2
<1>6. Covers(p, q, <<Word("icmp")>>)
  BY <1>3, WordCovers, Vocabulary DEF Names25
<1>. HIDE DEF q, r, c, x, y
<1>7. /\ inst.op = "compare" /\ item.data.name = "icmp" /\ item.data.cond = c /\ item.next = p + 6
      /\ SameValues(<<x, y>>, inst.operands)
  BY <1>5, ItemParts, BuiltAsItem, DataParts
<1>8. /\ inst.operands = <<a, b>> /\ a \in Int /\ b \in Int
      /\ (x - a) % Modulus = 0 /\ (y - b) % Modulus = 0
  <2>. DEFINE ids == inst.operands
  <2>1. SameValues(<<x, y>>, ids)
    BY <1>7
  <2>. HIDE DEF ids
  <2>2. /\ ids = <<ids[1], ids[2]>> /\ ids[1] \in Int /\ ids[2] \in Int
        /\ (x - ids[1]) % Modulus = 0 /\ (y - ids[2]) % Modulus = 0
    BY <2>1, OperandsBuilt
  <2>. QED BY <2>2 DEF ids
<1>. HIDE DEF a, b
<1>9. Covers(r, p + 6, FmtOperands(<<a, b>>))
  BY <1>1, <1>3, <1>8, OperandsCover DEF x, y
<1>10. FmtRest(inst, item.data) = Words(<<".", c>>) \o FmtOperands(<<a, b>>)
  BY <1>7, <1>8, RestByClass DEF Shifts
<1>. QED BY <1>4, <1>6, <1>7, <1>9, <1>10, CoversJoined, CoversSequence DEF WrittenAt

LEMMA LoadCovers ==
    ASSUME IsText(text), NEW p \in Nat \ {0}, NEW item \in LoadAt(p), NEW inst, Builds(item, inst)
    PROVE  WrittenAt(p, item.next, inst, item.data)
<1>. DEFINE q == p + 1
            r == p + 3
            t == p + 4
            kind == LoadKinds[Spell(p + 2)]
            k == fmt_load_kind(kind[1], kind[2])
            n == Num(p + 5)
            x == Int32(n)
            y == Num(r)
            a == inst.operands[1]
<1>1. /\ r \in Nat \ {0} /\ q \in Nat \ {0} /\ t \in Nat \ {0}
      /\ q + 1 = p + 2 /\ q + 2 = r /\ (p + 2) + 1 = r /\ p + 2 \in Nat \ {0}
      /\ r + 1 = t /\ t + 1 = p + 5 /\ t + 2 = p + 6 /\ r + 2 = p + 5
  OBVIOUS
<1>2. /\ item = Item("load", Access("load", kind[1], kind[2], x), <<y>>, <<>>, Native, p + 6)
      /\ IsKind(p + 2) /\ Expect(p, <<"load", ".">>) /\ Expect(r, <<"%", Comma, "#">>)
  BY Zenon DEF LoadAt, If, Comma
<1>3. Type(p) = "load" /\ Type(q) = "."
  BY <1>2, Expected
<1>4. Type(r) = "%" /\ Type(t) = Comma /\ Type(p + 5) = "#"
  <2>. HIDE DEF r, t
  <2>1. Expect(r, <<"%", Comma, "#">>) /\ r \in Nat \ {0}
    BY <1>1, <1>2
  <2>2. Type(r) = "%" /\ Type(r + 1) = Comma /\ Type(r + 2) = "#"
    BY <2>1, Expected
  <2>. QED BY <1>1, <2>2
<1>5. Covers(p, q, <<Word("load")>>)
  BY <1>3, WordCovers, Vocabulary DEF Names25
<1>6. Covers(q, r, Words(<<".", k>>))
  <2>1. Covers(p + 2, (p + 2) + 1, <<Word(k)>>)
    BY <1>1, <1>2, KindCovers
  <2>. HIDE DEF q, r, k
  <2>2. Covers(q + 1, q + 2, <<Word(k)>>)
    BY <1>1, <2>1
  <2>. QED BY <1>1, <1>3, <2>2, DotAndKind
<1>7. n \in Int
  BY <1>1, <1>4, NumIsNumber, TypeIs, SequenceElements DEF IsText, Numeric
<1>8. x \in Int /\ (n - x) % Modulus = 0
  BY <1>7, CastIsEqual
<1>9. Type(t + 1) = "#" /\ Num(t + 1) = n
  BY <1>1, <1>4
<1>. HIDE DEF q, r, t, x, n, y
<1>10. Covers(t, p + 6, CommaDecimal(x))
  BY <1>1, <1>4, <1>8, <1>9, CommaDecimalCovers
<1>11. /\ inst.op = "load" /\ item.data.name = "load" /\ item.data.num = x /\ item.next = p + 6
       /\ item.data.width = kind[1] /\ item.data.sign = kind[2]
       /\ SameValues(<<y>>, inst.operands)
  BY <1>2, ItemParts, BuiltAsItem, DataParts
<1>12. inst.operands = <<a>> /\ a \in Int /\ (y - a) % Modulus = 0
  BY <1>11, OperandsBuilt
<1>. HIDE DEF a
<1>13. Covers(r, t, FmtOperands(<<a>>))
  BY <1>1, <1>4, <1>12, OperandCovers DEF y
<1>14. FmtRest(inst, item.data) = (Words(<<".", k>>) \o FmtOperands(<<a>>)) \o CommaDecimal(x)
  <2>1. FmtRest(inst, item.data)
          = (Words(<<".", fmt_load_kind(item.data.width, item.data.sign)>>)
             \o FmtOperands(inst.operands)) \o CommaDecimal(item.data.num)
    BY <1>11, RestByClass DEF Shifts
  <2>2. fmt_load_kind(item.data.width, item.data.sign) = k
    BY <1>11
  <2>. HIDE DEF k
  <2>. QED BY <1>11, <1>12, <2>1, <2>2
<1>15. Covers(q, t, Words(<<".", k>>) \o FmtOperands(<<a>>))
  BY <1>6, <1>13, CoversJoined
<1>16. Covers(q, p + 6, (Words(<<".", k>>) \o FmtOperands(<<a>>)) \o CommaDecimal(x))
  BY <1>10, <1>15, CoversJoined
<1>. QED BY <1>5, <1>11, <1>14, <1>16, CoversJoined, CoversSequence DEF WrittenAt

LEMMA StoreCovers ==
    ASSUME IsText(text), NEW p \in Nat \ {0}, NEW item \in StoreAt(p), NEW inst, Builds(item, inst)
    PROVE  WrittenAt(p, item.next, inst, item.data)
<1>. DEFINE q == p + 1
            r == p + 3
            t == p + 6
            kind == LoadKinds[Spell(p + 2)]
            k == fmt_load_kind(kind[1], FALSE)
            n == Num(p + 7)
            x == Int32(n)
            y == Num(r)
            z == Num(r + 2)
            a == inst.operands[1]
            b == inst.operands[2]
<1>1. /\ r \in Nat \ {0} /\ q \in Nat \ {0} /\ t \in Nat \ {0}
      /\ q + 1 = p + 2 /\ q + 2 = r /\ (p + 2) + 1 = r /\ p + 2 \in Nat \ {0}
      /\ r + 2 = p + 5 /\ r + 3 = t /\ r + 4 = p + 7 /\ t + 1 = p + 7 /\ t + 2 = p + 8
  OBVIOUS
<1>2. /\ item = Item("store", Access("store", kind[1], FALSE, x), <<y, Num(p + 5)>>, <<>>, Native, p + 8)
      /\ IsKind(p + 2) /\ Expect(p, <<"store", ".">>)
      /\ Expect(r, <<"%", Comma, "%", Comma, "#">>)
  BY Zenon DEF StoreAt, If, Comma
<1>3. Type(p) = "store" /\ Type(q) = "."
  BY <1>2, Expected
<1>4. /\ Type(r) = "%" /\ Type(r + 1) = Comma /\ Type(r + 2) = "%" /\ Type(t) = Comma
      /\ Type(p + 7) = "#"
  <2>. HIDE DEF r, t
  <2>1. Expect(r, <<"%", Comma, "%", Comma, "#">>) /\ r \in Nat \ {0}
    BY <1>1, <1>2
  <2>2. /\ Type(r) = "%" /\ Type(r + 1) = Comma /\ Type(r + 2) = "%"
        /\ Type(r + 3) = Comma /\ Type(r + 4) = "#"
    BY <2>1, Expected
  <2>. QED BY <1>1, <2>2
<1>5. Covers(p, q, <<Word("store")>>) /\ text[p] = Word("store")
  BY <1>3, WordCovers, Vocabulary DEF Names25
<1>6. Covers(q, r, Words(<<".", k>>))
  <2>1. (p + 2) > 2 /\ text[(p + 2) - 2] = Word("store")
    BY <1>5
  <2>2. Covers(p + 2, (p + 2) + 1, <<Word(k)>>)
    BY <1>1, <1>2, <2>1, KindCovers
  <2>. HIDE DEF q, r, k
  <2>3. Covers(q + 1, q + 2, <<Word(k)>>)
    BY <1>1, <2>2
  <2>. QED BY <1>1, <1>3, <2>3, DotAndKind
<1>7. n \in Int
  BY <1>1, <1>4, NumIsNumber, TypeIs, SequenceElements DEF IsText, Numeric
<1>8. x \in Int /\ (n - x) % Modulus = 0
  BY <1>7, CastIsEqual
<1>9. Type(t + 1) = "#" /\ Num(t + 1) = n
  BY <1>1, <1>4
<1>10. item = Item("store", Access("store", kind[1], FALSE, x), <<y, z>>, <<>>, Native, p + 8)
  BY <1>1, <1>2
<1>. HIDE DEF q, r, t, x, n, y, z
<1>11. Covers(t, p + 8, CommaDecimal(x))
  BY <1>1, <1>4, <1>8, <1>9, CommaDecimalCovers
<1>12. /\ inst.op = "store" /\ item.data.name = "store" /\ item.data.num = x /\ item.next = p + 8
       /\ item.data.width = kind[1]
       /\ SameValues(<<y, z>>, inst.operands)
  <2>. DEFINE d == Access("store", kind[1], FALSE, x)
              ids == <<y, z>>
  <2>3. d.name = "store" /\ d.num = x /\ d.width = kind[1]
    BY DEF Access, Data
  <2>4. item = Item("store", d, ids, <<>>, Native, p + 8)
    BY <1>10
  <2>. HIDE DEF kind, d, ids
  <2>1. item.op = "store" /\ item.data = d /\ item.operands = ids /\ item.next = p + 8
    BY <2>4, ItemParts
  <2>2. inst.op = "store" /\ SameValues(ids, inst.operands)
    BY <2>1, BuiltAsItem
  <2>. QED BY <2>1, <2>2, <2>3 DEF ids
<1>13. /\ inst.operands = <<a, b>> /\ a \in Int /\ b \in Int
       /\ (y - a) % Modulus = 0 /\ (z - b) % Modulus = 0
  <2>. DEFINE ids == inst.operands
  <2>1. SameValues(<<y, z>>, ids)
    BY <1>12
  <2>. HIDE DEF ids
  <2>2. /\ ids = <<ids[1], ids[2]>> /\ ids[1] \in Int /\ ids[2] \in Int
        /\ (y - ids[1]) % Modulus = 0 /\ (z - ids[2]) % Modulus = 0
    BY <2>1, OperandsBuilt
  <2>. QED BY <2>2 DEF ids
<1>. HIDE DEF a, b
<1>14. Covers(r, t, FmtOperands(<<a, b>>))
  <2>1. Covers(r, r + 3, FmtOperands(<<a, b>>))
    BY <1>1, <1>4, <1>13, OperandsCover DEF y, z
  <2>. QED BY <1>1, <2>1
<1>15. FmtRest(inst, item.data) = (Words(<<".", k>>) \o FmtOperands(<<a, b>>)) \o CommaDecimal(x)
  <2>1. FmtRest(inst, item.data)
          = (Words(<<".", fmt_load_kind(item.data.width, FALSE)>>)
             \o FmtOperands(inst.operands)) \o CommaDecimal(item.data.num)
    BY <1>12, RestByClass DEF Shifts
  <2>2. fmt_load_kind(item.data.width, FALSE) = k
    BY <1>12
  <2>. HIDE DEF k
  <2>. QED BY <1>12, <1>13, <2>1, <2>2
<1>16. Covers(q, t, Words(<<".", k>>) \o FmtOperands(<<a, b>>))
  BY <1>6, <1>14, CoversJoined
<1>17. Covers(q, p + 8, (Words(<<".", k>>) \o FmtOperands(<<a, b>>)) \o CommaDecimal(x))
  BY <1>11, <1>16, CoversJoined
<1>18. Covers(p, p + 8, <<Word("store")>> \o FmtRest(inst, item.data)) /\ IsSequence(FmtRest(inst, item.data))
  BY <1>5, <1>15, <1>17, CoversJoined, CoversSequence
<1>. QED BY <1>12, <1>18 DEF WrittenAt

LEMMA EdgeCovers ==
    ASSUME IsText(text), NEW p \in Nat \ {0}, NEW n \in Nat, Type(p) = "bb", IsList(p + 1, Passed, n),
           NEW e, e.block = Num(p) + 1, SameValues(NumsOf(p + 1, Passed, n), e.args)
    PROVE  Covers(p, Behind(p + 1, Passed, n), FmtEdge(e))
<1>1. Covers(p, p + 1, <<Bb(e.block)>>)
  BY NumberCovers DEF Numeric
<1>2. Covers(p + 1, Behind(p + 1, Passed, n), FmtValues(e.args))
  BY ValuesCover
<1>. QED BY <1>1, <1>2, CoversJoined DEF FmtEdge

LEMMA TargetCovers ==
    ASSUME IsText(text), NEW p \in Nat \ {0}
    PROVE  /\ Expect(p, <<"native", "@", "#">>)
                => Covers(p, p + 3, FmtTarget(Native, Num(p + 2)))
           /\ Expect(p, <<"@", "identifier">>)
                => Covers(p, p + 2, FmtTarget(Spell(p + 1), 0))
<1>. DEFINE q == p + 1
            r == p + 2
<1>0. q \in Nat \ {0} /\ r \in Nat \ {0} /\ q + 1 = r /\ r + 1 = p + 3
  OBVIOUS
<1>1. ASSUME Expect(p, <<"native", "@", "#">>)
      PROVE  Covers(p, p + 3, FmtTarget(Native, Num(p + 2)))
  <2>1. Type(p) = "native" /\ Type(q) = "@" /\ Type(r) = "#"
    BY <1>1, Expected
  <2>2. FmtTarget(Native, Num(r)) = (<<Word("native")>> \o <<Word("@")>>) \o <<Hex(Num(r))>>
    BY WordsAre DEF FmtTarget
  <2>3. Covers(p, q, <<Word("native")>>)
    BY <2>1, WordCovers, Vocabulary
  <2>. HIDE DEF q, r
  <2>4. Covers(q, r, <<Word("@")>>)
    BY <1>0, <2>1, WordCovers, MarksAre
  <2>5. Covers(r, p + 3, <<Hex(Num(r))>>)
    BY <1>0, <2>1, NumberCovers DEF Numeric
  <2>6. Covers(p, r, <<Word("native")>> \o <<Word("@")>>)
    BY <2>3, <2>4, CoversJoined
  <2>7. Covers(p, p + 3, FmtTarget(Native, Num(r)))
    BY <2>2, <2>5, <2>6, CoversJoined
  <2>. QED BY <2>7 DEF r
<1>2. ASSUME Expect(p, <<"@", "identifier">>)
      PROVE  Covers(p, p + 2, FmtTarget(Spell(p + 1), 0))
  <2>1. Type(p) = "@" /\ Type(q) = "identifier"
    BY <1>2, Expected
  <2>2. Covers(p, q, <<Word("@")>>)
    BY <2>1, WordCovers, MarksAre
  <2>. HIDE DEF q, r
  <2>3. Covers(q, r, <<Word(Spell(q))>>) /\ IsSpelling(Spell(q))
    BY <1>0, <2>1, NameCovers
  <2>6. Spell(q) # Native
    BY Zenon, <2>3 DEF IsSpelling
  <2>4. FmtTarget(Spell(q), 0) = <<Word("@")>> \o <<Word(Spell(q))>>
    BY <2>6, WordsAre DEF FmtTarget
  <2>5. Covers(p, r, FmtTarget(Spell(q), 0))
    BY <2>2, <2>3, <2>4, CoversJoined
  <2>. QED BY <2>5 DEF q, r
<1>. QED BY <1>1, <1>2

(* The name that is called, and where its arguments are. *)
CallsAt(p, item, callee, address, r) ==
    /\ r \in Nat \ {0} /\ item \in CallTo(callee, address, r) /\ Type(p) = "call"
    /\ Covers(p + 1, r, FmtTarget(callee, address))

LEMMA CalleeCovers ==
    ASSUME IsText(text), NEW p \in Nat \ {0}, NEW item \in CallAt(p)
    PROVE  \E callee, address, r : CallsAt(p, item, callee, address, r)
<1>. DEFINE q == p + 1
<1>0. q \in Nat \ {0}
  OBVIOUS
<1>1. CASE Expect(p, <<"call", "native", "@", "#">>)
  <2>. DEFINE r == p + 4
              address == Num(p + 3)
  <2>1. item \in CallTo(Native, address, r)
    BY <1>1 DEF CallAt
  <2>2. Type(p) = "call" /\ Type(p + 1) = "native" /\ Type(p + 2) = "@" /\ Type(p + 3) = "#"
    <3>. DEFINE ts == <<"call", "native", "@", "#">>
    <3>1. Len(ts) = 4 /\ ts[1] = "call" /\ ts[2] = "native" /\ ts[3] = "@" /\ ts[4] = "#"
      OBVIOUS
    <3>. HIDE DEF q, ts
    <3>2. Expect(p, ts)
      BY <1>1 DEF ts
    <3>3. Type(p + 1 - 1) = ts[1] /\ Type(p + 2 - 1) = ts[2] /\ Type(p + 3 - 1) = ts[3] /\ Type(p + 4 - 1) = ts[4]
      BY <3>1, <3>2 DEF Expect
    <3>4. p + 1 - 1 = p /\ p + 2 - 1 = p + 1 /\ p + 3 - 1 = p + 2 /\ p + 4 - 1 = p + 3
      OBVIOUS
    <3>. QED BY <3>1, <3>3, <3>4
  <2>3. q + 1 = p + 2 /\ q + 2 = p + 3 /\ q + 3 = r /\ r \in Nat \ {0}
    OBVIOUS
  <2>4. Type(q) = "native" /\ Type(q + 1) = "@" /\ Type(q + 2) = "#" /\ address = Num(q + 2)
    BY <2>2, <2>3
  <2>. HIDE DEF r, address
  <2>5. Covers(q, r, FmtTarget(Native, address))
    <3>. HIDE DEF q
    <3>1. Expect(q, <<"native", "@", "#">>)
      BY <1>0, <2>4, Expected
    <3>. QED BY <1>0, <2>3, <2>4, <3>1, TargetCovers
  <2>6. CallsAt(p, item, Native, address, r)
    BY <2>1, <2>2, <2>3, <2>5 DEF CallsAt
  <2>. QED BY <2>6
<1>2. CASE ~Expect(p, <<"call", "native", "@", "#">>)
  <2>. DEFINE r == p + 3
              callee == Spell(p + 2)
  <2>1. item \in CallTo(callee, 0, r) /\ Expect(p, <<"call", "@", "identifier">>)
    BY <1>2 DEF CallAt
  <2>2. Type(p) = "call" /\ Type(p + 1) = "@" /\ Type(p + 2) = "identifier"
    BY <2>1, Expected
  <2>3. q + 1 = p + 2 /\ q + 2 = r /\ r \in Nat \ {0}
    OBVIOUS
  <2>4. Type(q) = "@" /\ Type(q + 1) = "identifier" /\ callee = Spell(q + 1)
    BY <2>2, <2>3
  <2>. HIDE DEF r, callee
  <2>5. Covers(q, r, FmtTarget(callee, 0))
    <3>. HIDE DEF q
    <3>1. Expect(q, <<"@", "identifier">>)
      BY <1>0, <2>4, Expected
    <3>. QED BY <1>0, <2>3, <2>4, <3>1, TargetCovers
  <2>6. CallsAt(p, item, callee, 0, r)
    BY <2>1, <2>2, <2>3, <2>5 DEF CallsAt
  <2>. QED BY <2>6
<1>. QED BY <1>1, <1>2

LEMMA CallCovers ==
    ASSUME IsText(text), NEW p \in Nat \ {0}, NEW item \in CallAt(p), NEW inst, Builds(item, inst)
    PROVE  WrittenAt(p, item.next, inst, item.data)
<1>. DEFINE q == p + 1
<1>0. q \in Nat \ {0} /\ Len(text) \in Nat
  BY SequenceElements DEF IsText
<1>1. PICK callee, address, r : CallsAt(p, item, callee, address, r)
  BY CalleeCovers
<1>2. PICK n \in Lengths(r, Passed) :
         item = Item("call", Numbered("call", address), NumsOf(r, Passed, n), <<>>, callee,
                     Behind(r, Passed, n))
  BY <1>1 DEF CallTo, CallsAt
<1>3. n \in Nat /\ IsList(r, Passed, n) /\ r \in Nat \ {0}
  BY <1>0, <1>1 DEF Lengths, CallsAt
<1>. DEFINE next1 == Behind(r, Passed, n)
            nums == NumsOf(r, Passed, n)
<1>. HIDE DEF next1, nums
<1>4. /\ item.op = "call" /\ item.data = Numbered("call", address) /\ item.operands = nums
      /\ item.callee = callee /\ item.next = next1
  BY <1>2, ItemParts DEF nums, next1
<1>5. /\ inst.op = "call" /\ item.data.name = "call" /\ item.data.num = address
      /\ inst.callee = callee /\ SameValues(nums, inst.operands)
  BY <1>4, BuiltAsItem, DataParts
<1>6. Covers(r, next1, FmtValues(inst.operands))
  BY <1>3, <1>5, ValuesCover DEF nums, next1
<1>7. Covers(p, q, <<Word("call")>>)
  BY <1>1, WordCovers, Vocabulary DEF Names25, CallsAt
<1>10. Covers(q, r, FmtTarget(callee, address))
  BY <1>1 DEF CallsAt
<1>. HIDE DEF q
<1>8. FmtRest(inst, item.data) = FmtTarget(callee, address) \o FmtValues(inst.operands)
  BY <1>5, RestByClass DEF Shifts
<1>9. Covers(q, next1, FmtRest(inst, item.data))
  BY <1>6, <1>8, <1>10, CoversJoined
<1>. QED BY <1>4, <1>5, <1>7, <1>9, CoversJoined, CoversSequence DEF WrittenAt

LEMMA TargetBuilt ==
    ASSUME NEW p, NEW n, NEW e, NEW t, t = Target(p, n), e.block = t.block, SameValues(t.args, e.args)
    PROVE  e.block = Num(p) + 1 /\ SameValues(NumsOf(p + 1, Passed, n), e.args)
BY DEF Target, Edge

LEMMA JmpCovers ==
    ASSUME IsText(text), NEW p \in Nat \ {0}, NEW item \in JmpAt(p), NEW inst, Builds(item, inst)
    PROVE  WrittenAt(p, item.next, inst, item.data)
<1>. DEFINE q == p + 1
            e == inst.edges[1]
<1>0. q \in Nat \ {0} /\ Len(text) \in Nat /\ q + 1 = p + 2
  BY SequenceElements DEF IsText
<1>1. PICK n \in Lengths(p + 2, Passed) :
        /\ item = Item("jmp", Plain("jmp"), <<>>, <<Target(q, n)>>, Native, Behind(p + 2, Passed, n))
        /\ Expect(p, <<"jmp", "bb">>)
  BY DEF JmpAt
<1>2. n \in Nat /\ IsList(q + 1, Passed, n)
  BY <1>0 DEF Lengths
<1>3. Type(p) = "jmp" /\ Type(q) = "bb"
  BY <1>1, Expected
<1>4. Covers(p, q, <<Word("jmp")>>)
  BY <1>3, WordCovers, Vocabulary DEF Names25
<1>. DEFINE t == Target(q, n)
            end == Behind(q + 1, Passed, n)
            ts == <<t>>
<1>5. item = Item("jmp", Plain("jmp"), <<>>, ts, Native, end)
  BY <1>0, <1>1
<1>6. Len(ts) = 1 /\ ts[1] = t
  OBVIOUS
<1>. HIDE DEF q, t, end, ts
<1>7. /\ item.op = "jmp" /\ item.data = Plain("jmp") /\ item.edges = ts /\ item.next = end
  BY <1>5, ItemParts
<1>8. inst.op = "jmp" /\ item.data.name = "jmp" /\ item.data.name \notin Shifts
  BY <1>7, BuiltAsItem, DataParts DEF Shifts
<1>9. e.block = t.block /\ SameValues(t.args, e.args)
  <2>1. \A k \in 1..Len(ts) : inst.edges[k].block = ts[k].block /\ SameValues(ts[k].args, inst.edges[k].args)
    BY <1>7 DEF Builds
  <2>. HIDE DEF e
  <2>2. 1 \in 1..Len(ts)
    BY <1>6
  <2>3. inst.edges[1].block = ts[1].block /\ SameValues(ts[1].args, inst.edges[1].args)
    BY <2>1, <2>2
  <2> QED BY <1>6, <2>3 DEF e
<1>10. Covers(q, end, FmtEdge(e))
  <2>. HIDE DEF e
  <2>1. e.block = Num(q) + 1 /\ SameValues(NumsOf(q + 1, Passed, n), e.args)
    BY <1>9, TargetBuilt DEF t
  <2>. QED BY <1>0, <1>2, <1>3, <2>1, EdgeCovers DEF end
<1>11. FmtRest(inst, item.data) = FmtEdge(e)
  BY <1>8, RestByClass
<1>. QED BY <1>4, <1>7, <1>8, <1>10, <1>11, CoversJoined, CoversSequence DEF WrittenAt

LEMMA BrifCovers ==
    ASSUME IsText(text), NEW p \in Nat \ {0}, NEW item \in BrifAt(p), NEW inst, Builds(item, inst)
    PROVE  WrittenAt(p, item.next, inst, item.data)
<1>. DEFINE q == p + 1
            r == p + 3
            e == inst.edges[1]
            f == inst.edges[2]
            a == inst.operands[1]
<1>0. /\ q \in Nat \ {0} /\ r \in Nat \ {0} /\ Len(text) \in Nat
      /\ q + 1 = p + 2 /\ r + 1 = p + 4 /\ p + 2 \in Nat \ {0} /\ (p + 2) + 1 = r
  BY SequenceElements DEF IsText
<1>1. PICK l \in BrifLengths(p) :
        item = Item("brif", Plain("brif"), <<Num(q)>>,
                    <<Target(r, l[1]), Target(Second(p, l[1]), l[2])>>,
                    Native, Behind(Second(p, l[1]) + 1, Passed, l[2]))
  BY DEF BrifAt
<1>. DEFINE n == l[1]
            m == l[2]
            u == Second(p, n)
            c == Behind(p + 4, Passed, n)
            t1 == Target(r, n)
            t2 == Target(u, m)
            ts == <<t1, t2>>
            end == Behind(u + 1, Passed, m)
            y == Num(q)
<1>2. /\ l \in Lengths(p + 4, Passed) \X (0..Len(text))
      /\ Expect(p, <<"brif", "%", Comma, "bb">>)
      /\ Expect(u - 1, <<Comma, "bb">>)
      /\ IsList(u + 1, Passed, m)
  BY Zenon DEF BrifLengths, Comma
<1>3. n \in Nat /\ m \in Nat /\ n \in Lengths(p + 4, Passed)
  BY <1>0, <1>2 DEF Lengths
<1>4. IsList(r + 1, Passed, n) /\ c = Behind(r + 1, Passed, n)
  BY <1>0, <1>3 DEF Lengths
<1>5. u = c + 1
  BY DEF Second
<1>6. item = Item("brif", Plain("brif"), <<y>>, ts, Native, end)
  BY <1>1
<1>7. Len(ts) = 2 /\ ts[1] = t1 /\ ts[2] = t2
  OBVIOUS
<1>. HIDE DEF n, m, u, c, t1, t2, ts, end, y, r, q
<1>8. Type(p) = "brif" /\ Type(q) = "%" /\ Type(p + 2) = Comma /\ Type(r) = "bb"
  <2>1. Type(p) = "brif" /\ Type(p + 1) = "%" /\ Type(p + 2) = Comma /\ Type(p + 3) = "bb"
    <3>. DEFINE es == <<"brif", "%", Comma, "bb">>
    <3>1. Len(es) = 4 /\ es[1] = "brif" /\ es[2] = "%" /\ es[3] = Comma /\ es[4] = "bb"
      OBVIOUS
    <3>. HIDE DEF es
    <3>2. Expect(p, es)
      BY <1>2 DEF es
    <3>3. Type(p + 1 - 1) = es[1] /\ Type(p + 2 - 1) = es[2] /\ Type(p + 3 - 1) = es[3] /\ Type(p + 4 - 1) = es[4]
      BY <3>1, <3>2 DEF Expect
    <3>4. p + 1 - 1 = p /\ p + 2 - 1 = p + 1 /\ p + 3 - 1 = p + 2 /\ p + 4 - 1 = p + 3
      OBVIOUS
    <3> QED BY <3>1, <3>3, <3>4
  <2>. QED BY <2>1 DEF q, r
<1>9. /\ item.op = "brif" /\ item.data = Plain("brif") /\ item.edges = ts /\ item.next = end
      /\ item.operands = <<y>>
  BY <1>6, ItemParts
<1>10. /\ inst.op = "brif" /\ item.data.name = "brif" /\ item.data.name \notin Shifts
       /\ SameValues(<<y>>, inst.operands)
  BY <1>9, BuiltAsItem, DataParts DEF Shifts
<1>11. /\ e.block = t1.block /\ SameValues(t1.args, e.args)
       /\ f.block = t2.block /\ SameValues(t2.args, f.args)
  <2>1. \A k \in 1..Len(ts) : inst.edges[k].block = ts[k].block /\ SameValues(ts[k].args, inst.edges[k].args)
    BY <1>9 DEF Builds
  <2>. HIDE DEF e, f
  <2>2. 1 \in 1..Len(ts) /\ 2 \in 1..Len(ts)
    BY <1>7
  <2>3. inst.edges[1].block = ts[1].block /\ SameValues(ts[1].args, inst.edges[1].args)
    BY <2>1, <2>2
  <2>4. inst.edges[2].block = ts[2].block /\ SameValues(ts[2].args, inst.edges[2].args)
    BY <2>1, <2>2
  <2>. QED BY <1>7, <2>3, <2>4 DEF e, f
<1>12. inst.operands = <<a>> /\ a \in Int /\ (y - a) % Modulus = 0
  BY <1>10, OperandsBuilt
<1>. HIDE DEF e, f, a
<1>13. Covers(p, q, <<Word("brif")>>)
  BY <1>8, WordCovers, Vocabulary DEF Names25, q
<1>14. Covers(q, p + 2, FmtOperands(<<a>>))
  BY <1>0, <1>8, <1>12, OperandCovers DEF y
<1>15. Covers(p + 2, r, <<Word(Comma)>>)
  <2>. DEFINE s == p + 2
  <2>1. s \in Nat \ {0} /\ Type(s) = Comma /\ s + 1 = r
    BY <1>0, <1>8
  <2>. HIDE DEF s
  <2>2. Covers(s, r, <<Word(Comma)>>)
    BY <2>1, WordCovers, MarksAre
  <2>. QED BY <2>2 DEF s
<1>16. Covers(r, c, FmtEdge(e))
  <2>1. e.block = Num(r) + 1 /\ SameValues(NumsOf(r + 1, Passed, n), e.args)
    BY <1>11, TargetBuilt DEF t1
  <2>. QED BY <1>0, <1>3, <1>4, <1>8, <2>1, EdgeCovers
<1>17. c \in Nat \ {0} /\ u \in Nat \ {0} /\ u - 1 = c
  <2>1. r \in Nat \ {0} /\ c = r + Len(FmtEdge(e)) /\ c \in Nat /\ IsSequence(FmtEdge(e))
    BY <1>16 DEF Covers
  <2>2. Len(FmtEdge(e)) \in Nat
    BY <2>1, SequenceElements
  <2>. QED BY <1>5, <2>1, <2>2
<1>18. Type(c) = Comma /\ Type(u) = "bb"
  <2>1. Expect(c, <<Comma, "bb">>)
    BY <1>2, <1>17
  <2>2. Type(c) = Comma /\ Type(c + 1) = "bb"
    BY <1>17, <2>1, Expected
  <2>. QED BY <1>5, <2>2
<1>19. Covers(c, u, <<Word(Comma)>>)
  BY <1>5, <1>17, <1>18, WordCovers, MarksAre
<1>20. Covers(u, end, FmtEdge(f))
  <2>1. f.block = Num(u) + 1 /\ SameValues(NumsOf(u + 1, Passed, m), f.args)
    BY <1>11, TargetBuilt DEF t2
  <2>. QED BY <1>2, <1>3, <1>17, <1>18, <2>1, EdgeCovers DEF end
<1>21. FmtRest(inst, item.data) = (((FmtOperands(<<a>>) \o <<Word(Comma)>>) \o FmtEdge(e))
                                    \o <<Word(Comma)>>) \o FmtEdge(f)
  BY <1>10, <1>12, RestByClass DEF e, f
<1>22. Covers(q, r, FmtOperands(<<a>>) \o <<Word(Comma)>>)
  BY <1>14, <1>15, CoversJoined
<1>23. Covers(q, c, (FmtOperands(<<a>>) \o <<Word(Comma)>>) \o FmtEdge(e))
  BY <1>16, <1>22, CoversJoined
<1>24. Covers(q, u, ((FmtOperands(<<a>>) \o <<Word(Comma)>>) \o FmtEdge(e)) \o <<Word(Comma)>>)
  BY <1>19, <1>23, CoversJoined
<1>25. Covers(q, end, FmtRest(inst, item.data))
  BY <1>20, <1>21, <1>24, CoversJoined
<1>. QED BY <1>9, <1>10, <1>13, <1>25, CoversJoined, CoversSequence DEF WrittenAt

(* Every instruction that the parser finds. *)
LEMMA EffectCovers ==
    ASSUME IsText(text), NEW p \in Nat \ {0}, NEW item \in WithoutResult(p), NEW inst,
           Builds(item, inst)
    PROVE  WrittenAt(p, item.next, inst, item.data)
BY RetCovers, JmpCovers, BrifCovers, StoreCovers DEF WithoutResult

LEMMA ResultCovers ==
    ASSUME IsText(text), NEW p \in Nat \ {0}, NEW item \in WithResult(p), NEW inst,
           Builds(item, inst)
    PROVE  WrittenAt(p, item.next, inst, item.data)
BY ConstCovers, PairCovers, SingleCovers, ShiftByCovers, IcmpCovers, LoadCovers, CallCovers
   DEF WithResult

LEMMA WithoutResultItems ==
    ASSUME NEW p, NEW item \in WithoutResult(p)
    PROVE  item.callee = Native
<1>1. \E op, d, operands, edges, n : item = Item(op, d, operands, edges, Native, n)
  <2>1. CASE item \in RetAt(p)
    BY <2>1 DEF RetAt, If
  <2>2. CASE item \in JmpAt(p)
    BY <2>2 DEF JmpAt
  <2>3. CASE item \in BrifAt(p)
    <3>1. PICK l \in BrifLengths(p) :
             item = Item("brif", Plain("brif"), <<Num(p + 1)>>,
                         <<Target(p + 3, l[1]), Target(Second(p, l[1]), l[2])>>,
                         Native, Behind(Second(p, l[1]) + 1, Passed, l[2]))
      BY <2>3 DEF BrifAt
    <3> QED BY <3>1
  <2>4. CASE item \in StoreAt(p)
    <3>1. item = Item("store", Access("store", LoadKinds[Spell(p + 2)][1], FALSE, Int32(Num(p + 7))),
                       <<Num(p + 3), Num(p + 5)>>, <<>>, Native, p + 8)
      BY Zenon, <2>4 DEF StoreAt, If
    <3> QED BY <3>1
  <2> QED BY <2>1, <2>2, <2>3, <2>4 DEF WithoutResult
<1> QED BY <1>1, ItemParts

LEMMA WithResultItems ==
    ASSUME NEW p, NEW item \in WithResult(p)
    PROVE  item.edges = <<>>
<1>1. \E op, d, operands, callee, n : item = Item(op, d, operands, <<>>, callee, n)
  <2>1. CASE item \in ConstAt(p)
    BY <2>1 DEF ConstAt, If
  <2>2. CASE item \in PairAt(p)
    <3>1. item = Item(ClassOf[Type(p)], Plain(BuiltAs(Type(p))), <<Num(p + 1), Num(p + 3)>>, <<>>,
                       Native, p + 4)
      BY Zenon, <2>2 DEF PairAt, If
    <3> QED BY <3>1
  <2>3. CASE item \in SingleAt(p)
    BY <2>3 DEF SingleAt, If
  <2>4. CASE item \in ShiftByAt(p)
    <3>1. item = Item("unary", Numbered(Type(p), Num(p + 3)), <<Num(p + 1)>>, <<>>, Native, p + 4)
      BY Zenon, <2>4 DEF ShiftByAt, If
    <3> QED BY <3>1
  <2>5. CASE item \in IcmpAt(p)
    <3>1. item = Item("compare", Comparison(Spell(p + 2)), <<Num(p + 3), Num(p + 5)>>, <<>>,
                       Native, p + 6)
      BY Zenon, <2>5 DEF IcmpAt, If
    <3> QED BY <3>1
  <2>6. CASE item \in LoadAt(p)
    <3>1. item = Item("load", Access("load", LoadKinds[Spell(p + 2)][1], LoadKinds[Spell(p + 2)][2], Int32(Num(p + 5))),
                       <<Num(p + 3)>>, <<>>, Native, p + 6)
      BY Zenon, <2>6 DEF LoadAt, If
    <3> QED BY <3>1
  <2>7. CASE item \in CallAt(p)
    <3>1. PICK callee, address, q : item \in CallTo(callee, address, q)
      BY <2>7 DEF CallAt
    <3> QED BY <3>1 DEF CallTo
  <2> QED BY <2>1, <2>2, <2>3, <2>4, <2>5, <2>6, <2>7 DEF WithResult
<1> QED BY <1>1, ItemParts

(* The ids that the parser puts in place of the numbers of the text. *)
LEMMA ResolvedValues ==
    ASSUME NEW nums, IsSequence(nums), Known(nums), DOMAIN m_ids \subseteq Int,
           NEW t, Exact(m_ids, t)
    PROVE  SameValues(nums, resolve(nums))
<1>. DEFINE ids == resolve(nums)
<1>1. Len(nums) \in Nat /\ ToSet(nums) = {nums[k] : k \in 1..Len(nums)}
  BY SequenceElements
<1>2. ids = [k \in 1..Len(nums) |-> m_ids[nums[k]]]
  BY DEF resolve
<1>3. IsSequence(ids) /\ Len(ids) = Len(nums)
  <2>1. ids = [k \in 1..Len(nums) |-> ids[k]]
    BY <1>2
  <2>2. IsSequence(ids)
    BY <1>1, <2>1, FunctionIsSequence
  <2>3. DOMAIN ids = 1..Len(nums)
    BY <1>2
  <2> QED BY <1>1, <1>2, <2>2
<1>4. ASSUME NEW k \in 1..Len(nums)
      PROVE  ids[k] \in Int /\ (nums[k] - ids[k]) % Modulus = 0
  <2>. DEFINE x == nums[k]
  <2>1. x \in DOMAIN m_ids
    BY <1>1 DEF Known
  <2>2. x \in Int /\ m_ids[x] = x % Modulus
    BY <2>1 DEF Exact
  <2>3. ids[k] = m_ids[x]
    BY <1>2
  <2>. HIDE DEF x, ids
  <2>4. Modulus \in Nat /\ Modulus > 0
    BY ModulusAssumption, BoundAssumption
  <2>5. x % Modulus \in Int /\ (x - (x % Modulus)) % Modulus = 0
    BY <2>2, <2>4, RestIsMultiple
  <2>. DEFINE y == x % Modulus
  <2>6. ids[k] = y /\ y \in Int /\ (x - y) % Modulus = 0
    BY <2>2, <2>3, <2>5
  <2>. HIDE DEF y
  <2> QED BY <2>6 DEF x
<1>. HIDE DEF ids
<1> QED BY <1>3, <1>4 DEF SameValues, ids

(* The ids that the builder gives and that the text has to agree with. *)
LEMMA CheckedValues ==
    ASSUME NEW nums, NEW real, IsSequence(real), CheckIds(nums, real),
           \A k \in 1..Len(real) : nums[k] \in Int
    PROVE  SameValues(nums, real)
<1>1. Len(nums) = Len(real) /\ \A k \in 1..Len(real) : nums[k] % Modulus = real[k]
  BY DEF CheckIds
<1>2. Modulus \in Nat /\ Modulus > 0
  BY ModulusAssumption, BoundAssumption
<1>3. ASSUME NEW k \in 1..Len(real)
      PROVE  real[k] \in Int /\ (nums[k] - real[k]) % Modulus = 0
  <2>. DEFINE x == nums[k]
  <2>1. x \in Int /\ real[k] = x % Modulus
    BY <1>1
  <2>. HIDE DEF x
  <2>2. x % Modulus \in Int /\ (x - (x % Modulus)) % Modulus = 0
    BY <1>2, <2>1, RestIsMultiple
  <2>. DEFINE y == x % Modulus
  <2>3. real[k] = y /\ y \in Int /\ (x - y) % Modulus = 0
    BY <2>1, <2>2
  <2>. HIDE DEF y
  <2> QED BY <2>3 DEF x
<1> QED BY <1>1, <1>3 DEF SameValues

-----------------------------------------------------------------------------
(* The instructions, heads and ends of a text *)

LEMMA EffectBuilt ==
    ASSUME NEW p, NEW item \in WithoutResult(p), KnowsAll(item), DOMAIN m_ids \subseteq Int,
           NEW t, Exact(m_ids, t),
           NEW inst, inst = Inst(item.op, NoResult, resolve(item.operands),
                                 ResolvedEdges(item.edges), Native)
    PROVE  Builds(item, inst)
<1>1. WellMade(item) /\ item.callee = Native
  BY ItemsAreWellMade, WithoutResultItems
<1>2. /\ inst.op = item.op /\ inst.callee = Native /\ inst.operands = resolve(item.operands)
      /\ inst.edges = ResolvedEdges(item.edges)
  BY DEF Inst
<1>3. SameValues(item.operands, inst.operands)
  BY <1>1, <1>2, ResolvedValues DEF WellMade, KnowsAll
<1>. DEFINE es == item.edges
            fs == ResolvedEdges(es)
<1>4. Len(es) \in Nat /\ ToSet(es) = {es[k] : k \in 1..Len(es)}
  BY <1>1, SequenceElements DEF WellMade
<1>5. IsSequence(fs) /\ Len(fs) = Len(es) /\ \A k \in 1..Len(es) : fs[k] = ResolveEdge(es[k])
  <2>1. fs = [k \in 1..Len(es) |-> fs[k]] /\ \A k \in 1..Len(es) : fs[k] = ResolveEdge(es[k])
    BY DEF ResolvedEdges
  <2>2. IsSequence(fs)
    BY <1>4, <2>1, FunctionIsSequence
  <2>3. Len(fs) = Len(es)
    BY <1>4 DEF ResolvedEdges
  <2> QED BY <2>1, <2>2, <2>3
<1>6. ASSUME NEW k \in 1..Len(es)
      PROVE  fs[k].block = es[k].block /\ SameValues(es[k].args, fs[k].args)
  <2>1. IsSequence(es[k].args) /\ Known(es[k].args)
    BY <1>1, <1>4 DEF WellMade, KnowsAll
  <2>2. fs[k].block = es[k].block /\ fs[k].args = resolve(es[k].args)
    <3>1. fs[k] = ResolveEdge(es[k])
      BY <1>5
    <3>. HIDE DEF es, fs
    <3> QED BY <3>1 DEF ResolveEdge, Edge
  <2> QED BY <2>1, <2>2, ResolvedValues
<1>. HIDE DEF es, fs
<1> QED BY <1>1, <1>2, <1>3, <1>5, <1>6 DEF Builds, es, fs

LEMMA ResultBuilt ==
    ASSUME NEW p, NEW item \in WithResult(p), KnowsAll(item), DOMAIN m_ids \subseteq Int,
           NEW t, Exact(m_ids, t), NEW r,
           NEW inst, inst = Inst(item.op, r, resolve(item.operands), <<>>, item.callee)
    PROVE  Builds(item, inst)
<1>1. WellMade(item) /\ item.edges = <<>>
  BY ItemsAreWellMade, WithResultItems
<1>2. /\ inst.op = item.op /\ inst.callee = item.callee /\ inst.operands = resolve(item.operands)
      /\ inst.edges = <<>>
  BY DEF Inst
<1>3. SameValues(item.operands, inst.operands)
  BY <1>1, <1>2, ResolvedValues DEF WellMade, KnowsAll
<1> QED BY <1>1, <1>2, <1>3, EmptySequence DEF Builds

(* What a line of the text says, and what is written for it. *)
LEMMA InstParts ==
    ASSUME NEW op, NEW r, NEW operands, NEW edges, NEW callee
    PROVE  Inst(op, r, operands, edges, callee).result = r
BY DEF Inst

LEMMA FmtInstIs ==
    ASSUME NEW inst, NEW d, IsSequence(FmtRest(inst, d))
    PROVE  /\ inst.result = NoResult => fmt_inst(inst, d) = <<Word(d.name)>> \o FmtRest(inst, d)
           /\ inst.result # NoResult =>
                fmt_inst(inst, d) = <<Percent(inst.result), Word("=")>>
                                      \o (<<Word(d.name)>> \o FmtRest(inst, d))
<1>1. IsSequence(<<Word(d.name)>>) /\ IsSequence(<<Percent(inst.result), Word("=")>>)
  BY ShortSequences
<1>2. ASSUME inst.result = NoResult
      PROVE  fmt_inst(inst, d) = <<Word(d.name)>> \o FmtRest(inst, d)
  <2>1. fmt_inst(inst, d) = (<<>> \o <<Word(d.name)>>) \o FmtRest(inst, d)
    BY <1>2 DEF fmt_inst
  <2>2. <<>> \o <<Word(d.name)>> = <<Word(d.name)>>
    BY <1>1, ConcatNothing
  <2> QED BY <2>1, <2>2
<1>3. ASSUME inst.result # NoResult
      PROVE  fmt_inst(inst, d) = <<Percent(inst.result), Word("=")>>
                                      \o (<<Word(d.name)>> \o FmtRest(inst, d))
  <2>1. fmt_inst(inst, d) = (<<Percent(inst.result), Word("=")>> \o <<Word(d.name)>>) \o FmtRest(inst, d)
    BY <1>3 DEF fmt_inst
  <2> QED BY <1>1, <2>1, ConcatAssociates
<1> QED BY <1>2, <1>3

-----------------------------------------------------------------------------
(* The text of a function *)

FunctionHead(n, f) == (Words(<<"fn", "@", n>>) \o FmtParams(f.args)) \o Words(<<"->", "i64", Opens>>)

BlockHead(b, params) == (<<Bb(b)>> \o FmtParams(params)) \o <<Word(":")>>

Lines(f, d, b) ==
    [i \in 1..Len(Instructions(f, b)) |-> fmt_inst(Instructions(f, b)[i], d[Before(f, b) + i])]

BlockText(f, d, b) == BlockHead(b, Params(f, b)) \o FlattenSeq(Lines(f, d, b))

Body(f, d) == FlattenSeq([b \in Blocks(f) |-> BlockText(f, d, b)])

(* Data for each of its instructions. *)
Aligned(f, d) == Total(f) /\ IsSequence(d) /\ Len(d) = Before(f, Len(f.blocks) + 1)

(* What the text of a function is put together from. *)
Pieces(f, d) ==
    {FmtParams(f.args)} \cup {FmtParams(Params(f, b)) : b \in Blocks(f)}
    \cup UNION {{Lines(f, d, b)[i] : i \in 1..Len(Instructions(f, b))} : b \in Blocks(f)}

Laid(f, d) == Aligned(f, d) /\ \A s \in Pieces(f, d) : IsSequence(s)

LEMMA Counted ==
    ASSUME NEW f, Total(f)
    PROVE  /\ Before(f, 1) = 0
           /\ \A b \in Blocks(f) : /\ Before(f, b) \in Nat
                                   /\ Before(f, b + 1) = Before(f, b) + Len(Instructions(f, b))
                                   /\ Before(f, b + 1) <= Before(f, Len(f.blocks) + 1)
<1>. DEFINE n == Len(f.blocks)
            ss == [b \in 1..n |-> Instructions(f, b)]
<1>1. n \in Nat /\ Blocks(f) = 1..n
  BY SequenceElements DEF Total, Blocks
<1>2. Parts(ss) /\ Len(ss) = n
  <2>1. IsSequence(ss) /\ Len(ss) = n
    BY <1>1, FunctionIsSequence
  <2>2. \A b \in 1..n : IsSequence(ss[b])
    BY <1>1 DEF Total
  <2>. HIDE DEF ss
  <2> QED BY <2>1, <2>2 DEF Parts
<1>3. ASSUME NEW k \in 0..n
      PROVE  Before(f, k + 1) = Offset(ss, k)
  <2>. DEFINE t == [c \in 1..k |-> Instructions(f, c)]
  <2>1. k \in Nat /\ (k + 1) - 1 = k
    BY <1>1
  <2>2. IsSequence(t) /\ Len(t) = k
    BY <2>1, FunctionIsSequence
  <2>3. \A i \in 1..k : t[i] = ss[i]
    BY <1>1
  <2>4. /\ IsSequence(SubSeq(ss, 1, k)) /\ Len(SubSeq(ss, 1, k)) = k
        /\ \A i \in 1..k : SubSeq(ss, 1, k)[i] = ss[i]
    <3>. HIDE DEF ss
    <3> QED BY <1>2, PartsPrefix DEF Parts
  <2>. DEFINE u == SubSeq(ss, 1, k)
  <2>. HIDE DEF t, u, ss
  <2>5. t = u
    BY <2>2, <2>3, <2>4, SameElements DEF u
  <2>6. Before(f, k + 1) = Len(FlattenSeq(t))
    BY <2>1 DEF Before, t
  <2> QED BY <2>5, <2>6 DEF Offset, Joined, u
<1>4. \A k \in 0..n : JoinedWell(ss, k)
  BY <1>2, JoinedParts
<1>5. Increasing(ss, n)
  <2>1. n \in 0..Len(ss)
    BY <1>1, <1>2
  <2>. HIDE DEF ss, n
  <2> QED BY <1>2, <2>1, JoinedPlaces
<1>6. \A b \in 1..n : ss[b] = Instructions(f, b)
  OBVIOUS
<1>7. Joined(ss, 0) = <<>>
  BY <1>2, JoinedNone DEF Parts
<1>. HIDE DEF ss
<1>8. Before(f, 1) = 0
  <2>1. 0 \in 0..n /\ 0 + 1 = 1
    BY <1>1
  <2>2. Before(f, 0 + 1) = Offset(ss, 0)
    BY <1>3, <2>1
  <2> QED BY <1>7, <2>1, <2>2, EmptySequence DEF Offset
<1>9. ASSUME NEW b \in Blocks(f)
      PROVE  /\ Before(f, b) \in Nat
             /\ Before(f, b + 1) = Before(f, b) + Len(Instructions(f, b))
             /\ Before(f, b + 1) <= Before(f, n + 1)
  <2>1. b \in 0..n /\ b - 1 \in 0..n /\ (b - 1) + 1 = b /\ b > 0 /\ n \in 0..n
    BY <1>1
  <2>2. Before(f, b) = Offset(ss, b - 1)
    <3>1. Before(f, (b - 1) + 1) = Offset(ss, b - 1)
      BY <1>3, <2>1
    <3> QED BY <2>1, <3>1
  <2>3. Before(f, b + 1) = Offset(ss, b) /\ Before(f, n + 1) = Offset(ss, n)
    BY <1>3, <2>1
  <2>4. Offset(ss, b - 1) \in Nat /\ Offset(ss, b) = Offset(ss, b - 1) + Len(ss[b])
    BY <1>4, <2>1 DEF JoinedWell
  <2>5. Offset(ss, b) <= Offset(ss, n)
    BY <1>5, <2>1 DEF Increasing
  <2> QED BY <1>1, <1>6, <2>2, <2>3, <2>4, <2>5
<1> QED BY <1>8, <1>9

(* The places of an instruction's data. *)
LEMMA DataPlaces ==
    ASSUME NEW f, NEW d, Aligned(f, d), NEW b \in Blocks(f), NEW i \in 1..Len(Instructions(f, b))
    PROVE  /\ Before(f, b) \in Nat /\ i \in Nat /\ Before(f, b) + i \in 1..Len(d)
           /\ Len(Instructions(f, b)) \in Nat
<1>1. Len(Instructions(f, b)) \in Nat
  BY SequenceElements DEF Aligned, Total
<1>2. /\ Before(f, b) \in Nat /\ Before(f, b + 1) = Before(f, b) + Len(Instructions(f, b))
      /\ Before(f, b + 1) <= Len(d)
  BY Counted DEF Aligned
<1>3. Len(d) \in Nat
  BY SequenceElements DEF Aligned
<1> QED BY <1>1, <1>2, <1>3

LEMMA BlockIs ==
    ASSUME NEW f, NEW d, Aligned(f, d), NEW b \in Blocks(f)
    PROVE  fmt_block(f, b, SubSeq(d, Before(f, b) + 1, Len(d))) = BlockText(f, d, b)
<1>. DEFINE m == Before(f, b)
            u == SubSeq(d, m + 1, Len(d))
            s == Instructions(f, b)
            x == [i \in 1..Len(s) |-> fmt_inst(s[i], u[i])]
<1>1. m \in Nat /\ Len(s) \in Nat /\ Len(d) \in Nat
  <2>1. m \in Nat
    BY Counted DEF Aligned
  <2> QED BY <2>1, SequenceElements DEF Aligned, Total
<1>2. \A i \in 1..Len(s) : i \in Nat /\ m + i \in 1..Len(d)
  BY DataPlaces
<1>. HIDE DEF m
<1>3. ASSUME NEW i \in 1..Len(s)
      PROVE  u[i] = d[m + i]
  <2>1. m + i \in 1..Len(d) /\ i \in Nat
    BY <1>2
  <2>2. d \in Seq(ToSet(d))
    BY DEF Aligned, IsSequence
  <2>3. i \in 1..(Len(d) - (m + 1) + 1)
    BY <1>1, <2>1
  <2>. HIDE DEF s
  <2>4. (m + 1) + i - 1 = m + i
    BY <1>1, <2>1
  <2> QED BY <1>1, <2>2, <2>3, <2>4
<1>4. x = Lines(f, d, b)
  BY <1>3 DEF Lines, m
<1>5. fmt_block(f, b, u) = ((<<Bb(b)>> \o FmtParams(Params(f, b))) \o <<Word(":")>>) \o FlattenSeq(x)
  BY DEF fmt_block
<1>. HIDE DEF x, u
<1> QED BY <1>4, <1>5 DEF BlockText, BlockHead, u, m

LEMMA HeadsAreSequences ==
    \A p : IsSequence(FmtParams(p)) => \A b : IsSequence(BlockHead(b, p))
<1>. SUFFICES ASSUME NEW p, IsSequence(FmtParams(p)), NEW b PROVE IsSequence(BlockHead(b, p))
  OBVIOUS
<1>1. IsSequence(<<Bb(b)>>) /\ IsSequence(<<Word(":")>>)
  BY ShortSequences
<1>2. IsSequence(<<Bb(b)>> \o FmtParams(p))
  BY <1>1, ConcatLengths
<1> QED BY <1>1, <1>2, ConcatLengths DEF BlockHead

LEMMA TextIsLaid ==
    ASSUME NEW f, NEW d, Laid(f, d)
    PROVE  /\ \A b \in Blocks(f) :
                /\ Parts(Lines(f, d, b)) /\ Len(Lines(f, d, b)) = Len(Instructions(f, b))
                /\ IsSequence(BlockText(f, d, b))
                /\ IsSequence(FmtParams(Params(f, b)))
           /\ Parts([b \in Blocks(f) |-> BlockText(f, d, b)])
           /\ Len([b \in Blocks(f) |-> BlockText(f, d, b)]) = Len(f.blocks)
           /\ IsSequence(Body(f, d)) /\ IsSequence(FmtParams(f.args))
<1>1. ASSUME NEW b \in Blocks(f)
      PROVE  /\ Parts(Lines(f, d, b)) /\ Len(Lines(f, d, b)) = Len(Instructions(f, b))
             /\ IsSequence(BlockText(f, d, b))
             /\ IsSequence(FmtParams(Params(f, b)))
  <2>. DEFINE s == Lines(f, d, b)
              n == Len(Instructions(f, b))
  <2>1. n \in Nat
    BY SequenceElements DEF Laid, Aligned, Total
  <2>2. IsSequence(s) /\ Len(s) = n
    <3>1. s = [i \in 1..n |-> s[i]] /\ DOMAIN s = 1..n
      BY DEF Lines
    <3>2. IsSequence(s)
      BY <2>1, <3>1, FunctionIsSequence
    <3>. HIDE DEF s, n
    <3> QED BY <2>1, <3>1, <3>2, SequenceElements
  <2>3. \A i \in 1..n : IsSequence(s[i])
    BY DEF Laid, Pieces
  <2>4. Parts(s)
    BY <2>2, <2>3 DEF Parts
  <2>5. IsSequence(FmtParams(Params(f, b)))
    BY DEF Laid, Pieces
  <2>6. IsSequence(FlattenSeq(s))
    BY <2>4, FlattenJoins
  <2>. HIDE DEF s
  <2>7. IsSequence(BlockText(f, d, b))
    BY <2>5, <2>6, HeadsAreSequences, ConcatLengths DEF BlockText, s
  <2> QED BY <2>2, <2>4, <2>5, <2>7 DEF s
<1>. DEFINE n == Len(f.blocks)
            t == [b \in Blocks(f) |-> BlockText(f, d, b)]
<1>2. n \in Nat /\ Blocks(f) = 1..n
  BY SequenceElements DEF Laid, Aligned, Total, Blocks
<1>3. IsSequence(t) /\ Len(t) = n
  BY <1>2, FunctionIsSequence
<1>4. \A b \in 1..n : IsSequence(t[b])
  BY <1>1, <1>2
<1>. HIDE DEF t
<1>5. Parts(t)
  BY <1>3, <1>4 DEF Parts
<1>6. IsSequence(Body(f, d))
  BY <1>5, FlattenJoins DEF Body, t
<1>7. IsSequence(FmtParams(f.args))
  BY DEF Laid, Pieces
<1> QED BY <1>1, <1>3, <1>5, <1>6, <1>7 DEF t

LEMMA ThreeWords ==
    ASSUME NEW a, NEW b, NEW c
    PROVE  IsSequence(Words(<<a, b, c>>))
<1>1. Words(<<a, b, c>>) = <<Word(a), Word(b), Word(c)>>
  BY DEF Words
<1> QED BY <1>1 DEF IsSequence, ToSet

LEMMA FunctionIs ==
    ASSUME NEW n, NEW f, NEW d, Laid(f, d)
    PROVE  /\ fmt_function(Named(n, f, d)) = (FunctionHead(n, f) \o Body(f, d)) \o <<Word(Closes)>>
           /\ IsSequence(FunctionHead(n, f)) /\ IsSequence(fmt_function(Named(n, f, d)))
<1>. DEFINE s == [b \in Blocks(f) |-> fmt_block(f, b, SubSeq(d, Before(f, b) + 1, Len(d)))]
<1>1. s = [b \in Blocks(f) |-> BlockText(f, d, b)]
  BY BlockIs DEF Laid
<1>2. Named(n, f, d).name = n /\ Named(n, f, d).func = f /\ Named(n, f, d).data = d
  BY DEF Named
<1>3. fmt_function(Named(n, f, d)) = (FunctionHead(n, f) \o FlattenSeq(s)) \o <<Word(Closes)>>
  <2>1. \A fn : fmt_function(fn) = (FunctionHead(fn.name, fn.func) \o FlattenSeq([b \in Blocks(fn.func) |->
           fmt_block(fn.func, b, SubSeq(fn.data, Before(fn.func, b) + 1, Len(fn.data)))]))
           \o <<Word(Closes)>>
    BY Zenon DEF fmt_function, FunctionHead, Opens, Closes
  <2> QED BY <1>2, <2>1, Zenon
<1>4. IsSequence(Body(f, d)) /\ IsSequence(FmtParams(f.args))
  BY TextIsLaid
<1>5. IsSequence(FunctionHead(n, f))
  <2>1. IsSequence(Words(<<"fn", "@", n>>)) /\ IsSequence(Words(<<"->", "i64", Opens>>))
    BY ThreeWords
  <2> QED BY <1>4, <2>1, ConcatLengths DEF FunctionHead
<1>. HIDE DEF s
<1>6. fmt_function(Named(n, f, d)) = (FunctionHead(n, f) \o Body(f, d)) \o <<Word(Closes)>>
  BY <1>1, <1>3 DEF Body
<1>7. IsSequence(<<Word(Closes)>>)
  BY ShortSequences
<1>8. IsSequence(fmt_function(Named(n, f, d)))
  BY <1>4, <1>5, <1>6, <1>7, ConcatLengths
<1> QED BY <1>5, <1>6, <1>8

(* An instruction more: its line is the last of the text. *)
LineAdded(f, d, g, e, inst, x) ==
    /\ Aligned(g, e) /\ g.args = f.args /\ Blocks(g) = Blocks(f)
    /\ Len(f.blocks) \in Blocks(f) /\ Len(g.blocks) = Len(f.blocks)
    /\ \A b \in Blocks(f) :
         /\ Params(g, b) = Params(f, b)
         /\ b # Len(f.blocks) => /\ Len(Instructions(g, b)) = Len(Instructions(f, b))
                                 /\ Lines(g, e, b) = Lines(f, d, b)
    /\ \A n : n = Len(f.blocks) =>
         /\ Len(Instructions(f, n)) \in Nat
         /\ Len(Instructions(g, n)) = Len(Instructions(f, n)) + 1
         /\ \A i \in 1..Len(Instructions(f, n)) : Lines(g, e, n)[i] = Lines(f, d, n)[i]
         /\ Lines(g, e, n)[Len(Instructions(f, n)) + 1] = fmt_inst(inst, x)

LEMMA LinesGrow ==
    ASSUME NEW f, NEW d, Aligned(f, d), NEW inst, NEW t \in Nat,
           NEW g, g = Grown(f, inst, t), NEW x, NEW e, e = Append(d, x)
    PROVE  LineAdded(f, d, g, e, inst, x)
<1>. DEFINE n == Len(f.blocks)
<1>1. Total(f) /\ IsSequence(d) /\ Len(d) = Before(f, n + 1)
  BY DEF Aligned
<1>2. /\ Total(g) /\ Continuing(g, f) /\ Blocks(g) = Blocks(f)
      /\ \A b \in Blocks(f) : Instructions(g, b) = IF b = n THEN Append(Instructions(f, b), inst)
                                                   ELSE Instructions(f, b)
  BY <1>1, Growing
<1>3. n \in Nat /\ Blocks(f) = 1..n /\ n \in 1..n
  BY <1>1, SequenceElements, EmptySequence DEF Total, IsSequence, Blocks
<1>4. Len(g.blocks) = n
  <2>1. Len(g.blocks) \in Nat
    BY <1>2, SequenceElements DEF Total
  <2>2. 1..Len(g.blocks) = 1..n
    BY <1>2, <1>3 DEF Blocks
  <2>. HIDE DEF n
  <2> QED BY <1>3, <2>1, <2>2
<1>5. g.args = f.args /\ \A b \in Blocks(f) : Params(g, b) = Params(f, b)
  BY <1>2 DEF Continuing
<1>6. \A b \in Blocks(f) : IsSequence(Instructions(f, b)) /\ Len(Instructions(f, b)) \in Nat
  BY <1>1, SequenceElements DEF Total
<1>7. \A b \in Blocks(f) : Before(g, b) = Before(f, b)
  <2>. SUFFICES ASSUME NEW b \in Blocks(f) PROVE Before(g, b) = Before(f, b)
    OBVIOUS
  <2>1. [c \in 1..(b - 1) |-> Instructions(g, c)] = [c \in 1..(b - 1) |-> Instructions(f, c)]
    <3>1. \A c \in 1..(b - 1) : c \in Blocks(f) /\ c # n
      BY <1>3
    <3>. HIDE DEF n
    <3> QED BY <1>2, <3>1
  <2> QED BY <2>1 DEF Before
<1>8. /\ Len(Instructions(g, n)) = Len(Instructions(f, n)) + 1
      /\ \A i \in 1..Len(Instructions(f, n)) : Instructions(g, n)[i] = Instructions(f, n)[i]
      /\ Instructions(g, n)[Len(Instructions(f, n)) + 1] = inst
  <2>1. Instructions(g, n) = Append(Instructions(f, n), inst) /\ IsSequence(Instructions(f, n))
    BY <1>2, <1>3, <1>6
  <2>. HIDE DEF n
  <2> QED BY <2>1, AppendedElements
<1>9. /\ Before(f, n) \in Nat /\ Before(f, n + 1) = Before(f, n) + Len(Instructions(f, n))
      /\ Before(g, n + 1) = Before(g, n) + Len(Instructions(g, n))
  BY <1>1, <1>2, <1>3, Counted
<1>10. /\ IsSequence(e) /\ Len(e) = Len(d) + 1 /\ e[Len(d) + 1] = x
       /\ \A i \in 1..Len(d) : e[i] = d[i]
  BY <1>1, AppendedElements
<1>11. Before(g, n + 1) = Len(d) + 1 /\ Len(d) = Before(g, n) + Len(Instructions(f, n))
  <2>1. Before(g, n) = Before(f, n) /\ Len(Instructions(f, n)) \in Nat
    BY <1>3, <1>6, <1>7
  <2>2. Len(d) = Before(f, n) + Len(Instructions(f, n))
    BY <1>1, <1>9
  <2>3. Before(g, n + 1) = Before(f, n) + (Len(Instructions(f, n)) + 1)
    BY <1>8, <1>9, <2>1
  <2> QED BY <1>9, <2>1, <2>2, <2>3
<1>12. Aligned(g, e)
  BY <1>2, <1>4, <1>10, <1>11 DEF Aligned
<1>13. \A b \in Blocks(f) : \A i \in 1..Len(Instructions(f, b)) : e[Before(g, b) + i] = d[Before(f, b) + i]
  BY <1>7, <1>10, DataPlaces
<1>14. ASSUME NEW b \in Blocks(f), b # n
       PROVE  Len(Instructions(g, b)) = Len(Instructions(f, b)) /\ Lines(g, e, b) = Lines(f, d, b)
  <2>1. Instructions(g, b) = Instructions(f, b)
    BY <1>2, <1>14
  <2>2. \A i \in 1..Len(Instructions(f, b)) : e[Before(g, b) + i] = d[Before(f, b) + i]
    BY <1>13
  <2>. HIDE DEF n
  <2> QED BY <2>1, <2>2 DEF Lines
<1>15. \A i \in 1..Len(Instructions(f, n)) : Lines(g, e, n)[i] = Lines(f, d, n)[i]
  <2>. SUFFICES ASSUME NEW i \in 1..Len(Instructions(f, n)) PROVE Lines(g, e, n)[i] = Lines(f, d, n)[i]
    OBVIOUS
  <2>1. i \in 1..Len(Instructions(g, n))
    BY <1>3, <1>6, <1>8
  <2>2. e[Before(g, n) + i] = d[Before(f, n) + i] /\ Instructions(g, n)[i] = Instructions(f, n)[i]
    BY <1>3, <1>8, <1>13
  <2>. HIDE DEF n
  <2> QED BY <2>1, <2>2 DEF Lines
<1>16. Lines(g, e, n)[Len(Instructions(f, n)) + 1] = fmt_inst(inst, x)
  <2>1. Len(Instructions(f, n)) + 1 \in 1..Len(Instructions(g, n))
    BY <1>3, <1>6, <1>8
  <2>2. Before(g, n) + (Len(Instructions(f, n)) + 1) = Len(d) + 1
    <3>1. Before(g, n) = Before(f, n) /\ Len(Instructions(f, n)) \in Nat
      BY <1>3, <1>6, <1>7
    <3> QED BY <1>9, <1>11, <3>1
  <2>3. e[Before(g, n) + (Len(Instructions(f, n)) + 1)] = x
    BY <1>10, <2>2
  <2>. HIDE DEF n
  <2> QED BY <1>8, <2>1, <2>3 DEF Lines
<1> QED BY <1>2, <1>3, <1>4, <1>5, <1>6, <1>8, <1>12, <1>14, <1>15, <1>16 DEF LineAdded

LEMMA PiecesAre ==
    ASSUME NEW f, NEW d, NEW s
    PROVE  s \in Pieces(f, d) <=>
             \/ s = FmtParams(f.args)
             \/ \E b \in Blocks(f) :
                  \/ s = FmtParams(Params(f, b))
                  \/ \E i \in 1..Len(Instructions(f, b)) : s = Lines(f, d, b)[i]
BY DEF Pieces

(* A text that is longer by s, with a piece more. *)
Longer(f, d, g, e, s, piece) ==
    /\ Laid(g, e) /\ g.args = f.args
    /\ Body(g, e) = Body(f, d) \o s
    /\ Pieces(g, e) \subseteq Pieces(f, d) \cup {piece}

LEMMA TextGrows ==
    ASSUME NEW f, NEW d, Laid(f, d), NEW inst, NEW t \in Nat,
           NEW g, g = Grown(f, inst, t), NEW x, NEW e, e = Append(d, x),
           NEW line, line = fmt_inst(inst, x), IsSequence(line)
    PROVE  Longer(f, d, g, e, line, line)
<1>. DEFINE n == Len(f.blocks)
            m == Len(Instructions(f, n))
<1>1. /\ Aligned(g, e) /\ g.args = f.args /\ Blocks(g) = Blocks(f)
      /\ n \in Blocks(f) /\ Len(g.blocks) = n
      /\ \A b \in Blocks(f) :
           /\ Params(g, b) = Params(f, b)
           /\ b # n => /\ Len(Instructions(g, b)) = Len(Instructions(f, b))
                       /\ Lines(g, e, b) = Lines(f, d, b)
      /\ m \in Nat /\ Len(Instructions(g, n)) = m + 1
      /\ \A i \in 1..m : Lines(g, e, n)[i] = Lines(f, d, n)[i]
      /\ Lines(g, e, n)[m + 1] = line
  <2>1. Aligned(f, d)
    BY DEF Laid
  <2>0. LineAdded(f, d, g, e, inst, x)
    BY <2>1, LinesGrow
  <2>2. /\ Aligned(g, e) /\ g.args = f.args /\ Blocks(g) = Blocks(f)
        /\ n \in Blocks(f) /\ Len(g.blocks) = n
        /\ \A b \in Blocks(f) :
             /\ Params(g, b) = Params(f, b)
             /\ b # n => /\ Len(Instructions(g, b)) = Len(Instructions(f, b))
                         /\ Lines(g, e, b) = Lines(f, d, b)
    BY <2>0 DEF LineAdded
  <2>3. /\ m \in Nat /\ Len(Instructions(g, n)) = m + 1
        /\ \A i \in 1..m : Lines(g, e, n)[i] = Lines(f, d, n)[i]
        /\ Lines(g, e, n)[m + 1] = line
    BY <2>0 DEF LineAdded
  <2> QED BY <2>2, <2>3
<1>2. Pieces(g, e) \subseteq Pieces(f, d) \cup {line}
  <2>. SUFFICES ASSUME NEW s, s \in Pieces(g, e), s # line PROVE s \in Pieces(f, d)
    OBVIOUS
  <2>1. CASE s = FmtParams(g.args)
    BY <1>1, <2>1, PiecesAre
  <2>2. CASE \E b \in Blocks(g) : s = FmtParams(Params(g, b))
    BY <1>1, <2>2, PiecesAre
  <2>3. CASE \E b \in Blocks(g) : \E i \in 1..Len(Instructions(g, b)) : s = Lines(g, e, b)[i]
    <3>0. PICK b \in Blocks(g) : \E i \in 1..Len(Instructions(g, b)) : s = Lines(g, e, b)[i]
      BY <2>3
    <3>1. PICK i \in 1..Len(Instructions(g, b)) : s = Lines(g, e, b)[i]
      BY <3>0
    <3>. HIDE DEF n, m
    <3>2. i \in 1..Len(Instructions(f, b)) /\ s = Lines(f, d, b)[i]
      <4>1. CASE b = n
        <5>1. i \in 1..m
          BY <1>1, <3>1, <4>1
        <5> QED BY <1>1, <3>1, <4>1, <5>1 DEF m
      <4>2. CASE b # n
        BY <1>1, <3>1, <4>2
      <4> QED BY <4>1, <4>2
    <3> QED BY <1>1, <3>1, <3>2, PiecesAre
  <2> QED BY <2>1, <2>2, <2>3, PiecesAre
<1>3. Laid(g, e)
  BY <1>1, <1>2 DEF Laid
<1>4. /\ \A b \in Blocks(f) : /\ Parts(Lines(f, d, b)) /\ IsSequence(BlockText(f, d, b))
                              /\ IsSequence(FmtParams(Params(f, b)))
      /\ Len(Lines(f, d, n)) = m
      /\ Parts([b \in Blocks(f) |-> BlockText(f, d, b)])
      /\ Len([b \in Blocks(f) |-> BlockText(f, d, b)]) = n
  BY <1>1, TextIsLaid
<1>5. /\ Parts(Lines(g, e, n)) /\ Len(Lines(g, e, n)) = m + 1
      /\ Parts([b \in Blocks(g) |-> BlockText(g, e, b)])
      /\ Len([b \in Blocks(g) |-> BlockText(g, e, b)]) = n
  BY <1>1, <1>3, TextIsLaid
<1>6. BlockText(g, e, n) = BlockText(f, d, n) \o line
  <2>1. Lines(g, e, n) = Append(Lines(f, d, n), line)
    <3>. DEFINE u == Lines(f, d, n)
                v == Lines(g, e, n)
    <3>1. IsSequence(u) /\ Len(u) = m /\ IsSequence(v) /\ Len(v) = m + 1
      BY <1>1, <1>4, <1>5 DEF Parts
    <3>2. m \in Nat /\ v[m + 1] = line /\ \A i \in 1..m : v[i] = u[i]
      BY <1>1
    <3>. HIDE DEF u, v, m, n
    <3>3. /\ IsSequence(Append(u, line)) /\ Len(Append(u, line)) = m + 1
          /\ \A i \in 1..m : Append(u, line)[i] = u[i]
          /\ Append(u, line)[m + 1] = line
      BY <3>1, AppendedElements
    <3>4. Len(v) = Len(Append(u, line)) /\ \A i \in 1..Len(v) : v[i] = Append(u, line)[i]
      BY <3>1, <3>2, <3>3
    <3>5. v = Append(u, line)
      BY <3>1, <3>3, <3>4, SameElements
    <3> QED BY <3>5 DEF u, v
  <2>2. FlattenSeq(Lines(g, e, n)) = FlattenSeq(Lines(f, d, n)) \o line
    BY <1>1, <1>4, <2>1, FlattenAppend
  <2>3. IsSequence(FlattenSeq(Lines(f, d, n))) /\ IsSequence(BlockHead(n, Params(f, n)))
    BY <1>1, <1>4, FlattenJoins, HeadsAreSequences
  <2>4. Params(g, n) = Params(f, n)
    BY <1>1
  <2>. HIDE DEF n
  <2> QED BY <2>2, <2>3, <2>4, ConcatAssociates DEF BlockText
<1>7. \A b \in Blocks(f) : b # n => BlockText(g, e, b) = BlockText(f, d, b)
  BY <1>1 DEF BlockText
<1>8. Body(g, e) = Body(f, d) \o line
  <2>. DEFINE ss == [b \in Blocks(f) |-> BlockText(f, d, b)]
              tt == [b \in Blocks(g) |-> BlockText(g, e, b)]
  <2>1. Blocks(f) = 1..n /\ n \in 1..n /\ n \in Nat
    BY <1>1, SequenceElements DEF Blocks, Laid, Aligned, Total
  <2>2. tt[n] = ss[n] \o line /\ \A b \in 1..(n - 1) : tt[b] = ss[b]
    <3>1. ss[n] = BlockText(f, d, n) /\ tt[n] = BlockText(g, e, n)
      BY <1>1, <2>1
    <3>2. \A b \in 1..(n - 1) : b \in Blocks(f) /\ b # n
      BY <2>1
    <3>3. \A b \in Blocks(f) : b # n => tt[b] = ss[b]
      BY <1>1, <1>7
    <3> QED BY <1>6, <3>1, <3>2, <3>3
  <2>3. Parts(ss) /\ Len(ss) = n /\ IsSequence(tt) /\ Len(tt) = n
    BY <1>4, <1>5 DEF Parts
  <2>. HIDE DEF ss, tt, n
  <2>4. FlattenSeq(tt) = FlattenSeq(ss) \o line
    <3>1. n \in Nat \ {0}
      BY <2>1
    <3> QED BY <2>2, <2>3, <3>1, FlattenLonger
  <2> QED BY <2>4 DEF Body, ss, tt
<1> QED BY <1>1, <1>2, <1>3, <1>8 DEF Longer

BlockBehind(f, g, params) ==
    /\ Total(g) /\ g.args = f.args
    /\ Len(g.blocks) = Len(f.blocks) + 1
    /\ Len(f.blocks) + 1 \notin Blocks(f)
    /\ Blocks(g) = Blocks(f) \cup {Len(f.blocks) + 1}
    /\ \A b \in Blocks(f) : Params(g, b) = Params(f, b) /\ Instructions(g, b) = Instructions(f, b)
    /\ Params(g, Len(f.blocks) + 1) = params
    /\ Instructions(g, Len(f.blocks) + 1) = <<>>

LEMMA Widening ==
    ASSUME NEW f, Total(f), NEW params, NEW t \in Nat, NEW g, g = Widened(f, params, t)
    PROVE  BlockBehind(f, g, params) /\ g.types = t
<1> DEFINE n == Len(f.blocks)
           block == Block(params, <<>>)
<1>1. n \in Nat /\ Blocks(f) = 1..n /\ IsSequence(f.blocks)
  BY SequenceElements DEF Total, Blocks
<1>2. g.args = f.args /\ g.types = t /\ g.blocks = Append(f.blocks, block)
      /\ g = Function(g.args, g.blocks, g.types)
  BY DEF Widened, Function
<1>3. /\ IsSequence(g.blocks) /\ Len(g.blocks) = n + 1 /\ g.blocks # <<>>
      /\ g.blocks[n + 1] = block
      /\ \A b \in 1..n : g.blocks[b] = f.blocks[b]
  BY <1>1, <1>2, AppendedElements
<1>4. Blocks(g) = Blocks(f) \cup {n + 1} /\ n + 1 \notin Blocks(f)
  BY <1>1, <1>3 DEF Blocks
<1>5. \A b \in Blocks(f) : Params(g, b) = Params(f, b) /\ Instructions(g, b) = Instructions(f, b)
  BY <1>1, <1>3 DEF Params, Instructions
<1>6. Params(g, n + 1) = params /\ Instructions(g, n + 1) = <<>>
  BY <1>3 DEF Params, Instructions, Block
<1>7. \A b \in Blocks(f) : /\ f.blocks[b] = Block(Params(f, b), Instructions(f, b))
                           /\ IsSequence(Instructions(f, b))
  BY DEF Total
<1>8. \A b \in Blocks(g) : /\ g.blocks[b] = Block(Params(g, b), Instructions(g, b))
                           /\ IsSequence(Instructions(g, b))
  <2>1. \A b \in Blocks(f) : /\ g.blocks[b] = Block(Params(g, b), Instructions(g, b))
                             /\ IsSequence(Instructions(g, b))
    BY <1>1, <1>3, <1>5, <1>7
  <2>2. /\ g.blocks[n + 1] = Block(Params(g, n + 1), Instructions(g, n + 1))
        /\ IsSequence(Instructions(g, n + 1))
    BY <1>3, <1>6, EmptySequence
  <2>3. QED
    BY <1>4, <2>1, <2>2
<1>9. Total(g)
  BY <1>2, <1>3, <1>8 DEF Total
<1>10. QED
  BY <1>2, <1>3, <1>4, <1>5, <1>6, <1>9 DEF BlockBehind

LEMMA TextWidens ==
    ASSUME NEW f, NEW d, Laid(f, d), NEW params, IsSequence(FmtParams(params)), NEW t \in Nat,
           NEW g, g = Widened(f, params, t), NEW head, head = BlockHead(Len(f.blocks) + 1, params)
    PROVE  Longer(f, d, g, d, head, FmtParams(params))
<1>. DEFINE n == Len(f.blocks)
<1>1. Total(f) /\ IsSequence(d) /\ Len(d) = Before(f, n + 1)
  BY DEF Laid, Aligned
<1>2. BlockBehind(f, g, params)
  BY <1>1, Widening
<1>3. /\ Total(g) /\ g.args = f.args /\ Len(g.blocks) = n + 1
      /\ n + 1 \notin Blocks(f) /\ Blocks(g) = Blocks(f) \cup {n + 1}
      /\ \A b \in Blocks(f) : Params(g, b) = Params(f, b) /\ Instructions(g, b) = Instructions(f, b)
      /\ Params(g, n + 1) = params /\ Instructions(g, n + 1) = <<>>
  BY <1>2 DEF BlockBehind
<1>4. n \in Nat /\ Blocks(f) = 1..n
  BY <1>1, SequenceElements DEF Total, Blocks
<1>5. \A b \in 1..(n + 1) : Before(g, b) = Before(f, b)
  <2>. SUFFICES ASSUME NEW b \in 1..(n + 1) PROVE Before(g, b) = Before(f, b)
    OBVIOUS
  <2>1. [c \in 1..(b - 1) |-> Instructions(g, c)] = [c \in 1..(b - 1) |-> Instructions(f, c)]
    <3>1. \A c \in 1..(b - 1) : c \in Blocks(f)
      BY <1>4
    <3>. HIDE DEF n
    <3> QED BY <1>3, <3>1
  <2> QED BY <2>1 DEF Before
<1>6. Aligned(g, d)
  <2>1. /\ n + 1 \in Blocks(g) /\ n + 1 \in 1..(n + 1)
    BY <1>3, <1>4
  <2>2. Before(g, (n + 1) + 1) = Before(g, n + 1) + Len(Instructions(g, n + 1)) /\ Before(g, n + 1) \in Nat
    BY <1>3, <2>1, Counted
  <2>3. Before(g, (n + 1) + 1) = Len(d)
    <3>1. Before(g, n + 1) = Len(d)
      BY <1>1, <1>5, <2>1
    <3>2. Len(Instructions(g, n + 1)) = 0
      BY <1>3, EmptySequence
    <3>. HIDE DEF n
    <3> QED BY <2>2, <3>1, <3>2
  <2> QED BY <1>1, <1>3, <2>3 DEF Aligned
<1>7. \A b \in Blocks(f) : Lines(g, d, b) = Lines(f, d, b) /\ BlockText(g, d, b) = BlockText(f, d, b)
  <2>. SUFFICES ASSUME NEW b \in Blocks(f)
                PROVE  Lines(g, d, b) = Lines(f, d, b) /\ BlockText(g, d, b) = BlockText(f, d, b)
    OBVIOUS
  <2>1. Before(g, b) = Before(f, b)
    BY <1>4, <1>5
  <2>2. Lines(g, d, b) = Lines(f, d, b)
    BY <1>3, <2>1 DEF Lines
  <2> QED BY <1>3, <2>2 DEF BlockText
<1>8. Pieces(g, d) \subseteq Pieces(f, d) \cup {FmtParams(params)}
  <2>. SUFFICES ASSUME NEW s, s \in Pieces(g, d), s # FmtParams(params) PROVE s \in Pieces(f, d)
    OBVIOUS
  <2>1. CASE s = FmtParams(g.args)
    BY <1>3, <2>1, PiecesAre
  <2>2. CASE \E b \in Blocks(g) : s = FmtParams(Params(g, b))
    BY <1>3, <2>2, PiecesAre
  <2>3. CASE \E b \in Blocks(g) : \E i \in 1..Len(Instructions(g, b)) : s = Lines(g, d, b)[i]
    <3>0. PICK b \in Blocks(g) : \E i \in 1..Len(Instructions(g, b)) : s = Lines(g, d, b)[i]
      BY <2>3
    <3>1. PICK i \in 1..Len(Instructions(g, b)) : s = Lines(g, d, b)[i]
      BY <3>0
    <3>. HIDE DEF n
    <3>2. b \in Blocks(f)
      BY <1>3, <3>1, EmptySequence
    <3> QED BY <1>3, <1>7, <3>1, <3>2, PiecesAre
  <2> QED BY <2>1, <2>2, <2>3, PiecesAre
<1>9. Laid(g, d)
  BY <1>6, <1>8 DEF Laid
<1>10. BlockText(g, d, n + 1) = head
  <2>1. Lines(g, d, n + 1) = <<>>
    <3>1. Len(Instructions(g, n + 1)) = 0
      BY <1>3, EmptySequence
    <3>2. 1..Len(Instructions(g, n + 1)) = {}
      BY <3>1
    <3> QED BY <3>2 DEF Lines
  <2>2. FlattenSeq(<<>>) = <<>>
    BY EmptySequence, JoinedNone
  <2>3. IsSequence(BlockHead(n + 1, params))
    BY HeadsAreSequences
  <2>4. BlockText(g, d, n + 1) = BlockHead(n + 1, params) \o <<>>
    BY <1>3, <2>1, <2>2 DEF BlockText
  <2> QED BY <2>3, <2>4, ConcatNothing
<1>11. Body(g, d) = Body(f, d) \o head
  <2>. DEFINE ss == [b \in Blocks(f) |-> BlockText(f, d, b)]
              tt == [b \in Blocks(g) |-> BlockText(g, d, b)]
  <2>1. Parts(ss) /\ Len(ss) = n
    BY TextIsLaid
  <2>2. Parts(tt) /\ Len(tt) = n + 1
    BY <1>3, <1>9, TextIsLaid
  <2>3. \A b \in 1..n : tt[b] = ss[b]
    BY <1>3, <1>4, <1>7
  <2>4. tt[n + 1] = head
    BY <1>3, <1>10
  <2>5. IsSequence(head)
    BY HeadsAreSequences
  <2>. HIDE DEF ss, tt, n
  <2>6. tt = Append(ss, head)
    <3>1. IsSequence(ss) /\ IsSequence(tt)
      BY <2>1, <2>2 DEF Parts
    <3>2. /\ IsSequence(Append(ss, head)) /\ Len(Append(ss, head)) = n + 1
          /\ \A b \in 1..n : Append(ss, head)[b] = ss[b]
          /\ Append(ss, head)[n + 1] = head
      BY <2>1, <3>1, AppendedElements
    <3>3. Len(tt) = Len(Append(ss, head)) /\ \A b \in 1..Len(tt) : tt[b] = Append(ss, head)[b]
      BY <1>4, <2>2, <2>3, <2>4, <3>2
    <3> QED BY <3>1, <3>2, <3>3, SameElements
  <2>7. FlattenSeq(tt) = FlattenSeq(ss) \o head
    BY <2>1, <2>5, <2>6, FlattenAppend
  <2> QED BY <2>7 DEF Body, ss, tt
<1> QED BY <1>3, <1>8, <1>9, <1>11 DEF Longer

-----------------------------------------------------------------------------
(* What is written is a text *)

LEMMA VocabularyIsSpelled == \A w \in Keywords \cup Marks : IsSpelling(w) /\ w \notin Numeric
<1>1. "" \notin {"fn", "native", "i64", "i32", "bool", "ptr"} \cup Names25
  BY Zenon DEF Names25
<1>2. "" \notin Marks
  BY Zenon DEF Marks
<1>3. "" \notin Keywords
  BY <1>1, NamesOfInstructions, Zenon DEF Keywords
<1>4. Native \notin Keywords \cup Marks
  BY NamesAssumption, Zenon
<1>5. Numeric \cap (Keywords \cup Marks) = {}
  BY Vocabulary, Zenon
<1> QED BY <1>2, <1>3, <1>4, <1>5, Zenon DEF IsSpelling

LEMMA TextJoined ==
    \A s, t : IsText(s) /\ IsText(t) => IsText(s \o t)
<1>. SUFFICES ASSUME NEW s, NEW t, IsText(s), IsText(t) PROVE IsText(s \o t)
  OBVIOUS
<1>1. /\ IsSequence(s \o t) /\ Len(s \o t) = Len(s) + Len(t)
      /\ \A i \in 1..Len(s) : (s \o t)[i] = s[i]
      /\ \A i \in 1..Len(t) : (s \o t)[Len(s) + i] = t[i]
  BY ConcatElements DEF IsText
<1>2. Len(s) \in Nat /\ Len(t) \in Nat
  BY SequenceElements DEF IsText
<1>. DEFINE u == s \o t
<1>3. ASSUME NEW p \in 1..Len(u)
      PROVE  IsLexeme(u[p])
  <2>1. CASE p \in 1..Len(s)
    BY <1>1, <2>1 DEF IsText
  <2>2. CASE p \notin 1..Len(s)
    <3>1. p - Len(s) \in 1..Len(t) /\ Len(s) + (p - Len(s)) = p
      BY <1>1, <1>2, <2>2
    <3>2. u[Len(s) + (p - Len(s))] = t[p - Len(s)]
      BY <1>1, <3>1
    <3> QED BY <3>1, <3>2 DEF IsText
  <2> QED BY <2>1, <2>2
<1> QED BY <1>1, <1>3 DEF IsText

LEMMA TextElements ==
    ASSUME NEW s, IsSequence(s)
    PROVE  IsText(s) <=> \A l \in ToSet(s) : IsLexeme(l)
BY SequenceElements DEF IsText

LEMMA TextFlattened ==
    ASSUME NEW ss, IsSequence(ss), \A k \in 1..Len(ss) : IsText(ss[k])
    PROVE  IsText(FlattenSeq(ss))
<1>1. Parts(ss)
  BY DEF Parts, IsText
<1>2. /\ IsSequence(FlattenSeq(ss))
      /\ ToSet(FlattenSeq(ss)) = UNION {ToSet(ss[b]) : b \in 1..Len(ss)}
  BY <1>1, FlattenElements
<1>3. \A b \in 1..Len(ss) : \A l \in ToSet(ss[b]) : IsLexeme(l)
  BY TextElements DEF IsText
<1> QED BY <1>2, <1>3, TextElements

LEMMA LexemeIsText ==
    ASSUME NEW l, IsLexeme(l)
    PROVE  IsText(<<l>>)
BY ShortSequences, TextElements

LEMMA LexemeParts ==
    ASSUME NEW w, NEW n, NEW h
    PROVE  /\ Lexeme(w, n, h).text = w /\ Lexeme(w, n, h).num = n /\ Lexeme(w, n, h).hex = h
BY DEF Lexeme

LEMMA NumbersAreSpelled == \A w \in Numeric : IsSpelling(w)
BY NamesAssumption, Zenon DEF Numeric, IsSpelling

LEMMA LexemesAre ==
    ASSUME NEW w, IsSpelling(w), NEW n \in Int, NEW h \in BOOLEAN,
           w \notin Numeric => n = 0 /\ h = FALSE
    PROVE  IsLexeme(Lexeme(w, n, h))
<1>. DEFINE l == Lexeme(w, n, h)
<1>1. l.text = w /\ l.num = n /\ l.hex = h
  BY LexemeParts
<1>2. w \notin Numeric => l = Word(w)
  BY DEF Word
<1>3. l = Lexeme(l.text, l.num, l.hex)
  BY <1>1
<1>. HIDE DEF l
<1>4. IsLexeme(l)
  BY <1>1, <1>2, <1>3 DEF IsLexeme
<1> QED BY <1>4 DEF l

LEMMA WordIsLexeme ==
    ASSUME NEW w, IsSpelling(w)
    PROVE  IsLexeme(Word(w))
<1>1. 0 \in Int /\ FALSE \in BOOLEAN /\ (w \notin Numeric => 0 = 0 /\ FALSE = FALSE)
  OBVIOUS
<1>3. IsLexeme(Lexeme(w, 0, FALSE))
  BY <1>1, LexemesAre, Zenon
<1>2. IsLexeme(Word(w))
  BY <1>3 DEF Word
<1> QED BY <1>2

LEMMA WordIsText ==
    ASSUME NEW w, IsSpelling(w)
    PROVE  IsText(<<Word(w)>>)
BY WordIsLexeme, LexemeIsText

LEMMA NumberIsText ==
    ASSUME NEW n \in Int
    PROVE  /\ IsText(<<Percent(n)>>) /\ IsText(<<Decimal(n)>>)
           /\ IsText(<<Hex(n)>>) /\ IsText(<<Bb(n)>>)
<1>1. \A w \in Numeric, m \in Int, h \in BOOLEAN : IsLexeme(Lexeme(w, m, h))
  BY NumbersAreSpelled, LexemesAre
<1>2. /\ IsLexeme(Percent(n)) /\ IsLexeme(Decimal(n)) /\ IsLexeme(Hex(n)) /\ IsLexeme(Bb(n))
  <2>1. "%" \in Numeric /\ "#" \in Numeric /\ "bb" \in Numeric /\ n - 1 \in Int
    BY DEF Numeric
  <2> QED BY <1>1, <2>1 DEF Percent, Decimal, Hex, Bb
<1> QED BY <1>2, LexemeIsText

LEMMA VocabularyIsText ==
    ASSUME NEW w \in Keywords \cup Marks
    PROVE  IsText(<<Word(w)>>)
BY VocabularyIsSpelled, WordIsText

LEMMA ListIsText ==
    ASSUME NEW items, IsSequence(items), \A k \in 1..Len(items) : IsText(items[k])
    PROVE  IsText(List(items))
<1>. DEFINE n == Len(items)
            ss == [k \in 1..n |-> IF k = 1 THEN items[k] ELSE <<Word(Comma)>> \o items[k]]
<1>1. n \in Nat
  BY SequenceElements
<1>2. List(items) = (<<Word("(")>> \o FlattenSeq(ss)) \o <<Word(")")>>
  BY Zenon DEF List, Comma
<1>3. IsText(<<Word("(")>>) /\ IsText(<<Word(")")>>) /\ IsText(<<Word(Comma)>>)
  BY VocabularyIsText, MarksAre
<1>4. IsSequence(ss) /\ Len(ss) = n
  BY <1>1, FunctionIsSequence
<1>5. \A k \in 1..n : ss[k] = items[k] \/ ss[k] = <<Word(Comma)>> \o items[k]
  OBVIOUS
<1>. HIDE DEF ss
<1>6. \A k \in 1..n : IsText(ss[k])
  BY <1>3, <1>5, TextJoined
<1>7. IsText(FlattenSeq(ss))
  BY <1>4, <1>6, TextFlattened
<1> QED BY <1>2, <1>3, <1>7, TextJoined

LEMMA IdsAreText ==
    ASSUME NEW ids, IsSequence(ids), \A k \in 1..Len(ids) : ids[k] \in Int
    PROVE  IsText(FmtParams(ids)) /\ IsText(FmtValues(ids))
<1>. DEFINE n == Len(ids)
            passed == [k \in 1..n |-> <<Percent(ids[k])>>]
            declared == [k \in 1..n |-> <<Word("i64"), Percent(ids[k])>>]
<1>1. n \in Nat
  BY SequenceElements
<1>2. IsText(<<Word("i64")>>)
  BY VocabularyIsText, Vocabulary
<1>3. IsText(List(passed))
  <2>1. IsSequence(passed) /\ Len(passed) = n
    BY <1>1, FunctionIsSequence
  <2>2. \A k \in 1..n : IsText(passed[k])
    BY NumberIsText
  <2>. HIDE DEF passed, n
  <2> QED BY <2>1, <2>2, ListIsText
<1>4. IsText(List(declared))
  <2>1. IsSequence(declared) /\ Len(declared) = n
    BY <1>1, FunctionIsSequence
  <2>2. ASSUME NEW k \in 1..n PROVE IsText(declared[k])
    <3>1. declared[k] = <<Word("i64")>> \o <<Percent(ids[k])>>
      OBVIOUS
    <3>2. IsText(<<Percent(ids[k])>>)
      BY NumberIsText
    <3>. HIDE DEF declared
    <3> QED BY <1>2, <3>1, <3>2, TextJoined
  <2>. HIDE DEF declared, n
  <2> QED BY <2>1, <2>2, ListIsText
<1> QED BY <1>3, <1>4, Zenon DEF FmtParams, FmtValues

LEMMA OperandsAreText ==
    ASSUME NEW ids, IsSequence(ids), \A k \in 1..Len(ids) : ids[k] \in Int
    PROVE  IsText(FmtOperands(ids))
<1>. DEFINE n == Len(ids)
            ss == [k \in 1..n |-> IF k = 1 THEN <<Percent(ids[k])>>
                                  ELSE <<Word(Comma), Percent(ids[k])>>]
<1>1. FmtOperands(ids) = FlattenSeq(ss)
  BY Zenon DEF FmtOperands, Comma
<1>2. n \in Nat
  BY SequenceElements
<1>3. IsSequence(ss) /\ Len(ss) = n
  BY <1>2, FunctionIsSequence
<1>4. IsText(<<Word(Comma)>>)
  BY VocabularyIsText, MarksAre
<1>5. ASSUME NEW k \in 1..n PROVE IsText(ss[k])
  <2>1. IsText(<<Percent(ids[k])>>)
    BY NumberIsText
  <2>2. \/ ss[k] = <<Percent(ids[k])>>
        \/ ss[k] = <<Word(Comma)>> \o <<Percent(ids[k])>>
    OBVIOUS
  <2>. HIDE DEF ss
  <2> QED BY <1>4, <2>1, <2>2, TextJoined
<1>. HIDE DEF ss, n
<1> QED BY <1>1, <1>3, <1>5, TextFlattened

LEMMA KindsAreSpelled ==
    /\ \A c \in Conditions \cup DOMAIN LoadKinds : IsText(<<Word(c)>>)
    /\ \A width, sign : fmt_load_kind(width, sign) \in DOMAIN LoadKinds
<1>1. \A c \in Conditions \cup DOMAIN LoadKinds : IsSpelling(c) /\ c \notin Numeric
  <2>1. "" \notin Conditions \cup {"i8", "i8s", "i16", "i16s", "i32", "i64"}
    BY Zenon DEF Conditions
  <2>2. Numeric \cap (Conditions \cup {"i8", "i8s", "i16", "i16s", "i32", "i64"}) = {}
    BY DEF Conditions, Numeric
  <2> QED BY <2>1, <2>2, KindsAre, NamesAssumption, Zenon DEF IsSpelling
<1>2. \A width, sign : fmt_load_kind(width, sign) \in {"i8", "i8s", "i16", "i16s", "i32", "i64"}
  BY DEF fmt_load_kind
<1> QED BY <1>1, <1>2, WordIsText, KindsAre

(* An instruction as the builder makes it. *)
IntIds(ids) == IsSequence(ids) /\ \A k \in 1..Len(ids) : ids[k] \in Int

IntEdge(e) == e.block \in Int /\ IntIds(e.args)

IntInst(inst) ==
    /\ inst.result \in Int /\ IntIds(inst.operands)
    /\ inst.callee = Native \/ IsSpelling(inst.callee)
    /\ inst.op \in {"jmp", "brif"} => IntEdge(inst.edges[1])
    /\ inst.op = "brif" => IntEdge(inst.edges[2])

LEMMA ClassOfShifts ==
    /\ \A n \in DOMAIN ClassOf : /\ n \in Shifts => ClassOf[n] = "unary"
                                 /\ ClassOf[n] \in {"const", "binary", "shift", "divide", "compare",
                                                    "unary", "convert", "call", "load", "store",
                                                    "brif", "jmp", "ret"}
BY DEF ClassOf, Shifts

LEMMA EdgeIsText ==
    ASSUME NEW e, IntEdge(e)
    PROVE  IsText(FmtEdge(e))
<1>1. IsText(<<Bb(e.block)>>) /\ IsText(FmtValues(e.args))
  BY NumberIsText, IdsAreText DEF IntEdge, IntIds
<1> QED BY <1>1, TextJoined DEF FmtEdge

LEMMA CommaDecimalIsText ==
    ASSUME NEW n \in Int
    PROVE  IsText(CommaDecimal(n)) /\ IsText(<<Word(Comma)>>)
<1>1. IsText(<<Word(Comma)>>) /\ IsText(<<Decimal(n)>>)
  BY VocabularyIsText, MarksAre, NumberIsText
<1>2. CommaDecimal(n) = <<Word(Comma)>> \o <<Decimal(n)>>
  BY DEF CommaDecimal
<1> QED BY <1>1, <1>2, TextJoined

LEMMA DottedIsText ==
    ASSUME NEW w \in Conditions \cup DOMAIN LoadKinds
    PROVE  IsText(Words(<<".", w>>))
<1>1. IsText(<<Word(".")>>) /\ IsText(<<Word(w)>>)
  BY VocabularyIsText, MarksAre, KindsAreSpelled
<1>2. Words(<<".", w>>) = <<Word(".")>> \o <<Word(w)>>
  BY WordsAre
<1> QED BY <1>1, <1>2, TextJoined

LEMMA TargetIsText ==
    ASSUME NEW callee, callee = Native \/ IsSpelling(callee), NEW n \in Int
    PROVE  IsText(FmtTarget(callee, n))
<1>1. IsText(<<Word("@")>>) /\ IsText(<<Word("native")>>) /\ IsText(<<Hex(n)>>)
  <2>1. "@" \in Keywords \cup Marks /\ "native" \in Keywords \cup Marks
    BY MarksAre, Vocabulary
  <2> QED BY <2>1, VocabularyIsText, NumberIsText
<1>2. Words(<<"native", "@">>) = <<Word("native")>> \o <<Word("@")>>
  BY WordsAre
<1>3. Words(<<"@", callee>>) = <<Word("@")>> \o <<Word(callee)>>
  BY WordsAre
<1>4. CASE callee = Native
  <2>1. FmtTarget(callee, n) = (<<Word("native")>> \o <<Word("@")>>) \o <<Hex(n)>>
    BY <1>2, <1>4 DEF FmtTarget
  <2> QED BY <1>1, <2>1, TextJoined
<1>5. CASE callee # Native
  <2>1. FmtTarget(callee, n) = <<Word("@")>> \o <<Word(callee)>>
    BY <1>3, <1>5 DEF FmtTarget
  <2>2. IsText(<<Word(callee)>>)
    BY <1>5, WordIsText
  <2> QED BY <1>1, <2>1, <2>2, TextJoined
<1> QED BY <1>4, <1>5

LEMMA RestIsText ==
    ASSUME NEW inst, NEW d, IntInst(inst), IsData(d), ClassOf[d.name] = inst.op
    PROVE  IsText(FmtRest(inst, d))
<1>1. d.name \in DOMAIN ClassOf /\ d.num \in Int
  BY DEF IsData
<1>2. d.name \in Shifts => inst.op = "unary"
  BY <1>1, ClassOfShifts
<1>3. /\ IsText(FmtOperands(inst.operands)) /\ IsText(FmtValues(inst.operands))
      /\ IsText(CommaDecimal(d.num)) /\ IsText(<<Word(Comma)>>) /\ IsText(<<Decimal(d.num)>>)
  BY <1>1, OperandsAreText, IdsAreText, CommaDecimalIsText, NumberIsText DEF IntInst, IntIds
<1>4. CASE inst.op = "const"
  <2>1. FmtRest(inst, d) = <<Decimal(d.num)>>
    BY <1>2, <1>4, RestByClass
  <2> QED BY <1>3, <2>1
<1>5. CASE inst.op = "compare"
  <2>1. FmtRest(inst, d) = Words(<<".", d.cond>>) \o FmtOperands(inst.operands)
    BY <1>2, <1>5, RestByClass
  <2>2. d.cond \in Conditions
    BY <1>2, <1>5 DEF IsData
  <2>3. IsText(Words(<<".", d.cond>>))
    BY <2>2, DottedIsText
  <2> QED BY <1>3, <2>1, <2>3, TextJoined
<1>6. CASE inst.op \in {"load", "store"}
  <2>1. \E sign : FmtRest(inst, d) = (Words(<<".", fmt_load_kind(d.width, sign)>>)
                                        \o FmtOperands(inst.operands)) \o CommaDecimal(d.num)
    <3>1. CASE inst.op = "load"
      BY <1>2, <3>1, RestByClass
    <3>2. CASE inst.op = "store"
      BY <1>2, <3>2, RestByClass
    <3> QED BY <1>6, <3>1, <3>2
  <2>2. PICK sign : FmtRest(inst, d) = (Words(<<".", fmt_load_kind(d.width, sign)>>)
                                          \o FmtOperands(inst.operands)) \o CommaDecimal(d.num)
    BY <2>1
  <2>3. IsText(Words(<<".", fmt_load_kind(d.width, sign)>>))
    BY KindsAreSpelled, DottedIsText
  <2> QED BY <1>3, <2>2, <2>3, TextJoined
<1>7. CASE inst.op = "unary" /\ d.name \in Shifts
  <2>1. FmtRest(inst, d) = FmtOperands(inst.operands) \o CommaDecimal(d.num)
    BY <1>7, RestByClass
  <2> QED BY <1>3, <2>1, TextJoined
<1>8. CASE inst.op \in {"unary", "convert", "binary", "shift", "divide", "ret"} /\ d.name \notin Shifts
  <2>1. FmtRest(inst, d) = FmtOperands(inst.operands)
    BY <1>8, RestByClass
  <2> QED BY <1>3, <2>1
<1>9. CASE inst.op = "call"
  <2>1. FmtRest(inst, d) = FmtTarget(inst.callee, d.num) \o FmtValues(inst.operands)
    BY <1>2, <1>9, RestByClass
  <2>2. IsText(FmtTarget(inst.callee, d.num))
    BY <1>1, TargetIsText DEF IntInst
  <2> QED BY <1>3, <2>1, <2>2, TextJoined
<1>10. CASE inst.op = "jmp"
  <2>1. FmtRest(inst, d) = FmtEdge(inst.edges[1])
    BY <1>2, <1>10, RestByClass
  <2>2. IntEdge(inst.edges[1])
    BY <1>10 DEF IntInst
  <2> QED BY <2>1, <2>2, EdgeIsText
<1>11. CASE inst.op = "brif"
  <2>1. FmtRest(inst, d) = (((FmtOperands(inst.operands) \o <<Word(Comma)>>) \o FmtEdge(inst.edges[1]))
                              \o <<Word(Comma)>>) \o FmtEdge(inst.edges[2])
    BY <1>2, <1>11, RestByClass
  <2>2. IsText(FmtEdge(inst.edges[1])) /\ IsText(FmtEdge(inst.edges[2]))
    BY <1>11, EdgeIsText DEF IntInst
  <2>3. IsText((FmtOperands(inst.operands) \o <<Word(Comma)>>) \o FmtEdge(inst.edges[1]))
    BY <1>3, <2>2, TextJoined
  <2> QED BY <1>3, <2>1, <2>2, <2>3, TextJoined
<1>12. inst.op \in {"const", "binary", "shift", "divide", "compare", "unary", "convert", "call",
                    "load", "store", "brif", "jmp", "ret"}
  BY <1>1, ClassOfShifts
<1> QED BY <1>2, <1>4, <1>5, <1>6, <1>7, <1>8, <1>9, <1>10, <1>11, <1>12

LEMMA InstIsText ==
    ASSUME NEW inst, NEW d, IntInst(inst), IsData(d), ClassOf[d.name] = inst.op
    PROVE  IsText(fmt_inst(inst, d))
<1>1. IsText(FmtRest(inst, d))
  BY RestIsText
<1>2. d.name \in Keywords /\ "=" \in Keywords \cup Marks
  BY MarksAre DEF IsData, Keywords
<1>3. IsText(<<Word(d.name)>>) /\ IsText(<<Word("=")>>) /\ IsText(<<Percent(inst.result)>>)
  BY <1>2, VocabularyIsText, NumberIsText DEF IntInst
<1>4. <<Percent(inst.result), Word("=")>> = <<Percent(inst.result)>> \o <<Word("=")>>
  OBVIOUS
<1>5. IsText(<<Word(d.name)>> \o FmtRest(inst, d))
  BY <1>1, <1>3, TextJoined
<1>6. \/ fmt_inst(inst, d) = <<Word(d.name)>> \o FmtRest(inst, d)
      \/ fmt_inst(inst, d) = <<Percent(inst.result), Word("=")>> \o (<<Word(d.name)>> \o FmtRest(inst, d))
  BY <1>1, FmtInstIs DEF IsText
<1>7. IsText(<<Percent(inst.result), Word("=")>>)
  BY <1>3, <1>4, TextJoined
<1> QED BY <1>5, <1>6, <1>7, TextJoined

LEMMA ThreeAreText ==
    ASSUME NEW a, NEW b, NEW c, IsLexeme(Word(a)), IsLexeme(Word(b)), IsLexeme(Word(c))
    PROVE  IsText(Words(<<a, b, c>>))
<1>. DEFINE s == Words(<<a, b, c>>)
<1>1. DOMAIN s = 1..3 /\ s[1] = Word(a) /\ s[2] = Word(b) /\ s[3] = Word(c)
  BY DEF Words
<1>2. IsSequence(s)
  BY ThreeWords
<1>. HIDE DEF s
<1>3. \A l \in ToSet(s) : IsLexeme(l)
  BY <1>1 DEF ToSet
<1>4. IsText(s)
  BY <1>2, <1>3, TextElements
<1> QED BY <1>4 DEF s

(* A function whose text can be put together, and is a text. *)
LEMMA FunctionIsText ==
    ASSUME NEW n, IsSpelling(n), NEW f, NEW d, Laid(f, d), \A s \in Pieces(f, d) : IsText(s)
    PROVE  IsText(fmt_function(Named(n, f, d)))
<1>1. ASSUME NEW b \in Blocks(f)
      PROVE  IsText(BlockText(f, d, b))
  <2>1. Parts(Lines(f, d, b)) /\ Len(Lines(f, d, b)) = Len(Instructions(f, b))
    BY TextIsLaid
  <2>2. \A i \in 1..Len(Lines(f, d, b)) : IsText(Lines(f, d, b)[i])
    BY <2>1, PiecesAre
  <2>3. IsText(FlattenSeq(Lines(f, d, b)))
    BY <2>1, <2>2, TextFlattened DEF Parts
  <2>4. IsText(FmtParams(Params(f, b)))
    BY PiecesAre
  <2>5. IsText(<<Bb(b)>>) /\ IsText(<<Word(":")>>)
    <3>1. b \in Int /\ ":" \in Keywords \cup Marks
      BY MarksAre DEF Blocks
    <3>2. IsText(<<Bb(b)>>)
      BY <3>1, NumberIsText
    <3> QED BY <3>1, <3>2, VocabularyIsText
  <2> QED BY <2>3, <2>4, <2>5, TextJoined DEF BlockText, BlockHead
<1>2. IsText(Body(f, d))
  <2>. DEFINE ss == [b \in Blocks(f) |-> BlockText(f, d, b)]
  <2>1. IsSequence(ss) /\ Len(ss) = Len(f.blocks)
    BY TextIsLaid DEF Parts
  <2>2. \A b \in 1..Len(f.blocks) : IsText(ss[b])
    BY <1>1 DEF Blocks
  <2>. HIDE DEF ss
  <2>3. IsText(FlattenSeq(ss))
    BY <2>1, <2>2, TextFlattened
  <2> QED BY <2>3 DEF Body, ss
<1>3. IsText(FmtParams(f.args))
  BY PiecesAre
<1>4. IsText(Words(<<"fn", "@", n>>)) /\ IsText(Words(<<"->", "i64", Opens>>)) /\ IsText(<<Word(Closes)>>)
  <2>1. /\ "fn" \in Keywords \cup Marks /\ "i64" \in Keywords \cup Marks
        /\ "@" \in Keywords \cup Marks /\ "->" \in Keywords \cup Marks
        /\ Opens \in Keywords \cup Marks /\ Closes \in Keywords \cup Marks
    BY MarksAre, Vocabulary
  <2>2. /\ IsLexeme(Word("fn")) /\ IsLexeme(Word("@")) /\ IsLexeme(Word(n))
        /\ IsLexeme(Word("->")) /\ IsLexeme(Word("i64")) /\ IsLexeme(Word(Opens))
    BY <2>1, VocabularyIsSpelled, WordIsLexeme
  <2>3. IsText(<<Word(Closes)>>)
    BY <2>1, VocabularyIsText
  <2>4. IsText(Words(<<"fn", "@", n>>))
    BY <2>2, ThreeAreText
  <2>5. IsText(Words(<<"->", "i64", Opens>>))
    BY <2>2, ThreeAreText
  <2> QED BY <2>3, <2>4, <2>5
<1>5. IsText(FunctionHead(n, f))
  BY <1>3, <1>4, TextJoined DEF FunctionHead
<1>6. fmt_function(Named(n, f, d)) = (FunctionHead(n, f) \o Body(f, d)) \o <<Word(Closes)>>
  BY FunctionIs
<1> QED BY <1>2, <1>4, <1>5, <1>6, TextJoined

LEMMA IdsAreInts ==
    ASSUME NEW id \in Nat, NEW n \in Nat
    PROVE  /\ IsSequence(Ids(id, n)) /\ Len(Ids(id, n)) = n
           /\ \A k \in 1..Len(Ids(id, n)) : Ids(id, n)[k] \in Int
           /\ IsText(FmtParams(Ids(id, n)))
<1>1. IsSequence(Ids(id, n)) /\ Len(Ids(id, n)) = n /\ \A k \in 1..n : Ids(id, n)[k] \in Int
  BY FunctionIsSequence DEF Ids
<1> QED BY <1>1, IdsAreText

LEMMA NoParams == IsText(FmtParams(<<>>)) /\ IsSequence(FmtParams(<<>>))
<1>1. IsSequence(<<>>) /\ Len(<<>>) = 0
  BY EmptySequence
<1>2. \A k \in 1..Len(<<>>) : <<>>[k] \in Int
  BY <1>1
<1> QED BY <1>1, <1>2, IdsAreText DEF IsText

LEMMA TextOfCreated ==
    ASSUME NEW n \in Nat, NEW f, f = CreateFunction(n)
    PROVE  /\ Laid(f, <<>>) /\ f.args = Ids(0, n) /\ f.blocks = <<Block(<<>>, <<>>)>>
           /\ Body(f, <<>>) = BlockHead(1, <<>>)
           /\ \A s \in Pieces(f, <<>>) : IsText(s)
<1>1. /\ f.args = Ids(0, n) /\ f.blocks = <<Block(<<>>, <<>>)>>
  BY DEF CreateFunction, Function
<1>2. Len(f.blocks) = 1 /\ f.blocks[1] = Block(<<>>, <<>>)
  BY <1>1
<1>3. Blocks(f) = {1} /\ Params(f, 1) = <<>> /\ Instructions(f, 1) = <<>>
  BY <1>2 DEF Blocks, Params, Instructions, Block
<1>4. Total(f)
  BY FunctionCreated DEF Numbering, Closed
<1>5. Aligned(f, <<>>)
  <2>1. Before(f, 1) = 0 /\ Before(f, 1 + 1) = Before(f, 1) + Len(Instructions(f, 1))
    BY <1>3, <1>4, Counted
  <2>2. Before(f, 1 + 1) = 0
    BY <1>3, <2>1, EmptySequence
  <2> QED BY <1>2, <1>4, <2>2, EmptySequence DEF Aligned
<1>6. \A i \in 1..Len(Instructions(f, 1)) : FALSE
  BY <1>3, EmptySequence
<1>7. \A s \in Pieces(f, <<>>) : IsText(s)
  <2>. SUFFICES ASSUME NEW s \in Pieces(f, <<>>) PROVE IsText(s)
    OBVIOUS
  <2>1. IsText(FmtParams(f.args))
    BY <1>1, IdsAreInts
  <2>2. \/ s = FmtParams(f.args)
        \/ \E b \in Blocks(f) :
             \/ s = FmtParams(Params(f, b))
             \/ \E i \in 1..Len(Instructions(f, b)) : s = Lines(f, <<>>, b)[i]
    BY PiecesAre
  <2>3. s = FmtParams(f.args) \/ s = FmtParams(<<>>)
    BY <1>3, <1>6, <2>2
  <2> QED BY <2>1, <2>3, NoParams
<1>8. Laid(f, <<>>)
  BY <1>5, <1>7 DEF Laid, IsText
<1>9. Body(f, <<>>) = BlockHead(1, <<>>)
  <2>. DEFINE ss == [b \in Blocks(f) |-> BlockText(f, <<>>, b)]
  <2>1. Lines(f, <<>>, 1) = <<>>
    <3>1. 1..Len(Instructions(f, 1)) = {}
      BY <1>6
    <3> QED BY <3>1 DEF Lines
  <2>2. FlattenSeq(<<>>) = <<>>
    BY EmptySequence, JoinedNone
  <2>3. IsSequence(BlockHead(1, <<>>))
    BY NoParams, HeadsAreSequences
  <2>4. BlockText(f, <<>>, 1) = BlockHead(1, <<>>) \o <<>>
    BY <1>3, <2>1, <2>2 DEF BlockText
  <2>5. BlockText(f, <<>>, 1) = BlockHead(1, <<>>)
    BY <2>3, <2>4, ConcatNothing
  <2>6. Parts(ss) /\ Len(ss) = 1
    BY <1>2, <1>8, TextIsLaid
  <2>7. ss[1] = BlockHead(1, <<>>)
    BY <1>3, <2>5
  <2>. HIDE DEF ss
  <2>8. FlattenSeq(ss) = BlockHead(1, <<>>)
    BY <2>3, <2>6, <2>7, FlattenFew DEF Parts
  <2> QED BY <2>8 DEF Body, ss
<1> QED BY <1>1, <1>7, <1>8, <1>9

-----------------------------------------------------------------------------
(* What is built can be written *)

Unnamed == name = ""

WriterInv ==
    phase = "building" =>
      /\ \A k \in 1..Len(functions) : IsText(fmt_function(functions[k]))
      /\ Unnamed => data = <<>>
      /\ ~Unnamed => /\ IsSpelling(name) /\ Laid(func, data)
                      /\ \A s \in Pieces(func, data) : IsText(s)

LEMMA IntIdsAre ==
    ASSUME NEW ids, IsSequence(ids)
    PROVE  IntIds(ids) <=> ToSet(ids) \subseteq Int
BY SequenceElements DEF IntIds

LEMMA ListsAreInts ==
    ASSUME func.types \in Nat, NEW max \in Nat, NEW ids \in Lists(max)
    PROVE  IntIds(ids)
<1>1. PICK n \in 0..max : ids \in [1..n -> Nameable]
  BY DEF Lists
<1>2. n \in Nat /\ ids = [k \in 1..n |-> ids[k]] /\ Len(ids) = n
  BY <1>1
<1>3. IsSequence(ids)
  BY <1>2, FunctionIsSequence
<1>4. \A k \in 1..n : ids[k] \in Nameable
  BY <1>1
<1>5. Nameable \subseteq Int
  BY BoundAssumption DEF Nameable
<1> QED BY <1>2, <1>3, <1>4, <1>5 DEF IntIds

LEMMA OperandsAreInts ==
    ASSUME func.types \in Nat, NEW op, NEW operands \in Operands(op)
    PROVE  IntIds(operands)
<1>1. Nameable \subseteq Int
  BY BoundAssumption DEF Nameable
<1>2. \/ operands = <<>>
      \/ \E v \in Nameable : operands = <<v>>
      \/ operands \in Lists(MaxParams)
      \/ operands \in Nameable \X Nameable
  BY DEF Operands
<1>3. CASE operands = <<>>
  <2>1. IsSequence(<<>>) /\ ToSet(<<>>) = {}
    BY EmptySequence, SequenceElements
  <2> QED BY <1>3, <2>1, IntIdsAre
<1>4. CASE \E v \in Nameable : operands = <<v>>
  <2>1. PICK v \in Nameable : operands = <<v>>
    BY <1>4
  <2>2. IsSequence(operands) /\ ToSet(operands) = {v}
    BY <2>1, ShortSequences
  <2> QED BY <1>1, <2>2, IntIdsAre
<1>5. CASE operands \in Lists(MaxParams)
  BY <1>5, BoundAssumption, ListsAreInts
<1>6. CASE operands \in Nameable \X Nameable
  <2>1. \E v, w \in Nameable : operands = <<v, w>>
    BY <1>6
  <2>2. PICK v \in Nameable, w \in Nameable : operands = <<v, w>>
    BY <2>1
  <2>3. IsSequence(operands) /\ ToSet(operands) = {v, w}
    BY <2>2, ShortSequences
  <2> QED BY <1>1, <2>3, IntIdsAre
<1> QED BY <1>2, <1>3, <1>4, <1>5, <1>6

LEMMA EdgesAreInts ==
    ASSUME func.types \in Nat, NEW op \in Terminators, NEW edges \in EdgesOf(op)
    PROVE  /\ op \in {"jmp", "brif"} => IntEdge(edges[1])
           /\ op = "brif" => IntEdge(edges[2])
<1>1. ASSUME NEW max \in Nat, NEW e \in Edges(max)
      PROVE  IntEdge(e)
  <2>1. PICK b \in 1..(MaxBlocks + Ahead), args \in Lists(max) : e = Edge(b, args)
    BY DEF Edges
  <2>2. e.block = b /\ e.args = args
    BY <2>1 DEF Edge
  <2>3. b \in Int
    BY BoundAssumption
  <2> QED BY <2>2, <2>3, ListsAreInts DEF IntEdge
<1>2. MaxParams \in Nat /\ MaxBranchArgs \in Nat
  BY BoundAssumption
<1>3. ASSUME op = "jmp"
      PROVE  IntEdge(edges[1])
  <2>1. PICK e \in Edges(MaxParams) : edges = <<e>>
    BY <1>3 DEF EdgesOf
  <2> QED BY <1>1, <1>2, <2>1
<1>4. ASSUME op = "brif"
      PROVE  IntEdge(edges[1]) /\ IntEdge(edges[2])
  <2>1. edges \in Edges(MaxBranchArgs) \X Edges(MaxBranchArgs)
    BY <1>4 DEF EdgesOf
  <2>2. edges[1] \in Edges(MaxBranchArgs) /\ edges[2] \in Edges(MaxBranchArgs)
    BY <2>1
  <2> QED BY <1>1, <1>2, <2>2
<1> QED BY <1>3, <1>4

(* What the builder appends. *)
Made(inst) ==
    /\ IntInst(inst)
    /\ \E t \in Nat : func' = Grown(func, inst, t)

LEMMA CalleesAreSpelled == \A c \in Callee : c = Native \/ IsSpelling(c)
BY NamesAssumption, Zenon DEF IsSpelling

LEMMA InstIsInt ==
    ASSUME NEW op, NEW r \in Int, NEW operands, NEW edges, NEW callee, IntIds(operands),
           callee = Native \/ IsSpelling(callee),
           op \in {"jmp", "brif"} => IntEdge(edges[1]), op = "brif" => IntEdge(edges[2]),
           NEW inst, inst = Inst(op, r, operands, edges, callee)
    PROVE  IntInst(inst)
BY DEF IntInst, Inst

LEMMA ResultIsMade ==
    ASSUME Total(func), NEW op, op \notin {"jmp", "brif"}, NEW operands \in Operands(op),
           NEW callee \in Callee, AppendResult(op, operands, callee)
    PROVE  \E inst : Made(inst)
<1>. DEFINE inst == Inst(op, func.types, operands, <<>>, callee)
<1>1. func.types \in Nat /\ func.types + 1 \in Nat /\ func.types \in Int
  BY DEF Total
<1>2. IntInst(inst)
  <2>1. IntIds(operands)
    BY <1>1, OperandsAreInts
  <2> QED BY <1>1, <2>1, CalleesAreSpelled, InstIsInt
<1>3. func' = [AppendInst(func, inst) EXCEPT !.types = @ + 1]
  BY DEF AppendResult
<1>. HIDE DEF inst
<1>4. func' = Grown(func, inst, func.types + 1)
  BY <1>3, AppendedIsGrown
<1> QED BY <1>1, <1>2, <1>4 DEF Made

LEMMA EffectIsMade ==
    ASSUME Total(func), NEW op, NEW operands \in Operands(op), NEW edges,
           op \in {"jmp", "brif"} => IntEdge(edges[1]), op = "brif" => IntEdge(edges[2]),
           func' = AppendInst(func, Inst(op, NoResult, operands, edges, Native))
    PROVE  \E inst : Made(inst)
<1>. DEFINE inst == Inst(op, NoResult, operands, edges, Native)
<1>1. func.types \in Nat /\ NoResult \in Int
  BY DEF Total, NoResult
<1>2. IntInst(inst)
  <2>1. IntIds(operands)
    BY <1>1, OperandsAreInts
  <2> QED BY <1>1, <2>1, InstIsInt
<1>3. func' = AppendInst(func, inst)
  OBVIOUS
<1>. HIDE DEF inst
<1>4. func' = Grown(func, inst, func.types)
  BY <1>3, AppendedIsGrown
<1> QED BY <1>1, <1>2, <1>4 DEF Made

LEMMA InstIsMade ==
    ASSUME Total(func), Emit \/ Load \/ Store \/ EmitTerm
    PROVE  \E inst : Made(inst)
<1>1. CASE Emit
  <2>1. PICK op \in Classes \cap Emitted :
          \E operands \in Operands(op), callee \in (IF op = "call" THEN Callee ELSE {Native}) :
             AppendResult(op, operands, callee)
    BY <1>1 DEF Emit
  <2>2. PICK operands \in Operands(op), callee \in (IF op = "call" THEN Callee ELSE {Native}) :
          AppendResult(op, operands, callee)
    BY <2>1
  <2>3. op \notin {"jmp", "brif"} /\ callee \in Callee
    BY CalleeAssumption DEF Emitted
  <2> QED BY <2>2, <2>3, ResultIsMade
<1>2. CASE Load
  <2>1. PICK operands \in Operands("load") : AppendResult("load", operands, Native)
    BY <1>2 DEF Load
  <2> QED BY <2>1, CalleeAssumption, ResultIsMade
<1>3. CASE Store
  <2>1. PICK operands \in Operands("store") :
          func' = AppendInst(func, Inst("store", NoResult, operands, <<>>, Native))
    BY <1>3 DEF Store
  <2> QED BY <2>1, EffectIsMade
<1>4. CASE EmitTerm
  <2>1. PICK op \in Classes \cap Terminators : \E operands \in Operands(op), edges \in EdgesOf(op) :
          func' = AppendInst(func, Inst(op, NoResult, operands, edges, Native))
    BY <1>4 DEF EmitTerm
  <2>2. PICK operands \in Operands(op), edges \in EdgesOf(op) :
          func' = AppendInst(func, Inst(op, NoResult, operands, edges, Native))
    BY <2>1
  <2>3. func.types \in Nat
    BY DEF Total
  <2>4. (op \in {"jmp", "brif"} => IntEdge(edges[1])) /\ (op = "brif" => IntEdge(edges[2]))
    BY <2>3, EdgesAreInts
  <2> QED BY <2>2, <2>4, EffectIsMade
<1> QED BY <1>1, <1>2, <1>3, <1>4

(* The last instruction of the last block. *)
LEMMA LastIsAppended ==
    ASSUME NEW f, Total(f), NEW inst, NEW t \in Nat, NEW g, g = Grown(f, inst, t)
    PROVE  Last(Last(g.blocks).instructions) = inst
<1>. DEFINE n == Len(f.blocks)
<1>1. /\ Total(g) /\ Blocks(g) = Blocks(f)
      /\ \A b \in Blocks(f) : Instructions(g, b) = IF b = n THEN Append(Instructions(f, b), inst)
                                                   ELSE Instructions(f, b)
  BY Growing
<1>2. n \in Nat /\ Blocks(f) = 1..n /\ n \in 1..n
  BY SequenceElements, EmptySequence DEF Total, IsSequence, Blocks
<1>3. Len(g.blocks) = n
  <2>1. Len(g.blocks) \in Nat
    BY <1>1, SequenceElements DEF Total
  <2>2. 1..Len(g.blocks) = 1..n
    BY <1>1, <1>2 DEF Blocks
  <2>. HIDE DEF n
  <2> QED BY <1>2, <2>1, <2>2
<1>4. Last(g.blocks).instructions = Append(Instructions(f, n), inst)
  <2>1. Last(g.blocks) = g.blocks[n]
    BY <1>3 DEF Last
  <2>2. Instructions(g, n) = Append(Instructions(f, n), inst)
    BY <1>1, <1>2
  <2> QED BY <2>1, <2>2 DEF Instructions
<1>5. IsSequence(Instructions(f, n))
  BY <1>2 DEF Total
<1>. HIDE DEF n
<1> QED BY <1>4, <1>5, AppendedElements DEF Last

LEMMA WriterBegins ==
    ASSUME WriterInv, BeginFunction
    PROVE  WriterInv'
<1>1. /\ phase = "building" /\ Unnamed /\ UNCHANGED <<data, functions, phase>>
      /\ name' \in FunctionNames
  BY Zenon DEF BeginFunction, Building, Unnamed
<1>2. PICK n \in 0..MaxArgs : func' = CreateFunction(n)
  BY Zenon DEF BeginFunction
<1>3. data = <<>> /\ \A k \in 1..Len(functions) : IsText(fmt_function(functions[k]))
  BY <1>1 DEF WriterInv
<1>4. n \in Nat
  BY BoundAssumption
<1>5. Laid(func', <<>>) /\ \A s \in Pieces(func', <<>>) : IsText(s)
  BY <1>2, <1>4, TextOfCreated
<1>6. IsSpelling(name')
  BY <1>1, NamesAssumption, Zenon DEF IsSpelling
<1>7. ~Unnamed'
  BY <1>6, Zenon DEF IsSpelling, Unnamed
<1>8. data' = <<>> /\ functions' = functions
  BY <1>1, <1>3
<1> QED BY <1>3, <1>5, <1>6, <1>7, <1>8 DEF WriterInv

LEMMA WriterAddsBlock ==
    ASSUME WriterInv, AddBlock
    PROVE  WriterInv'
<1>1. phase = "building" /\ ~Unnamed /\ UNCHANGED <<name, data, functions, phase>>
  BY Zenon DEF AddBlock, Building, Unnamed
<1>0. CreateBlock
  BY Zenon DEF AddBlock
<1>2. PICK n \in 0..MaxParams :
        func' = [func EXCEPT !.blocks = Append(@, Block(Ids(func.types, n), <<>>)),
                             !.types  = @ + n]
  BY <1>0, Zenon DEF CreateBlock
<1>3. /\ \A k \in 1..Len(functions) : IsText(fmt_function(functions[k]))
      /\ IsSpelling(name) /\ Laid(func, data) /\ \A s \in Pieces(func, data) : IsText(s)
  BY <1>1 DEF WriterInv
<1>4. Total(func) /\ func.types \in Nat /\ n \in Nat /\ func.types + n \in Nat
  BY <1>3, BoundAssumption DEF Laid, Aligned, Total
<1>5. func' = Widened(func, Ids(func.types, n), func.types + n)
  BY <1>2, <1>4 DEF Widened, Total, Function
<1>6. IsText(FmtParams(Ids(func.types, n)))
  BY <1>4, IdsAreInts
<1>7. Laid(func', data) /\ Pieces(func', data) \subseteq Pieces(func, data) \cup {FmtParams(Ids(func.types, n))}
  <2>1. PICK head : head = BlockHead(Len(func.blocks) + 1, Ids(func.types, n))
    OBVIOUS
  <2>2. Longer(func, data, func', data, head, FmtParams(Ids(func.types, n)))
    BY <1>3, <1>4, <1>5, <1>6, <2>1, TextWidens DEF IsText
  <2> QED BY <2>2 DEF Longer
<1>8. name' = name /\ data' = data /\ functions' = functions /\ phase' = phase
  BY <1>1
<1>9. Unnamed' = Unnamed
  BY <1>8, Zenon DEF Unnamed
<1>10. ~Unnamed
  BY <1>1
<1> QED BY <1>3, <1>6, <1>7, <1>8, <1>9, <1>10 DEF WriterInv

LEMMA WriterAddsInstruction ==
    ASSUME WriterInv, AddInstruction
    PROVE  WriterInv'
<1>1. phase = "building" /\ ~Unnamed /\ UNCHANGED <<name, functions, phase>>
      /\ (Emit \/ Load \/ Store \/ EmitTerm)
  BY Zenon DEF AddInstruction, Building, Unnamed
<1>2. PICK d \in Details : Describes(d, Last(Last(func'.blocks).instructions)) /\ data' = Append(data, d)
  BY Zenon DEF AddInstruction
<1>3. /\ \A k \in 1..Len(functions) : IsText(fmt_function(functions[k]))
      /\ IsSpelling(name) /\ Laid(func, data) /\ \A s \in Pieces(func, data) : IsText(s)
  BY <1>1 DEF WriterInv
<1>4. Total(func)
  BY <1>3 DEF Laid, Aligned
<1>5. PICK inst : Made(inst)
  BY <1>1, <1>4, InstIsMade
<1>6. IntInst(inst) /\ \E t \in Nat : func' = Grown(func, inst, t)
  BY <1>5 DEF Made
<1>7. PICK t \in Nat : func' = Grown(func, inst, t)
  BY <1>6
<1>8. Last(Last(func'.blocks).instructions) = inst
  BY <1>4, <1>7, LastIsAppended
<1>9. ClassOf[d.name] = inst.op
  BY <1>2, <1>8 DEF Describes
<1>10. IsData(d)
  BY DetailsAssumption
<1>11. IsText(fmt_inst(inst, d))
  BY <1>6, <1>9, <1>10, InstIsText
<1>12. Laid(func', data') /\ Pieces(func', data') \subseteq Pieces(func, data) \cup {fmt_inst(inst, d)}
  <2>1. Longer(func, data, func', data', fmt_inst(inst, d), fmt_inst(inst, d))
    BY <1>2, <1>3, <1>7, <1>11, TextGrows DEF IsText
  <2> QED BY <2>1 DEF Longer
<1>13. name' = name /\ functions' = functions /\ phase' = phase
  BY <1>1
<1>14. Unnamed' = Unnamed
  BY <1>13, Zenon DEF Unnamed
<1>15. ~Unnamed
  BY <1>1
<1> QED BY <1>3, <1>11, <1>12, <1>13, <1>14, <1>15 DEF WriterInv

LEMMA WriterFinishes ==
    ASSUME WriterInv, IsSequence(functions), FinishFunction
    PROVE  WriterInv'
<1>1. /\ phase = "building" /\ ~Unnamed /\ UNCHANGED phase
      /\ functions' = Append(functions, Named(name, func, data))
      /\ Unnamed' /\ data' = <<>>
  BY Zenon DEF FinishFunction, Building, Unnamed
<1>2. /\ \A k \in 1..Len(functions) : IsText(fmt_function(functions[k]))
      /\ IsSpelling(name) /\ Laid(func, data) /\ \A s \in Pieces(func, data) : IsText(s)
  BY <1>1 DEF WriterInv
<1>3. IsText(fmt_function(Named(name, func, data)))
  BY <1>2, FunctionIsText
<1>4. PICK fn : fn = Named(name, func, data)
  OBVIOUS
<1>5. /\ Len(functions') = Len(functions) + 1 /\ functions'[Len(functions) + 1] = fn
      /\ \A k \in 1..Len(functions) : functions'[k] = functions[k]
      /\ Len(functions) \in Nat
  BY <1>1, <1>4, AppendedElements, SequenceElements
<1>6. \A k \in 1..Len(functions') : IsText(fmt_function(functions'[k]))
  BY <1>2, <1>3, <1>4, <1>5
<1> QED BY <1>1, <1>6 DEF WriterInv

LEMMA WriterKeeps ==
    ASSUME WriterInv, IsSequence(functions), [PathNext]_vars
    PROVE  WriterInv'
<1>1. CASE BeginFunction \/ AddBlock \/ AddInstruction \/ FinishFunction
  BY <1>1, WriterBegins, WriterAddsBlock, WriterAddsInstruction, WriterFinishes
<1>2. CASE Write \/ WriteAndEdit
  <2>1. phase' = "parsing"
    BY <1>2, Zenon DEF Write, WriteAndEdit, Parse
  <2> QED BY <2>1 DEF WriterInv
<1>3. CASE Read
  <2>1. phase = "parsing" /\ phase' \in {phase, "parsed", "refused"}
    BY <1>3, Zenon DEF Read, ParserStep, ParseFunction, ParseBlock, ParseEffect, ParseResult, EndFunction,
         EndModule, Refuse, InBlock, Inside, Parsing
  <2> QED BY <2>1 DEF WriterInv
<1>4. CASE Compile \/ Generate \/ UNCHANGED vars
  <2>1. UNCHANGED <<phase, name, func, data, functions>>
    BY <1>4 DEF Compile, Generate, vars, parser
  <2>2. Unnamed' = Unnamed
    BY <2>1, Zenon DEF Unnamed
  <2> QED BY <2>1, <2>2 DEF WriterInv
<1> QED BY <1>1, <1>2, <1>3, <1>4 DEF PathNext

-----------------------------------------------------------------------------
(* What is edited *)

LEMMA ModuleIsText ==
    ASSUME NEW mod, IsSequence(mod), \A k \in 1..Len(mod) : IsText(fmt_function(mod[k]))
    PROVE  IsText(fmt_module(mod))
<1>. DEFINE ss == [k \in 1..Len(mod) |-> fmt_function(mod[k])]
<1>1. IsSequence(ss) /\ Len(ss) = Len(mod)
  BY SequenceElements, FunctionIsSequence
<1>2. \A k \in 1..Len(ss) : IsText(ss[k])
  BY <1>1
<1>. HIDE DEF ss
<1>3. IsText(FlattenSeq(ss))
  BY <1>1, <1>2, TextFlattened
<1> QED BY <1>3 DEF fmt_module, ss

LEMMA PrefixIsText ==
    ASSUME NEW t, IsText(t), NEW n \in 0..Len(t)
    PROVE  IsText(SubSeq(t, 1, n))
<1>1. Len(t) \in Nat
  BY SequenceElements DEF IsText
<1>2. /\ IsSequence(SubSeq(t, 1, n)) /\ Len(SubSeq(t, 1, n)) = n
      /\ \A i \in 1..n : SubSeq(t, 1, n)[i] = t[i]
  BY PrefixElements DEF IsText
<1> QED BY <1>1, <1>2 DEF IsText

LEMMA SuffixIsText ==
    ASSUME NEW t, IsText(t), NEW m \in Nat \ {0}
    PROVE  IsText(SubSeq(t, m, Len(t)))
<1>. DEFINE n == Len(t)
            u == SubSeq(t, m, n)
<1>1. n \in Nat /\ t \in Seq(ToSet(t))
  BY SequenceElements DEF IsText, IsSequence
<1>2. CASE m <= n
  <2>1. u \in Seq(ToSet(t)) /\ Len(u) = n - m + 1 /\ \A i \in 1..(n - m + 1) : u[i] = t[m + i - 1]
    BY <1>1, <1>2, SubSeqProperties
  <2>2. IsSequence(u)
    <3>. HIDE DEF u
    <3>1. u \in Seq(ToSet(t))
      BY <2>1
    <3>2. u = [i \in 1..Len(u) |-> u[i]] /\ Len(u) \in Nat
      BY <3>1
    <3> QED BY <3>2, FunctionIsSequence
  <2>. HIDE DEF u, n
  <2>3. \A i \in 1..(n - m + 1) : m + i - 1 \in 1..n
    BY <1>1, <1>2
  <2>4. IsText(u)
    BY <2>1, <2>2, <2>3 DEF IsText, n
  <2> QED BY <2>4 DEF u, n
<1>3. CASE m > n
  <2>1. u = <<>>
    BY <1>1, <1>3
  <2> QED BY <2>1, EmptySequence DEF IsText
<1> QED BY <1>1, <1>2, <1>3

LEMMA EditedIsText ==
    ASSUME NEW t, IsText(t), NEW e \in Edits(t)
    PROVE  IsText(e)
<1>1. PICK p \in 1..Len(t) :
        \/ \E n \in 1..MaxCut : e = Cut(t, p, n)
        \/ e = Doubled(t, p)
        \/ \E l \in Replacements : e = Replaced(t, p, l)
  BY DEF Edits
<1>2. Len(t) \in Nat /\ p \in 0..Len(t) /\ p - 1 \in 0..Len(t) /\ p \in Nat \ {0}
  BY SequenceElements DEF IsText
<1>3. ASSUME NEW n \in 1..MaxCut, e = Cut(t, p, n)
      PROVE  IsText(e)
  <2>1. p + n \in Nat \ {0}
    BY <1>2
  <2> QED BY <1>2, <1>3, <2>1, PrefixIsText, SuffixIsText, TextJoined DEF Cut
<1>4. ASSUME e = Doubled(t, p)
      PROVE  IsText(e)
  BY <1>2, <1>4, PrefixIsText, SuffixIsText, TextJoined DEF Doubled
<1>5. ASSUME NEW l \in Replacements, e = Replaced(t, p, l)
      PROVE  IsText(e)
  <2>1. DOMAIN t = 1..Len(t)
    BY SequenceElements DEF IsText
  <2>2. e = [k \in 1..Len(t) |-> IF k = p THEN l ELSE t[k]]
    BY <1>5, <2>1 DEF Replaced
  <2>3. IsSequence(e) /\ Len(e) = Len(t)
    BY <1>2, <2>2, FunctionIsSequence
  <2>4. \A k \in 1..Len(e) : IsLexeme(e[k])
    BY <2>2, <2>3, ReplacementsAssumption DEF IsText
  <2> QED BY <2>3, <2>4 DEF IsText
<1> QED BY <1>1, <1>3, <1>4, <1>5

LEMMA WrittenIsText ==
    ASSUME WriterInv, IsSequence(functions), Write \/ WriteAndEdit
    PROVE  IsText(text') /\ phase' = "parsing"
<1>1. phase = "building"
  BY Zenon DEF Write, WriteAndEdit, Built, Building
<1>2. IsText(fmt_module(functions))
  BY <1>1, ModuleIsText DEF WriterInv
<1>3. PICK t : Parse(t) /\ (t = fmt_module(functions) \/ t \in Edits(fmt_module(functions)))
  BY Zenon DEF Write, WriteAndEdit
<1>4. IsText(t)
  BY <1>2, <1>3, EditedIsText
<1>5. text' = t /\ phase' = "parsing"
  BY <1>3, Zenon DEF Parse
<1> QED BY <1>4, <1>5

-----------------------------------------------------------------------------
(* The heads of functions and of blocks *)

LEMMA DeclaredAreInts ==
    ASSUME IsText(text), NEW p \in Nat \ {0}, NEW n \in 0..Len(text), IsList(p, Declared, n)
    PROVE  /\ ToSet(NumsOf(p, Declared, n)) \subseteq Int
           /\ \A k \in 1..n : NumsOf(p, Declared, n)[k] \in Int
<1>. DEFINE nums == NumsOf(p, Declared, n)
<1>1. Len(text) \in Nat /\ n \in Nat
  BY SequenceElements DEF IsText
<1>2. ListOf(p, Declared, n, 3)
  BY <1>1, ListIs
<1>3. DOMAIN nums = 1..n /\ \A k \in 1..n : nums[k] = Num(p + k * 3 - 1)
  <2>1. Len(Declared) + 1 = 3
    BY DEF Declared
  <2> QED BY <2>1 DEF NumsOf
<1>4. ASSUME NEW k \in 1..n
      PROVE  Num(p + k * 3 - 1) \in Int
  <2>. DEFINE q == p + (k - 1) * 3 + 1
              r == q + 1
  <2>1. q \in Nat \ {0} /\ r \in Nat \ {0} /\ r = p + k * 3 - 1
    BY <1>1
  <2>2. Expect(q, Declared)
    BY <1>2 DEF ListOf
  <2>. HIDE DEF q
  <2>3. Type(r) = "%"
    BY <2>1, <2>2, Expected DEF Declared
  <2>. HIDE DEF r
  <2>4. Num(r) \in Int
    BY <2>1, <2>3, NumberCovers DEF Numeric
  <2> QED BY <2>1, <2>4
<1>. HIDE DEF nums
<1>5. \A k \in 1..n : nums[k] \in Int
  BY <1>3, <1>4
<1>6. ToSet(nums) \subseteq Int
  BY <1>3, <1>5 DEF ToSet
<1> QED BY <1>5, <1>6 DEF nums

LEMMA ThreeJoined ==
    ASSUME NEW a, NEW b, NEW c, NEW s, s = (<<Word(a)>> \o <<Word(b)>>) \o <<Word(c)>>
    PROVE  s = Words(<<a, b, c>>)
<1>1. Words(<<a, b, c>>) = <<Word(a), Word(b), Word(c)>>
  BY DEF Words
<1> QED BY <1>1

LEMMA CoversThree ==
    ASSUME NEW p, NEW q, NEW a, NEW b, NEW c,
           Covers(p, q, (<<Word(a)>> \o <<Word(b)>>) \o <<Word(c)>>)
    PROVE  Covers(p, q, Words(<<a, b, c>>))
<1>1. PICK s : s = (<<Word(a)>> \o <<Word(b)>>) \o <<Word(c)>>
  OBVIOUS
<1>2. s = Words(<<a, b, c>>)
  BY <1>1, ThreeJoined, Zenon
<1>3. Covers(p, q, s)
  BY <1>1, Zenon
<1> QED BY <1>2, <1>3, Zenon

(* Where the parser has got to after a head, and what the last lexeme is. *)
LEMMA FunctionHeadCovers ==
    ASSUME IsText(text), NEW p \in Nat \ {0}, p = position, NEW n \in 0..Len(text),
           IsFunctionHead(p + 3, n), NEW f, f.args = Ids(0, n),
           NEW q, q = Behind(p + 3, Declared, n) + 3
    PROVE  /\ Covers(p, q, FunctionHead(Spell(p + 2), f)) /\ IsSpelling(Spell(p + 2))
           /\ text[q - 1].text = Opens /\ q - 1 \in 1..Len(text)
<1>. DEFINE list == p + 3
            r == Behind(list, Declared, n)
            w == Spell(p + 2)
<1>1. Len(text) \in Nat /\ n \in Nat /\ list \in Nat \ {0} /\ p + 1 \in Nat \ {0} /\ p + 2 \in Nat \ {0}
      /\ (p + 1) + 1 = p + 2 /\ (p + 2) + 1 = list
  BY SequenceElements DEF IsText
<1>2. /\ Expect(p, <<"fn", "@", "identifier">>) /\ IsList(list, Declared, n)
      /\ Expect(r, <<"->", "i64", Opens>>) /\ CheckIds(NumsOf(list, Declared, n), Ids(0, n))
  BY Zenon DEF IsFunctionHead, Opens
<1>3. Covers(p, list, Words(<<"fn", "@", w>>)) /\ IsSpelling(w)
  <2>1. Type(p) = "fn" /\ Type(p + 1) = "@" /\ Type(p + 2) = "identifier"
    BY <1>2, Expected
  <2>. HIDE DEF list, w
  <2>2. Covers(p, p + 1, <<Word("fn")>>) /\ Covers(p + 1, p + 2, <<Word("@")>>)
    BY <1>1, <2>1, WordCovers, Vocabulary, MarksAre
  <2>3. Covers(p + 2, list, <<Word(w)>>) /\ IsSpelling(w)
    BY <1>1, <2>1, NameCovers DEF w
  <2>4. Covers(p, list, (<<Word("fn")>> \o <<Word("@")>>) \o <<Word(w)>>)
    BY <2>2, <2>3, CoversJoined
  <2> QED BY <2>3, <2>4, CoversThree
<1>. HIDE DEF list, w, r
<1>4. Covers(list, r, FmtParams(f.args))
  <2>1. IsSequence(Ids(0, n)) /\ Len(Ids(0, n)) = n
    BY <1>1, IdsAreInts
  <2>2. \A k \in 1..Len(Ids(0, n)) : NumsOf(list, Declared, n)[k] \in Int
    BY <1>1, <1>2, <2>1, DeclaredAreInts
  <2>3. SameValues(NumsOf(list, Declared, n), Ids(0, n))
    BY <1>2, <2>1, <2>2, CheckedValues
  <2> QED BY <1>1, <1>2, <2>3, ParamsCover DEF r
<1>5. r \in Nat \ {0} /\ q = r + 3
  <2>1. r \in Nat /\ r = list + Len(FmtParams(f.args)) /\ Len(FmtParams(f.args)) \in Nat
    BY <1>4, SequenceElements DEF Covers
  <2> QED BY <1>1, <2>1 DEF r, list
<1>6. Covers(r, q, Words(<<"->", "i64", Opens>>)) /\ text[q - 1].text = Opens /\ q - 1 \in 1..Len(text)
  <2>1. Type(r) = "->" /\ Type(r + 1) = "i64" /\ Type(r + 2) = Opens
    BY <1>2, <1>5, Expected
  <2>2. r + 1 \in Nat \ {0} /\ r + 2 \in Nat \ {0} /\ (r + 1) + 1 = r + 2 /\ (r + 2) + 1 = q /\ q - 1 = r + 2
    BY <1>5
  <2>3. Covers(r, r + 1, <<Word("->")>>) /\ Covers(r + 1, r + 2, <<Word("i64")>>)
    BY <1>5, <2>1, <2>2, WordCovers, Vocabulary, MarksAre
  <2>4. Covers(r + 2, q, <<Word(Opens)>>)
    BY <2>1, <2>2, WordCovers, MarksAre
  <2>5. Covers(r, q, (<<Word("->")>> \o <<Word("i64")>>) \o <<Word(Opens)>>)
    BY <2>3, <2>4, CoversJoined
  <2>6. text[r + 2].text = Opens /\ r + 2 \in 1..Len(text)
    BY <1>1, <2>1, <2>2, TypeIs, MarksAre
  <2> QED BY <2>2, <2>5, <2>6, CoversThree
<1>7. Covers(p, r, Words(<<"fn", "@", w>>) \o FmtParams(f.args))
  BY <1>3, <1>4, CoversJoined
<1>8. Covers(p, q, FunctionHead(w, f))
  BY <1>6, <1>7, CoversJoined DEF FunctionHead
<1> QED BY <1>3, <1>6, <1>8 DEF w

LEMMA BlockHeadCovers ==
    ASSUME IsText(text), NEW p \in Nat \ {0}, p = position, NEW n \in 0..Len(text),
           IsBlockHead(p + 1, n), NEW params, params = NewParams(n), IsSequence(params),
           BlockIndex \in Nat
    PROVE  Covers(p, Behind(p + 1, Declared, n) + 1, BlockHead(BlockIndex + 1, params))
<1>. DEFINE list == p + 1
            r == Behind(list, Declared, n)
<1>1. Len(text) \in Nat /\ n \in Nat /\ list \in Nat \ {0}
  BY SequenceElements DEF IsText
<1>2. /\ Type(p) = "bb" /\ IsList(list, Declared, n) /\ Type(r) = ":"
      /\ Num(p) = BlockIndex /\ CheckIds(NumsOf(list, Declared, n), params)
  BY DEF IsBlockHead
<1>3. Covers(p, list, <<Bb(BlockIndex + 1)>>)
  <2>1. "bb" \in Numeric
    BY DEF Numeric
  <2> QED BY <1>2, <2>1, NumberCovers
<1>4. Covers(list, r, FmtParams(params))
  <2>1. Len(params) = n
    BY <1>1, <1>2, NumsAreSequence DEF CheckIds
  <2>2. \A k \in 1..Len(params) : NumsOf(list, Declared, n)[k] \in Int
    BY <1>1, <1>2, <2>1, DeclaredAreInts
  <2>3. SameValues(NumsOf(list, Declared, n), params)
    BY <1>2, <2>2, CheckedValues
  <2> QED BY <1>1, <1>2, <2>3, ParamsCover
<1>. HIDE DEF list, r
<1>5. r \in Nat \ {0}
  <2>1. r \in Nat /\ r = list + Len(FmtParams(params)) /\ Len(FmtParams(params)) \in Nat
    BY <1>4, SequenceElements DEF Covers
  <2> QED BY <1>1, <2>1
<1>6. Covers(r, r + 1, <<Word(":")>>)
  BY <1>2, <1>5, WordCovers, MarksAre
<1>7. Covers(p, r + 1, BlockHead(BlockIndex + 1, params))
  BY <1>3, <1>4, <1>6, CoversJoined DEF BlockHead
<1> QED BY <1>7 DEF r, list

-----------------------------------------------------------------------------
(* What has been read so far is what would be written for it *)

(* What is written of the function that is being read. *)
Begun ==
    IF Unnamed THEN <<>>
    ELSE IF first_block THEN FunctionHead(name, func) ELSE FunctionHead(name, func) \o Body(func, data)

Written == \A k \in 1..Len(functions) : IsSequence(fmt_function(functions[k]))

(* The text is written again up to here. *)
Again == Covers(1, position, fmt_module(functions) \o Begun)

(* The head of a function is the last of what has been read. *)
AtOpening ==
    /\ data = <<>> /\ Body(func, data) = BlockHead(1, <<>>)
    /\ position > 1 /\ text[position - 1].text = Opens

Following ==
    /\ position \in Nat \ {0} /\ DOMAIN m_ids \subseteq Int
    /\ Written /\ Again
    /\ ~Unnamed => Laid(func, data) /\ (first_block => AtOpening)

ReadingInv ==
    phase = "parsing" => IsText(text) /\ (HasEmptyBody \/ Following)

LEMMA GoneOn ==
    ASSUME text' = text, NEW q, position' = q, NEW s, fmt_module(functions') \o Begun' = s,
           Covers(1, q, s)
    PROVE  Again'
BY DEF Again, Covers, SaysAt, SaysTheSame, SignOfStore

LEMMA ModuleIsSequence ==
    ASSUME NEW mod, IsSequence(mod), \A k \in 1..Len(mod) : IsSequence(fmt_function(mod[k]))
    PROVE  /\ IsSequence(fmt_module(mod)) /\ fmt_module(mod) \o <<>> = fmt_module(mod)
           /\ \A fn : IsSequence(fmt_function(fn)) =>
                fmt_module(Append(mod, fn)) = fmt_module(mod) \o fmt_function(fn)
<1>. DEFINE ss == [k \in 1..Len(mod) |-> fmt_function(mod[k])]
<1>1. IsSequence(ss) /\ Len(ss) = Len(mod) /\ Len(mod) \in Nat
  BY SequenceElements, FunctionIsSequence
<1>2. Parts(ss)
  <2>1. \A k \in 1..Len(ss) : IsSequence(ss[k])
    BY <1>1
  <2>. HIDE DEF ss
  <2> QED BY <1>1, <2>1 DEF Parts
<1>3. IsSequence(fmt_module(mod))
  <2>. HIDE DEF ss
  <2>1. IsSequence(FlattenSeq(ss))
    BY <1>2, FlattenJoins
  <2> QED BY <2>1 DEF fmt_module, ss
<1>4. ASSUME NEW fn, IsSequence(fmt_function(fn))
      PROVE  fmt_module(Append(mod, fn)) = fmt_module(mod) \o fmt_function(fn)
  <2>. DEFINE more == Append(mod, fn)
              tt == [k \in 1..Len(more) |-> fmt_function(more[k])]
              x == fmt_function(fn)
              uu == Append(ss, x)
  <2>1. Len(more) = Len(mod) + 1 /\ more[Len(mod) + 1] = fn /\ \A k \in 1..Len(mod) : more[k] = mod[k]
    BY AppendedElements
  <2>2. /\ IsSequence(uu) /\ Len(uu) = Len(mod) + 1 /\ uu[Len(mod) + 1] = x
        /\ \A k \in 1..Len(mod) : uu[k] = ss[k]
    <3>. HIDE DEF ss, x
    <3> QED BY <1>1, AppendedElements
  <2>. HIDE DEF more, uu
  <2>3. IsSequence(tt) /\ Len(tt) = Len(mod) + 1
    BY <1>1, <2>1, FunctionIsSequence
  <2>4. ASSUME NEW k \in 1..(Len(mod) + 1)
        PROVE  tt[k] = uu[k]
    <3>1. CASE k \in 1..Len(mod)
      BY <2>1, <2>2, <3>1
    <3>2. CASE k = Len(mod) + 1
      BY <2>1, <2>2, <3>2
    <3> QED BY <1>1, <3>1, <3>2
  <2>. HIDE DEF tt, ss, x
  <2>5. tt = uu
    BY <2>2, <2>3, <2>4, SameElements
  <2>6. FlattenSeq(uu) = FlattenSeq(ss) \o x
    BY <1>2, <1>4, FlattenAppend DEF uu, x
  <2> QED BY <2>5, <2>6 DEF fmt_module, tt, ss, more, x
<1> QED BY <1>3, <1>4, ConcatNothing

LEMMA FunctionHeadGoesOn ==
    ASSUME IsSequence(functions), IsText(text), Following, ParseFunction
    PROVE  Following'
<1>1. PICK n \in 0..Len(text) :
        /\ IsFunctionHead(position + 3, n)
        /\ func' = CreateFunction(n)
        /\ m_ids' = WithIds(<<>>, NumsOf(position + 3, Declared, n), Ids(0, n))
        /\ position' = Behind(position + 3, Declared, n) + 3
  BY Zenon DEF ParseFunction
<1>2. /\ Unnamed /\ name' = Spell(position + 2) /\ data' = <<>> /\ first_block' = TRUE
      /\ text' = text /\ functions' = functions
  BY Zenon DEF ParseFunction, Unnamed
<1>3. position \in Nat \ {0} /\ Written /\ Again
  BY DEF Following
<1>4. n \in Nat
  OBVIOUS
<1>5. /\ Laid(func', <<>>) /\ func'.args = Ids(0, n) /\ Body(func', <<>>) = BlockHead(1, <<>>)
  BY <1>1, <1>4, TextOfCreated
<1>6. /\ Covers(position, position', FunctionHead(Spell(position + 2), func'))
      /\ IsSpelling(Spell(position + 2))
      /\ text[position' - 1].text = Opens /\ position' - 1 \in 1..Len(text)
  BY <1>1, <1>3, <1>5, FunctionHeadCovers
<1>7. ~Unnamed'
  <2>1. IsSpelling(name')
    BY <1>2, <1>6
  <2> QED BY <2>1, Zenon DEF IsSpelling, Unnamed
<1>8. Begun = <<>> /\ Begun' = FunctionHead(name', func')
  BY <1>2, <1>7 DEF Begun
<1>9. fmt_module(functions) \o Begun = fmt_module(functions)
  BY <1>3, <1>8, ModuleIsSequence DEF Written
<1>10. Covers(1, position, fmt_module(functions))
  BY <1>3, <1>9 DEF Again
<1>11. Covers(1, position', fmt_module(functions) \o FunctionHead(name', func'))
  BY <1>2, <1>6, <1>10, CoversJoined
<1>12. position' \in Nat \ {0} /\ position' > 1
  BY <1>6 DEF Covers
<1>13. DOMAIN m_ids' \subseteq Int
  <2>1. IsList(position + 3, Declared, n)
    BY <1>1, Zenon DEF IsFunctionHead
  <2>2. position + 3 \in Nat \ {0}
    BY <1>3
  <2>3. ToSet(NumsOf(position + 3, Declared, n)) \subseteq Int
    BY <2>1, <2>2, DeclaredAreInts
  <2>4. \A x, y : DOMAIN WithIds(<<>>, x, y) \subseteq ToSet(x)
    BY DEF WithIds
  <2> QED BY <1>1, <2>3, <2>4
<1>14. Again'
  BY <1>2, <1>8, <1>11, GoneOn
<1>15. Written'
  BY <1>2, <1>3 DEF Written
<1>16. AtOpening'
  BY <1>2, <1>5, <1>6, <1>12 DEF AtOpening
<1> QED BY <1>2, <1>5, <1>7, <1>12, <1>13, <1>14, <1>15, <1>16 DEF Following

(* What is read from here on is what is written from here on. *)
LEMMA ReadFurther ==
    ASSUME IsSequence(functions), Written, Again, NEW begun, begun = Begun, IsSequence(begun),
           NEW q, NEW s, Covers(position, q, s)
    PROVE  Covers(1, q, fmt_module(functions) \o (begun \o s))
<1>1. IsSequence(s)
  BY CoversSequence
<1>2. IsSequence(fmt_module(functions))
  BY ModuleIsSequence DEF Written
<1>3. Covers(1, position, fmt_module(functions) \o begun)
  BY DEF Again
<1>4. Covers(1, q, (fmt_module(functions) \o begun) \o s)
  BY <1>3, CoversJoined
<1> QED BY <1>1, <1>2, <1>4, ConcatAssociates

LEMMA FirstBlockGoesOn ==
    ASSUME IsSequence(functions), IsText(text), Following, Params(func, 1) = <<>>,
           ParseBlock, first_block
    PROVE  Following'
<1>1. PICK n \in 0..Len(text) :
        /\ IsBlockHead(position + 1, n)
        /\ func' = IF BlockIndex = 0 THEN func
                   ELSE [func EXCEPT !.blocks = Append(@, Block(NewParams(n), <<>>)),
                                     !.types  = @ + n]
        /\ m_ids' = WithIds(m_ids, NumsOf(position + 1, Declared, n), NewParams(n))
        /\ position' = Behind(position + 1, Declared, n) + 1
  BY Zenon DEF ParseBlock
<1>2. /\ ~Unnamed /\ first_block' = FALSE
      /\ name' = name /\ data' = data /\ text' = text /\ functions' = functions
  BY Zenon DEF ParseBlock, Inside, Unnamed
<1>3. /\ position \in Nat \ {0} /\ Written /\ Again /\ Laid(func, data)
      /\ data = <<>> /\ Body(func, data) = BlockHead(1, <<>>)
  BY <1>2 DEF Following, AtOpening
<1>4. BlockIndex = 0 /\ NewParams(n) = <<>> /\ BlockIndex + 1 = 1
  BY DEF BlockIndex, NewParams
<1>5. func' = func
  BY <1>1, <1>4
<1>6. Covers(position, position', BlockHead(1, <<>>))
  BY <1>1, <1>3, <1>4, BlockHeadCovers, EmptySequence
<1>7. Begun = FunctionHead(name, func) /\ Begun' = FunctionHead(name', func') \o Body(func', data') /\ IsSequence(FunctionHead(name, func))
  <2>1. ~Unnamed'
    BY <1>2, Zenon DEF Unnamed
  <2> QED BY <1>2, <1>3, <2>1, FunctionIs DEF Begun
<1>8. Covers(1, position', fmt_module(functions) \o (FunctionHead(name, func) \o BlockHead(1, <<>>)))
  BY <1>3, <1>6, <1>7, ReadFurther
<1>9. Again'
  BY <1>2, <1>3, <1>5, <1>7, <1>8, GoneOn
<1>10. position' \in Nat \ {0}
  <2>1. position' \in Nat /\ position' = 1 + Len(fmt_module(functions) \o (FunctionHead(name, func) \o BlockHead(1, <<>>)))
        /\ Len(fmt_module(functions) \o (FunctionHead(name, func) \o BlockHead(1, <<>>))) \in Nat
    BY <1>8, SequenceElements DEF Covers
  <2> QED BY <2>1
<1>11. DOMAIN m_ids' \subseteq Int
  <2>0. IsList(position + 1, Declared, n) /\ position + 1 \in Nat \ {0}
    <3>1. IsList(position + 1, Declared, n)
      BY <1>1, Zenon DEF IsBlockHead
    <3> QED BY <1>3, <3>1
  <2>1. ToSet(NumsOf(position + 1, Declared, n)) \subseteq Int
    BY <2>0, DeclaredAreInts
  <2>2. \A x, y : DOMAIN WithIds(m_ids, x, y) \subseteq DOMAIN m_ids \cup ToSet(x)
    BY DEF WithIds
  <2> QED BY <1>1, <2>1, <2>2 DEF Following
<1>12. Written'
  BY <1>2, <1>3 DEF Written
<1> QED BY <1>2, <1>3, <1>5, <1>9, <1>10, <1>11, <1>12 DEF Following

LEMMA NextBlockGoesOn ==
    ASSUME IsSequence(functions), IsText(text), Following, ParseBlock, ~first_block
    PROVE  Following'
<1>1. PICK n \in 0..Len(text) :
        /\ IsBlockHead(position + 1, n)
        /\ func' = IF BlockIndex = 0 THEN func
                   ELSE [func EXCEPT !.blocks = Append(@, Block(NewParams(n), <<>>)),
                                     !.types  = @ + n]
        /\ m_ids' = WithIds(m_ids, NumsOf(position + 1, Declared, n), NewParams(n))
        /\ position' = Behind(position + 1, Declared, n) + 1
  BY Zenon DEF ParseBlock
<1>2. /\ ~Unnamed /\ first_block' = FALSE
      /\ name' = name /\ data' = data /\ text' = text /\ functions' = functions
  BY Zenon DEF ParseBlock, Inside, Unnamed
<1>3. position \in Nat \ {0} /\ Written /\ Again /\ Laid(func, data)
  BY <1>2 DEF Following
<1>4. Total(func) /\ func.types \in Nat /\ n \in Nat /\ func.types + n \in Nat
      /\ Len(func.blocks) \in Nat \ {0}
  <2>1. Total(func)
    BY <1>3 DEF Laid, Aligned
  <2> QED BY <2>1, SequenceElements DEF Total, IsSequence
<1>5. BlockIndex = Len(func.blocks) /\ NewParams(n) = Ids(func.types, n) /\ BlockIndex # 0 /\ BlockIndex \in Nat
  BY <1>4 DEF BlockIndex, NewParams
<1>6. PICK params : params = Ids(func.types, n)
  OBVIOUS
<1>7. IsSequence(params) /\ IsSequence(FmtParams(params))
  BY <1>4, <1>6, IdsAreInts DEF IsText
<1>8. func' = Widened(func, params, func.types + n)
  BY <1>1, <1>4, <1>5, <1>6 DEF Widened, Total, Function
<1>9. PICK head : head = BlockHead(Len(func.blocks) + 1, params)
  OBVIOUS
<1>10. Covers(position, position', head)
  BY <1>1, <1>3, <1>5, <1>6, <1>7, <1>9, BlockHeadCovers
<1>11. /\ Laid(func', data) /\ func'.args = func.args
       /\ Body(func', data) = Body(func, data) \o head
  <2>1. PICK t \in Nat : t = func.types + n
    BY <1>4
  <2>2. PICK g : g = func'
    OBVIOUS
  <2>3. g = Widened(func, params, t)
    BY <1>8, <2>1, <2>2
  <2>4. Longer(func, data, g, data, head, FmtParams(params))
    BY <1>3, <1>7, <1>9, <2>3, TextWidens
  <2> QED BY <2>2, <2>4 DEF Longer
<1>12. /\ Begun = FunctionHead(name, func) \o Body(func, data)
       /\ Begun' = FunctionHead(name, func) \o Body(func', data)
       /\ IsSequence(FunctionHead(name, func)) /\ IsSequence(Body(func, data)) /\ IsSequence(head)
  <2>1. ~Unnamed'
    BY <1>2, Zenon DEF Unnamed
  <2>2. FunctionHead(name, func') = FunctionHead(name, func)
    BY <1>11 DEF FunctionHead
  <2>3. Begun' = FunctionHead(name, func') \o Body(func', data)
    BY <1>2, <2>1 DEF Begun
  <2> QED BY <1>2, <1>3, <1>10, <2>2, <2>3, FunctionIs, TextIsLaid, CoversSequence DEF Begun
<1>13. Covers(1, position', fmt_module(functions) \o (Begun \o head))
  BY <1>3, <1>10, <1>12, ReadFurther, ConcatLengths
<1>14. Begun \o head = Begun'
  BY <1>11, <1>12, ConcatAssociates
<1>15. Again'
  BY <1>2, <1>13, <1>14, GoneOn
<1>16. position' \in Nat \ {0}
  <2>1. position' \in Nat /\ position' = position + Len(head) /\ Len(head) \in Nat
    BY <1>10, SequenceElements DEF Covers
  <2> QED BY <1>3, <2>1
<1>17. DOMAIN m_ids' \subseteq Int
  <2>0. IsList(position + 1, Declared, n) /\ position + 1 \in Nat \ {0}
    <3>1. IsList(position + 1, Declared, n)
      BY <1>1, Zenon DEF IsBlockHead
    <3> QED BY <1>3, <3>1
  <2>1. ToSet(NumsOf(position + 1, Declared, n)) \subseteq Int
    BY <2>0, DeclaredAreInts
  <2>2. \A x, y : DOMAIN WithIds(m_ids, x, y) \subseteq DOMAIN m_ids \cup ToSet(x)
    BY DEF WithIds
  <2> QED BY <1>1, <2>1, <2>2 DEF Following
<1>18. Written'
  BY <1>2, <1>3 DEF Written
<1> QED BY <1>2, <1>11, <1>15, <1>16, <1>17, <1>18 DEF Following

(* The line of an instruction is read, and would be written the same. *)
LEMMA LineGoesOn ==
    ASSUME IsSequence(functions), IsText(text), Following, ~Unnamed, ~first_block,
           UNCHANGED <<text, first_block, name, functions>>, DOMAIN m_ids' \subseteq Int,
           NEW inst, NEW t \in Nat, func' = Grown(func, inst, t), NEW d, data' = Append(data, d),
           Covers(position, position', fmt_inst(inst, d))
    PROVE  Following'
<1>1. PICK line : line = fmt_inst(inst, d)
  OBVIOUS
<1>2. position \in Nat \ {0} /\ Written /\ Again /\ Laid(func, data)
  BY DEF Following
<1>3. IsSequence(line) /\ Covers(position, position', line)
  BY <1>1, CoversSequence
<1>4. Longer(func, data, func', data', line, line)
  BY <1>1, <1>2, <1>3, TextGrows
<1>5. Laid(func', data') /\ func'.args = func.args /\ Body(func', data') = Body(func, data) \o line
  BY <1>4 DEF Longer
<1>6. ~Unnamed' /\ ~first_block'
  BY Zenon DEF Unnamed
<1>7. /\ Begun = FunctionHead(name, func) \o Body(func, data)
      /\ Begun' = FunctionHead(name, func) \o Body(func', data')
      /\ IsSequence(FunctionHead(name, func)) /\ IsSequence(Body(func, data))
  <2>1. FunctionHead(name, func') = FunctionHead(name, func)
    BY <1>5 DEF FunctionHead
  <2>2. Begun' = FunctionHead(name', func') \o Body(func', data')
    BY <1>6 DEF Begun
  <2> QED BY <1>2, <2>1, <2>2, FunctionIs, TextIsLaid DEF Begun
<1>8. Covers(1, position', fmt_module(functions) \o (Begun \o line))
  BY <1>2, <1>3, <1>7, ReadFurther, ConcatLengths
<1>9. Begun \o line = Begun'
  BY <1>3, <1>5, <1>7, ConcatAssociates
<1>10. Again'
  BY <1>8, <1>9, GoneOn
<1>11. position' \in Nat \ {0}
  <2>1. position' \in Nat /\ position' = position + Len(line) /\ Len(line) \in Nat
    BY <1>3, SequenceElements DEF Covers
  <2> QED BY <1>2, <2>1
<1>12. Written'
  BY <1>2 DEF Written
<1> QED BY <1>5, <1>6, <1>10, <1>11, <1>12 DEF Following

LEMMA EffectGoesOn ==
    ASSUME IsSequence(functions), IsText(text), Following, Exact(m_ids, func.types), ParseEffect
    PROVE  Following'
<1>1. PICK item \in WithoutResult(position) :
        /\ KnowsAll(item)
        /\ func' = AppendInst(func, Inst(item.op, NoResult, resolve(item.operands),
                                [k \in 1..Len(item.edges) |-> ResolveEdge(item.edges[k])],
                                Native))
        /\ data' = Append(data, item.data)
        /\ position' = item.next
  BY Zenon DEF ParseEffect
<1>2. /\ ~Unnamed /\ ~first_block /\ m_ids' = m_ids
      /\ UNCHANGED <<text, first_block, name, functions>>
  BY Zenon DEF ParseEffect, InBlock, Inside, Unnamed
<1>3. position \in Nat \ {0} /\ Total(func) /\ func.types \in Nat /\ DOMAIN m_ids \subseteq Int
  BY <1>2 DEF Following, Laid, Aligned, Total
<1>4. PICK inst : inst = Inst(item.op, NoResult, resolve(item.operands),
                              ResolvedEdges(item.edges), Native)
  OBVIOUS
<1>5. Builds(item, inst)
  BY <1>1, <1>3, <1>4, EffectBuilt
<1>6. WrittenAt(position, item.next, inst, item.data)
  BY <1>3, <1>5, EffectCovers
<1>7. inst.result = NoResult
  BY <1>4, InstParts
<1>8. Covers(position, position', fmt_inst(inst, item.data))
  BY <1>1, <1>6, <1>7, FmtInstIs DEF WrittenAt
<1>9. func' = Grown(func, inst, func.types)
  BY <1>1, <1>3, <1>4, AppendedIsGrown DEF ResolvedEdges
<1> QED BY <1>1, <1>2, <1>3, <1>8, <1>9, LineGoesOn

LEMMA TwoJoined ==
    ASSUME NEW p, NEW q, NEW a, NEW b, Covers(p, q, <<a>> \o <<b>>)
    PROVE  Covers(p, q, <<a, b>>)
<1>1. PICK s : s = <<a>> \o <<b>>
  OBVIOUS
<1>2. /\ IsSequence(s) /\ Len(s) = 2 /\ s[1] = a /\ s[2] = b
  BY <1>1, AppendIsConcatenation, ShortSequences, ConcatElements
<1>3. s = <<a, b>>
  BY <1>2, FewElements
<1> QED BY <1>1, <1>3

LEMMA ResultGoesOn ==
    ASSUME IsSequence(functions), IsText(text), Following, Exact(m_ids, func.types), ParseResult
    PROVE  Following'
<1>1. PICK item \in WithResult(position + 2) :
        /\ KnowsAll(item)
        /\ CheckIds(<<Num(position)>>, <<func.types>>)
        /\ AppendResult(item.op, resolve(item.operands), item.callee)
        /\ m_ids' = WithIds(m_ids, <<Num(position)>>, <<func.types>>)
        /\ data' = Append(data, item.data)
        /\ position' = item.next
  BY Zenon DEF ParseResult
<1>2. /\ ~Unnamed /\ ~first_block /\ IsResult
      /\ UNCHANGED <<text, first_block, name, functions>>
  BY Zenon DEF ParseResult, InBlock, Inside, Unnamed
<1>3. position \in Nat \ {0} /\ Total(func) /\ func.types \in Nat /\ DOMAIN m_ids \subseteq Int
  BY <1>2 DEF Following, Laid, Aligned, Total
<1>4. PICK inst : inst = Inst(item.op, func.types, resolve(item.operands), <<>>, item.callee)
  OBVIOUS
<1>5. Builds(item, inst)
  BY <1>1, <1>3, <1>4, ResultBuilt
<1>6. WrittenAt(position + 2, item.next, inst, item.data)
  BY <1>1, <1>3, <1>5, ResultCovers
<1>7. inst.result = func.types /\ func.types # NoResult
  BY <1>3, <1>4, InstParts DEF NoResult
<1>8. Type(position) = "%" /\ Type(position + 1) = "="
  BY <1>2, <1>3, Expected DEF IsResult
<1>9. Num(position) \in Int /\ Covers(position, position + 1, <<Percent(func.types)>>)
  <2>1. /\ "%" \in Numeric
    BY DEF Numeric
  <2>2. Num(position) \in Int
    BY <1>3, <1>8, <2>1, NumberCovers
  <2>. DEFINE x == Num(position)
  <2>3. x % Modulus = func.types
    BY <1>1 DEF CheckIds
  <2>4. Modulus \in Nat /\ Modulus > 0 /\ x \in Int
    BY <2>2, ModulusAssumption, BoundAssumption
  <2>. HIDE DEF x
  <2>5. x % Modulus \in Int /\ (x - (x % Modulus)) % Modulus = 0
    BY <2>4, RestIsMultiple
  <2>6. PICK y \in Int : y = func.types /\ (x - y) % Modulus = 0
    BY <2>3, <2>5
  <2>7. Covers(position, position + 1, <<Percent(y)>>)
    BY <1>3, <1>8, <2>1, <2>6, NumberCovers DEF x
  <2> QED BY <2>2, <2>6, <2>7
<1>10. Covers(position + 1, position + 2, <<Word("=")>>)
  <2>1. position + 1 \in Nat \ {0} /\ (position + 1) + 1 = position + 2
    BY <1>3
  <2> QED BY <1>8, <2>1, WordCovers, MarksAre
<1>11. Covers(position, position + 2, <<Percent(func.types), Word("=")>>)
  <2>1. Covers(position, position + 2, <<Percent(func.types)>> \o <<Word("=")>>)
    BY <1>9, <1>10, CoversJoined
  <2> QED BY <2>1, TwoJoined
<1>12. Covers(position, position', fmt_inst(inst, item.data))
  <2>1. Covers(position, position', <<Percent(func.types), Word("=")>>
                                      \o (<<Word(item.data.name)>> \o FmtRest(inst, item.data)))
    BY <1>1, <1>6, <1>11, CoversJoined DEF WrittenAt
  <2>2. IsSequence(FmtRest(inst, item.data))
    BY <1>6 DEF WrittenAt
  <2> QED BY <1>7, <2>1, <2>2, FmtInstIs
<1>13. func' = Grown(func, inst, func.types + 1)
  BY <1>1, <1>3, <1>4, AppendedIsGrown DEF AppendResult
<1>14. DOMAIN m_ids' \subseteq Int
  <2>1. ToSet(<<Num(position)>>) \subseteq Int
    BY <1>9 DEF ToSet
  <2>2. \A x, y : DOMAIN WithIds(m_ids, x, y) \subseteq DOMAIN m_ids \cup ToSet(x)
    BY DEF WithIds
  <2> QED BY <1>1, <1>3, <2>1, <2>2
<1>15. func.types + 1 \in Nat
  BY <1>3
<1> QED BY <1>1, <1>2, <1>12, <1>13, <1>14, <1>15, LineGoesOn

(* The end of a function without any block is not written back. *)
LEMMA EmptyBodyIsSeen ==
    ASSUME IsText(text), Following, EndFunction, first_block
    PROVE  HasEmptyBody
<1>1. ~Unnamed /\ Type(position) = Closes
  BY Zenon DEF EndFunction, Inside, Unnamed, Closes
<1>2. position \in Nat \ {0} /\ position > 1 /\ text[position - 1].text = Opens /\ Len(text) \in Nat
  BY <1>1, SequenceElements DEF Following, AtOpening, IsText
<1>3. position \in 1..Len(text) /\ text[position].text = Closes
  BY <1>1, <1>2, TypeIs, MarksAre
<1>4. PICK p : p = position - 1
  OBVIOUS
<1>5. p \in 1..(Len(text) - 1) /\ text[p].text = Opens /\ text[p + 1].text = Closes
  BY <1>2, <1>3, <1>4
<1> QED BY <1>5, Zenon DEF HasEmptyBody, Opens, Closes

LEMMA FunctionEndGoesOn ==
    ASSUME IsSequence(functions), IsText(text), Following, EndFunction, ~first_block
    PROVE  Following'
<1>1. /\ ~Unnamed /\ Unnamed' /\ Type(position) = Closes
      /\ functions' = Append(functions, Named(name, func, data))
      /\ position' = position + 1 /\ text' = text /\ m_ids' = m_ids
  BY Zenon DEF EndFunction, Inside, Unnamed, Closes
<1>2. position \in Nat \ {0} /\ Written /\ Again /\ Laid(func, data) /\ DOMAIN m_ids \subseteq Int
  BY <1>1 DEF Following
<1>3. PICK fn : fn = Named(name, func, data)
  OBVIOUS
<1>4. /\ Begun = FunctionHead(name, func) \o Body(func, data) /\ Begun' = <<>>
      /\ IsSequence(Begun)
      /\ fmt_function(fn) = Begun \o <<Word(Closes)>> /\ IsSequence(fmt_function(fn))
  <2>1. Begun = FunctionHead(name, func) \o Body(func, data) /\ Begun' = <<>>
    BY <1>1 DEF Begun
  <2>2. /\ fmt_function(fn) = (FunctionHead(name, func) \o Body(func, data)) \o <<Word(Closes)>>
        /\ IsSequence(FunctionHead(name, func)) /\ IsSequence(fmt_function(fn))
    BY <1>2, <1>3, FunctionIs
  <2>3. IsSequence(Body(func, data))
    BY <1>2, TextIsLaid
  <2> QED BY <2>1, <2>2, <2>3, ConcatLengths
<1>5. Covers(position, position + 1, <<Word(Closes)>>)
  BY <1>1, <1>2, WordCovers, MarksAre
<1>6. Covers(1, position', fmt_module(functions) \o fmt_function(fn))
  BY <1>1, <1>2, <1>4, <1>5, ReadFurther
<1>7. Written'
  <2>1. /\ Len(functions') = Len(functions) + 1 /\ functions'[Len(functions) + 1] = fn
        /\ \A k \in 1..Len(functions) : functions'[k] = functions[k]
        /\ Len(functions) \in Nat
    BY <1>1, <1>3, AppendedElements, SequenceElements
  <2>2. \A k \in 1..Len(functions) : IsSequence(fmt_function(functions'[k]))
    BY <1>2, <2>1 DEF Written
  <2>3. IsSequence(fmt_function(functions'[Len(functions) + 1]))
    BY <1>4, <2>1
  <2>4. \A k \in 1..Len(functions') : k \in 1..Len(functions) \/ k = Len(functions) + 1
    BY <2>1
  <2> QED BY <2>2, <2>3, <2>4 DEF Written
<1>8. fmt_module(functions') \o Begun' = fmt_module(functions) \o fmt_function(fn)
  <2>1. IsSequence(functions')
    BY <1>1, AppendedElements
  <2>2. \A k \in 1..Len(functions') : IsSequence(fmt_function(functions'[k]))
    BY <1>7 DEF Written
  <2>3. fmt_module(functions') \o <<>> = fmt_module(functions')
    BY <2>1, <2>2, ModuleIsSequence
  <2>4. fmt_module(functions') = fmt_module(functions) \o fmt_function(fn)
    BY <1>1, <1>2, <1>3, <1>4, ModuleIsSequence DEF Written
  <2> QED BY <1>4, <2>3, <2>4
<1>9. Again'
  BY <1>1, <1>6, <1>8, GoneOn
<1>10. position' \in Nat \ {0}
  BY <1>1, <1>2
<1> QED BY <1>1, <1>2, <1>7, <1>9, <1>10 DEF Following

(* At the end of the text all of it would be written again. *)
LEMMA AllIsWrittenAgain ==
    ASSUME IsSequence(functions), IsText(text), Following, EndModule
    PROVE  AcceptedPrintsBack'
<1>1. Unnamed /\ Type(position) = "eof" /\ text' = text /\ functions' = functions
  BY Zenon DEF EndModule, Unnamed
<1>2. Written /\ Again /\ Begun = <<>> /\ position \in Nat \ {0}
  BY <1>1 DEF Following, Begun
<1>3. PICK again : again = fmt_module(functions)
  OBVIOUS
<1>4. Covers(1, position, again)
  BY <1>2, <1>3, ModuleIsSequence DEF Again, Written
<1>5. Len(text) \in Nat /\ position > Len(text)
  <2>1. Len(text) \in Nat
    BY SequenceElements DEF IsText
  <2>2. ASSUME position <= Len(text)
        PROVE  FALSE
    <3>1. TypeOf(text[position]) = "eof"
      BY <1>1, <2>2 DEF Type
    <3>2. TypeOf(text[position]) \in Keywords \cup Marks \cup Numeric \cup {"identifier"}
      BY DEF TypeOf
    <3> QED BY <3>1, <3>2, Vocabulary
  <2> QED BY <1>2, <2>1, <2>2
<1>6. Len(again) = Len(text) /\ \A p \in 1..Len(text) : SaysAt(p, again[p])
  <2>1. Len(again) \in Nat /\ position = 1 + Len(again) /\ position <= Len(text) + 1
    BY <1>4, SequenceElements DEF Covers
  <2>2. Len(again) = Len(text)
    BY <1>5, <2>1
  <2>3. \A k \in 1..Len(again) : SaysAt(1 + k - 1, again[k])
    BY <1>4 DEF Covers
  <2>4. \A k \in 1..Len(again) : 1 + k - 1 = k
    BY <2>1
  <2> QED BY <2>2, <2>3, <2>4
<1>7. \A p \in 1..Len(text') : (SaysTheSame(text[p], again[p]) \/ SignOfStore(p, again[p]))'
  BY <1>1, <1>6 DEF SaysAt, SaysTheSame, SignOfStore
<1> QED BY <1>1, <1>3, <1>6, <1>7 DEF AcceptedPrintsBack, SaysTheSame, SignOfStore

LEMMA EmptyBodyStays ==
    ASSUME text' = text, HasEmptyBody
    PROVE  HasEmptyBody'
BY Zenon DEF HasEmptyBody

LEMMA ReadGoesOn ==
    ASSUME ParserInv, ReadingInv, Read
    PROVE  ReadingInv' /\ AcceptedPrintsBack'
<1>1. /\ phase = "parsing" /\ text' = text /\ IsText(text) /\ IsSequence(functions)
      /\ HasEmptyBody \/ Following
  <2>1. phase = "parsing" /\ text' = text
    BY Zenon DEF Read, ParserStep, ParseFunction, ParseBlock, ParseEffect, ParseResult, EndFunction,
         EndModule, Refuse, InBlock, Inside, Parsing
  <2>2. IsSequence(functions)
    BY DEF ParserInv, SessionInv
  <2> QED BY <2>1, <2>2 DEF ReadingInv
<1>2. CASE HasEmptyBody
  BY <1>1, <1>2, EmptyBodyStays DEF ReadingInv, AcceptedPrintsBack
<1>3. CASE Following
  <2>1. CASE ParseFunction
    <3>1. phase' = "parsing"
      BY <1>1, <2>1, Zenon DEF ParseFunction
    <3> QED BY <1>1, <1>3, <2>1, <3>1, FunctionHeadGoesOn DEF ReadingInv, AcceptedPrintsBack
  <2>2. ASSUME ParseBlock \/ ParseEffect \/ ParseResult
        PROVE  Following' /\ phase' = "parsing"
    <3>1. phase' = "parsing"
      BY <1>1, <2>2, Zenon DEF ParseBlock, ParseEffect, ParseResult
    <3>2. Inside
      BY <2>2, Zenon DEF ParseBlock, ParseEffect, ParseResult, InBlock
    <3>3. Exact(m_ids, func.types) /\ (first_block => Params(func, 1) = <<>>)
      BY <3>2 DEF ParserInv, ReaderInv
    <3> QED BY <1>1, <1>3, <2>2, <3>1, <3>3, FirstBlockGoesOn, NextBlockGoesOn, EffectGoesOn, ResultGoesOn
  <2>3. CASE EndFunction
    <3>1. phase' = "parsing"
      BY <1>1, <2>3, Zenon DEF EndFunction
    <3>2. CASE first_block
      <4>1. HasEmptyBody'
        BY <1>1, <1>3, <2>3, <3>2, EmptyBodyIsSeen, EmptyBodyStays
      <4> QED BY <1>1, <3>1, <4>1 DEF ReadingInv, AcceptedPrintsBack
    <3>3. CASE ~first_block
      BY <1>1, <1>3, <2>3, <3>1, <3>3, FunctionEndGoesOn DEF ReadingInv, AcceptedPrintsBack
    <3> QED BY <3>2, <3>3
  <2>4. CASE EndModule
    <3>1. phase' = "parsed"
      BY <2>4, Zenon DEF EndModule
    <3> QED BY <1>1, <1>3, <2>4, <3>1, AllIsWrittenAgain DEF ReadingInv
  <2>5. CASE Refuse
    <3>1. phase' = "refused"
      BY <2>5, Zenon DEF Refuse
    <3> QED BY <3>1 DEF ReadingInv, AcceptedPrintsBack
  <2> QED BY <1>1, <2>1, <2>2, <2>3, <2>4, <2>5 DEF Read, ParserStep, ReadingInv, AcceptedPrintsBack
<1> QED BY <1>1, <1>2, <1>3

(* Nothing of a text has been read yet. *)
LEMMA WriteBegins ==
    ASSUME WriterInv, IsSequence(functions), Write \/ WriteAndEdit
    PROVE  ReadingInv' /\ AcceptedPrintsBack'
<1>1. IsText(text') /\ phase' = "parsing"
  BY WrittenIsText
<1>2. position' = 1 /\ m_ids' = <<>> /\ functions' = <<>> /\ Unnamed'
  BY Zenon DEF Write, WriteAndEdit, Parse, Unnamed
<1>3. Begun' = <<>>
  BY <1>2 DEF Begun
<1>4. Written'
  BY <1>2, EmptySequence DEF Written
<1>5. Again'
  <2>1. Len(text') \in Nat
    BY <1>1, SequenceElements DEF IsText
  <2>2. fmt_module(<<>>) = <<>>
    <3>1. [k \in 1..Len(<<>>) |-> fmt_function(<<>>[k])] = <<>>
      BY EmptySequence
    <3> QED BY <3>1, EmptySequence, JoinedNone DEF fmt_module
  <2>3. (fmt_module(functions) \o Begun)' = <<>>
    BY <1>2, <1>3, <2>2, EmptySequence, ConcatNothing
  <2> QED BY <1>2, <2>1, <2>3, EmptySequence DEF Again, Covers
<1>6. Following'
  BY <1>2, <1>4, <1>5 DEF Following
<1> QED BY <1>1, <1>6 DEF ReadingInv, AcceptedPrintsBack

PrintInv == ParserInv /\ WriterInv /\ ReadingInv /\ AcceptedPrintsBack

LEMMA PrintKeeps ==
    ASSUME PrintInv, [PathNext]_vars
    PROVE  WriterInv' /\ ReadingInv' /\ AcceptedPrintsBack'
<1>1. IsSequence(functions) /\ ParserInv /\ WriterInv /\ ReadingInv /\ AcceptedPrintsBack
  BY DEF PrintInv, ParserInv, SessionInv
<1>2. WriterInv'
  BY <1>1, WriterKeeps
<1>3. CASE BeginFunction \/ AddBlock \/ AddInstruction \/ FinishFunction
  <2>1. phase' = "building"
    BY <1>3, Zenon DEF BeginFunction, AddBlock, AddInstruction, FinishFunction, Building
  <2> QED BY <1>2, <2>1 DEF ReadingInv, AcceptedPrintsBack
<1>4. CASE Write \/ WriteAndEdit
  BY <1>1, <1>2, <1>4, WriteBegins
<1>5. CASE Read
  BY <1>1, <1>2, <1>5, ReadGoesOn
<1>6. CASE Compile \/ Generate \/ UNCHANGED vars
  <2>1. UNCHANGED parser
    BY <1>6 DEF Compile, Generate, vars
  <2>2. text' = text /\ phase' = phase /\ functions' = functions
    BY <2>1 DEF parser
  <2>3. ReadingInv'
    <3>1. CASE phase = "parsing" /\ Following
      <4>1. Unnamed' = Unnamed
        BY <2>1, Zenon DEF parser, Unnamed
      <4>2. UNCHANGED <<func, text, position, m_ids, first_block, name, data, functions, phase>>
        BY <2>1 DEF parser
      <4>3. Begun' = Begun
        BY <4>1, <4>2 DEF Begun
      <4>4. Again'
        BY <3>1, <4>2, <4>3, GoneOn DEF Following, Again
      <4>5. Following'
        BY <3>1, <4>1, <4>2, <4>4 DEF Following, Written, AtOpening
      <4> QED BY <1>1, <2>2, <4>5 DEF ReadingInv
    <3>2. CASE phase = "parsing" /\ HasEmptyBody
      BY <1>1, <2>2, <3>2, EmptyBodyStays DEF ReadingInv
    <3>3. CASE phase # "parsing"
      BY <2>2, <3>3 DEF ReadingInv
    <3> QED BY <1>1, <3>1, <3>2, <3>3 DEF ReadingInv
  <2>4. AcceptedPrintsBack'
    <3>1. HasEmptyBody' = HasEmptyBody
      BY <2>2, Zenon DEF HasEmptyBody
    <3> QED BY <1>1, <2>2, <3>1 DEF AcceptedPrintsBack, SaysTheSame, SignOfStore
  <2> QED BY <1>2, <2>3, <2>4
<1> QED BY <1>1, <1>2, <1>3, <1>4, <1>5, <1>6 DEF PathNext

(* A text that is accepted is written back lexeme for lexeme, but for the  *)
(* sign of the kind of a store: the parser takes no comma, mark, operand   *)
(* or label that the text has not got, and leaves none out.                *)
THEOREM AcceptedIsPrintedBack == PathSpec => []AcceptedPrintsBack
<1>1. PathInit => PrintInv
  <2>. SUFFICES ASSUME PathInit PROVE PrintInv
    OBVIOUS
  <2>0. phase = "building" /\ SessionInv
    BY InitEstablishes, Zenon DEF PathInit
  <2>1. ParserInv
    BY <2>0 DEF ParserInv, ReaderInv, AnswerInv, Inside, Parsing
  <2>2. phase = "building" /\ Unnamed /\ data = <<>> /\ functions = <<>>
    BY Zenon DEF PathInit, Unnamed
  <2>3. WriterInv
    BY <2>2, EmptySequence DEF WriterInv
  <2> QED BY <2>1, <2>2, <2>3 DEF PrintInv, ReadingInv, AcceptedPrintsBack
<1>2. PrintInv /\ [PathNext]_vars => PrintInv'
  <2>. SUFFICES ASSUME PrintInv, [PathNext]_vars PROVE PrintInv'
    OBVIOUS
  <2>1. ParserInv'
    BY StepKeeps, ReaderKeeps, AnswerKeeps DEF PrintInv, ParserInv
  <2> QED BY <2>1, PrintKeeps DEF PrintInv
<1>3. PrintInv => AcceptedPrintsBack
  BY DEF PrintInv
<1> QED BY <1>1, <1>2, <1>3, PTL DEF PathSpec
=============================================================================
