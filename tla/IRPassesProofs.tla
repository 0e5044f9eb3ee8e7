---------------------------- MODULE IRPassesProofs ----------------------------
(***************************************************************************)
(* The properties of the builder and of the passes over the IR, for        *)
(* functions of any size.                                                  *)
(*                                                                         *)
(* All of them are about the line that a function is laid out in.  The     *)
(* builder only ever lengthens it: an instruction puts one item more at    *)
(* its end, a block its parameters.  So the ids stand in it in order, each *)
(* at one place, which is where its range starts; and where a block begins *)
(* in the line is the length of what the blocks before it take.            *)
(***************************************************************************)
EXTENDS IRPasses, SequenceLemmas

(* A function as the builder makes it. *)
WellFormed(f) ==
    /\ f = Function(f.args, f.blocks, f.types)
    /\ f.types \in Nat /\ IsSequence(f.args) /\ IsSequence(f.blocks)
    /\ \A b \in Blocks(f) : /\ f.blocks[b] = Block(Params(f, b), Instructions(f, b))
                            /\ IsSequence(Params(f, b)) /\ IsSequence(Instructions(f, b))

(* The first t ids are defined by the items of the line, in their order. *)
Numbered(line, t) ==
    /\ \A p \in 1..Len(line) : line[p].result = NoResult \/ line[p].result \in 0..(t - 1)
    /\ \A p, q \in 1..Len(line) :
         p < q /\ line[p].result # NoResult /\ line[q].result # NoResult
         => line[p].result < line[q].result
    /\ \A v \in 0..(t - 1) : \E p \in 1..Len(line) : line[p].result = v

(***************************************************************************)
(* What the builder gives an instruction of each class: a result or none,  *)
(* so many operands, so many edges.                                        *)
(***************************************************************************)
Shaped(inst) ==
    /\ inst.op \in Emitted \cup Terminators \cup {"load", "store"}
    /\ inst.op \in Emitted \cup {"load"} => inst.result # NoResult
    /\ inst.op \in Terminators \cup {"store"} => inst.result = NoResult
    /\ inst.op \in OneOperand => Len(inst.operands) = 1
    /\ inst.op \in {"binary", "shift", "divide", "compare", "store"} => Len(inst.operands) = 2
    /\ IsSequence(inst.edges)
    /\ inst.op = "jmp"  => Len(inst.edges) = 1
    /\ inst.op = "brif" => Len(inst.edges) = 2

Typed(inst) ==
    /\ inst.op \in Classes /\ inst.callee \in Callee /\ Shaped(inst)
    /\ inst.result \in Nat \cup {NoResult}
    /\ inst.operands \in Seq(Nat)
    /\ \A e \in ToSet(inst.edges) : e.block \in Nat /\ e.args \in Seq(Nat)

WellTyped(f) ==
    /\ f.types \in Nat /\ f.args \in Seq(Nat)
    /\ \A b \in Blocks(f) : /\ Params(f, b) \in Seq(Nat)
                            /\ \A inst \in ToSet(Instructions(f, b)) : Typed(inst)

(* The first t numbers, as they are handed out. *)
InOrder(s, t) == s = [k \in 1..t |-> k - 1]

FuncInv(f) ==
    /\ WellFormed(f) /\ WellTyped(f)
    /\ InOrder(Definitions(f), f.types)
    /\ Numbered(Layout(f), f.types)

IRInv == FuncInv(func)

-----------------------------------------------------------------------------
(* How a function grows *)

(* An instruction more in the last block; t counts the ids. *)
Grown(f, inst, t) ==
    Function(f.args,
             [b \in Blocks(f) |-> IF b = Len(f.blocks)
                                  THEN Block(Params(f, b), Append(Instructions(f, b), inst))
                                  ELSE f.blocks[b]],
             t)

(* A block more behind the last. *)
Widened(f, params, t) == Function(f.args, Append(f.blocks, Block(params, <<>>)), t)

LEMMA Sizes ==
    ASSUME NEW f, WellFormed(f)
    PROVE  /\ Len(f.blocks) \in Nat /\ Blocks(f) = 1..Len(f.blocks) /\ Len(f.args) \in Nat
           /\ f.blocks # <<>> => Len(f.blocks) # 0
           /\ \A b \in Blocks(f) : Len(Params(f, b)) \in Nat /\ Len(Instructions(f, b)) \in Nat
<1>1. Len(f.blocks) \in Nat /\ Len(f.args) \in Nat
  BY SequenceElements DEF WellFormed
<1>2. f.blocks # <<>> => Len(f.blocks) # 0
  <2>1. \A i \in 1..0 : f.blocks[i] = <<>>[i]
    OBVIOUS
  <2> QED
    BY <2>1, SameElements, EmptySequence DEF WellFormed
<1>3. \A b \in Blocks(f) : Len(Params(f, b)) \in Nat /\ Len(Instructions(f, b)) \in Nat
  BY SequenceElements DEF WellFormed
<1> QED
  BY <1>1, <1>2, <1>3 DEF Blocks

LEMMA GrownIs ==
    ASSUME NEW f, WellFormed(f), f.blocks # <<>>, NEW inst, NEW t \in Nat,
           NEW g, g = Grown(f, inst, t)
    PROVE  /\ WellFormed(g) /\ g.args = f.args /\ g.types = t
           /\ Len(g.blocks) = Len(f.blocks) /\ Blocks(g) = Blocks(f)
           /\ \A b \in Blocks(f) :
                /\ Params(g, b) = Params(f, b)
                /\ Instructions(g, b) = IF b = Len(f.blocks) THEN Append(Instructions(f, b), inst)
                                        ELSE Instructions(f, b)
<1> DEFINE n == Len(f.blocks)
<1>1. n \in Nat /\ Blocks(f) = 1..n
  BY Sizes
<1>2. /\ g.args = f.args /\ g.types = t /\ g = Function(g.args, g.blocks, g.types)
      /\ g.blocks = [b \in 1..n |-> IF b = n
                                    THEN Block(Params(f, b), Append(Instructions(f, b), inst))
                                    ELSE f.blocks[b]]
  BY <1>1 DEF Grown, Function
<1> HIDE DEF n
<1>3. IsSequence(g.blocks) /\ Len(g.blocks) = n
  <2>1. g.blocks = [b \in 1..n |-> g.blocks[b]]
    BY <1>2
  <2>2. IsSequence(g.blocks)
    BY <1>1, <2>1, FunctionIsSequence
  <2> QED
    BY <1>1, <1>2, <2>2, SequenceElements
<1>4. Blocks(g) = 1..n
  BY <1>3 DEF Blocks
<1>5. ASSUME NEW b \in 1..n
      PROVE  /\ Params(g, b) = Params(f, b) /\ IsSequence(Params(f, b))
             /\ Instructions(g, b) = IF b = n THEN Append(Instructions(f, b), inst)
                                     ELSE Instructions(f, b)
             /\ IsSequence(Instructions(g, b))
             /\ g.blocks[b] = Block(Params(g, b), Instructions(g, b))
  <2>1. /\ f.blocks[b] = Block(Params(f, b), Instructions(f, b))
        /\ IsSequence(Params(f, b)) /\ IsSequence(Instructions(f, b))
    BY <1>1 DEF WellFormed
  <2>2. IsSequence(Append(Instructions(f, b), inst))
    BY <2>1, AppendedElements
  <2>3. CASE b = n
    <3>1. g.blocks[b] = Block(Params(f, b), Append(Instructions(f, b), inst))
      BY <1>2, <2>3
    <3>2. /\ Params(g, b) = Params(f, b)
          /\ Instructions(g, b) = Append(Instructions(f, b), inst)
      BY <3>1 DEF Params, Instructions, Block
    <3> QED
      BY <2>1, <2>2, <2>3, <3>1, <3>2
  <2>4. CASE b # n
    <3>1. g.blocks[b] = f.blocks[b]
      BY <1>2, <2>4
    <3>2. /\ Params(g, b) = Params(f, b) /\ Instructions(g, b) = Instructions(f, b)
      BY <3>1 DEF Params, Instructions
    <3> QED
      BY <2>1, <2>4, <3>1, <3>2
  <2> QED
    BY <2>3, <2>4
<1>6. WellFormed(g)
  BY <1>2, <1>3, <1>4, <1>5 DEF WellFormed
<1> QED
  BY <1>1, <1>2, <1>3, <1>4, <1>5, <1>6 DEF n

LEMMA WidenedIs ==
    ASSUME NEW f, WellFormed(f), NEW params, IsSequence(params), NEW t \in Nat,
           NEW g, g = Widened(f, params, t)
    PROVE  /\ WellFormed(g) /\ g.args = f.args /\ g.types = t
           /\ Len(g.blocks) = Len(f.blocks) + 1
           /\ Blocks(g) = Blocks(f) \cup {Len(f.blocks) + 1}
           /\ \A b \in Blocks(f) : /\ Params(g, b) = Params(f, b)
                                   /\ Instructions(g, b) = Instructions(f, b)
           /\ Params(g, Len(f.blocks) + 1) = params
           /\ Instructions(g, Len(f.blocks) + 1) = <<>>
<1> DEFINE n == Len(f.blocks)
<1>1. n \in Nat /\ Blocks(f) = 1..n
  BY Sizes
<1>2. /\ g.args = f.args /\ g.types = t /\ g = Function(g.args, g.blocks, g.types)
      /\ g.blocks = Append(f.blocks, Block(params, <<>>))
  BY DEF Widened, Function
<1>3. /\ IsSequence(g.blocks) /\ Len(g.blocks) = n + 1
      /\ \A b \in 1..n : g.blocks[b] = f.blocks[b]
      /\ g.blocks[n + 1] = Block(params, <<>>)
  BY <1>2, AppendedElements DEF WellFormed
<1> HIDE DEF n
<1>4. Blocks(g) = 1..(n + 1) /\ Blocks(g) = (1..n) \cup {n + 1}
  BY <1>1, <1>3 DEF Blocks
<1>5. Params(g, n + 1) = params /\ Instructions(g, n + 1) = <<>>
  BY <1>3 DEF Params, Instructions, Block
<1>6. \A b \in 1..n : Params(g, b) = Params(f, b) /\ Instructions(g, b) = Instructions(f, b)
  BY <1>3 DEF Params, Instructions
<1>7. \A b \in Blocks(g) : /\ g.blocks[b] = Block(Params(g, b), Instructions(g, b))
                           /\ IsSequence(Params(g, b)) /\ IsSequence(Instructions(g, b))
  <2>1. \A b \in 1..n : /\ g.blocks[b] = Block(Params(g, b), Instructions(g, b))
                        /\ IsSequence(Params(g, b)) /\ IsSequence(Instructions(g, b))
    BY <1>1, <1>3, <1>6 DEF WellFormed
  <2> QED
    BY <1>3, <1>4, <1>5, <2>1, EmptySequence
<1>8. WellFormed(g)
  BY <1>2, <1>3, <1>7 DEF WellFormed
<1> QED
  BY <1>1, <1>2, <1>3, <1>4, <1>5, <1>6, <1>8 DEF n

-----------------------------------------------------------------------------
(* The line *)

(* What each block takes of the line. *)
Rows(f) == [b \in Blocks(f) |-> ParamItems(Params(f, b)) \o Instructions(f, b)]

LEMMA ItemsOfParams ==
    ASSUME NEW ids, IsSequence(ids)
    PROVE  /\ IsSequence(ParamItems(ids)) /\ Len(ParamItems(ids)) = Len(ids)
           /\ \A k \in 1..Len(ids) : ParamItems(ids)[k] = Param(ids[k])
<1>1. Len(ids) \in Nat
  BY SequenceElements
<1>2. /\ ParamItems(ids) = [k \in 1..Len(ids) |-> ParamItems(ids)[k]]
      /\ DOMAIN ParamItems(ids) = 1..Len(ids)
      /\ \A k \in 1..Len(ids) : ParamItems(ids)[k] = Param(ids[k])
  BY DEF ParamItems
<1>3. IsSequence(ParamItems(ids))
  BY <1>1, <1>2, FunctionIsSequence
<1> QED
  BY <1>1, <1>2, <1>3, SequenceElements

LEMMA RowsAreParts ==
    ASSUME NEW f, WellFormed(f)
    PROVE  /\ Parts(Rows(f)) /\ Len(Rows(f)) = Len(f.blocks)
           /\ \A b \in Blocks(f) :
                /\ Rows(f)[b] = ParamItems(Params(f, b)) \o Instructions(f, b)
                /\ IsSequence(Rows(f)[b])
                /\ Len(Rows(f)[b]) = Len(Params(f, b)) + Len(Instructions(f, b))
           /\ Layout(f) = ParamItems(f.args) \o FlattenSeq(Rows(f))
<1>1. Len(f.blocks) \in Nat /\ Blocks(f) = 1..Len(f.blocks)
  BY Sizes
<1>2. /\ Rows(f) = [b \in 1..Len(f.blocks) |-> Rows(f)[b]]
      /\ DOMAIN Rows(f) = 1..Len(f.blocks)
      /\ \A b \in Blocks(f) : Rows(f)[b] = ParamItems(Params(f, b)) \o Instructions(f, b)
  BY <1>1 DEF Rows
<1>3. IsSequence(Rows(f)) /\ Len(Rows(f)) = Len(f.blocks)
  <2>1. IsSequence(Rows(f))
    BY <1>1, <1>2, FunctionIsSequence
  <2> QED
    BY <1>1, <1>2, <2>1, SequenceElements
<1>4. ASSUME NEW b \in Blocks(f)
      PROVE  /\ IsSequence(Rows(f)[b])
             /\ Len(Rows(f)[b]) = Len(Params(f, b)) + Len(Instructions(f, b))
  <2> DEFINE s == ParamItems(Params(f, b))
             t == Instructions(f, b)
  <2>1. IsSequence(Params(f, b)) /\ IsSequence(Instructions(f, b))
    BY DEF WellFormed
  <2>2. IsSequence(ParamItems(Params(f, b))) /\ Len(ParamItems(Params(f, b))) = Len(Params(f, b))
    BY <2>1, ItemsOfParams
  <2> HIDE DEF s, t
  <2>3. IsSequence(s \o t) /\ Len(s \o t) = Len(s) + Len(t)
    BY <2>1, <2>2, ConcatLengths DEF s, t
  <2>4. Rows(f)[b] = s \o t
    BY <1>2 DEF s, t
  <2> QED
    BY <2>2, <2>3, <2>4 DEF s, t
<1>5. Layout(f) = ParamItems(f.args) \o FlattenSeq(Rows(f))
  BY DEF Layout, Rows
<1> QED
  BY <1>1, <1>2, <1>3, <1>4, <1>5 DEF Parts

(* The line of a function that has grown is its line and what it has got. *)
LEMMA GrownLine ==
    ASSUME NEW f, WellFormed(f), f.blocks # <<>>, NEW inst, NEW t \in Nat,
           NEW g, g = Grown(f, inst, t)
    PROVE  Layout(g) = Layout(f) \o <<inst>>
<1> DEFINE n == Len(f.blocks)
           one == <<inst>>
<1>1. n \in Nat \ {0} /\ Blocks(f) = 1..n /\ n \in 1..n
  BY Sizes
<1>2. /\ WellFormed(g) /\ g.args = f.args /\ Len(g.blocks) = n /\ Blocks(g) = 1..n
      /\ \A b \in 1..n :
           /\ Params(g, b) = Params(f, b)
           /\ Instructions(g, b) = IF b = n THEN Append(Instructions(f, b), inst)
                                   ELSE Instructions(f, b)
  BY <1>1, GrownIs
<1>3. /\ Parts(Rows(f)) /\ Len(Rows(f)) = n
      /\ \A b \in 1..n : Rows(f)[b] = ParamItems(Params(f, b)) \o Instructions(f, b)
      /\ Layout(f) = ParamItems(f.args) \o FlattenSeq(Rows(f))
  BY <1>1, RowsAreParts
<1>4. /\ Parts(Rows(g)) /\ Len(Rows(g)) = n
      /\ \A b \in 1..n : Rows(g)[b] = ParamItems(Params(g, b)) \o Instructions(g, b)
      /\ Layout(g) = ParamItems(f.args) \o FlattenSeq(Rows(g))
  BY <1>2, RowsAreParts
<1>5. IsSequence(Instructions(f, n)) /\ IsSequence(ParamItems(Params(f, n)))
  BY <1>1, ItemsOfParams DEF WellFormed
<1>6. IsSequence(one) /\ Append(Instructions(f, n), inst) = Instructions(f, n) \o one
  BY <1>5, AppendIsConcatenation
<1> HIDE DEF one, n
<1>7. Rows(g)[n] = Rows(f)[n] \o one
  <2>1. /\ Rows(g)[n] = ParamItems(Params(f, n)) \o (Instructions(f, n) \o one)
        /\ Rows(f)[n] = ParamItems(Params(f, n)) \o Instructions(f, n)
    BY <1>1, <1>2, <1>3, <1>4, <1>6
  <2> QED
    BY <1>5, <1>6, <2>1, ConcatAssociates
<1>8. \A b \in 1..(n - 1) : Rows(g)[b] = Rows(f)[b]
  <2>1. \A b \in 1..(n - 1) : b \in 1..n /\ b # n
    BY <1>1
  <2> QED
    BY <1>2, <1>3, <1>4, <2>1
<1>9. FlattenSeq(Rows(g)) = FlattenSeq(Rows(f)) \o one
  <2> DEFINE r == Rows(f)
             s == Rows(g)
  <2>1. /\ Parts(r) /\ n = Len(r) /\ IsSequence(s) /\ Len(s) = n
        /\ \A b \in 1..(n - 1) : s[b] = r[b]
        /\ s[n] = r[n] \o one
    BY <1>3, <1>4, <1>7, <1>8 DEF Parts
  <2> HIDE DEF r, s
  <2>2. FlattenSeq(s) = FlattenSeq(r) \o one
    BY <1>1, <1>6, <2>1, FlattenLonger
  <2> QED
    BY <2>2 DEF r, s
<1>10. IsSequence(ParamItems(f.args)) /\ IsSequence(FlattenSeq(Rows(f)))
  BY <1>3, ItemsOfParams, FlattenJoins DEF WellFormed
<1> QED
  BY <1>3, <1>4, <1>6, <1>9, <1>10, ConcatAssociates DEF one

LEMMA WidenedLine ==
    ASSUME NEW f, WellFormed(f), NEW params, IsSequence(params), NEW t \in Nat,
           NEW g, g = Widened(f, params, t)
    PROVE  Layout(g) = Layout(f) \o ParamItems(params)
<1> DEFINE n == Len(f.blocks)
<1>1. n \in Nat /\ Blocks(f) = 1..n
  BY Sizes
<1>2. /\ WellFormed(g) /\ g.args = f.args /\ Len(g.blocks) = n + 1
      /\ Blocks(g) = (1..n) \cup {n + 1}
      /\ \A b \in 1..n : Params(g, b) = Params(f, b) /\ Instructions(g, b) = Instructions(f, b)
      /\ Params(g, n + 1) = params /\ Instructions(g, n + 1) = <<>>
  BY <1>1, WidenedIs
<1>3. /\ Parts(Rows(f)) /\ Len(Rows(f)) = n
      /\ \A b \in 1..n : Rows(f)[b] = ParamItems(Params(f, b)) \o Instructions(f, b)
      /\ Layout(f) = ParamItems(f.args) \o FlattenSeq(Rows(f))
  BY <1>1, RowsAreParts
<1>4. /\ Parts(Rows(g)) /\ Len(Rows(g)) = n + 1
      /\ \A b \in Blocks(g) : Rows(g)[b] = ParamItems(Params(g, b)) \o Instructions(g, b)
      /\ Layout(g) = ParamItems(f.args) \o FlattenSeq(Rows(g))
  BY <1>2, RowsAreParts
<1>5. IsSequence(ParamItems(params))
  BY ItemsOfParams
<1> DEFINE tt == Append(Rows(f), ParamItems(params))
<1>6. /\ IsSequence(tt) /\ Len(tt) = n + 1
      /\ \A b \in 1..n : tt[b] = Rows(f)[b]
      /\ tt[n + 1] = ParamItems(params)
  BY <1>3, AppendedElements DEF Parts
<1>7. Rows(g)[n + 1] = ParamItems(params)
  <2>1. Rows(g)[n + 1] = ParamItems(params) \o <<>>
    BY <1>2, <1>4
  <2> QED
    BY <1>5, <2>1, ConcatNothing
<1> HIDE DEF tt, n
<1>8. Rows(g) = tt
  <2>1. \A b \in 1..(n + 1) : b \in 1..n \/ b = n + 1
    BY <1>1
  <2>2. \A b \in 1..(n + 1) : Rows(g)[b] = tt[b]
    BY <1>2, <1>3, <1>4, <1>6, <1>7, <2>1
  <2>3. IsSequence(Rows(g))
    BY <1>4 DEF Parts
  <2> QED
    BY <1>4, <1>6, <2>2, <2>3, SameElements
<1>9. FlattenSeq(Rows(g)) = FlattenSeq(Rows(f)) \o ParamItems(params)
  BY <1>3, <1>5, <1>8, FlattenAppend DEF tt
<1>10. IsSequence(ParamItems(f.args)) /\ IsSequence(FlattenSeq(Rows(f)))
  BY <1>3, ItemsOfParams, FlattenJoins DEF WellFormed
<1>11. \A u, w : IsSequence(u) /\ IsSequence(w)
                  => (u \o w) \o ParamItems(params) = u \o (w \o ParamItems(params))
  BY <1>5, ConcatAssociates
<1> QED
  BY <1>3, <1>4, <1>9, <1>10, <1>11, SMTT(20)

-----------------------------------------------------------------------------
(* The definitions *)

Shares(insts) == [i \in DOMAIN insts |-> Given(insts[i])]

Shown(insts) == FlattenSeq(Shares(insts))

DefinitionRows(f) == [b \in Blocks(f) |-> Params(f, b) \o Shown(Instructions(f, b))]

LEMMA GivenIsSequence == ASSUME NEW inst PROVE IsSequence(Given(inst))
BY AppendIsConcatenation, EmptySequence DEF Given

LEMMA SharesAreParts ==
    ASSUME NEW insts, IsSequence(insts)
    PROVE  /\ Parts(Shares(insts)) /\ Len(Shares(insts)) = Len(insts)
           /\ \A i \in 1..Len(insts) : Shares(insts)[i] = Given(insts[i])
<1>1. Len(insts) \in Nat /\ DOMAIN insts = 1..Len(insts)
  BY SequenceElements
<1>2. /\ Shares(insts) = [i \in 1..Len(insts) |-> Shares(insts)[i]]
      /\ DOMAIN Shares(insts) = 1..Len(insts)
      /\ \A i \in 1..Len(insts) : Shares(insts)[i] = Given(insts[i])
  BY <1>1 DEF Shares
<1>3. IsSequence(Shares(insts)) /\ Len(Shares(insts)) = Len(insts)
  <2>1. IsSequence(Shares(insts))
    BY <1>1, <1>2, FunctionIsSequence
  <2> QED
    BY <1>1, <1>2, <2>1, SequenceElements
<1> QED
  BY <1>2, <1>3, GivenIsSequence DEF Parts

LEMMA ShownLonger ==
    ASSUME NEW insts, IsSequence(insts), NEW inst
    PROVE  /\ IsSequence(Shown(insts))
           /\ Shown(Append(insts, inst)) = Shown(insts) \o Given(inst)
<1> DEFINE longer == Append(insts, inst)
           one == Given(inst)
           ss == Shares(insts)
           tt == Shares(longer)
           uu == Append(ss, one)
<1>1. /\ IsSequence(longer) /\ Len(longer) = Len(insts) + 1 /\ Len(insts) \in Nat
      /\ \A i \in 1..Len(insts) : longer[i] = insts[i]
      /\ longer[Len(insts) + 1] = inst
  BY AppendedElements, SequenceElements
<1>2. /\ Parts(ss) /\ Len(ss) = Len(insts)
      /\ \A i \in 1..Len(insts) : ss[i] = Given(insts[i])
  BY SharesAreParts
<1>3. /\ Parts(tt) /\ Len(tt) = Len(insts) + 1
      /\ \A i \in 1..(Len(insts) + 1) : tt[i] = Given(longer[i])
  BY <1>1, SharesAreParts
<1>4. /\ IsSequence(uu) /\ Len(uu) = Len(insts) + 1
      /\ \A i \in 1..Len(insts) : uu[i] = ss[i]
      /\ uu[Len(insts) + 1] = one
  BY <1>2, AppendedElements DEF Parts
<1> HIDE DEF longer, ss, tt, uu
<1>5. tt = uu
  <2>1. \A i \in 1..(Len(insts) + 1) : i \in 1..Len(insts) \/ i = Len(insts) + 1
    BY <1>1
  <2>2. \A i \in 1..(Len(insts) + 1) : tt[i] = uu[i]
    BY <1>1, <1>2, <1>3, <1>4, <2>1
  <2>3. IsSequence(tt)
    BY <1>3 DEF Parts
  <2> QED
    BY <1>3, <1>4, <2>2, <2>3, SameElements
<1>6. FlattenSeq(uu) = FlattenSeq(ss) \o one
  BY <1>2, FlattenAppend, GivenIsSequence DEF uu
<1>7. IsSequence(FlattenSeq(ss))
  BY <1>2, FlattenJoins
<1> QED
  BY <1>5, <1>6, <1>7 DEF Shown, longer, ss, tt

LEMMA NothingShown == Shown(<<>>) = <<>>
<1>1. Parts(Shares(<<>>)) /\ Len(Shares(<<>>)) = 0
  BY EmptySequence, SharesAreParts
<1> QED
  BY <1>1, JoinedNone DEF Shown, Parts

LEMMA DefinitionRowsAreParts ==
    ASSUME NEW f, WellFormed(f)
    PROVE  /\ Parts(DefinitionRows(f)) /\ Len(DefinitionRows(f)) = Len(f.blocks)
           /\ \A b \in Blocks(f) :
                DefinitionRows(f)[b] = Params(f, b) \o Shown(Instructions(f, b))
           /\ Definitions(f) = f.args \o FlattenSeq(DefinitionRows(f))
<1> DEFINE rows == DefinitionRows(f)
<1>1. Len(f.blocks) \in Nat /\ Blocks(f) = 1..Len(f.blocks)
  BY Sizes
<1>2. /\ rows = [b \in 1..Len(f.blocks) |-> rows[b]]
      /\ DOMAIN rows = 1..Len(f.blocks)
      /\ \A b \in Blocks(f) : rows[b] = Params(f, b) \o Shown(Instructions(f, b))
  BY <1>1 DEF DefinitionRows
<1>3. Definitions(f) = f.args \o FlattenSeq(rows)
  BY DEF Definitions, DefinitionRows, Shown, Shares
<1> HIDE DEF rows
<1>4. IsSequence(rows) /\ Len(rows) = Len(f.blocks)
  <2>1. IsSequence(rows)
    BY <1>1, <1>2, FunctionIsSequence
  <2> QED
    BY <1>1, <1>2, <2>1, SequenceElements
<1>5. ASSUME NEW b \in Blocks(f) PROVE IsSequence(rows[b])
  <2> DEFINE s == Params(f, b)
             t == Shown(Instructions(f, b))
  <2>1. IsSequence(s) /\ IsSequence(t)
    BY ShownLonger DEF WellFormed
  <2> HIDE DEF s, t
  <2>2. IsSequence(s \o t)
    BY <2>1, ConcatLengths
  <2> QED
    BY <1>2, <2>2 DEF s, t
<1> QED
  BY <1>1, <1>2, <1>3, <1>4, <1>5 DEF Parts, rows

LEMMA GrownDefinitions ==
    ASSUME NEW f, WellFormed(f), f.blocks # <<>>, NEW inst, NEW t \in Nat,
           NEW g, g = Grown(f, inst, t)
    PROVE  Definitions(g) = Definitions(f) \o Given(inst)
<1> DEFINE n == Len(f.blocks)
           one == Given(inst)
           r == DefinitionRows(f)
           s == DefinitionRows(g)
<1>1. n \in Nat \ {0} /\ Blocks(f) = 1..n /\ n \in 1..n
  BY Sizes
<1>2. /\ WellFormed(g) /\ g.args = f.args /\ Len(g.blocks) = n /\ Blocks(g) = 1..n
      /\ \A b \in 1..n :
           /\ Params(g, b) = Params(f, b)
           /\ Instructions(g, b) = IF b = n THEN Append(Instructions(f, b), inst)
                                   ELSE Instructions(f, b)
  BY <1>1, GrownIs
<1>3. /\ Parts(r) /\ Len(r) = n
      /\ \A b \in 1..n : r[b] = Params(f, b) \o Shown(Instructions(f, b))
      /\ Definitions(f) = f.args \o FlattenSeq(r)
  BY <1>1, DefinitionRowsAreParts
<1>4. /\ Parts(s) /\ Len(s) = n
      /\ \A b \in 1..n : s[b] = Params(g, b) \o Shown(Instructions(g, b))
      /\ Definitions(g) = f.args \o FlattenSeq(s)
  BY <1>2, DefinitionRowsAreParts
<1>5. IsSequence(one)
  BY GivenIsSequence
<1> HIDE DEF one, n, r, s
<1>6. s[n] = r[n] \o one
  <2> DEFINE p == Params(f, n)
             q == Shown(Instructions(f, n))
  <2>1. IsSequence(p) /\ IsSequence(q) /\ Shown(Instructions(g, n)) = q \o one
    BY <1>1, <1>2, ShownLonger DEF WellFormed, one
  <2>2. s[n] = p \o (q \o one) /\ r[n] = p \o q
    BY <1>1, <1>2, <1>3, <1>4, <2>1
  <2> HIDE DEF p, q
  <2>3. (p \o q) \o one = p \o (q \o one)
    BY <1>5, <2>1, ConcatAssociates
  <2> QED
    BY <2>2, <2>3
<1>7. \A b \in 1..(n - 1) : s[b] = r[b]
  <2>1. \A b \in 1..(n - 1) : b \in 1..n /\ b # n
    BY <1>1
  <2> QED
    BY <1>2, <1>3, <1>4, <2>1
<1>8. FlattenSeq(s) = FlattenSeq(r) \o one
  <2>1. /\ Parts(r) /\ n = Len(r) /\ IsSequence(s) /\ Len(s) = n
        /\ \A b \in 1..(n - 1) : s[b] = r[b]
        /\ s[n] = r[n] \o one
    BY <1>3, <1>4, <1>6, <1>7 DEF Parts
  <2> QED
    BY <1>1, <1>5, <2>1, FlattenLonger
<1>9. IsSequence(f.args) /\ IsSequence(FlattenSeq(r))
  BY <1>3, FlattenJoins DEF WellFormed
<1>10. (f.args \o FlattenSeq(r)) \o one = f.args \o (FlattenSeq(r) \o one)
  BY <1>5, <1>9, ConcatAssociates
<1> QED
  BY <1>3, <1>4, <1>8, <1>10 DEF one

LEMMA WidenedDefinitions ==
    ASSUME NEW f, WellFormed(f), NEW params, IsSequence(params), NEW t \in Nat,
           NEW g, g = Widened(f, params, t)
    PROVE  Definitions(g) = Definitions(f) \o params
<1> DEFINE n == Len(f.blocks)
           r == DefinitionRows(f)
           s == DefinitionRows(g)
           tt == Append(r, params)
<1>1. n \in Nat /\ Blocks(f) = 1..n
  BY Sizes
<1>2. /\ WellFormed(g) /\ g.args = f.args /\ Len(g.blocks) = n + 1
      /\ Blocks(g) = (1..n) \cup {n + 1}
      /\ \A b \in 1..n : Params(g, b) = Params(f, b) /\ Instructions(g, b) = Instructions(f, b)
      /\ Params(g, n + 1) = params /\ Instructions(g, n + 1) = <<>>
  BY <1>1, WidenedIs
<1>3. /\ Parts(r) /\ Len(r) = n
      /\ \A b \in 1..n : r[b] = Params(f, b) \o Shown(Instructions(f, b))
      /\ Definitions(f) = f.args \o FlattenSeq(r)
  BY <1>1, DefinitionRowsAreParts
<1>4. /\ Parts(s) /\ Len(s) = n + 1
      /\ \A b \in Blocks(g) : s[b] = Params(g, b) \o Shown(Instructions(g, b))
      /\ Definitions(g) = f.args \o FlattenSeq(s)
  BY <1>2, DefinitionRowsAreParts
<1>5. /\ IsSequence(tt) /\ Len(tt) = n + 1
      /\ \A b \in 1..n : tt[b] = r[b]
      /\ tt[n + 1] = params
  BY <1>3, AppendedElements DEF Parts
<1> HIDE DEF tt, n, r, s
<1>6. s[n + 1] = params
  <2>1. s[n + 1] = params \o <<>>
    BY <1>2, <1>4, NothingShown
  <2> QED
    BY <2>1, ConcatNothing
<1>7. s = tt
  <2>1. \A b \in 1..(n + 1) : b \in 1..n \/ b = n + 1
    BY <1>1
  <2>2. \A b \in 1..(n + 1) : s[b] = tt[b]
    BY <1>2, <1>3, <1>4, <1>5, <1>6, <2>1
  <2>3. IsSequence(s)
    BY <1>4 DEF Parts
  <2> QED
    BY <1>4, <1>5, <2>2, <2>3, SameElements
<1>8. FlattenSeq(s) = FlattenSeq(r) \o params
  BY <1>3, <1>7, FlattenAppend DEF tt
<1>9. IsSequence(f.args) /\ IsSequence(FlattenSeq(r))
  BY <1>3, FlattenJoins DEF WellFormed
<1>10. (f.args \o FlattenSeq(r)) \o params = f.args \o (FlattenSeq(r) \o params)
  BY <1>9, ConcatAssociates
<1> QED
  BY <1>3, <1>4, <1>8, <1>10

-----------------------------------------------------------------------------
(* The ids *)

LEMMA IdsOf ==
    ASSUME NEW t \in Nat, NEW n \in Nat
    PROVE  /\ IsSequence(Ids(t, n)) /\ Len(Ids(t, n)) = n
           /\ \A k \in 1..n : Ids(t, n)[k] = t + k - 1
           /\ Ids(t, n) \in Seq(Nat)
           /\ ToSet(Ids(t, n)) = t..(t + n - 1)
<1> DEFINE s == Ids(t, n)
<1>1. s = [k \in 1..n |-> s[k]] /\ \A k \in 1..n : s[k] = t + k - 1
  BY DEF Ids
<1>2. s \in Seq(Nat)
  BY DEF Ids
<1> HIDE DEF s
<1>3. IsSequence(s) /\ Len(s) = n
  <2>1. IsSequence(s)
    BY <1>1, FunctionIsSequence
  <2>2. DOMAIN s = 1..n
    BY <1>1
  <2> QED
    BY <2>1, <2>2, SequenceElements
<1>4. ToSet(s) = t..(t + n - 1)
  <2>1. ToSet(s) = {s[k] : k \in 1..n}
    BY <1>3, SequenceElements
  <2>2. \A k \in 1..n : s[k] \in t..(t + n - 1)
    BY <1>1
  <2>3. \A v \in t..(t + n - 1) : v - t + 1 \in 1..n /\ s[v - t + 1] = v
    BY <1>1
  <2> QED
    BY <2>1, <2>2, <2>3
<1> QED
  BY <1>1, <1>2, <1>3, <1>4 DEF s

LEMMA InOrderIs ==
    ASSUME NEW s, NEW t \in Nat
    PROVE  InOrder(s, t) <=> IsSequence(s) /\ Len(s) = t /\ \A k \in 1..t : s[k] = k - 1
<1>1. ASSUME InOrder(s, t)
      PROVE  IsSequence(s) /\ Len(s) = t /\ \A k \in 1..t : s[k] = k - 1
  <2>1. s = [k \in 1..t |-> s[k]] /\ DOMAIN s = 1..t /\ \A k \in 1..t : s[k] = k - 1
    BY <1>1 DEF InOrder
  <2>2. IsSequence(s)
    BY <2>1, FunctionIsSequence
  <2> QED
    BY <2>1, <2>2, SequenceElements
<1>2. ASSUME IsSequence(s), Len(s) = t, \A k \in 1..t : s[k] = k - 1
      PROVE  InOrder(s, t)
  <2>1. s \in [1..t -> ToSet(s)]
    BY <1>2, LenProperties DEF IsSequence
  <2> QED
    BY <1>2, <2>1 DEF InOrder
<1> QED
  BY <1>1, <1>2

LEMMA OrderContinues ==
    ASSUME NEW s, NEW t \in Nat, InOrder(s, t), NEW n \in Nat
    PROVE  InOrder(s \o Ids(t, n), t + n)
<1> DEFINE i == Ids(t, n)
           u == s \o i
<1>1. IsSequence(s) /\ Len(s) = t /\ \A k \in 1..t : s[k] = k - 1
  BY InOrderIs
<1>2. IsSequence(i) /\ Len(i) = n /\ \A k \in 1..n : i[k] = t + k - 1
  BY IdsOf
<1> HIDE DEF i
<1>3. /\ IsSequence(u) /\ Len(u) = t + n
      /\ \A k \in 1..t : u[k] = s[k]
      /\ \A k \in 1..n : u[t + k] = i[k]
  <2>1. IsSequence(s) /\ IsSequence(i)
    BY <1>1, <1>2
  <2>2. /\ IsSequence(s \o i) /\ Len(s \o i) = Len(s) + Len(i)
        /\ \A k \in 1..Len(s) : (s \o i)[k] = s[k]
        /\ \A k \in 1..Len(i) : (s \o i)[Len(s) + k] = i[k]
    BY <2>1, ConcatElements
  <2> QED
    BY <1>1, <1>2, <2>2
<1> HIDE DEF u
<1>4. ASSUME NEW k \in 1..(t + n) PROVE u[k] = k - 1
  <2>1. CASE k \in 1..t
    BY <1>1, <1>3, <2>1
  <2>2. CASE k > t
    <3>1. k - t \in 1..n /\ t + (k - t) = k
      BY <2>2
    <3>2. u[k] = t + (k - t) - 1
      BY <1>2, <1>3, <3>1
    <3> QED
      BY <3>1, <3>2
  <2> QED
    BY <2>1, <2>2
<1>5. InOrder(u, t + n)
  BY <1>3, <1>4, InOrderIs
<1> QED
  BY <1>5 DEF u, i

LEMMA GivenIs ==
    ASSUME NEW inst, NEW t \in Nat
    PROVE  /\ inst.result = NoResult => Given(inst) = <<>>
           /\ inst.result = t => Given(inst) = Ids(t, 1)
<1>1. ASSUME inst.result = t PROVE Given(inst) = Ids(t, 1)
  <2>1. Given(inst) = <<t>>
    BY <1>1 DEF Given, NoResult
  <2>2. IsSequence(Ids(t, 1)) /\ Len(Ids(t, 1)) = 1 /\ Ids(t, 1)[1] = t
    <3>1. 1 \in 1..1 /\ t + 1 - 1 = t
      OBVIOUS
    <3> QED
      BY <3>1, IdsOf
  <2>3. IsSequence(<<t>>) /\ Len(<<t>>) = 1 /\ <<t>>[1] = t
    BY EmptySequence, AppendIsConcatenation
  <2>4. \A k \in 1..1 : <<t>>[k] = Ids(t, 1)[k]
    BY <2>2, <2>3
  <2> QED
    BY <2>1, <2>2, <2>3, <2>4, SameElements
<1> QED
  BY <1>1 DEF Given

-----------------------------------------------------------------------------
(* The line and the ids *)

(* Items that define nothing change nothing. *)
LEMMA NumberedByNone ==
    ASSUME NEW line, IsSequence(line), NEW t \in Nat, Numbered(line, t),
           NEW inst, inst.result = NoResult
    PROVE  Numbered(line \o <<inst>>, t)
<1> DEFINE new == line \o <<inst>>
<1>1. IsSequence(<<inst>>) /\ Len(<<inst>>) = 1 /\ <<inst>>[1] = inst /\ Len(line) \in Nat
  BY AppendIsConcatenation, SequenceElements
<1>2. /\ Len(new) = Len(line) + 1 /\ \A p \in 1..Len(line) : new[p] = line[p]
      /\ new[Len(line) + 1] = inst
  <2>1. 1 \in 1..1
    OBVIOUS
  <2> QED
    BY <1>1, <2>1, ConcatElements
<1> HIDE DEF new
<1>3. \A p \in 1..Len(new) : p \in 1..Len(line) \/ p = Len(line) + 1
  BY <1>1, <1>2
<1>4. \A p \in 1..Len(line) : p \in 1..Len(new)
  BY <1>1, <1>2
<1>5. \A p \in 1..Len(new) : new[p].result = NoResult \/ new[p].result \in 0..(t - 1)
  BY <1>2, <1>3 DEF Numbered
<1>6. \A p, q \in 1..Len(new) :
         p < q /\ new[p].result # NoResult /\ new[q].result # NoResult
         => new[p].result < new[q].result
  BY <1>2, <1>3 DEF Numbered
<1>7. \A v \in 0..(t - 1) : \E p \in 1..Len(new) : new[p].result = v
  BY <1>2, <1>4 DEF Numbered
<1>8. Numbered(new, t)
  BY <1>5, <1>6, <1>7 DEF Numbered
<1> QED
  BY <1>8 DEF new

(* Items that define the ids that come next. *)
LEMMA NumberedByIds ==
    ASSUME NEW line, IsSequence(line), NEW t \in Nat, Numbered(line, t),
           NEW s, IsSequence(s), NEW n \in Nat, n = Len(s),
           \A k \in 1..n : s[k].result = t + k - 1
    PROVE  Numbered(line \o s, t + n)
<1> DEFINE new == line \o s
           l == Len(line)
<1>1. l \in Nat
  BY SequenceElements
<1>2. /\ Len(new) = l + n /\ \A p \in 1..l : new[p] = line[p]
      /\ \A k \in 1..n : new[l + k] = s[k]
  BY ConcatElements
<1>3. /\ \A p \in 1..l : line[p].result = NoResult \/ line[p].result \in 0..(t - 1)
      /\ \A p, q \in 1..l : p < q /\ line[p].result # NoResult /\ line[q].result # NoResult
                             => line[p].result < line[q].result
      /\ \A v \in 0..(t - 1) : \E p \in 1..l : line[p].result = v
  BY DEF Numbered
<1> HIDE DEF new, l
<1>4. ASSUME NEW p \in 1..(l + n)
      PROVE  \/ p \in 1..l /\ new[p].result = line[p].result
             \/ p \notin 1..l /\ new[p].result = t + (p - l) - 1
  <2>1. CASE p \in 1..l
    BY <1>2, <2>1
  <2>2. CASE p \notin 1..l
    <3>1. p - l \in 1..n /\ l + (p - l) = p
      BY <1>1, <2>2
    <3> QED
      BY <1>2, <2>2, <3>1
  <2> QED
    BY <2>1, <2>2
<1>5. \A p \in 1..(l + n) : new[p].result = NoResult \/ new[p].result \in 0..(t + n - 1)
  <2> TAKE p \in 1..(l + n)
  <2>1. CASE p \in 1..l /\ new[p].result = line[p].result
    BY <1>3, <2>1
  <2>2. CASE p \notin 1..l /\ new[p].result = t + (p - l) - 1
    BY <1>1, <2>2
  <2> QED
    BY <1>4, <2>1, <2>2
<1>6. \A p, q \in 1..(l + n) :
         p < q /\ new[p].result # NoResult /\ new[q].result # NoResult
         => new[p].result < new[q].result
  <2> SUFFICES ASSUME NEW p \in 1..(l + n), NEW q \in 1..(l + n), p < q,
                      new[p].result # NoResult, new[q].result # NoResult
               PROVE  new[p].result < new[q].result
    OBVIOUS
  <2>1. CASE p \in 1..l /\ q \in 1..l
    BY <1>2, <1>3, <2>1
  <2>2. CASE p \notin 1..l /\ q \notin 1..l
    <3>1. new[p].result = t + (p - l) - 1 /\ new[q].result = t + (q - l) - 1
      BY <1>4, <2>2
    <3>2. p \in Int /\ q \in Int
      BY <1>1
    <3>3. t + (p - l) - 1 < t + (q - l) - 1
      BY <1>1, <3>2
    <3> QED
      BY <3>1, <3>3
  <2>3. CASE p \in 1..l /\ q \notin 1..l
    <3>1. new[p].result \in 0..(t - 1)
      BY <1>2, <1>3, <2>3
    <3>2. new[q].result = t + (q - l) - 1
      BY <1>4, <2>3
    <3> QED
      BY <1>1, <2>3, <3>1, <3>2
  <2>4. CASE p \notin 1..l /\ q \in 1..l
    <3>1. p > l /\ q <= l
      BY <1>1, <2>4
    <3> QED
      BY <1>1, <3>1
  <2> QED
    BY <2>1, <2>2, <2>3, <2>4
<1>7. \A v \in 0..(t + n - 1) : \E p \in 1..(l + n) : new[p].result = v
  <2> TAKE v \in 0..(t + n - 1)
  <2>1. CASE v \in 0..(t - 1)
    <3>1. PICK p \in 1..l : line[p].result = v
      BY <1>3, <2>1
    <3>2. p \in 1..(l + n) /\ new[p].result = v
      BY <1>1, <1>2, <3>1
    <3> QED
      BY <3>2
  <2>2. CASE v >= t
    <3>1. v - t + 1 \in 1..n /\ l + (v - t + 1) \in 1..(l + n)
      BY <1>1, <2>2
    <3>2. new[l + (v - t + 1)].result = t + (v - t + 1) - 1
      BY <1>2, <3>1
    <3> QED
      BY <3>1, <3>2
  <2> QED
    BY <2>1, <2>2
<1>8. Numbered(new, t + n)
  BY <1>2, <1>5, <1>6, <1>7 DEF Numbered
<1> QED
  BY <1>8 DEF new

-----------------------------------------------------------------------------
(* What is in the line *)

LEMMA LineItems ==
    ASSUME NEW f, WellFormed(f)
    PROVE  /\ IsSequence(Layout(f))
           /\ \A item : item \in ToSet(Layout(f)) <=>
                \/ item \in ToSet(ParamItems(f.args))
                \/ \E b \in Blocks(f) : \/ item \in ToSet(ParamItems(Params(f, b)))
                                        \/ item \in ToSet(Instructions(f, b))
<1> DEFINE rows == Rows(f)
           rest == FlattenSeq(rows)
           args == ParamItems(f.args)
<1>1. /\ Parts(rows) /\ Len(rows) = Len(f.blocks) /\ Blocks(f) = 1..Len(f.blocks)
      /\ \A b \in Blocks(f) : rows[b] = ParamItems(Params(f, b)) \o Instructions(f, b)
      /\ Layout(f) = args \o rest
  BY Sizes, RowsAreParts
<1>2. IsSequence(args)
  BY ItemsOfParams DEF WellFormed
<1>3. IsSequence(rest) /\ ToSet(rest) = UNION {ToSet(rows[b]) : b \in Blocks(f)}
  BY <1>1, FlattenElements
<1>4. ASSUME NEW b \in Blocks(f)
      PROVE  ToSet(rows[b]) = ToSet(ParamItems(Params(f, b))) \cup ToSet(Instructions(f, b))
  <2> DEFINE s == ParamItems(Params(f, b))
             t == Instructions(f, b)
  <2>1. IsSequence(s) /\ IsSequence(t)
    BY ItemsOfParams DEF WellFormed
  <2> HIDE DEF s, t, rows
  <2>2. ToSet(s \o t) = ToSet(s) \cup ToSet(t)
    BY <2>1, ConcatElements
  <2>3. rows[b] = s \o t
    BY <1>1 DEF s, t
  <2> QED
    BY <2>2, <2>3 DEF s, t
<1> HIDE DEF rows, rest, args
<1>5. IsSequence(args \o rest) /\ ToSet(args \o rest) = ToSet(args) \cup ToSet(rest)
  BY <1>2, <1>3, ConcatElements
<1>6. \A item : item \in ToSet(rest) <=>
         \E b \in Blocks(f) : \/ item \in ToSet(ParamItems(Params(f, b)))
                              \/ item \in ToSet(Instructions(f, b))
  BY <1>3, <1>4
<1> QED
  BY <1>1, <1>5, <1>6 DEF args

LEMMA ParamDefines ==
    ASSUME NEW ids, IsSequence(ids)
    PROVE  \A v : v \in ToSet(ids) <=> \E item \in ToSet(ParamItems(ids)) : item.result = v
<1>1. /\ ToSet(ids) = {ids[k] : k \in 1..Len(ids)}
      /\ ToSet(ParamItems(ids)) = {Param(ids[k]) : k \in 1..Len(ids)}
  <2>1. ToSet(ParamItems(ids)) = {ParamItems(ids)[k] : k \in 1..Len(ParamItems(ids))}
    BY ItemsOfParams, SequenceElements
  <2> QED
    BY <2>1, ItemsOfParams, SequenceElements
<1>2. \A v : Param(v).result = v
  BY DEF Param, Inst
<1> QED
  BY <1>1, <1>2

(* The values are what the items of the line define. *)
LEMMA ValuesOfLine ==
    ASSUME NEW f, WellFormed(f), NEW v, v # NoResult
    PROVE  v \in Values(f) <=> \E p \in 1..Len(Layout(f)) : Layout(f)[p].result = v
<1>1. v \in Values(f) <=> \/ v \in ToSet(f.args)
                          \/ \E b \in Blocks(f) : \/ v \in ToSet(Params(f, b))
                                                  \/ v \in ResultsOf(Instructions(f, b))
  BY DEF Values
<1>2. \A insts : v \in ResultsOf(insts) <=> \E item \in ToSet(insts) : item.result = v
  BY DEF ResultsOf
<1>3. v \in ToSet(f.args) <=> \E item \in ToSet(ParamItems(f.args)) : item.result = v
  BY ParamDefines DEF WellFormed
<1>4. \A b \in Blocks(f) :
         v \in ToSet(Params(f, b)) <=> \E item \in ToSet(ParamItems(Params(f, b))) : item.result = v
  BY ParamDefines DEF WellFormed
<1>5. v \in Values(f) <=> \E item \in ToSet(Layout(f)) : item.result = v
  <2>1. ASSUME NEW item \in ToSet(Layout(f)), item.result = v PROVE v \in Values(f)
    BY <1>1, <1>2, <1>3, <1>4, <2>1, LineItems
  <2>2. ASSUME v \in Values(f) PROVE \E item \in ToSet(Layout(f)) : item.result = v
    <3>1. CASE v \in ToSet(f.args)
      BY <1>3, <3>1, LineItems
    <3>2. ASSUME NEW b \in Blocks(f), v \in ToSet(Params(f, b))
          PROVE  \E item \in ToSet(Layout(f)) : item.result = v
      BY <1>4, <3>2, LineItems
    <3>3. ASSUME NEW b \in Blocks(f), v \in ResultsOf(Instructions(f, b))
          PROVE  \E item \in ToSet(Layout(f)) : item.result = v
      BY <1>2, <3>3, LineItems
    <3> QED
      BY <1>1, <2>2, <3>1, <3>2, <3>3
  <2> QED
    BY <2>1, <2>2
<1>6. ToSet(Layout(f)) = {Layout(f)[p] : p \in 1..Len(Layout(f))}
  BY LineItems, SequenceElements
<1> QED
  BY <1>5, <1>6

-----------------------------------------------------------------------------
(* The invariant *)

LEMMA NumbersOnly ==
    ASSUME NEW s \in Seq(Nat)
    PROVE  NoResult \notin ToSet(s)
<1> SUFFICES ASSUME NoResult \in ToSet(s) PROVE FALSE
  OBVIOUS
<1>1. PICK k \in 1..Len(s) : NoResult = s[k]
  BY LenProperties DEF ToSet
<1>2. s[k] \in Nat
  BY ElementOfSeq
<1> QED
  BY <1>1, <1>2 DEF NoResult

LEMMA NumberedValues ==
    ASSUME NEW f, WellFormed(f), WellTyped(f), Numbered(Layout(f), f.types)
    PROVE  Values(f) = 0..(f.types - 1)
<1>1. f.types \in Nat /\ NoResult \notin Nat
  BY DEF WellFormed, NoResult
<1>2. NoResult \notin Values(f)
  <2>1. \A s \in Seq(Nat) : NoResult \notin ToSet(s)
    BY NumbersOnly
  <2>2. NoResult \notin ToSet(f.args) /\ \A b \in Blocks(f) : NoResult \notin ToSet(Params(f, b))
    BY <2>1 DEF WellTyped
  <2>3. \A insts : NoResult \notin ResultsOf(insts)
    BY DEF ResultsOf
  <2> QED
    BY <2>2, <2>3 DEF Values
<1>3. ASSUME NEW v \in Values(f) PROVE v \in 0..(f.types - 1)
  <2>1. PICK p \in 1..Len(Layout(f)) : Layout(f)[p].result = v
    BY <1>2, ValuesOfLine
  <2> QED
    BY <1>2, <2>1 DEF Numbered
<1>4. ASSUME NEW v \in 0..(f.types - 1) PROVE v \in Values(f)
  <2>1. v # NoResult
    BY <1>1
  <2>2. PICK p \in 1..Len(Layout(f)) : Layout(f)[p].result = v
    BY DEF Numbered
  <2> QED
    BY <2>1, <2>2, ValuesOfLine
<1> QED
  BY <1>3, <1>4

LEMMA MoreElements ==
    ASSUME NEW s, IsSequence(s), NEW e
    PROVE  ToSet(Append(s, e)) = ToSet(s) \cup {e}
<1>1. Append(s, e) = s \o <<e>> /\ IsSequence(<<e>>)
  BY AppendIsConcatenation
<1>2. ToSet(<<e>>) = {e}
  BY DEF ToSet
<1>3. ToSet(s \o <<e>>) = ToSet(s) \cup ToSet(<<e>>)
  BY <1>1, ConcatElements
<1> QED
  BY <1>1, <1>2, <1>3

(* An instruction more, with a result or without. *)
LEMMA GrownKeeps ==
    ASSUME NEW f, FuncInv(f), f.blocks # <<>>, NEW inst, Typed(inst),
           NEW t \in Nat,
           \/ inst.result = NoResult /\ t = f.types
           \/ inst.result = f.types /\ t = f.types + 1,
           NEW g, g = Grown(f, inst, t)
    PROVE  FuncInv(g)
<1> USE DEF FuncInv
<1>1. WellFormed(f) /\ f.types \in Nat
  BY DEF WellFormed
<1>2. /\ WellFormed(g) /\ g.args = f.args /\ g.types = t /\ Blocks(g) = Blocks(f)
      /\ \A b \in Blocks(f) :
           /\ Params(g, b) = Params(f, b)
           /\ Instructions(g, b) = IF b = Len(f.blocks) THEN Append(Instructions(f, b), inst)
                                   ELSE Instructions(f, b)
  BY <1>1, GrownIs
<1>3. ASSUME NEW b \in Blocks(f)
      PROVE  ToSet(Instructions(g, b)) \subseteq ToSet(Instructions(f, b)) \cup {inst}
  <2> DEFINE s == Instructions(f, b)
  <2>1. IsSequence(s) /\ Instructions(g, b) \in {Append(s, inst), s}
    BY <1>1, <1>2 DEF WellFormed
  <2> HIDE DEF s, FuncInv
  <2>2. ToSet(Append(s, inst)) = ToSet(s) \cup {inst}
    BY <2>1, MoreElements
  <2>3. ToSet(Instructions(g, b)) \subseteq ToSet(s) \cup {inst}
    BY <2>1, <2>2
  <2> QED
    BY <2>3 DEF s
<1>4. WellTyped(g)
  <2>1. WellTyped(f)
    OBVIOUS
  <2>2. ASSUME NEW b \in Blocks(g)
        PROVE  Params(g, b) \in Seq(Nat) /\ \A i \in ToSet(Instructions(g, b)) : Typed(i)
    BY <1>2, <1>3, <2>1 DEF WellTyped
  <2> QED
    BY <1>2, <2>1, <2>2 DEF WellTyped
<1>6. InOrder(Definitions(f), f.types) /\ Numbered(Layout(f), f.types)
  OBVIOUS
<1>7. /\ Definitions(g) = Definitions(f) \o Given(inst)
      /\ Layout(g) = Layout(f) \o <<inst>>
      /\ IsSequence(Layout(f)) /\ IsSequence(Definitions(f))
  BY <1>1, <1>6, GrownDefinitions, GrownLine, LineItems, InOrderIs
<1> DEFINE i == Ids(f.types, 1)
<1>8. CASE inst.result = NoResult /\ t = f.types
  <2>1. Definitions(g) = Definitions(f)
    <3>1. Given(inst) = <<>>
      BY <1>1, <1>8, GivenIs
    <3> QED
      BY <1>7, <3>1, ConcatNothing
  <2>2. Numbered(Layout(g), t)
    BY <1>1, <1>6, <1>7, <1>8, NumberedByNone
  <2> QED
    BY <1>2, <1>4, <1>6, <1>8, <2>1, <2>2
<1>9. CASE inst.result = f.types /\ t = f.types + 1
  <2>1. InOrder(Definitions(g), t)
    <3>1. Given(inst) = Ids(f.types, 1)
      BY <1>1, <1>9, GivenIs
    <3> QED
      BY <1>1, <1>6, <1>7, <1>9, <3>1, OrderContinues
  <2>2. Numbered(Layout(g), t)
    <3> DEFINE s == <<inst>>
    <3>1. IsSequence(s) /\ Len(s) = 1 /\ s[1] = inst
      BY EmptySequence, AppendIsConcatenation
    <3>2. \A k \in 1..1 : s[k].result = f.types + k - 1
      BY <1>1, <1>9, <3>1
    <3>3. Layout(g) = Layout(f) \o s
      BY <1>7
    <3> HIDE DEF s
    <3>4. Numbered(Layout(f) \o s, f.types + 1)
      BY <1>1, <1>6, <1>7, <3>1, <3>2, NumberedByIds
    <3> QED
      BY <1>9, <3>3, <3>4
  <2> QED
    BY <1>2, <1>4, <2>1, <2>2
<1> QED
  BY <1>8, <1>9

(* A block more, its parameters the ids that come next. *)
LEMMA WidenedKeeps ==
    ASSUME NEW f, FuncInv(f), NEW n \in Nat,
           NEW g, g = Widened(f, Ids(f.types, n), f.types + n)
    PROVE  FuncInv(g)
<1> USE DEF FuncInv
<1> DEFINE t == f.types
           new == Ids(t, n)
           m == Len(f.blocks) + 1
<1>1. WellFormed(f) /\ t \in Nat /\ t + n \in Nat
  BY DEF WellFormed
<1>2. /\ IsSequence(new) /\ Len(new) = n /\ new \in Seq(Nat)
      /\ \A k \in 1..n : new[k] = t + k - 1
  BY <1>1, IdsOf
<1>3. /\ WellFormed(g) /\ g.args = f.args /\ g.types = t + n
      /\ Blocks(g) = Blocks(f) \cup {m}
      /\ \A b \in Blocks(f) : Params(g, b) = Params(f, b) /\ Instructions(g, b) = Instructions(f, b)
      /\ Params(g, m) = new /\ Instructions(g, m) = <<>>
  BY <1>1, <1>2, WidenedIs
<1>4. ToSet(<<>>) = {}
  BY DEF ToSet
<1>5. WellTyped(g)
  BY <1>1, <1>2, <1>3, <1>4 DEF WellTyped
<1>7. InOrder(Definitions(f), t) /\ Numbered(Layout(f), t)
  OBVIOUS
<1>8. /\ Definitions(g) = Definitions(f) \o new
      /\ Layout(g) = Layout(f) \o ParamItems(new)
      /\ IsSequence(Layout(f))
  BY <1>1, <1>2, WidenedDefinitions, WidenedLine, LineItems
<1>9. InOrder(Definitions(g), t + n)
  BY <1>1, <1>7, <1>8, OrderContinues
<1>10. Numbered(Layout(g), t + n)
  <2> DEFINE s == ParamItems(new)
  <2>1. IsSequence(s) /\ Len(s) = n /\ \A k \in 1..n : s[k] = Param(new[k])
    BY <1>2, ItemsOfParams
  <2>2. \A v : Param(v).result = v
    BY DEF Param, Inst
  <2>3. Layout(g) = Layout(f) \o s
    BY <1>8
  <2> HIDE DEF s, new
  <2>4. \A k \in 1..n : s[k].result = t + k - 1
    BY <1>2, <2>1, <2>2
  <2> HIDE DEF t
  <2>5. Numbered(Layout(f) \o s, t + n)
    BY <1>1, <1>7, <1>8, <2>1, <2>4, NumberedByIds
  <2> QED
    BY <2>3, <2>5
<1> QED
  BY <1>3, <1>5, <1>9, <1>10

(* A function of n arguments and no block. *)
LEMMA ArgsOnly ==
    ASSUME NEW n \in Nat, NEW f, f = Function(Ids(0, n), <<>>, n)
    PROVE  FuncInv(f) /\ f.types = n /\ f.blocks = <<>>
<1> DEFINE ids == Ids(0, n)
<1>1. /\ f.args = ids /\ f.blocks = <<>> /\ f.types = n
      /\ f = Function(f.args, f.blocks, f.types)
  BY DEF Function
<1>2. /\ IsSequence(ids) /\ Len(ids) = n /\ ids \in Seq(Nat)
      /\ \A k \in 1..n : ids[k] = 0 + k - 1
  BY IdsOf
<1>3. Blocks(f) = {}
  BY <1>1, EmptySequence DEF Blocks
<1> HIDE DEF ids
<1>4. WellFormed(f)
  BY <1>1, <1>2, <1>3, EmptySequence DEF WellFormed
<1>5. WellTyped(f)
  BY <1>1, <1>2, <1>3 DEF WellTyped
<1>6. InOrder(Definitions(f), n)
  <2> DEFINE rows == DefinitionRows(f)
  <2>1. Parts(rows) /\ Len(rows) = 0 /\ Definitions(f) = ids \o FlattenSeq(rows)
    BY <1>1, <1>4, DefinitionRowsAreParts, EmptySequence
  <2> HIDE DEF rows
  <2>2. FlattenSeq(rows) = <<>>
    BY <2>1, JoinedNone DEF Parts
  <2>3. Definitions(f) = ids
    BY <1>2, <2>1, <2>2, ConcatNothing
  <2> QED
    BY <1>2, <2>3, InOrderIs
<1>7. Numbered(Layout(f), n)
  <2> DEFINE rows == Rows(f)
             s == ParamItems(ids)
  <2>1. Parts(rows) /\ Len(rows) = 0 /\ Layout(f) = s \o FlattenSeq(rows)
    BY <1>1, <1>4, RowsAreParts, EmptySequence
  <2>2. IsSequence(s) /\ Len(s) = n /\ \A k \in 1..n : s[k] = Param(ids[k])
    BY <1>2, ItemsOfParams
  <2> HIDE DEF rows, s
  <2>3. FlattenSeq(rows) = <<>>
    BY <2>1, JoinedNone DEF Parts
  <2>4. Layout(f) = <<>> \o s
    BY <2>1, <2>2, <2>3, ConcatNothing
  <2>5. Numbered(<<>>, 0)
    BY EmptySequence DEF Numbered
  <2>6. \A k \in 1..n : s[k].result = 0 + k - 1
    BY <1>2, <2>2 DEF Param, Inst
  <2>7. Numbered(<<>> \o s, 0 + n)
    BY <2>2, <2>5, <2>6, EmptySequence, NumberedByIds
  <2> QED
    BY <2>4, <2>7
<1> QED
  BY <1>1, <1>4, <1>5, <1>6, <1>7 DEF FuncInv

LEMMA InitEstablishes == Init => IRInv
<1> SUFFICES ASSUME Init PROVE FuncInv(func)
  BY DEF IRInv
<1>1. CASE func = BareFunction
  <2>1. Ids(0, 0) = <<>>
    <3>1. IsSequence(Ids(0, 0)) /\ Len(Ids(0, 0)) = 0
      BY IdsOf
    <3> QED
      BY <3>1, EmptySequence, SameElements
  <2> QED
    BY <1>1, <2>1, ArgsOnly DEF BareFunction
<1>2. ASSUME NEW n \in 0..MaxArgs, func = CreateFunction(n) PROVE FuncInv(func)
  <2> DEFINE f == Function(Ids(0, n), <<>>, n)
  <2>1. n \in Nat /\ FuncInv(f) /\ f.types = n /\ f.blocks = <<>> /\ f.args = Ids(0, n)
    BY BoundAssumption, ArgsOnly DEF Function
  <2>2. Ids(n, 0) = <<>>
    <3>1. IsSequence(Ids(n, 0)) /\ Len(Ids(n, 0)) = 0
      BY <2>1, IdsOf
    <3> QED
      BY <3>1, EmptySequence, SameElements
  <2>3. Widened(f, Ids(n, 0), n + 0) = func
    <3>1. Append(<<>>, Block(<<>>, <<>>)) = <<Block(<<>>, <<>>)>> /\ n + 0 = n
      BY <2>1
    <3>2. Widened(f, Ids(n, 0), n + 0) = Function(Ids(0, n), <<Block(<<>>, <<>>)>>, n)
      BY <2>1, <2>2, <3>1, Zenon DEF Widened
    <3> QED
      BY <1>2, <3>2 DEF CreateFunction
  <2> HIDE DEF f
  <2> QED
    BY <2>1, <2>3, WidenedKeeps
<1> QED
  BY <1>1, <1>2 DEF Init

-----------------------------------------------------------------------------
(* The steps *)

LEMMA AppendInstIs ==
    ASSUME NEW f, WellFormed(f), f.blocks # <<>>, NEW inst
    PROVE  /\ AppendInst(f, inst) = Grown(f, inst, f.types)
           /\ [AppendInst(f, inst) EXCEPT !.types = @ + 1] = Grown(f, inst, f.types + 1)
<1> DEFINE n == Len(f.blocks)
           blocks == [f.blocks EXCEPT ![n].instructions = Append(@, inst)]
           more == [b \in 1..n |-> IF b = n
                                   THEN Block(Params(f, b), Append(Instructions(f, b), inst))
                                   ELSE f.blocks[b]]
<1>1. n \in Nat \ {0} /\ Blocks(f) = 1..n /\ n \in 1..n
  BY Sizes
<1>2. f = [args |-> f.args, blocks |-> f.blocks, types |-> f.types]
  BY DEF WellFormed, Function
<1>3. DOMAIN f.blocks = 1..n /\ f.blocks = [b \in 1..n |-> f.blocks[b]]
  BY SequenceElements, LenProperties DEF WellFormed, IsSequence
<1>4. f.blocks[n] = [params |-> Params(f, n), instructions |-> Instructions(f, n)]
  BY <1>1 DEF WellFormed, Block
<1>5. blocks = more
  <2>1. blocks = [b \in 1..n |-> IF b = n
                                 THEN [f.blocks[n] EXCEPT !.instructions = Append(@, inst)]
                                 ELSE f.blocks[b]]
    BY <1>1, <1>3
  <2>2. [f.blocks[n] EXCEPT !.instructions = Append(@, inst)]
          = Block(Params(f, n), Append(Instructions(f, n), inst))
    <3>1. \A p, i, j : [[params |-> p, instructions |-> i] EXCEPT !.instructions = j]
                         = [params |-> p, instructions |-> j]
      OBVIOUS
    <3>2. f.blocks[n].instructions = Instructions(f, n)
      BY DEF Instructions
    <3> QED
      BY <1>4, <3>1, <3>2, SMTT(20) DEF Block
  <2> QED
    BY <2>1, <2>2
<1> HIDE DEF n
<1>6. AppendInst(f, inst) = [f EXCEPT !.blocks = blocks]
  BY <1>1, <1>2 DEF AppendInst, n
<1> HIDE DEF blocks
<1>7. [f EXCEPT !.blocks = blocks] = [args |-> f.args, blocks |-> blocks, types |-> f.types]
  BY <1>2
<1>8. \A t : Grown(f, inst, t) = [args |-> f.args, blocks |-> more, types |-> t]
  BY <1>1 DEF Grown, Function, n
<1>9. AppendInst(f, inst) = [args |-> f.args, blocks |-> more, types |-> f.types]
  BY <1>5, <1>6, <1>7
<1> HIDE DEF more
<1>10. [AppendInst(f, inst) EXCEPT !.types = @ + 1]
         = [args |-> f.args, blocks |-> more, types |-> f.types + 1]
  BY <1>9
<1> QED
  BY <1>8, <1>9, <1>10

LEMMA ListsAreSequences ==
    ASSUME func.types \in Nat
    PROVE  Nameable \subseteq Nat /\ \A max \in Nat : Lists(max) \subseteq Seq(Nat)
<1>1. Nameable \subseteq Nat
  BY BoundAssumption DEF Nameable
<1>2. ASSUME NEW max \in Nat, NEW s \in Lists(max) PROVE s \in Seq(Nat)
  <2>1. PICK n \in 0..max : s \in [1..n -> Nameable]
    BY DEF Lists
  <2>2. n \in Nat
    OBVIOUS
  <2>3. s \in [1..n -> Nat]
    BY <1>1, <2>1
  <2> QED
    BY <2>2, <2>3
<1> QED
  BY <1>1, <1>2

LEMMA OperandsAreNumbers ==
    ASSUME func.types \in Nat, NEW op
    PROVE  /\ Operands(op) \subseteq Seq(Nat)
           /\ op \in OneOperand => \A x \in Operands(op) : Len(x) = 1
           /\ op \in {"binary", "shift", "divide", "compare", "store"} =>
                \A x \in Operands(op) : Len(x) = 2
<1>1. Nameable \subseteq Nat /\ Lists(MaxParams) \subseteq Seq(Nat)
  BY ListsAreSequences, BoundAssumption
<1>2. <<>> \in Seq(Nat) /\ (\A v \in Nat : <<v>> \in Seq(Nat)) /\ \A v, w \in Nat : <<v, w>> \in Seq(Nat)
  OBVIOUS
<1>3. \/ Operands(op) = {<<>>}
      \/ Operands(op) = {<<v>> : v \in Nameable}
      \/ Operands(op) = Lists(MaxParams)
      \/ Operands(op) = Nameable \X Nameable
  BY DEF Operands
<1>4. ASSUME NEW x \in Nameable \X Nameable PROVE x \in Seq(Nat)
  <2>1. PICK v, w \in Nameable : x = <<v, w>>
    OBVIOUS
  <2> QED
    BY <1>1, <1>2, <2>1
<1>5. Operands(op) \subseteq Seq(Nat)
  BY <1>1, <1>2, <1>3, <1>4
<1>6. op \in OneOperand => Operands(op) = {<<v>> : v \in Nameable}
  BY DEF Operands, OneOperand, NoOperand
<1>7. op \in {"binary", "shift", "divide", "compare", "store"} =>
        Operands(op) = Nameable \X Nameable
  BY DEF Operands, OneOperand, NoOperand
<1>8. ASSUME NEW x \in Nameable \X Nameable PROVE Len(x) = 2
  OBVIOUS
<1>9. ASSUME NEW x \in {<<v>> : v \in Nameable} PROVE Len(x) = 1
  OBVIOUS
<1> QED
  BY <1>5, <1>6, <1>7, <1>8, <1>9

LEMMA EdgesAreTyped ==
    ASSUME func.types \in Nat, NEW op \in Terminators, NEW edges \in EdgesOf(op)
    PROVE  /\ \A e \in ToSet(edges) : e.block \in Nat /\ e.args \in Seq(Nat)
           /\ IsSequence(edges)
           /\ op = "jmp" => Len(edges) = 1
           /\ op = "brif" => Len(edges) = 2
<1>1. Lists(MaxParams) \subseteq Seq(Nat) /\ Lists(MaxBranchArgs) \subseteq Seq(Nat)
  BY ListsAreSequences, BoundAssumption
<1>2. \A b \in 1..(MaxBlocks + Ahead) : b \in Nat
  BY BoundAssumption
<1>3. \A e \in Edges(MaxParams) \cup Edges(MaxBranchArgs) : e.block \in Nat /\ e.args \in Seq(Nat)
  BY <1>1, <1>2 DEF Edges, Edge
<1>4. \/ op = "ret" /\ edges = <<>>
      \/ op = "jmp" /\ \E e \in Edges(MaxParams) : edges = <<e>>
      \/ op = "brif" /\ edges \in Edges(MaxBranchArgs) \X Edges(MaxBranchArgs)
  BY DEF EdgesOf, Terminators
<1>5. CASE op = "ret" /\ edges = <<>>
  BY <1>5, EmptySequence DEF ToSet
<1>6. CASE op = "jmp" /\ \E e \in Edges(MaxParams) : edges = <<e>>
  <2>1. PICK e \in Edges(MaxParams) : edges = <<e>>
    BY <1>6
  <2>2. ToSet(edges) = {e} /\ Len(edges) = 1
    BY <2>1 DEF ToSet
  <2>3. IsSequence(edges)
    <3>1. edges \in Seq({e})
      BY <2>1
    <3> QED
      BY <2>2, <3>1 DEF IsSequence
  <2> QED
    BY <1>3, <1>6, <2>2, <2>3
<1>7. CASE op = "brif" /\ edges \in Edges(MaxBranchArgs) \X Edges(MaxBranchArgs)
  <2>1. PICK d, e \in Edges(MaxBranchArgs) : edges = <<d, e>>
    BY <1>7
  <2>2. ToSet(edges) = {d, e} /\ Len(edges) = 2
    BY <2>1 DEF ToSet
  <2>3. IsSequence(edges)
    <3>1. edges \in Seq({d, e})
      BY <2>1
    <3> QED
      BY <2>2, <3>1 DEF IsSequence
  <2> QED
    BY <1>3, <1>7, <2>2, <2>3
<1> QED
  BY <1>4, <1>5, <1>6, <1>7

(* An instruction that yields the next id, and one that yields none. *)
LEMMA ResultAppended ==
    ASSUME IRInv, func.blocks # <<>>, NEW op \in Classes, op \in Emitted \cup {"load"},
           NEW operands \in Operands(op), NEW callee \in Callee, AppendResult(op, operands, callee)
    PROVE  IRInv'
<1> DEFINE inst == Inst(op, func.types, operands, <<>>, callee)
<1>1. FuncInv(func) /\ WellFormed(func) /\ func.types \in Nat
  BY DEF IRInv, FuncInv, WellFormed
<1>2. func' = Grown(func, inst, func.types + 1)
  BY <1>1, AppendInstIs DEF AppendResult
<1>3. /\ inst.op = op /\ inst.result = func.types /\ inst.operands = operands
      /\ inst.edges = <<>> /\ inst.callee = callee
  BY DEF Inst
<1>4. ToSet(<<>>) = {}
  BY DEF ToSet
<1>5. Typed(inst)
  <2>1. op \notin Terminators
    BY DEF Emitted, Terminators
  <2>2. inst.result # NoResult
    BY <1>1, <1>3 DEF NoResult
  <2>3. Shaped(inst)
    <3>1. op \in OneOperand => Len(operands) = 1
      BY <1>1, OperandsAreNumbers
    <3>2. op \in {"binary", "shift", "divide", "compare", "store"} => Len(operands) = 2
      BY <1>1, OperandsAreNumbers
    <3>3. op \notin Terminators \cup {"store"}
      BY DEF Emitted, Terminators
    <3>4. IsSequence(<<>>)
      BY EmptySequence
    <3> QED
      BY <1>3, <2>1, <2>2, <3>1, <3>2, <3>3, <3>4 DEF Shaped, Terminators
  <2> QED
    BY <1>1, <1>3, <1>4, <2>3, OperandsAreNumbers DEF Typed
<1> HIDE DEF inst
<1>6. FuncInv(Grown(func, inst, func.types + 1))
  BY <1>1, <1>3, <1>5, GrownKeeps
<1>7. FuncInv(func')
  BY <1>2, <1>6
<1> QED
  BY <1>7 DEF IRInv

LEMMA EffectAppended ==
    ASSUME IRInv, func.blocks # <<>>, NEW op \in Classes,
           NEW operands \in Operands(op), NEW edges,
           \A e \in ToSet(edges) : e.block \in Nat /\ e.args \in Seq(Nat),
           op \in Terminators \cup {"store"}, IsSequence(edges),
           op = "jmp" => Len(edges) = 1, op = "brif" => Len(edges) = 2,
           func' = AppendInst(func, Inst(op, NoResult, operands, edges, Native))
    PROVE  IRInv'
<1> DEFINE inst == Inst(op, NoResult, operands, edges, Native)
<1>1. FuncInv(func) /\ WellFormed(func) /\ func.types \in Nat
  BY DEF IRInv, FuncInv, WellFormed
<1>2. func' = Grown(func, inst, func.types)
  BY <1>1, AppendInstIs
<1>3. /\ inst.op = op /\ inst.result = NoResult /\ inst.operands = operands
      /\ inst.edges = edges /\ inst.callee = Native
  BY DEF Inst
<1>4. Shaped(inst)
  BY <1>1, <1>3, OperandsAreNumbers DEF Shaped, Terminators, Emitted
<1>5. Typed(inst)
  BY <1>1, <1>3, <1>4, OperandsAreNumbers, CalleeAssumption DEF Typed
<1> HIDE DEF inst
<1>6. FuncInv(Grown(func, inst, func.types))
  BY <1>1, <1>3, <1>5, GrownKeeps
<1>7. FuncInv(func')
  BY <1>2, <1>6
<1> QED
  BY <1>7 DEF IRInv

(* A block more, with parameters of its own. *)
LEMMA BlockAppended ==
    ASSUME WellFormed(func), CreateBlock
    PROVE  \E n \in 0..MaxParams : func' = Widened(func, Ids(func.types, n), func.types + n)
<1>1. PICK n \in 0..MaxParams :
        func' = [func EXCEPT !.blocks = Append(@, Block(Ids(func.types, n), <<>>)),
                             !.types = @ + n]
  BY DEF CreateBlock
<1> DEFINE new == Block(Ids(func.types, n), <<>>)
           a == func.args
           b == func.blocks
           t == func.types
<1>2. func = [args |-> a, blocks |-> b, types |-> t]
  BY DEF WellFormed, Function
<1>3. func' = [func EXCEPT !.blocks = Append(b, new), !.types = t + n]
  BY <1>1
<1>4. Widened(func, Ids(func.types, n), t + n)
        = [args |-> a, blocks |-> Append(b, new), types |-> t + n]
  BY DEF Widened, Function
<1> HIDE DEF new, a, b, t
<1>5. func' = [args |-> a, blocks |-> Append(b, new), types |-> t + n]
  BY <1>2, <1>3
<1>6. func' = Widened(func, Ids(func.types, n), func.types + n)
  BY <1>4, <1>5 DEF t
<1> QED
  BY <1>6

LEMMA NextKeeps == IRInv /\ [Next]_func => IRInv'
<1> SUFFICES ASSUME IRInv, [Next]_func PROVE IRInv'
  OBVIOUS
<1>0. FuncInv(func) /\ func.types \in Nat /\ func = Function(func.args, func.blocks, func.types)
  BY DEF IRInv, FuncInv, WellFormed
<1>1. CASE CreateBlock
  <2>1. PICK n \in 0..MaxParams : func' = Widened(func, Ids(func.types, n), func.types + n)
    BY <1>0, <1>1, BlockAppended DEF FuncInv
  <2>2. n \in Nat
    BY BoundAssumption
  <2>3. FuncInv(Widened(func, Ids(func.types, n), func.types + n))
    BY <1>0, <2>2, WidenedKeeps
  <2>4. FuncInv(func')
    BY <2>1, <2>3
  <2> QED
    BY <2>4 DEF IRInv
<1>2. CASE Emit
  <2>1. PICK op \in Classes \cap Emitted :
          \E operands \in Operands(op), callee \in (IF op = "call" THEN Callee ELSE {Native}) :
             AppendResult(op, operands, callee)
    BY <1>2 DEF Emit
  <2>2. PICK operands \in Operands(op), callee \in (IF op = "call" THEN Callee ELSE {Native}) :
             AppendResult(op, operands, callee)
    BY <2>1
  <2>3. callee \in Callee /\ func.blocks # <<>>
    BY <1>2, CalleeAssumption DEF Emit, CanAppend
  <2> QED
    BY <2>2, <2>3, ResultAppended
<1>3. CASE Load
  <2>1. PICK operands \in Operands("load") : AppendResult("load", operands, Native)
    BY <1>3 DEF Load
  <2>2. "load" \in Classes /\ func.blocks # <<>>
    BY <1>3 DEF Load, CanAppend
  <2> QED
    BY <2>1, <2>2, CalleeAssumption, ResultAppended
<1>4. CASE Store
  <2>1. PICK operands \in Operands("store") :
          func' = AppendInst(func, Inst("store", NoResult, operands, <<>>, Native))
    BY <1>4 DEF Store
  <2>2. "store" \in Classes /\ func.blocks # <<>>
    BY <1>4 DEF Store, CanAppend
  <2>3. ToSet(<<>>) = {} /\ IsSequence(<<>>)
    BY EmptySequence DEF ToSet
  <2> QED
    BY <2>1, <2>2, <2>3, EffectAppended
<1>5. CASE EmitTerm
  <2>1. PICK op \in Classes \cap Terminators :
          \E operands \in Operands(op), edges \in EdgesOf(op) :
             func' = AppendInst(func, Inst(op, NoResult, operands, edges, Native))
    BY <1>5 DEF EmitTerm
  <2>2. PICK operands \in Operands(op), edges \in EdgesOf(op) :
             func' = AppendInst(func, Inst(op, NoResult, operands, edges, Native))
    BY <2>1
  <2>3. func.blocks # <<>>
    BY <1>5 DEF EmitTerm, CanAppend
  <2>4. /\ \A e \in ToSet(edges) : e.block \in Nat /\ e.args \in Seq(Nat)
        /\ IsSequence(edges)
        /\ op = "jmp" => Len(edges) = 1
        /\ op = "brif" => Len(edges) = 2
    BY <1>0, EdgesAreTyped
  <2> QED
    BY <2>2, <2>3, <2>4, EffectAppended
<1>6. CASE UNCHANGED func
  BY <1>6 DEF IRInv
<1> QED
  BY <1>1, <1>2, <1>3, <1>4, <1>5, <1>6 DEF Next

(***************************************************************************)
(* Whatever a caller makes of a function, its ids stand in its line in     *)
(* order, each at one place.                                               *)
(***************************************************************************)
THEOREM BuilderHolds == Spec => []IRInv
<1>1. Init => IRInv
  BY InitEstablishes
<1>2. IRInv /\ [Next]_func => IRInv'
  BY NextKeeps
<1> QED
  BY <1>1, <1>2, PTL DEF Spec

(* The fields of a function keep their types. *)
THEOREM BuilderTypes == Spec => []TypeOK
<1>1. IRInv => TypeOK
  BY DEF IRInv, FuncInv, WellTyped, Typed, TypeOK
<1> QED
  BY <1>1, BuilderHolds, PTL

(***************************************************************************)
(* The ids are 0 .. types.size() - 1, handed out in the order of the text, *)
(* whichever of the five functions of the builder hands them out.          *)
(***************************************************************************)
THEOREM IdsAreHandedOutInOrder == Spec => []IdsAreUnique
<1>1. IRInv => IdsAreUnique
  BY NumberedValues DEF IRInv, FuncInv, InOrder, IdsAreUnique
<1> QED
  BY <1>1, BuilderHolds, PTL

-----------------------------------------------------------------------------
(* Where things are in the line.  Places count from 1, as sequences do;    *)
(* the positions of the passes count from 0.                               *)

(* How many items come before block b. *)
Before(f, b) == Len(f.args) + Offset(Rows(f), b - 1)

(* The place of the i-th instruction of block b. *)
Place(f, b, i) == Before(f, b) + Len(Params(f, b)) + i

(* A block begins where the one before it ends; the last ends the line. *)
LEMMA BlockOffsets ==
    ASSUME NEW f, WellFormed(f)
    PROVE  /\ \A b \in 1..(Len(f.blocks) + 1) :
                /\ Before(f, b) \in Nat /\ Before(f, b) >= Len(f.args)
                /\ Before(f, b) <= Len(Layout(f))
           /\ \A b \in Blocks(f) :
                Before(f, b + 1) = Before(f, b) + Len(Params(f, b)) + Len(Instructions(f, b))
           /\ Before(f, Len(f.blocks) + 1) = Len(Layout(f))
           /\ \A b, c \in 1..(Len(f.blocks) + 1) : c <= b => Before(f, c) <= Before(f, b)
<1> DEFINE n == Len(f.blocks)
           rows == Rows(f)
           args == ParamItems(f.args)
<1>1. /\ n \in Nat /\ Blocks(f) = 1..n /\ Len(f.args) \in Nat
      /\ \A b \in Blocks(f) : Len(Params(f, b)) \in Nat /\ Len(Instructions(f, b)) \in Nat
  BY Sizes
<1>2. /\ Parts(rows) /\ Len(rows) = n /\ Layout(f) = args \o FlattenSeq(rows)
      /\ \A b \in Blocks(f) : Len(rows[b]) = Len(Params(f, b)) + Len(Instructions(f, b))
  BY RowsAreParts
<1>3. Len(Layout(f)) = Len(f.args) + Offset(rows, n)
  <2>1. IsSequence(args) /\ Len(args) = Len(f.args)
    BY ItemsOfParams DEF WellFormed
  <2>2. IsSequence(FlattenSeq(rows)) /\ Len(FlattenSeq(rows)) = Offset(rows, n)
    BY <1>2, FlattenJoins
  <2> HIDE DEF args, rows
  <2>3. Len(args \o FlattenSeq(rows)) = Len(args) + Len(FlattenSeq(rows))
    BY <2>1, <2>2, ConcatLengths
  <2> QED
    BY <1>2, <2>1, <2>2, <2>3
<1>4. \A b \in 0..n : JoinedWell(rows, b) /\ Increasing(rows, b)
  BY <1>2, JoinedParts, JoinedPlaces
<1>5. \A b \in 0..n : /\ Offset(rows, b) \in Nat
                      /\ b > 0 => Offset(rows, b) = Offset(rows, b - 1) + Len(rows[b])
  BY <1>4 DEF JoinedWell
<1>6. \A b \in 0..n : \A c \in 0..b : Offset(rows, c) <= Offset(rows, b)
  BY <1>4 DEF Increasing
<1>7. \A b \in 1..(n + 1) : Before(f, b) = Len(f.args) + Offset(rows, b - 1)
  BY DEF Before
<1> HIDE DEF rows
<1>8. \A b \in 1..(n + 1) : b - 1 \in 0..n
  BY <1>1
<1>9. \A b \in Blocks(f) :
         Before(f, b + 1) = Before(f, b) + Len(Params(f, b)) + Len(Instructions(f, b))
  <2> TAKE b \in Blocks(f)
  <2>1. b \in 0..n /\ b > 0 /\ b \in 1..(n + 1) /\ b + 1 \in 1..(n + 1) /\ (b + 1) - 1 = b
    BY <1>1
  <2>2. Offset(rows, b) = Offset(rows, b - 1) + Len(rows[b]) /\ Offset(rows, b - 1) \in Nat
    BY <1>5, <1>8, <2>1
  <2>3. Before(f, b + 1) = Len(f.args) + Offset(rows, b)
    BY <1>7, <2>1
  <2> QED
    BY <1>1, <1>2, <1>7, <2>1, <2>2, <2>3, SMTT(20)
<1>10. Before(f, n + 1) = Len(Layout(f))
  <2>1. n + 1 \in 1..(n + 1) /\ (n + 1) - 1 = n
    BY <1>1
  <2>2. Before(f, n + 1) = Len(f.args) + Offset(rows, (n + 1) - 1)
    BY <1>7, <2>1
  <2> QED
    BY <1>3, <2>1, <2>2
<1>11. \A b \in 1..(n + 1) : Before(f, b) \in Nat /\ Before(f, b) >= Len(f.args)
  <2> TAKE b \in 1..(n + 1)
  <2>1. Offset(rows, b - 1) \in Nat
    BY <1>5, <1>8
  <2>2. Before(f, b) = Len(f.args) + Offset(rows, b - 1)
    BY <1>7
  <2> QED
    BY <1>1, <2>1, <2>2
<1>12. \A b, c \in 1..(n + 1) : c <= b => Before(f, c) <= Before(f, b)
  <2> SUFFICES ASSUME NEW b \in 1..(n + 1), NEW c \in 1..(n + 1), c <= b
               PROVE  Before(f, c) <= Before(f, b)
    OBVIOUS
  <2>1. b - 1 \in 0..n /\ c - 1 \in 0..(b - 1) /\ c - 1 \in 0..n
    BY <1>1
  <2>2. /\ Offset(rows, c - 1) \in Nat /\ Offset(rows, b - 1) \in Nat
        /\ Offset(rows, c - 1) <= Offset(rows, b - 1)
    BY <1>5, <1>6, <2>1
  <2> QED
    BY <1>1, <1>7, <2>2
<1>13. \A b \in 1..(n + 1) : Before(f, b) <= Len(Layout(f))
  <2>1. n + 1 \in 1..(n + 1) /\ \A b \in 1..(n + 1) : b <= n + 1
    BY <1>1
  <2> QED
    BY <1>10, <1>12, <2>1
<1> QED
  BY <1>9, <1>10, <1>11, <1>12, <1>13

(* Which item is at which place, and no place is left over. *)
LEMMA LinePlaces ==
    ASSUME NEW f, WellFormed(f)
    PROVE  /\ \A k \in 1..Len(f.args) : /\ k \in 1..Len(Layout(f))
                                        /\ Layout(f)[k] = Param(f.args[k])
           /\ \A b \in Blocks(f) : \A k \in 1..Len(Params(f, b)) :
                /\ Before(f, b) + k \in 1..Len(Layout(f))
                /\ Layout(f)[Before(f, b) + k] = Param(Params(f, b)[k])
           /\ \A b \in Blocks(f) : \A i \in 1..Len(Instructions(f, b)) :
                /\ Place(f, b, i) \in 1..Len(Layout(f))
                /\ Layout(f)[Place(f, b, i)] = Instructions(f, b)[i]
           /\ \A p \in 1..Len(Layout(f)) :
                \/ p \in 1..Len(f.args)
                \/ \E b \in Blocks(f) :
                     \/ \E k \in 1..Len(Params(f, b)) : p = Before(f, b) + k
                     \/ \E i \in 1..Len(Instructions(f, b)) : p = Place(f, b, i)
<1> DEFINE n == Len(f.blocks)
           a == Len(f.args)
           rows == Rows(f)
           args == ParamItems(f.args)
           rest == FlattenSeq(rows)
           line == Layout(f)
<1>1. /\ n \in Nat /\ Blocks(f) = 1..n /\ a \in Nat
      /\ \A b \in Blocks(f) : Len(Params(f, b)) \in Nat /\ Len(Instructions(f, b)) \in Nat
  BY Sizes
<1>2. /\ Parts(rows) /\ Len(rows) = n /\ line = args \o rest
      /\ \A b \in Blocks(f) : rows[b] = ParamItems(Params(f, b)) \o Instructions(f, b)
  BY RowsAreParts
<1>3. IsSequence(args) /\ Len(args) = a /\ \A k \in 1..a : args[k] = Param(f.args[k])
  BY ItemsOfParams DEF WellFormed
<1>4. IsSequence(rest) /\ Len(rest) = Offset(rows, n) /\ rest = Joined(rows, n)
  BY <1>2, FlattenJoins
<1>5. EachPlaced(rows, n) /\ NoneElse(rows, n)
  BY <1>1, <1>2, JoinedPlaces
<1>6. ASSUME NEW b \in Blocks(f)
      PROVE  /\ Len(rows[b]) = Len(Params(f, b)) + Len(Instructions(f, b))
             /\ \A k \in 1..Len(Params(f, b)) : rows[b][k] = Param(Params(f, b)[k])
             /\ \A i \in 1..Len(Instructions(f, b)) :
                  rows[b][Len(Params(f, b)) + i] = Instructions(f, b)[i]
  <2> DEFINE s == ParamItems(Params(f, b))
             t == Instructions(f, b)
             m == Len(Params(f, b))
  <2>1. /\ IsSequence(s) /\ IsSequence(t) /\ Len(s) = m
        /\ \A k \in 1..m : s[k] = Param(Params(f, b)[k])
    BY ItemsOfParams DEF WellFormed
  <2>2. rows[b] = s \o t
    BY <1>2
  <2> HIDE DEF s, t, rows
  <2>3. /\ Len(s \o t) = Len(s) + Len(t)
        /\ \A k \in 1..Len(s) : (s \o t)[k] = s[k]
        /\ \A i \in 1..Len(t) : (s \o t)[Len(s) + i] = t[i]
    <3>1. IsSequence(s) /\ IsSequence(t)
      BY <2>1
    <3> QED
      BY <3>1, ConcatElements
  <2>4. /\ Len(rows[b]) = m + Len(t)
        /\ \A k \in 1..m : rows[b][k] = s[k]
        /\ \A i \in 1..Len(t) : rows[b][m + i] = t[i]
    BY <2>1, <2>2, <2>3
  <2> QED
    BY <2>1, <2>4 DEF t
<1>7. \A b \in Blocks(f) : Before(f, b) = a + Offset(rows, b - 1) /\ Offset(rows, b - 1) \in Nat
  <2>1. \A b \in Blocks(f) : b - 1 \in 0..n
    BY <1>1
  <2>2. \A b \in 0..n : Offset(rows, b) \in Nat
    BY <1>2, JoinedParts DEF JoinedWell
  <2> QED
    BY <2>1, <2>2 DEF Before
<1> HIDE DEF args, rest, rows
<1>8. /\ Len(line) = a + Offset(rows, n)
      /\ \A k \in 1..a : line[k] = args[k]
      /\ \A q \in 1..Offset(rows, n) : line[a + q] = rest[q]
  <2>1. /\ Len(args \o rest) = Len(args) + Len(rest)
        /\ \A k \in 1..Len(args) : (args \o rest)[k] = args[k]
        /\ \A q \in 1..Len(rest) : (args \o rest)[Len(args) + q] = rest[q]
    <3>1. IsSequence(args) /\ IsSequence(rest)
      BY <1>3, <1>4
    <3> QED
      BY <3>1, ConcatElements
  <2> HIDE DEF line, a
  <2> QED
    BY <1>2, <1>3, <1>4, <2>1
<1> HIDE DEF line, a
<1>9. Offset(rows, n) \in Nat
  <2>1. n \in 0..n
    BY <1>1
  <2> QED
    BY <1>2, <2>1, JoinedParts DEF JoinedWell
<1>10. \A k \in 1..a : k \in 1..Len(line) /\ line[k] = Param(f.args[k])
  BY <1>1, <1>3, <1>8, <1>9
<1>11. ASSUME NEW b \in Blocks(f), NEW j \in 1..Len(rows[b])
       PROVE  Before(f, b) + j \in 1..Len(line) /\ line[Before(f, b) + j] = rows[b][j]
  <2> DEFINE q == Offset(rows, b - 1) + j
  <2>1. q \in 1..Offset(rows, n) /\ rest[q] = rows[b][j]
    BY <1>1, <1>4, <1>5 DEF EachPlaced
  <2>2. Before(f, b) + j = a + q
    BY <1>1, <1>6, <1>7
  <2> HIDE DEF q
  <2>3. a + q \in 1..Len(line) /\ line[a + q] = rest[q]
    BY <1>1, <1>8, <1>9, <2>1
  <2> QED
    BY <2>1, <2>2, <2>3
<1>12. ASSUME NEW b \in Blocks(f), NEW k \in 1..Len(Params(f, b))
       PROVE  /\ Before(f, b) + k \in 1..Len(line)
              /\ line[Before(f, b) + k] = Param(Params(f, b)[k])
  <2>1. k \in 1..Len(rows[b])
    BY <1>1, <1>6
  <2> QED
    BY <1>6, <1>11, <2>1
<1>13. ASSUME NEW b \in Blocks(f), NEW i \in 1..Len(Instructions(f, b))
       PROVE  Place(f, b, i) \in 1..Len(line) /\ line[Place(f, b, i)] = Instructions(f, b)[i]
  <2>1. Len(Params(f, b)) + i \in 1..Len(rows[b])
    BY <1>1, <1>6
  <2>2. Place(f, b, i) = Before(f, b) + (Len(Params(f, b)) + i)
    BY <1>1, <1>7 DEF Place
  <2> QED
    BY <1>6, <1>11, <2>1, <2>2
<1>14. ASSUME NEW p \in 1..Len(line)
       PROVE  \/ p \in 1..a
              \/ \E b \in Blocks(f) :
                   \/ \E k \in 1..Len(Params(f, b)) : p = Before(f, b) + k
                   \/ \E i \in 1..Len(Instructions(f, b)) : p = Place(f, b, i)
  <2>1. CASE p <= a
    BY <1>1, <2>1
  <2>2. CASE p > a
    <3>1. p - a \in 1..Offset(rows, n) /\ p = a + (p - a)
      BY <1>1, <1>8, <1>9, <2>2
    <3>2. PICK b \in 1..n : \E j \in 1..Len(rows[b]) : p - a = Offset(rows, b - 1) + j
      BY <1>5, <3>1 DEF NoneElse
    <3>3. PICK j \in 1..Len(rows[b]) : p - a = Offset(rows, b - 1) + j
      BY <3>2
    <3>4. b \in Blocks(f)
      BY <1>1
    <3>5. p = Before(f, b) + j
      BY <1>1, <1>7, <3>1, <3>3, <3>4
    <3>6. CASE j <= Len(Params(f, b))
      <4>1. j \in 1..Len(Params(f, b))
        BY <1>1, <3>4, <3>6
      <4> QED
        BY <3>4, <3>5, <4>1
    <3>7. CASE j > Len(Params(f, b))
      <4> DEFINE i == j - Len(Params(f, b))
      <4>1. i \in 1..Len(Instructions(f, b)) /\ p = Place(f, b, i)
        BY <1>1, <1>6, <1>7, <3>4, <3>5, <3>7 DEF Place
      <4> QED
        BY <3>4, <4>1
    <3> QED
      BY <1>1, <1>6, <3>4, <3>6, <3>7
  <2> QED
    BY <1>1, <2>1, <2>2
<1> QED
  BY <1>10, <1>12, <1>13, <1>14 DEF line, a

(* Entries is where the blocks begin. *)
LEMMA EntriesAre ==
    ASSUME WellFormed(func), NEW b \in Blocks(func)
    PROVE  Entries[b] = Before(func, b)
<1> DEFINE g == [func EXCEPT !.blocks = SubSeq(@, 1, b - 1)]
           k == b - 1
           r == Rows(func)
           s == Rows(g)
           t == SubSeq(r, 1, k)
<1>1. /\ Blocks(func) = 1..Len(func.blocks) /\ Len(func.blocks) \in Nat /\ Len(func.args) \in Nat
      /\ k \in 0..Len(func.blocks) /\ k \in Nat
  BY Sizes
<1>2. /\ g.args = func.args /\ g.types = func.types /\ g.blocks = SubSeq(func.blocks, 1, k)
      /\ g = Function(g.args, g.blocks, g.types)
  <2>1. func = Function(func.args, func.blocks, func.types)
    BY DEF WellFormed
  <2> DEFINE x == func.args
             y == func.blocks
             z == func.types
  <2>2. func = [args |-> x, blocks |-> y, types |-> z]
    BY <2>1 DEF Function
  <2> HIDE DEF x, y, z
  <2>3. g = [args |-> x, blocks |-> SubSeq(y, 1, b - 1), types |-> z]
    <3> DEFINE w == SubSeq(y, 1, b - 1)
    <3>1. SubSeq(func.blocks, 1, b - 1) = w
      BY <2>2
    <3> HIDE DEF w
    <3>2. g = [func EXCEPT !.blocks = w]
      BY <3>1
    <3> HIDE DEF g
    <3>3. g = [args |-> x, blocks |-> w, types |-> z]
      BY <2>2, <3>2
    <3> QED
      BY <3>3 DEF w
  <2>4. /\ g.args = x /\ g.types = z /\ g.blocks = SubSeq(y, 1, b - 1)
        /\ g = Function(g.args, g.blocks, g.types)
    BY <2>3 DEF Function
  <2> QED
    BY <2>4 DEF x, y, z
<1>3. /\ IsSequence(g.blocks) /\ Len(g.blocks) = k
      /\ \A c \in 1..k : g.blocks[c] = func.blocks[c]
  <2>1. IsSequence(func.blocks)
    BY DEF WellFormed
  <2> HIDE DEF g, k
  <2>2. /\ IsSequence(SubSeq(func.blocks, 1, k)) /\ Len(SubSeq(func.blocks, 1, k)) = k
        /\ \A c \in 1..k : SubSeq(func.blocks, 1, k)[c] = func.blocks[c]
    BY <1>1, <2>1, PrefixElements
  <2> QED
    BY <1>2, <2>2
<1> HIDE DEF g
<1>4. /\ Blocks(g) = 1..k
      /\ \A c \in 1..k : Params(g, c) = Params(func, c) /\ Instructions(g, c) = Instructions(func, c)
      /\ \A c \in 1..k : c \in Blocks(func)
  BY <1>1, <1>3 DEF Blocks, Params, Instructions
<1>5. WellFormed(g)
  BY <1>2, <1>3, <1>4 DEF WellFormed
<1>6. /\ Parts(r) /\ Len(r) = Len(func.blocks)
      /\ \A c \in Blocks(func) : r[c] = ParamItems(Params(func, c)) \o Instructions(func, c)
  BY RowsAreParts
<1>7. /\ Parts(s) /\ Len(s) = k
      /\ \A c \in Blocks(g) : s[c] = ParamItems(Params(g, c)) \o Instructions(g, c)
  BY <1>3, <1>5, RowsAreParts
<1>8. s = t
  <2>1. IsSequence(r)
    BY <1>6 DEF Parts
  <2>2. IsSequence(s)
    BY <1>7 DEF Parts
  <2> HIDE DEF r, s, k
  <2>3. IsSequence(t) /\ Len(t) = k /\ \A c \in 1..k : t[c] = r[c]
    BY <1>1, <1>6, <2>1, PrefixElements
  <2> HIDE DEF t
  <2>4. \A c \in 1..k : s[c] = t[c]
    BY <1>4, <1>6, <1>7, <2>3
  <2> QED
    BY <1>7, <2>2, <2>3, <2>4, SameElements
<1>9. Len(Layout(g)) = Len(func.args) + Offset(r, k)
  <2>1. Before(g, k + 1) = Len(Layout(g))
    BY <1>3, <1>5, BlockOffsets
  <2>2. (k + 1) - 1 = k
    BY <1>1
  <2>3. Before(g, k + 1) = Len(func.args) + Offset(s, k)
    BY <1>2, <2>2, Zenon DEF Before
  <2>4. Offset(s, k) = Offset(r, k)
    <3>1. Joined(s, k) = FlattenSeq(s)
      BY <1>7, JoinedNone DEF Parts
    <3> QED
      BY <1>8, <3>1, Zenon DEF Offset, Joined
  <2> QED
    BY <2>1, <2>3, <2>4
<1>10. Entries[b] = Len(Layout(g))
  BY DEF Entries, g
<1> QED
  BY <1>9, <1>10 DEF Before

-----------------------------------------------------------------------------
(* What the items of the line define and read. *)

LEMMA ParamIsInert ==
    \A v : /\ Param(v).op = "param" /\ Param(v).result = v
           /\ Reads(Param(v)) = {} /\ Counted(Param(v)) = {} /\ ToSet(Param(v).edges) = {}
<1> TAKE v
<1>1. ToSet(<<>>) = {}
  BY DEF ToSet
<1>2. /\ Param(v).op = "param" /\ Param(v).result = v
      /\ Param(v).operands = <<>> /\ Param(v).edges = <<>>
  BY DEF Param, Inst
<1>3. Reads(Param(v)) = {} /\ Counted(Param(v)) = Reads(Param(v))
  BY <1>1, <1>2 DEF Reads, PassedOn, Counted
<1> QED
  BY <1>1, <1>2, <1>3

(* An item is an argument or a parameter, or an instruction of a block. *)
LEMMA ItemKinds ==
    ASSUME NEW f, WellFormed(f), NEW p \in 1..Len(Layout(f))
    PROVE  \/ \E v : Layout(f)[p] = Param(v)
           \/ \E b \in Blocks(f) : \E i \in 1..Len(Instructions(f, b)) :
                p = Place(f, b, i) /\ Layout(f)[p] = Instructions(f, b)[i]
<1>1. CASE p \in 1..Len(f.args)
  BY <1>1, LinePlaces
<1>2. ASSUME NEW b \in Blocks(f), NEW k \in 1..Len(Params(f, b)), p = Before(f, b) + k
      PROVE  \E v : Layout(f)[p] = Param(v)
  BY <1>2, LinePlaces
<1>3. ASSUME NEW b \in Blocks(f), NEW i \in 1..Len(Instructions(f, b)), p = Place(f, b, i)
      PROVE  p = Place(f, b, i) /\ Layout(f)[p] = Instructions(f, b)[i]
  BY <1>3, LinePlaces
<1>4. \/ p \in 1..Len(f.args)
      \/ \E b \in Blocks(f) : \/ \E k \in 1..Len(Params(f, b)) : p = Before(f, b) + k
                              \/ \E i \in 1..Len(Instructions(f, b)) : p = Place(f, b, i)
  BY LinePlaces
<1> QED
  BY <1>1, <1>2, <1>3, <1>4

(* What the walk of the verifier has seen is defined earlier in the line. *)
LEMMA DefinedEarlier ==
    ASSUME NEW f, WellFormed(f), NEW b \in Blocks(f), NEW i \in 1..Len(Instructions(f, b)),
           NEW v \in DefinedBefore(f, b, i)
    PROVE  \E q \in 1..Len(Layout(f)) : q < Place(f, b, i) /\ Layout(f)[q].result = v
<1> DEFINE line == Layout(f)
           Earlier(q) == q \in 1..Len(line) /\ q < Place(f, b, i) /\ line[q].result = v
<1>1. /\ Blocks(f) = 1..Len(f.blocks) /\ Len(f.blocks) \in Nat /\ Len(f.args) \in Nat
      /\ \A c \in Blocks(f) : Len(Params(f, c)) \in Nat /\ Len(Instructions(f, c)) \in Nat
  BY Sizes
<1>2. /\ \A c \in Blocks(f) : /\ Before(f, c) \in Nat /\ Before(f, c) >= Len(f.args)
                              /\ Before(f, c + 1) = Before(f, c) + Len(Params(f, c)) + Len(Instructions(f, c))
      /\ \A c \in Blocks(f) : c < b => Before(f, c + 1) <= Before(f, b)
  <2>1. \A c \in Blocks(f) : c \in 1..(Len(f.blocks) + 1) /\ c + 1 \in 1..(Len(f.blocks) + 1)
    BY <1>1
  <2>2. \A c \in Blocks(f) : c < b => c + 1 <= b
    BY <1>1
  <2> QED
    BY <2>1, <2>2, BlockOffsets
<1>3. \A c \in Blocks(f) : \A k : Place(f, c, k) = Before(f, c) + Len(Params(f, c)) + k
  BY DEF Place
<1>4. CASE v \in ToSet(f.args)
  <2>1. PICK k \in 1..Len(f.args) : v = f.args[k]
    BY <1>4, SequenceElements DEF WellFormed
  <2>2. k \in 1..Len(line) /\ line[k].result = v
    BY <2>1, LinePlaces, ParamIsInert
  <2>3. k < Place(f, b, i)
    BY <1>1, <1>2, <1>3
  <2> QED
    BY <2>2, <2>3
<1>5. ASSUME NEW c \in 1..b, v \in ToSet(Params(f, c)) PROVE \E q : Earlier(q)
  <2>1. c \in Blocks(f)
    BY <1>1
  <2>2. PICK k \in 1..Len(Params(f, c)) : v = Params(f, c)[k]
    BY <1>5, <2>1, SequenceElements DEF WellFormed
  <2>3. Before(f, c) + k \in 1..Len(line) /\ line[Before(f, c) + k].result = v
    BY <2>1, <2>2, LinePlaces, ParamIsInert
  <2>4. Before(f, c) + k < Place(f, b, i)
    <3>1. /\ Before(f, c) \in Nat /\ Before(f, b) \in Nat
          /\ Len(Params(f, c)) \in Nat /\ Len(Instructions(f, c)) \in Nat
          /\ Before(f, c + 1) = Before(f, c) + Len(Params(f, c)) + Len(Instructions(f, c))
          /\ Place(f, b, i) = Before(f, b) + Len(Params(f, b)) + i /\ Len(Params(f, b)) \in Nat
      BY <1>1, <1>2, <1>3, <2>1
    <3>2. c = b \/ Before(f, c + 1) <= Before(f, b)
      BY <1>1, <1>2, <2>1
    <3>3. CASE c = b
      BY <1>1, <3>1, <3>3
    <3>4. CASE Before(f, c + 1) <= Before(f, b)
      BY <1>1, <3>1, <3>4
    <3> QED
      BY <3>2, <3>3, <3>4
  <2> QED
    BY <2>3, <2>4
<1>6. ASSUME NEW c \in 1..(b - 1), v \in ResultsOf(Instructions(f, c)) PROVE \E q : Earlier(q)
  <2>1. c \in Blocks(f)
    BY <1>1
  <2>2. PICK k \in 1..Len(Instructions(f, c)) : v = Instructions(f, c)[k].result
    BY <1>6, <2>1, SequenceElements DEF WellFormed, ResultsOf
  <2>3. Place(f, c, k) \in 1..Len(line) /\ line[Place(f, c, k)].result = v
    BY <2>1, <2>2, LinePlaces
  <2>4. Place(f, c, k) < Place(f, b, i)
    BY <1>1, <1>2, <1>3, <2>1, SMTT(20)
  <2> QED
    BY <2>3, <2>4
<1>7. CASE v \in ResultsOf(SubSeq(Instructions(f, b), 1, i - 1))
  <2> DEFINE insts == Instructions(f, b)
             j == i - 1
  <2>1. IsSequence(insts) /\ j \in 0..Len(insts)
    BY <1>1 DEF WellFormed
  <2>2. /\ IsSequence(SubSeq(insts, 1, j)) /\ Len(SubSeq(insts, 1, j)) = j
        /\ \A k \in 1..j : SubSeq(insts, 1, j)[k] = insts[k]
    <3> HIDE DEF insts, j
    <3> QED
      BY <2>1, PrefixElements
  <2>3. PICK k \in 1..j : v = insts[k].result
    <3> DEFINE sub == SubSeq(insts, 1, j)
    <3>1. v \in ResultsOf(sub)
      BY <1>7
    <3>2. PICK inst \in ToSet(sub) : v = inst.result
      <4> HIDE DEF sub
      <4> QED
        BY <3>1 DEF ResultsOf
    <3>3. ToSet(sub) = {sub[k] : k \in 1..j}
      BY <2>2, SequenceElements
    <3>4. PICK k \in 1..j : inst = sub[k]
      BY <3>2, <3>3
    <3> QED
      BY <2>2, <3>2, <3>4
  <2>4. k \in 1..Len(insts) /\ k < i
    BY <2>1
  <2>5. Place(f, b, k) \in 1..Len(line) /\ line[Place(f, b, k)].result = v
    BY <2>3, <2>4, LinePlaces
  <2>6. Place(f, b, k) < Place(f, b, i)
    BY <1>1, <1>2, <1>3, <2>4
  <2> QED
    BY <2>5, <2>6
<1> QED
  BY <1>4, <1>5, <1>6, <1>7 DEF DefinedBefore

(* The line of the function that is built. *)
LEMMA LineFacts ==
    ASSUME IRInv
    PROVE  /\ WellFormed(func) /\ Line = Layout(func) /\ Len(Line) \in Nat
           /\ func.types \in Nat /\ Values(func) = 0..(func.types - 1)
           /\ NoResult \notin Values(func)
           /\ \A v \in Values(func) : \E p \in 1..Len(Line) : Line[p].result = v
           /\ \A p, q \in 1..Len(Line) :
                p < q /\ Line[p].result # NoResult /\ Line[q].result # NoResult
                => Line[p].result < Line[q].result
           /\ \A p, q \in 1..Len(Line) :
                Line[p].result = Line[q].result /\ Line[p].result # NoResult => p = q
           /\ \A p \in Positions(Line) : p \in Nat /\ p + 1 \in 1..Len(Line)
           /\ \A p \in 1..Len(Line) : p - 1 \in Positions(Line)
<1>1. WellFormed(func) /\ Line = Layout(func) /\ func.types \in Nat
  BY DEF IRInv, FuncInv, WellFormed, Line
<1>2. Values(func) = 0..(func.types - 1)
  BY NumberedValues DEF IRInv, FuncInv
<1>3. Len(Line) \in Nat
  BY <1>1, LineItems, SequenceElements
<1>4. Numbered(Line, func.types)
  BY DEF IRInv, FuncInv, Line
<1>5. NoResult \notin Values(func)
  BY <1>1, <1>2 DEF NoResult
<1>6. \A v \in Values(func) : \E p \in 1..Len(Line) : Line[p].result = v
  BY <1>2, <1>4 DEF Numbered
<1>7. /\ \A p, q \in 1..Len(Line) :
           p < q /\ Line[p].result # NoResult /\ Line[q].result # NoResult
           => Line[p].result < Line[q].result
      /\ \A p, q \in 1..Len(Line) :
           Line[p].result = Line[q].result /\ Line[p].result # NoResult => p = q
  <2>1. \A p, q \in 1..Len(Line) :
           p < q /\ Line[p].result # NoResult /\ Line[q].result # NoResult
           => Line[p].result < Line[q].result
    BY <1>4 DEF Numbered
  <2>2. ASSUME NEW p \in 1..Len(Line), NEW q \in 1..Len(Line),
               Line[p].result = Line[q].result, Line[p].result # NoResult
        PROVE  p = q
    <3>1. Line[p].result \in 0..(func.types - 1) /\ Line[q].result \in 0..(func.types - 1)
      BY <1>4, <2>2 DEF Numbered
    <3>2. ~(p < q) /\ ~(q < p)
      BY <1>1, <2>1, <2>2, <3>1
    <3> QED
      BY <1>3, <3>2
  <2> QED
    BY <2>1, <2>2
<1>8. /\ \A p \in Positions(Line) : p \in Nat /\ p + 1 \in 1..Len(Line)
      /\ \A p \in 1..Len(Line) : p - 1 \in Positions(Line)
  <2> DEFINE n == Len(Line)
  <2> HIDE DEF n
  <2>1. n \in Nat /\ Positions(Line) = 0..(n - 1)
    BY <1>3 DEF n, Positions
  <2>2. \A p \in 0..(n - 1) : p \in Nat /\ p + 1 \in 1..n
    BY <2>1
  <2>3. \A p \in 1..n : p - 1 \in 0..(n - 1)
    BY <2>1
  <2> QED
    BY <2>1, <2>2, <2>3 DEF n
<1> QED
  BY <1>1, <1>2, <1>3, <1>5, <1>6, <1>7, <1>8

(* In a checked function an item reads what the items before it define. *)
LEMMA CheckedReads ==
    ASSUME IRInv, Checked, NEW p \in 1..Len(Line), NEW v \in Reads(Line[p])
    PROVE  v \in Values(func) /\ \E q \in 1..Len(Line) : q < p /\ Line[q].result = v
<1>1. WellFormed(func) /\ Line = Layout(func)
  BY LineFacts
<1>2. PICK b \in Blocks(func) : \E i \in 1..Len(Instructions(func, b)) :
        p = Place(func, b, i) /\ Line[p] = Instructions(func, b)[i]
  BY <1>1, ItemKinds, ParamIsInert
<1>3. PICK i \in 1..Len(Instructions(func, b)) :
        p = Place(func, b, i) /\ Line[p] = Instructions(func, b)[i]
  BY <1>2
<1>4. v \in DefinedBefore(func, b, i)
  BY <1>3 DEF Checked
<1>5. PICK q \in 1..Len(Line) : q < p /\ Line[q].result = v
  BY <1>1, <1>3, <1>4, DefinedEarlier
<1>6. v # NoResult
  <2>1. NoResult \notin ToSet(func.args) /\ \A c \in Blocks(func) : NoResult \notin ToSet(Params(func, c))
    BY NumbersOnly DEF IRInv, FuncInv, WellTyped
  <2>2. \A c \in 1..b : c \in Blocks(func)
    BY DEF Blocks
  <2>3. \A insts : NoResult \notin ResultsOf(insts)
    BY DEF ResultsOf
  <2> QED
    BY <1>4, <2>1, <2>2, <2>3 DEF DefinedBefore
<1> QED
  BY <1>1, <1>5, <1>6, ValuesOfLine

-----------------------------------------------------------------------------
(* The range of a value *)

LEMMA CountedIsReadOrMade ==
    ASSUME NEW inst, NEW v \in Counted(inst)
    PROVE  v \in Reads(inst) \/ (inst.op \in {"call", "load"} /\ v = inst.result)
BY DEF Counted, Reads

LEMMA CountedIsAValue ==
    ASSUME IRInv, Checked, NEW p \in 1..Len(Line), NEW v \in Counted(Line[p])
    PROVE  v \in Values(func) /\ \E q \in 1..Len(Line) : q <= p /\ Line[q].result = v
<1>1. CASE v \in Reads(Line[p])
  <2>1. PICK q \in 1..Len(Line) : q < p /\ Line[q].result = v
    BY <1>1, CheckedReads
  <2> QED
    BY <1>1, <2>1, CheckedReads
<1>2. CASE Line[p].op \in {"call", "load"} /\ v = Line[p].result
  <2>1. WellFormed(func) /\ Line = Layout(func)
    BY LineFacts
  <2>2. PICK b \in Blocks(func) : \E i \in 1..Len(Instructions(func, b)) :
          p = Place(func, b, i) /\ Line[p] = Instructions(func, b)[i]
    BY <1>2, <2>1, ItemKinds, ParamIsInert
  <2>3. Line[p] \in ToSet(Instructions(func, b))
    BY <2>1, <2>2, SequenceElements DEF WellFormed
  <2>4. v # NoResult
    BY <1>2, <2>3 DEF IRInv, FuncInv, WellTyped, Typed, Shaped, Emitted
  <2>5. v \in Values(func)
    BY <1>2, <2>1, <2>4, ValuesOfLine
  <2> QED
    BY <1>2, <2>5
<1> QED
  BY <1>1, <1>2, CountedIsReadOrMade

(* The range starts where the value is defined, at no other index, and ends *)
(* at the last index that counts, or at 0 when there is none.               *)
LEMMA RangeFacts ==
    ASSUME IRInv, NEW v \in Values(func)
    PROVE  /\ Ranges[v].start \in Positions(Line)
           /\ \A q \in 1..Len(Line) : Line[q].result = v <=> q = Ranges[v].start + 1
           /\ Ranges[v].end \in Nat
           /\ \A p \in Positions(Line) : v \in Counted(Line[p + 1]) => p <= Ranges[v].end
           /\ \/ Ranges[v].end = 0
              \/ Ranges[v].end \in Positions(Line) /\ v \in Counted(Line[Ranges[v].end + 1])
<1> DEFINE start == CHOOSE i \in Positions(Line) : Line[i + 1].result = v
           S == {i \in Positions(Line) : v \in Counted(Line[i + 1])}
           T == {0} \cup S
           end == Max(T)
<1>1. Ranges[v] = [start |-> start, end |-> end]
  BY DEF Ranges, compute_live_ranges, Line
<1>2. Ranges[v].start = start /\ Ranges[v].end = end
  BY <1>1
<1>3. start \in Positions(Line) /\ Line[start + 1].result = v
  <2>1. PICK p \in 1..Len(Line) : Line[p].result = v
    BY LineFacts
  <2>2. p - 1 \in Positions(Line) /\ (p - 1) + 1 = p
    BY LineFacts
  <2> QED
    BY <2>1, <2>2
<1> HIDE DEF start
<1>4. \A q \in 1..Len(Line) : Line[q].result = v <=> q = start + 1
  <2>1. start + 1 \in 1..Len(Line) /\ v # NoResult
    BY <1>3, LineFacts
  <2> QED
    BY <1>3, <2>1, LineFacts
<1>5. T \in SUBSET Nat /\ T # {} /\ Len(Line) \in Nat /\ \A x \in T : x <= Len(Line)
  <2>1. \A x \in S : x \in Nat /\ x + 1 \in 1..Len(Line)
    BY LineFacts
  <2>2. Len(Line) \in Nat
    BY LineFacts
  <2> HIDE DEF S
  <2> QED
    BY <2>1, <2>2
<1>6. end \in T /\ \A x \in T : x <= end
  <2> HIDE DEF T
  <2> QED
    BY <1>5, MaxOfNumbers
<1> HIDE DEF end
<1>7. end \in Nat
  BY <1>5, <1>6
<1>8. \A p \in Positions(Line) : v \in Counted(Line[p + 1]) => p <= end
  BY <1>6
<1>9. end = 0 \/ (end \in Positions(Line) /\ v \in Counted(Line[end + 1]))
  BY <1>6
<1> QED
  BY <1>2, <1>3, <1>4, <1>7, <1>8, <1>9

LEMMA RangesOfValues == DOMAIN Ranges = Values(func)
BY DEF Ranges, compute_live_ranges

(***************************************************************************)
(* compute_live_ranges finds a range for every value it asks for: its      *)
(* calls of live_ranges.at do not throw.                                   *)
(***************************************************************************)
THEOREM CheckedFunctionsAreAnalysable == Spec => []CheckedIsAnalysable
<1>1. IRInv => CheckedIsAnalysable
  <2> SUFFICES ASSUME IRInv, Checked, NEW item \in ToSet(Layout(func))
               PROVE  Counted(item) \subseteq Values(func)
    BY DEF CheckedIsAnalysable, Analysable
  <2>1. WellFormed(func) /\ Line = Layout(func)
    BY LineFacts
  <2>2. PICK p \in 1..Len(Line) : item = Line[p]
    BY <2>1, LineItems, SequenceElements
  <2> QED
    BY <2>2, CountedIsAValue
<1> QED
  BY <1>1, BuilderHolds, PTL

(* The ids are in the order of the starts of their ranges. *)
LEMMA RangesInOrder ==
    ASSUME IRInv, NEW v \in Values(func), NEW w \in Values(func), v < w
    PROVE  Ranges[v].start < Ranges[w].start
<1> DEFINE s == Ranges[v].start
           t == Ranges[w].start
<1>1. /\ s \in Nat /\ s + 1 \in 1..Len(Line) /\ Line[s + 1].result = v
      /\ t \in Nat /\ t + 1 \in 1..Len(Line) /\ Line[t + 1].result = w
  BY RangeFacts, LineFacts
<1>2. v # NoResult /\ w # NoResult /\ v \in Int /\ w \in Int
  BY LineFacts
<1> HIDE DEF s, t
<1>3. s # t
  BY <1>1, <1>2
<1>4. t + 1 < s + 1 => w < v
  BY <1>1, <1>2, LineFacts
<1>5. s < t
  BY <1>1, <1>2, <1>3, <1>4
<1> QED
  BY <1>5 DEF s, t

(***************************************************************************)
(* The ranges start in the order of the ids, no two at one index, and none *)
(* that is used ends before it starts: what the allocator takes for        *)
(* granted of the ranges it is given.                                      *)
(***************************************************************************)
THEOREM AllocatorGetsRanges == Spec => []RangesFitAllocator
<1>1. ASSUME IRInv, Checked, NEW v \in Values(func), Ranges[v].end # 0
      PROVE  Ranges[v].end >= Ranges[v].start
  <2> DEFINE s == Ranges[v].start
             e == Ranges[v].end
  <2>1. s \in Positions(Line) /\ e \in Positions(Line) /\ v \in Counted(Line[e + 1])
    BY <1>1, RangeFacts
  <2>2. s \in Nat /\ e \in Nat /\ e + 1 \in 1..Len(Line)
    BY <1>1, <2>1, LineFacts
  <2>3. PICK q \in 1..Len(Line) : q <= e + 1 /\ Line[q].result = v
    BY <1>1, <2>1, <2>2, CountedIsAValue
  <2>4. q = s + 1
    BY <1>1, <2>3, RangeFacts
  <2> HIDE DEF s, e
  <2>5. e >= s
    BY <2>2, <2>3, <2>4
  <2> QED
    BY <2>5 DEF s, e
<1>2. IRInv => RangesFitAllocator
  BY <1>1, RangesInOrder DEF RangesFitAllocator
<1> QED
  BY <1>2, BuilderHolds, PTL

-----------------------------------------------------------------------------
(* The ends of the blocks *)

(* The terminators of a block that the verifier accepts. *)
LEMMA TerminatorIsLast ==
    ASSUME NEW insts, IsSequence(insts), Terminated(insts)
    PROVE  /\ Len(insts) \in Nat \ {0}
           /\ \A i \in 1..Len(insts) : insts[i].op \in Terminators <=> i = Len(insts)
<1> DEFINE n == Len(insts)
<1>1. n \in Nat /\ insts # <<>>
  BY SequenceElements DEF Terminated
<1>2. n # 0
  BY <1>1, EmptySequence, SameElements
<1>3. insts[n].op \in Terminators
  BY DEF Terminated, Last
<1>4. ASSUME NEW i \in 1..(n - 1) PROVE insts[i].op \notin Terminators
  <2> DEFINE front == SubSeq(insts, 1, n - 1)
             k == n - 1
  <2>1. k \in 0..Len(insts) /\ i \in 1..k
    BY <1>1, <1>2
  <2>2. /\ IsSequence(SubSeq(insts, 1, k)) /\ Len(SubSeq(insts, 1, k)) = k
        /\ \A j \in 1..k : SubSeq(insts, 1, k)[j] = insts[j]
    <3> HIDE DEF k
    <3> QED
      BY <2>1, PrefixElements
  <2>3. IsSequence(front) /\ Len(front) = k /\ front[i] = insts[i]
    BY <2>1, <2>2
  <2>4. front = Front(insts)
    BY DEF Front
  <2> HIDE DEF front, k
  <2>5. front[i] \in ToSet(front)
    BY <2>1, <2>3, SequenceElements
  <2> QED
    BY <2>3, <2>4, <2>5 DEF Terminated
<1> HIDE DEF n
<1>5. \A i \in 1..n : i = n \/ i \in 1..(n - 1)
  BY <1>1
<1> QED
  BY <1>1, <1>2, <1>3, <1>4, <1>5 DEF n

(***************************************************************************)
(* In an accepted function the terminators are the ends of the blocks, and *)
(* no block runs on into the next one.                                     *)
(***************************************************************************)
THEOREM BlocksDoNotRunOn == Spec => []NoFallThrough
<1> DEFINE n == Len(func.blocks)
           ends == {Entries[b] - 1 : b \in Blocks(func) \ {1}} \cup {Len(Line) - 1}
<1>1. ASSUME IRInv, Accepted, func.blocks # <<>>, NEW p \in Positions(Line)
      PROVE  Line[p + 1].op \in Terminators <=> p \in ends
  <2>1. /\ WellFormed(func) /\ Line = Layout(func)
        /\ p \in Nat /\ p + 1 \in 1..Len(Line)
    BY <1>1, LineFacts
  <2>2. n \in Nat \ {0} /\ Blocks(func) = 1..n
    BY <1>1, <2>1, Sizes
  <2>3. \A b \in Blocks(func) :
           /\ Len(Instructions(func, b)) \in Nat \ {0} /\ Len(Params(func, b)) \in Nat
           /\ \A i \in 1..Len(Instructions(func, b)) :
                Instructions(func, b)[i].op \in Terminators <=> i = Len(Instructions(func, b))
    BY <1>1, <2>1, Sizes, TerminatorIsLast DEF WellFormed, Accepted, Verified
  <2>4. \A b \in Blocks(func) : /\ Before(func, b) \in Nat
                                /\ Before(func, b + 1) = Place(func, b, Len(Instructions(func, b)))
    <3>1. \A b \in Blocks(func) : b \in 1..(n + 1)
      BY <2>2
    <3> QED
      BY <2>1, <3>1, BlockOffsets DEF Place
  <2>5. \A b \in Blocks(func) :
           /\ Before(func, b + 1) \in 1..Len(Line)
           /\ Line[Before(func, b + 1)] = Instructions(func, b)[Len(Instructions(func, b))]
    <3>1. \A b \in Blocks(func) : Len(Instructions(func, b)) \in 1..Len(Instructions(func, b))
      BY <2>3
    <3> QED
      BY <2>1, <2>4, <3>1, LinePlaces
  <2>6. \A b \in Blocks(func) : Before(func, b + 1) \in Nat
    BY <2>5
  <2>7. p \in ends <=> \E b \in Blocks(func) : p + 1 = Before(func, b + 1)
    <3>1. Before(func, n + 1) = Len(Line) /\ Len(Line) \in Nat
      BY <1>1, <2>1, BlockOffsets, LineFacts
    <3>2. \A b \in Blocks(func) : Entries[b] = Before(func, b)
      BY <2>1, EntriesAre
    <3>3. ASSUME NEW b \in Blocks(func), p + 1 = Before(func, b + 1) PROVE p \in ends
      <4>1. CASE b = n
        BY <2>1, <3>1, <3>3, <4>1
      <4>2. CASE b # n
        <5>1. b + 1 \in Blocks(func) \ {1}
          BY <2>2, <4>2
        <5>2. p = Entries[b + 1] - 1
          BY <2>1, <3>2, <3>3, <5>1
        <5> QED
          BY <5>1, <5>2
      <4> QED
        BY <4>1, <4>2
    <3>4. ASSUME NEW b \in Blocks(func) \ {1}, p = Entries[b] - 1
          PROVE  \E c \in Blocks(func) : p + 1 = Before(func, c + 1)
      <4>1. b - 1 \in Blocks(func) /\ (b - 1) + 1 = b
        BY <2>2
      <4>2. p = Before(func, b) - 1 /\ Before(func, b) \in Nat
        BY <2>4, <3>2, <3>4
      <4>3. p + 1 = Before(func, b)
        BY <4>2
      <4> QED
        BY <4>1, <4>3
    <3>5. ASSUME p = Len(Line) - 1
          PROVE  \E c \in Blocks(func) : p + 1 = Before(func, c + 1)
      <4>1. n \in Blocks(func)
        BY <2>2
      <4>2. p + 1 = Len(Line)
        BY <3>1, <3>5
      <4> QED
        BY <3>1, <4>1, <4>2
    <3> QED
      BY <3>3, <3>4, <3>5
  <2>8. ASSUME NEW b \in Blocks(func), p + 1 = Before(func, b + 1)
        PROVE  Line[p + 1].op \in Terminators
    <3>1. Len(Instructions(func, b)) \in 1..Len(Instructions(func, b))
      BY <2>3
    <3> QED
      BY <2>3, <2>5, <2>8, <3>1
  <2>9. ASSUME Line[p + 1].op \in Terminators
        PROVE  \E b \in Blocks(func) : p + 1 = Before(func, b + 1)
    <3>1. "param" \notin Terminators
      BY DEF Terminators
    <3>2. PICK b \in Blocks(func) : \E i \in 1..Len(Instructions(func, b)) :
            p + 1 = Place(func, b, i) /\ Line[p + 1] = Instructions(func, b)[i]
      BY <2>1, <2>9, <3>1, ItemKinds, ParamIsInert
    <3>3. PICK i \in 1..Len(Instructions(func, b)) :
            p + 1 = Place(func, b, i) /\ Line[p + 1] = Instructions(func, b)[i]
      BY <3>2
    <3>4. i = Len(Instructions(func, b))
      BY <2>3, <2>9, <3>3
    <3> QED
      BY <2>4, <3>3, <3>4
  <2> QED
    BY <2>7, <2>8, <2>9
<1>2. IRInv => NoFallThrough
  BY <1>1 DEF NoFallThrough
<1> QED
  BY <1>2, BuilderHolds, PTL

-----------------------------------------------------------------------------
(* Where a value is live *)

ReadAt(v) == {p \in Positions(Line) : v \in Reads(Line[p + 1])}

(* One step further away from a use. *)
Further(v, nearer) ==
    nearer \cup {p \in Positions(Line) : /\ Line[p + 1].result # v
                                      /\ Successors[p] \cap nearer # {}}

(* The items from which v is read in n steps or less, for every n up to m. *)
IsWithin(w, v, m) ==
    w = [n \in 0..m |-> IF n = 0 THEN ReadAt(v) ELSE Further(v, w[n - 1])]

LEMMA WithinExists ==
    ASSUME NEW v, NEW m \in Nat
    PROVE  \E w : IsWithin(w, v, m)
<1> DEFINE S == {k \in Nat : \E w : IsWithin(w, v, k)}
<1>1. 0 \in S
  <2> DEFINE w == [n \in 0..0 |-> ReadAt(v)]
  <2>1. \A n \in 0..0 : n = 0
    OBVIOUS
  <2>2. w = [n \in 0..0 |-> IF n = 0 THEN ReadAt(v) ELSE Further(v, w[n - 1])]
    BY <2>1
  <2> QED
    BY <2>2 DEF IsWithin
<1>2. ASSUME NEW k \in S PROVE k + 1 \in S
  <2>1. PICK w : IsWithin(w, v, k)
    OBVIOUS
  <2>2. /\ k \in Nat /\ \A n \in 0..(k + 1) : n # k + 1 => n \in 0..k /\ (n # 0 => n - 1 \in 0..k)
        /\ \A n \in 0..k : n # k + 1 /\ n \in 0..(k + 1) /\ (n # 0 => n - 1 \in 0..k)
        /\ k + 1 # 0 /\ (k + 1) - 1 = k /\ k \in 0..k
    OBVIOUS
  <2>3. \A n \in 0..k : w[n] = IF n = 0 THEN ReadAt(v) ELSE Further(v, w[n - 1])
    BY <2>1 DEF IsWithin
  <2> DEFINE u == [n \in 0..(k + 1) |-> IF n = k + 1 THEN Further(v, w[k]) ELSE w[n]]
             x == [n \in 0..(k + 1) |-> IF n = 0 THEN ReadAt(v) ELSE Further(v, u[n - 1])]
  <2>4. \A n \in 0..k : u[n] = w[n]
    BY <2>2
  <2>5. ASSUME NEW n \in 0..(k + 1) PROVE u[n] = x[n]
    <3>1. CASE n = k + 1
      <4>1. u[n] = Further(v, w[k]) /\ x[n] = Further(v, u[k])
        BY <2>2, <3>1
      <4> QED
        BY <2>2, <2>4, <4>1
    <3>2. CASE n # k + 1
      <4>1. n \in 0..k /\ u[n] = w[n]
        BY <2>2, <3>2
      <4>2. CASE n = 0
        BY <2>3, <4>1, <4>2
      <4>3. CASE n # 0
        <5>1. n - 1 \in 0..k
          BY <2>2, <4>1, <4>3
        <5>2. u[n - 1] = w[n - 1]
          BY <2>4, <5>1
        <5>3. x[n] = Further(v, u[n - 1])
          BY <4>3
        <5> QED
          BY <2>3, <4>1, <4>3, <5>2, <5>3
      <4> QED
        BY <4>2, <4>3
    <3> QED
      BY <3>1, <3>2
  <2>6. u = x
    BY <2>5
  <2>7. IsWithin(u, v, k + 1)
    BY <2>6, Zenon DEF IsWithin
  <2> QED
    BY <2>2, <2>7
<1> HIDE DEF S
<1>3. S \in SUBSET Nat
  BY DEF S
<1>4. S = Nat
  BY <1>1, <1>2, <1>3, Induction
<1> QED
  BY <1>4 DEF S

(* LiveBefore is that function at the length of the line. *)
LEMMA LiveBeforeIs ==
    ASSUME IRInv, NEW v \in Values(func)
    PROVE  \E w : IsWithin(w, v, Len(Line)) /\ LiveBefore[v] = w[Len(Line)]
<1> DEFINE w == CHOOSE w : w = [n \in 0..Len(Line) |->
                  IF n = 0 THEN {p \in Positions(Line) : v \in Reads(Line[p + 1])}
                  ELSE w[n - 1] \cup {p \in Positions(Line) : /\ Line[p + 1].result # v
                                                              /\ Successors[p] \cap w[n - 1] # {}}]
<1>1. LiveBefore[v] = w[Len(Line)]
  BY DEF LiveBefore
<1>2. w = CHOOSE u : IsWithin(u, v, Len(Line))
  BY DEF IsWithin, ReadAt, Further
<1>3. Len(Line) \in Nat
  BY LineFacts
<1> HIDE DEF w
<1>4. IsWithin(w, v, Len(Line))
  BY <1>2, <1>3, WithinExists
<1> QED
  BY <1>1, <1>4

LEMMA WithinFacts ==
    ASSUME IRInv, NEW v, NEW w, IsWithin(w, v, Len(Line))
    PROVE  /\ w[0] = ReadAt(v)
           /\ \A n \in 0..(Len(Line) - 1) : w[n + 1] = Further(v, w[n])
           /\ \A n \in 0..Len(Line) : w[n] \subseteq Positions(Line) /\ w[n] \subseteq w[Len(Line)]
<1> DEFINE m == Len(Line)
           P == Positions(Line)
<1>1. m \in Nat
  BY LineFacts
<1> HIDE DEF m, P
<1>2. \A n \in 0..m : w[n] = IF n = 0 THEN ReadAt(v) ELSE Further(v, w[n - 1])
  BY DEF IsWithin, m
<1>3. 0 \in 0..m /\ \A n \in 0..(m - 1) : n \in 0..m /\ n + 1 \in 0..m /\ n + 1 # 0 /\ (n + 1) - 1 = n
  BY <1>1
<1>4. w[0] = ReadAt(v)
  BY <1>2, <1>3
<1>5. \A n \in 0..(m - 1) : w[n + 1] = Further(v, w[n])
  BY <1>2, <1>3
<1>6. /\ ReadAt(v) \subseteq P
      /\ \A s : s \subseteq Further(v, s)
      /\ \A s : s \subseteq P => Further(v, s) \subseteq P
  BY DEF ReadAt, Further, P
<1>7. \A n \in Nat : n \in 0..m => w[n] \subseteq P
  <2> DEFINE S == {n \in Nat : n \in 0..m => w[n] \subseteq P}
  <2>1. 0 \in S
    BY <1>4, <1>6
  <2>2. ASSUME NEW n \in S PROVE n + 1 \in S
    <3>1. CASE n + 1 \in 0..m
      <4>1. n \in 0..(m - 1) /\ n \in 0..m
        BY <1>1, <3>1
      <4>2. w[n] \subseteq P /\ w[n + 1] = Further(v, w[n])
        BY <1>5, <4>1
      <4> QED
        BY <1>6, <4>2
    <3> QED
      BY <3>1
  <2> HIDE DEF S
  <2>3. S \in SUBSET Nat
    BY DEF S
  <2>4. S = Nat
    BY <2>1, <2>2, <2>3, Induction
  <2> QED
    BY <2>4 DEF S
<1>8. \A k \in Nat : k \in 0..m => w[m - k] \subseteq w[m]
  <2> DEFINE S == {k \in Nat : k \in 0..m => w[m - k] \subseteq w[m]}
  <2>1. 0 \in S
    BY <1>1
  <2>2. ASSUME NEW k \in S PROVE k + 1 \in S
    <3>1. CASE k + 1 \in 0..m
      <4>1. k \in 0..m /\ m - (k + 1) \in 0..(m - 1) /\ (m - (k + 1)) + 1 = m - k
        BY <1>1, <3>1
      <4>2. w[m - k] \subseteq w[m] /\ w[m - k] = Further(v, w[m - (k + 1)])
        BY <1>5, <4>1
      <4> QED
        BY <1>6, <4>2
    <3> QED
      BY <3>1
  <2> HIDE DEF S
  <2>3. S \in SUBSET Nat
    BY DEF S
  <2>4. S = Nat
    BY <2>1, <2>2, <2>3, Induction
  <2> QED
    BY <2>4 DEF S
<1>9. \A n \in 0..m : w[n] \subseteq w[m]
  <2> TAKE n \in 0..m
  <2>1. m - n \in Nat /\ m - n \in 0..m /\ m - (m - n) = n
    BY <1>1
  <2> QED
    BY <1>8, <2>1
<1>10. \A n \in 0..m : n \in Nat
  BY <1>1
<1> QED
  BY <1>4, <1>5, <1>7, <1>9, <1>10 DEF m, P

(* Without values passed by a brif, every read counts. *)
LEMMA PlainReadsCount ==
    ASSUME PlainBranches, NEW item \in ToSet(Line)
    PROVE  Reads(item) \subseteq Counted(item)
<1>1. CASE item.op = "brif"
  <2>1. PassedOn(item) = {}
    BY <1>1 DEF PlainBranches
  <2> QED
    BY <1>1, <2>1 DEF Reads, Counted
<1>2. CASE item.op # "brif"
  BY <1>2 DEF Counted
<1> QED
  BY <1>1, <1>2

LEMMA RangesCoverIt == IRInv => RangesCoverLiveness
<1>1. ASSUME IRInv, PlainBranches, ClosedLoops(LiveBefore), NEW v \in Values(func),
             NEW p \in LiveBefore[v], p > Ranges[v].start
      PROVE  p <= Ranges[v].end
  <2> DEFINE s == Ranges[v].start
             e == Ranges[v].end
             m == Len(Line)
             P == Positions(Line)
  <2>1. PICK w : IsWithin(w, v, m) /\ LiveBefore[v] = w[m]
    BY <1>1, LiveBeforeIs
  <2>2. /\ w[0] = ReadAt(v)
        /\ \A n \in 0..(m - 1) : w[n + 1] = Further(v, w[n])
        /\ \A n \in 0..m : w[n] \subseteq P /\ w[n] \subseteq w[m]
    BY <1>1, <2>1, WithinFacts
  <2>3. /\ m \in Nat /\ IsSequence(Line)
        /\ \A q \in P : q \in Nat /\ q + 1 \in 1..m /\ Line[q + 1] \in ToSet(Line)
    <3>1. m \in Nat /\ IsSequence(Line)
      BY <1>1, LineFacts, LineItems
    <3>2. \A q \in P : q \in Nat /\ q + 1 \in 1..m
      BY <1>1, LineFacts
    <3> QED
      BY <3>1, <3>2, SequenceElements
  <2>4. s \in Nat /\ e \in Nat /\ \A q \in P : v \in Counted(Line[q + 1]) => q <= e
    BY <1>1, <2>3, RangeFacts
  <2> DEFINE S == {n \in Nat : n \in 0..m => \A q \in w[n] : q > s => q <= e}
  <2>5. 0 \in S
    <3>1. ASSUME NEW q \in w[0] PROVE q <= e
      <4>1. q \in P /\ v \in Reads(Line[q + 1])
        BY <2>2, <3>1 DEF ReadAt
      <4>2. v \in Counted(Line[q + 1])
        BY <1>1, <2>3, <4>1, PlainReadsCount
      <4> QED
        BY <2>4, <4>1, <4>2
    <3> QED
      BY <3>1
  <2>6. ASSUME NEW n \in S, n + 1 \in 0..m, NEW q \in w[n + 1], q > s
        PROVE  q <= e
    <3>1. n \in 0..(m - 1) /\ n \in 0..m
      BY <2>3, <2>6
    <3>2. \A r \in w[n] : r \in P /\ r \in w[m] /\ (r > s => r <= e)
      BY <2>2, <3>1
    <3>3. CASE q \in w[n]
      BY <2>6, <3>2, <3>3
    <3>4. CASE q \in P /\ Successors[q] \cap w[n] # {}
      <4>1. PICK r \in w[n] : r \in Successors[q]
        BY <3>4
      <4>2. q \in Nat /\ r \in Nat
        BY <2>3, <3>2, <3>4
      <4>3. CASE Line[q + 1].op \in Terminators
        <5>1. PICK edge \in ToSet(Line[q + 1].edges) : r = Entries[edge.block]
          BY <3>4, <4>1, <4>3 DEF Successors
        <5>2. ~(r <= q)
          <6>1. Entries[edge.block] <= q => Entries[edge.block] \notin LiveBefore[v]
            BY <1>1, <3>4 DEF ClosedLoops
          <6>2. r \in LiveBefore[v]
            BY <2>1, <3>2
          <6> QED
            BY <5>1, <6>1, <6>2
        <5>3. r > s /\ r <= e
          <6>1. r > s
            BY <2>4, <2>6, <4>2, <5>2
          <6> QED
            BY <3>2, <6>1
        <5> QED
          BY <2>4, <4>2, <5>2, <5>3
      <4>4. CASE Line[q + 1].op \notin Terminators
        <5>1. r = q + 1
          BY <3>4, <4>1, <4>4 DEF Successors
        <5>2. r > s
          BY <2>4, <2>6, <4>2, <5>1
        <5>3. r <= e
          BY <3>2, <5>2
        <5> QED
          BY <2>4, <4>2, <5>1, <5>3
      <4> QED
        BY <4>3, <4>4
    <3> QED
      BY <2>2, <2>6, <3>1, <3>3, <3>4 DEF Further
  <2>7. \A n \in S : n + 1 \in S
    BY <2>6
  <2> HIDE DEF S
  <2>8. S \in SUBSET Nat
    BY DEF S
  <2>9. m \in S
    BY <2>3, <2>5, <2>7, <2>8, Induction
  <2>10. m \in 0..m
    BY <2>3
  <2> QED
    BY <1>1, <2>1, <2>9, <2>10 DEF S
<1> QED
  <2> SUFFICES ASSUME IRInv, PlainBranches, ClosedLoops(LiveBefore)
               PROVE  RangesCover(LiveBefore)
    BY DEF RangesCoverLiveness
  <2> QED
    BY <1>1 DEF RangesCover

(***************************************************************************)
(* A range goes on for as long as its value is needed: going back from a   *)
(* use, an item is followed by one that is not before it, unless a loop    *)
(* closes there, and into a loop no value is live.                         *)
(***************************************************************************)
THEOREM RangesLastAsLongAsNeeded == Spec => []RangesCoverLiveness
BY RangesCoverIt, BuilderHolds, PTL

-----------------------------------------------------------------------------
(* The most values that live at once *)

LEMMA SameMaximum ==
    ASSUME NEW A \in SUBSET Nat, NEW B \in SUBSET Nat, A # {}, A \subseteq B,
           NEW n \in Nat, \A x \in B : x <= n,
           \A x \in B : \E y \in A : x <= y
    PROVE  Max(A) = Max(B)
<1>1. Max(A) \in A /\ \A x \in A : x <= Max(A)
  BY MaxOfNumbers
<1>2. Max(B) \in B /\ \A x \in B : x <= Max(B)
  BY MaxOfNumbers
<1>3. Max(A) <= Max(B)
  BY <1>1, <1>2
<1>4. PICK y \in A : Max(B) <= y
  BY <1>2
<1>5. y <= Max(A)
  BY <1>1
<1>6. Max(A) \in Nat /\ Max(B) \in Nat /\ y \in Nat
  BY <1>1, <1>2
<1> QED
  BY <1>3, <1>4, <1>5, <1>6

LEMMA PeakOfRanges ==
    ASSUME IRInv
    PROVE  /\ compute_max_live(Ranges) =
                 Max({0} \cup {Cardinality(LiveAt(Ranges, p)) : p \in Positions(Line)})
           /\ compute_max_live(Ranges) \in Nat
           /\ \A p \in Positions(Line) : Cardinality(LiveAt(Ranges, p)) <= compute_max_live(Ranges)
<1> DEFINE R == Ranges
           V == Values(func)
           P == Positions(Line)
           c == Cardinality(V)
           bounds == UNION {{R[v].start, R[v].end} : v \in DOMAIN R}
           A == {0} \cup {Cardinality(LiveAt(R, p)) : p \in bounds}
           B == {0} \cup {Cardinality(LiveAt(R, p)) : p \in P}
<1>1. IsFiniteSet(V) /\ c \in Nat
  <2>1. func.types \in Nat /\ V = 0..(func.types - 1)
    BY LineFacts
  <2>2. func.types - 1 \in Int
    BY <2>1
  <2> HIDE DEF V
  <2>3. IsFiniteSet(V)
    BY <2>1, <2>2, FS_Interval
  <2> QED
    BY <2>3, FS_CardinalityType
<1>2. DOMAIN R = V /\ \A p : LiveAt(R, p) = {v \in V : R[v].start <= p /\ p <= R[v].end}
  BY RangesOfValues DEF LiveAt
<1>3. \A v \in V : /\ R[v].start \in P /\ R[v].start \in Nat /\ R[v].end \in Nat
                   /\ R[v].end \in P \cup {0}
  BY RangeFacts, LineFacts
<1>4. P = 0..(Len(Line) - 1) /\ Len(Line) \in Nat
  BY LineFacts DEF Positions
<1>5. bounds \subseteq P
  <2>1. \A v \in V : R[v].start \in P /\ R[v].end \in P
    <3> TAKE v \in V
    <3>1. 0 \in P
      BY <1>3, <1>4
    <3> QED
      BY <1>3, <3>1
  <2> HIDE DEF R, V, P
  <2> QED
    BY <1>2, <2>1
<1> HIDE DEF R, V, P
<1>6. \A p : /\ IsFiniteSet(LiveAt(R, p)) /\ LiveAt(R, p) \subseteq V
             /\ Cardinality(LiveAt(R, p)) \in Nat /\ Cardinality(LiveAt(R, p)) <= c
  <2> TAKE p
  <2>1. LiveAt(R, p) \in SUBSET V
    BY <1>2
  <2>2. IsFiniteSet(LiveAt(R, p)) /\ Cardinality(LiveAt(R, p)) <= c
    BY <1>1, <2>1, FS_Subset
  <2> QED
    BY <2>1, <2>2, FS_CardinalityType
<1>7. ASSUME NEW p \in P
      PROVE  \E y \in A : Cardinality(LiveAt(R, p)) <= y
  <2> DEFINE L == LiveAt(R, p)
             T == {R[v].start : v \in L}
             M == Max(T)
  <2>1. p \in Nat
    BY <1>4
  <2>2. CASE L = {}
    <3>1. Cardinality(L) = 0
      BY <2>2, FS_EmptySet
    <3>2. 0 \in A
      OBVIOUS
    <3> QED
      BY <3>1, <3>2
  <2>3. CASE L # {}
    <3>1. \A v \in L : v \in V /\ R[v].start \in Nat /\ R[v].start <= p /\ p <= R[v].end
      BY <1>2, <1>3
    <3>2. T \in SUBSET Nat /\ T # {} /\ \A x \in T : x <= p
      BY <2>3, <3>1
    <3>3. M \in T /\ \A x \in T : x <= M
      <4> HIDE DEF T
      <4> QED
        BY <2>1, <3>2, MaxOfNumbers
    <3> HIDE DEF M
    <3>4. PICK v \in L : M = R[v].start
      BY <3>3
    <3>5. M \in bounds
      BY <1>2, <3>1, <3>4
    <3>6. M \in Nat /\ M <= p
      BY <3>1, <3>4
    <3>7. \A u \in L : u \in LiveAt(R, M)
      <4> TAKE u \in L
      <4>1. R[u].start <= M
        BY <3>3
      <4>2. R[u].end \in Nat /\ M <= R[u].end
        BY <1>3, <2>1, <3>1, <3>6
      <4> QED
        BY <1>2, <3>1, <4>1, <4>2
    <3>8. L \in SUBSET LiveAt(R, M)
      BY <3>7
    <3>9. Cardinality(L) <= Cardinality(LiveAt(R, M))
      BY <1>6, <3>8, FS_Subset
    <3>10. Cardinality(LiveAt(R, M)) \in A
      BY <3>5
    <3> QED
      BY <3>9, <3>10
  <2> QED
    BY <2>2, <2>3
<1>8. /\ A \in SUBSET Nat /\ B \in SUBSET Nat /\ A # {} /\ A \subseteq B
      /\ \A x \in B : x <= c
  BY <1>1, <1>5, <1>6
<1>9. \A x \in B : \E y \in A : x <= y
  <2>1. 0 \in A /\ 0 <= 0
    OBVIOUS
  <2> QED
    BY <1>7, <2>1
<1>10. compute_max_live(R) = Max(A)
  BY DEF compute_max_live
<1> HIDE DEF A, c
<1>11. Max(A) = Max(B)
  <2> HIDE DEF B
  <2> QED
    BY <1>1, <1>8, <1>9, SameMaximum
<1>12. Max(A) \in Nat
  BY <1>1, <1>8, MaxOfNumbers
<1>13. \A x \in B : x <= Max(B)
  <2>1. B # {} /\ B \in SUBSET Nat
    BY <1>8
  <2> HIDE DEF B
  <2> QED
    BY <1>1, <1>8, <2>1, MaxOfNumbers
<1>14. \A p \in P : Cardinality(LiveAt(R, p)) <= Max(A)
  BY <1>11, <1>13
<1> QED
  BY <1>10, <1>11, <1>12, <1>14 DEF R, P

(***************************************************************************)
(* The number of ranges at the bounds of the ranges has the maximum of the *)
(* whole function: the ranges that hold an index all hold the latest of    *)
(* their starts.                                                           *)
(***************************************************************************)
THEOREM MaxLiveIsThePeak == Spec => []MaxLiveIsPeak
<1>1. IRInv => MaxLiveIsPeak
  BY PeakOfRanges DEF MaxLiveIsPeak
<1> QED
  BY <1>1, BuilderHolds, PTL

=============================================================================
