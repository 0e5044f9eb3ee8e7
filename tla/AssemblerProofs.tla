---------------------------- MODULE AssemblerProofs ----------------------------
(***************************************************************************)
(* Proofs about Assembler, for a buffer of any size and any instructions.  *)
(*                                                                         *)
(* JumpsLand is not inductive: that bind makes the jumps of its label land *)
(* needs every jump that has no target yet to be among the fixups, and     *)
(* every fixup to be a jump to that label, inside the code written; that a *)
(* second bind keeps the backward jumps right needs the fixups to be the   *)
(* only jumps it moves.                                                    *)
(***************************************************************************)
EXTENDS Assembler, TLAPS

(* The chunk of a displacement names a label there is, and has its size. *)
PendingOK ==
    \A k \in 1..Len(pending) :
        pending[k].kind = "field" => pending[k].label \in Label /\ pending[k].size = 4

(* The target of a label is where it was bound last. *)
TargetsAreBound ==
    \A l \in Label :
        IF Target(l) = NoTarget THEN boundAt[l] = {} ELSE Target(l) \in boundAt[l]

IInv == TypeOK /\ PendingOK /\ TargetsAreBound /\ JumpsLand /\ FixupsAreExact /\ FieldsAreApart

USE SizeAssumption, EncodingAssumption, JumpAssumption, BoundAssumption

LabelType == [target : Nat \cup {NoTarget}, fixups : SUBSET Nat]

(* The empty buffer satisfies the invariant. *)
LEMMA InitInv == Init => IInv
<1> SUFFICES ASSUME Init PROVE IInv
  OBVIOUS
<1>1. /\ m_pos = 0 /\ m_labels = <<>> /\ pending = <<>> /\ fields = <<>>
      /\ nops = {} /\ exec = FALSE /\ faulted = FALSE /\ boundAt = <<>>
  BY DEF Init
<1>2. Label = {} /\ DOMAIN fields = {} /\ Len(pending) = 0
  BY <1>1 DEF Label
<1>3. TypeOK
  <2>1. m_pos \in 0..Size /\ nops \subseteq Nat
    BY <1>1
  <2>4. exec \in BOOLEAN /\ faulted \in BOOLEAN
    BY <1>1
  <2>2. m_labels \in Seq(LabelType) /\ pending \in Seq(ChunkType)
        /\ boundAt \in Seq(SUBSET Nat) /\ Len(boundAt) = Len(m_labels)
    BY <1>1
  <2>3. DOMAIN fields \subseteq Nat /\ \A f \in DOMAIN fields : fields[f] \in [label : Label, disp : Int]
    BY <1>2
  <2> QED
    BY <2>1, <2>2, <2>3, <2>4 DEF TypeOK, LabelType
<1>4. PendingOK /\ TargetsAreBound /\ JumpsLand /\ FixupsAreExact /\ FieldsAreApart
  BY <1>1, <1>2 DEF PendingOK, TargetsAreBound, JumpsLand, FixupsAreExact, FieldsAreApart
<1> QED
  BY <1>3, <1>4 DEF IInv

(* Setting one element of a sequence. *)
LEMMA SetElement ==
  ASSUME NEW S, NEW s \in Seq(S), NEW i \in 1..Len(s), NEW e \in S,
         NEW t, t = [s EXCEPT ![i] = e]
  PROVE  /\ t \in Seq(S) /\ Len(t) = Len(s)
         /\ \A k \in 1..Len(s) : t[k] = IF k = i THEN e ELSE s[k]
OBVIOUS


(* An operation only queues well-formed chunks. *)
LEMMA BeginInv ==
  ASSUME IInv, Instruction \/ Nop \/ Jump
  PROVE  IInv'
<1>1. UNCHANGED <<m_pos, m_labels, fields, nops, exec, faulted, boundAt>>
  BY DEF Instruction, Nop, Jump, Begin
<1>2. pending' \in Seq(ChunkType) /\ PendingOK'
  <2>1. CASE Instruction
    <3>1. PICK e \in Encodings : Begin([k \in 1..Len(e) |-> Chunk("bytes", e[k], 0)])
      BY <2>1 DEF Instruction
    <3>2. e \in Seq(Nat \ {0})
      OBVIOUS
    <3>3. pending' = [k \in 1..Len(e) |-> [kind |-> "bytes", size |-> e[k], label |-> 0]]
      BY <3>1 DEF Begin, Chunk
    <3> QED
      BY <3>2, <3>3 DEF PendingOK, ChunkType
  <2>2. CASE Nop
    <3>1. PICK n \in NopCounts : Begin([k \in 1..n |-> Chunk("nop", 1, 0)])
      BY <2>2 DEF Nop
    <3>2. pending' = [k \in 1..n |-> [kind |-> "nop", size |-> 1, label |-> 0]] /\ n \in Nat
      BY <3>1, NopAssumption DEF Begin, Chunk
    <3> QED
      BY <3>2 DEF PendingOK, ChunkType
  <2>3. CASE Jump
    <3>1. PICK l \in Label, n \in JumpOpcodes :
            Begin(<<Chunk("bytes", n, 0), Chunk("field", 4, l)>>)
      BY <2>3 DEF Jump
    <3>2. pending' = <<[kind |-> "bytes", size |-> n, label |-> 0],
                       [kind |-> "field", size |-> 4, label |-> l]>>
      BY <3>1 DEF Begin, Chunk
    <3>3. l \in Nat /\ n \in Nat \ {0} /\ l \in Label'
      BY <1>1 DEF Label, IInv, TypeOK
    <3> QED
      BY <3>2, <3>3 DEF PendingOK, ChunkType
  <2> QED
    BY <2>1, <2>2, <2>3
<1>3. TypeOK' /\ TargetsAreBound' /\ JumpsLand' /\ FixupsAreExact' /\ FieldsAreApart'
  BY <1>1, <1>2 DEF IInv, TypeOK, TargetsAreBound, JumpsLand, FixupsAreExact, FieldsAreApart,
                    Label, Target, Fixups, Lands, Bytes
<1> QED
  BY <1>2, <1>3 DEF IInv

(***************************************************************************)
(* Exceptions, faults, patches and commits leave the code and the labels   *)
(* as they are.                                                            *)
(***************************************************************************)
LEMMA QuietInv ==
  ASSUME IInv,
         UNCHANGED <<m_pos, m_labels, fields, boundAt>>,
         pending' \in {<<>>, pending}, nops' \subseteq nops,
         exec' \in BOOLEAN, faulted' \in BOOLEAN
  PROVE  IInv'
<1>1. Label' = Label
  BY DEF Label
<1>2. TypeOK'
  <2>1. pending' \in Seq(ChunkType)
    <3>1. pending \in Seq(ChunkType) /\ <<>> \in Seq(ChunkType)
      BY DEF IInv, TypeOK
    <3> QED
      BY <3>1
  <2> QED
    BY <1>1, <2>1 DEF IInv, TypeOK
<1>3. PendingOK'
  <2>1. CASE pending' = <<>>
    BY <2>1 DEF PendingOK
  <2>2. CASE pending' = pending
    BY <1>1, <2>2 DEF IInv, PendingOK
  <2> QED
    BY <2>1, <2>2
<1>4. TargetsAreBound' /\ JumpsLand' /\ FixupsAreExact'
  BY <1>1 DEF IInv, TargetsAreBound, JumpsLand, FixupsAreExact, Target, Fixups, Lands
<1>5. FieldsAreApart'
  BY DEF IInv, FieldsAreApart, Bytes
<1> QED
  BY <1>2, <1>3, <1>4, <1>5 DEF IInv

(* What every write does to the queue and to the end of the code. *)
LEMMA AdvanceFacts ==
  ASSUME IInv, pending # <<>>, Fits, Advance, Len(m_labels)' = Len(m_labels)
  PROVE  /\ m_pos \in Nat /\ m_pos' = m_pos + Head(pending).size
         /\ m_pos' \in 0..Size /\ m_pos' > m_pos
         /\ pending' \in Seq(ChunkType) /\ PendingOK'
         /\ Head(pending) \in ChunkType
         /\ Head(pending).kind = "field" => Head(pending).label \in Label /\ Head(pending).size = 4
<1>1. pending \in Seq(ChunkType) /\ m_pos \in 0..Size
  BY DEF IInv, TypeOK
<1>2. Head(pending) = pending[1] /\ Head(pending) \in ChunkType
  BY <1>1
<1>3. Head(pending).size \in Nat \ {0}
  BY <1>2 DEF ChunkType
<1>4. m_pos' = m_pos + Head(pending).size /\ m_pos' \in 0..Size /\ m_pos' > m_pos
  BY <1>1, <1>3 DEF Fits, Advance
<1>5. pending' = Tail(pending) /\ pending' \in Seq(ChunkType)
  BY <1>1 DEF Advance
<1>6. PendingOK'
  <2>1. \A k \in 1..Len(pending') : pending'[k] = pending[k + 1] /\ k + 1 \in 1..Len(pending)
    BY <1>1, <1>5
  <2> QED
    BY <2>1 DEF IInv, PendingOK, Label
<1>7. Head(pending).kind = "field" => Head(pending).label \in Label /\ Head(pending).size = 4
  BY <1>1, <1>2 DEF IInv, PendingOK
<1> QED
  BY <1>1, <1>2, <1>4, <1>5, <1>6, <1>7

(* What FieldsAreApart says, as inequalities. *)
LEMMA Inequalities ==
  ASSUME IInv
  PROVE  /\ m_pos \in Nat /\ DOMAIN fields \subseteq Nat /\ nops \subseteq Nat
         /\ \A f \in DOMAIN fields : f + 3 < m_pos
         /\ \A p \in nops : p < m_pos
<1>1. m_pos \in Nat /\ DOMAIN fields \subseteq Nat /\ nops \subseteq Nat
  BY DEF IInv, TypeOK
<1>2. ASSUME NEW f \in DOMAIN fields PROVE f + 3 < m_pos
  <2>1. f \in Nat
    BY <1>1
  <2>2. f + 3 \in Bytes(f)
    BY <2>1 DEF Bytes
  <2>3. f + 3 \in 0..(m_pos - 1)
    BY <2>2 DEF IInv, FieldsAreApart
  <2> QED
    BY <1>1, <2>1, <2>3
<1>3. ASSUME NEW p \in nops PROVE p < m_pos
  <2>1. p \in 0..(m_pos - 1)
    BY DEF IInv, FieldsAreApart
  <2> QED
    BY <1>1, <2>1
<1> QED
  BY <1>1, <1>2, <1>3

(* Bytes and nops go after the code there is. *)
LEMMA WriteInv ==
  ASSUME IInv, Write
  PROVE  IInv'
<1>1. /\ UNCHANGED <<m_labels, fields, exec, faulted, boundAt>>
      /\ nops' \subseteq nops \cup {m_pos}
      /\ pending # <<>> /\ Fits /\ Advance
  BY DEF Write, Writing
<1>2. /\ m_pos \in Nat /\ m_pos' \in 0..Size /\ m_pos' > m_pos
      /\ pending' \in Seq(ChunkType) /\ PendingOK'
  BY <1>1, AdvanceFacts
<1>3. TypeOK'
  BY <1>1, <1>2 DEF IInv, TypeOK, Label
<1>4. TargetsAreBound' /\ JumpsLand' /\ FixupsAreExact'
  BY <1>1 DEF IInv, TargetsAreBound, JumpsLand, FixupsAreExact, Label, Target, Fixups, Lands
<1>5. FieldsAreApart'
  <2>1. \A f \in DOMAIN fields : Bytes(f) \subseteq 0..(m_pos' - 1)
    BY <1>2, Inequalities DEF Bytes
  <2>2. \A f \in DOMAIN fields : m_pos \notin Bytes(f)
    BY <1>2, Inequalities DEF Bytes
  <2>3. \A f \in DOMAIN fields : Bytes(f) \cap nops' = {}
    BY <1>1, <2>2 DEF IInv, FieldsAreApart
  <2>4. \A f, g \in DOMAIN fields : f # g => Bytes(f) \cap Bytes(g) = {}
    BY DEF IInv, FieldsAreApart
  <2>5. nops' \subseteq 0..(m_pos' - 1)
    BY <1>1, <1>2, Inequalities
  <2> QED
    BY <1>1, <2>1, <2>3, <2>4, <2>5 DEF FieldsAreApart, Bytes
<1> QED
  BY <1>2, <1>3, <1>4, <1>5 DEF IInv

(* The displacement of a new jump lies after all others. *)
LEMMA NewFieldApart ==
  ASSUME IInv, m_pos' = m_pos + 4, nops' = nops, DOMAIN fields' = DOMAIN fields \cup {m_pos}
  PROVE  FieldsAreApart'
<1>1. \A f \in DOMAIN fields' : Bytes(f) \subseteq 0..(m_pos' - 1)
  BY Inequalities DEF Bytes
<1>2. \A f \in DOMAIN fields : Bytes(f) \cap Bytes(m_pos) = {}
  BY Inequalities DEF Bytes
<1>3. Bytes(m_pos) \cap nops = {}
  BY Inequalities DEF Bytes
<1>4. \A f \in DOMAIN fields' : Bytes(f) \cap nops' = {}
  BY <1>3 DEF IInv, FieldsAreApart
<1>5. \A f, g \in DOMAIN fields' : f # g => Bytes(f) \cap Bytes(g) = {}
  <2> SUFFICES ASSUME NEW f \in DOMAIN fields', NEW g \in DOMAIN fields', f # g
               PROVE  Bytes(f) \cap Bytes(g) = {}
    OBVIOUS
  <2>1. CASE f \in DOMAIN fields /\ g \in DOMAIN fields
    BY <2>1 DEF IInv, FieldsAreApart
  <2>2. CASE f = m_pos /\ g \in DOMAIN fields
    BY <1>2, <2>2
  <2>3. CASE g = m_pos /\ f \in DOMAIN fields
    BY <1>2, <2>3
  <2> QED
    BY <2>1, <2>2, <2>3
<1>6. nops' \subseteq 0..(m_pos' - 1)
  BY Inequalities
<1> QED
  BY <1>1, <1>4, <1>5, <1>6 DEF FieldsAreApart, Bytes

(* A jump to a label without a target joins its fixups. *)
LEMMA WriteForwardInv ==
  ASSUME IInv, WriteForward
  PROVE  IInv'
<1> DEFINE l == Head(pending).label
<1>1. /\ pending # <<>> /\ Head(pending).kind = "field"
      /\ Fits /\ Advance /\ UNCHANGED <<nops, exec, faulted, boundAt>>
      /\ Target(l) = NoTarget
      /\ fields' = WithField(m_pos, l, 0)
      /\ m_labels' = [m_labels EXCEPT ![l].fixups = @ \cup {m_pos}]
  BY DEF WriteForward, Writing
<1>2. m_labels \in Seq(LabelType)
  BY DEF IInv, TypeOK, LabelType
<1>3. Len(m_labels') = Len(m_labels)
  BY <1>1, <1>2
<1>4. /\ m_pos \in Nat /\ m_pos' = m_pos + 4 /\ m_pos' \in 0..Size
      /\ pending' \in Seq(ChunkType) /\ PendingOK' /\ l \in Label
  BY <1>1, <1>3, AdvanceFacts
<1> HIDE DEF l
<1>5. /\ m_labels' \in Seq(LabelType) /\ Label' = Label
      /\ \A k \in Label : Target(k)' = Target(k)
      /\ \A k \in Label : Fixups(k)' = IF k = l THEN Fixups(k) \cup {m_pos} ELSE Fixups(k)
  <2> DEFINE r == [m_labels[l] EXCEPT !.fixups = @ \cup {m_pos}]
  <2>1. m_labels[l] \in LabelType
    BY <1>2, <1>4 DEF Label
  <2>2. /\ r \in LabelType /\ r.target = m_labels[l].target
        /\ r.fixups = m_labels[l].fixups \cup {m_pos}
    BY <1>4, <2>1 DEF LabelType
  <2>3. m_labels' = [m_labels EXCEPT ![l] = r]
    BY <1>1
  <2> HIDE DEF r
  <2>4. /\ m_labels' \in Seq(LabelType)
        /\ \A k \in Label : m_labels'[k] = IF k = l THEN r ELSE m_labels[k]
    BY <1>2, <1>4, <2>2, <2>3, SetElement DEF Label
  <2> QED
    BY <1>3, <1>4, <2>2, <2>4 DEF Label, Target, Fixups
<1>6. /\ DOMAIN fields' = DOMAIN fields \cup {m_pos}
      /\ fields'[m_pos] = [label |-> l, disp |-> 0]
      /\ m_pos \notin DOMAIN fields
      /\ \A f \in DOMAIN fields : fields'[f] = fields[f]
  <2>1. m_pos \notin DOMAIN fields
    BY <1>4 DEF IInv, TypeOK, FieldsAreApart, Bytes
  <2> QED
    BY <1>1, <2>1 DEF WithField
<1>7. TypeOK'
  <2>1. \A f \in DOMAIN fields' : fields'[f] \in [label : Label', disp : Int]
    <3> SUFFICES ASSUME NEW f \in DOMAIN fields'
                 PROVE  fields'[f] \in [label : Label, disp : Int]
      BY <1>5
    <3>1. CASE f \in DOMAIN fields
      BY <1>6, <3>1 DEF IInv, TypeOK
    <3>2. CASE f = m_pos
      BY <1>4, <1>6, <3>2
    <3> QED
      BY <1>6, <3>1, <3>2
  <2> QED
    BY <1>1, <1>3, <1>4, <1>5, <1>6, <2>1 DEF IInv, TypeOK, LabelType
<1>8. TargetsAreBound'
  BY <1>1, <1>5 DEF IInv, TargetsAreBound
<1>9. JumpsLand'
  <2>1. boundAt[l] = {}
    BY <1>1, <1>4 DEF IInv, TargetsAreBound
  <2> QED
    <3> SUFFICES ASSUME NEW f \in DOMAIN fields'
                 PROVE  IF boundAt[fields'[f].label] = {} THEN fields'[f].disp = 0
                        ELSE f + 4 + fields'[f].disp \in boundAt[fields'[f].label]
      BY <1>1 DEF JumpsLand, Lands
    <3>1. CASE f = m_pos
      BY <1>6, <2>1, <3>1
    <3>2. CASE f \in DOMAIN fields
      BY <1>6, <3>2 DEF IInv, JumpsLand, Lands
    <3> QED
      BY <1>6, <3>1, <3>2
<1>10. FixupsAreExact'
  BY <1>1, <1>5, <1>6 DEF IInv, FixupsAreExact
<1>11. FieldsAreApart'
  BY <1>1, <1>4, <1>6, NewFieldApart
<1> QED
  BY <1>4, <1>7, <1>8, <1>9, <1>10, <1>11 DEF IInv

(* A jump to a label with a target is written with its displacement. *)
LEMMA WriteBackwardInv ==
  ASSUME IInv, WriteBackward
  PROVE  IInv'
<1> DEFINE l == Head(pending).label
<1>1. /\ pending # <<>> /\ Head(pending).kind = "field"
      /\ Fits /\ Advance /\ UNCHANGED <<m_labels, nops, exec, faulted, boundAt>>
      /\ Target(l) # NoTarget
      /\ fields' = WithField(m_pos, l, Target(l) - (m_pos + 4))
  BY DEF WriteBackward, Writing
<1>2. /\ m_pos \in Nat /\ m_pos' = m_pos + 4 /\ m_pos' \in 0..Size
      /\ pending' \in Seq(ChunkType) /\ PendingOK' /\ l \in Label
  BY <1>1, AdvanceFacts
<1> HIDE DEF l
<1>3. Target(l) \in Nat /\ Target(l) \in boundAt[l]
  BY <1>1, <1>2 DEF IInv, TypeOK, Label, Target, TargetsAreBound
<1>4. /\ DOMAIN fields' = DOMAIN fields \cup {m_pos}
      /\ fields'[m_pos] = [label |-> l, disp |-> Target(l) - (m_pos + 4)]
      /\ m_pos \notin DOMAIN fields
      /\ \A f \in DOMAIN fields : fields'[f] = fields[f]
  <2>1. m_pos \notin DOMAIN fields
    BY <1>2 DEF IInv, TypeOK, FieldsAreApart, Bytes
  <2> QED
    BY <1>1, <2>1 DEF WithField
<1>5. TypeOK'
  <2>1. \A f \in DOMAIN fields' : fields'[f] \in [label : Label', disp : Int]
    BY <1>1, <1>2, <1>3, <1>4 DEF IInv, TypeOK, Label
  <2> QED
    BY <1>1, <1>2, <1>4, <2>1 DEF IInv, TypeOK
<1>6. TargetsAreBound'
  BY <1>1 DEF IInv, TargetsAreBound, Label, Target
<1>7. JumpsLand'
  <2>1. m_pos + 4 + (Target(l) - (m_pos + 4)) = Target(l)
    BY <1>2, <1>3
  <2> QED
    <3> SUFFICES ASSUME NEW f \in DOMAIN fields'
                 PROVE  IF boundAt[fields'[f].label] = {} THEN fields'[f].disp = 0
                        ELSE f + 4 + fields'[f].disp \in boundAt[fields'[f].label]
      BY <1>1 DEF JumpsLand, Lands
    <3>1. CASE f = m_pos
      BY <1>3, <1>4, <2>1, <3>1
    <3>2. CASE f \in DOMAIN fields
      BY <1>4, <3>2 DEF IInv, JumpsLand, Lands
    <3> QED
      BY <1>4, <3>1, <3>2
<1>8. FixupsAreExact'
  BY <1>1, <1>4 DEF IInv, FixupsAreExact, Label, Target, Fixups
<1>9. FieldsAreApart'
  BY <1>1, <1>2, <1>4, NewFieldApart
<1> QED
  BY <1>2, <1>5, <1>6, <1>7, <1>8, <1>9 DEF IInv

(* A new label has no target, no fixups and no jumps. *)
LEMMA NewLabelInv ==
  ASSUME IInv, NewLabel
  PROVE  IInv'
<1> PICK n : n = Len(m_labels)
  OBVIOUS
<1>1. /\ m_labels' = Append(m_labels, [target |-> NoTarget, fixups |-> {}])
      /\ boundAt' = Append(boundAt, {})
      /\ UNCHANGED <<m_pos, pending, fields, nops, exec, faulted>>
  BY DEF NewLabel
<1>2. /\ m_labels \in Seq(LabelType)
      /\ boundAt \in Seq(SUBSET Nat) /\ Len(boundAt) = n /\ n \in Nat
  BY DEF IInv, TypeOK, LabelType
<1>3. /\ Label' = Label \cup {n + 1} /\ n + 1 \notin Label
      /\ m_labels'[n + 1] = [target |-> NoTarget, fixups |-> {}] /\ boundAt'[n + 1] = {}
      /\ \A k \in Label : m_labels'[k] = m_labels[k] /\ boundAt'[k] = boundAt[k]
  BY <1>1, <1>2 DEF Label
<1>4. TypeOK'
  <2>1. /\ m_labels' \in Seq(LabelType)
        /\ boundAt' \in Seq(SUBSET Nat) /\ Len(boundAt') = Len(m_labels')
    <3>1. [target |-> NoTarget, fixups |-> {}] \in LabelType
      BY DEF LabelType
    <3>2. m_labels' \in Seq(LabelType) /\ Len(m_labels') = n + 1
      BY <1>1, <1>2, <3>1
    <3>3. {} \in SUBSET Nat
      OBVIOUS
    <3>4. boundAt' \in Seq(SUBSET Nat) /\ Len(boundAt') = n + 1
      BY <1>1, <1>2, <3>3
    <3> QED
      BY <3>2, <3>4
  <2> QED
    BY <1>1, <1>3, <2>1 DEF IInv, TypeOK, LabelType
<1>5. PendingOK'
  BY <1>1, <1>3 DEF IInv, PendingOK
<1>6. TargetsAreBound'
  BY <1>3 DEF IInv, TargetsAreBound, Target
<1>7. \A f \in DOMAIN fields : fields[f].label \in Label
  BY DEF IInv, TypeOK
<1>8. JumpsLand'
  BY <1>1, <1>3, <1>7 DEF IInv, JumpsLand, Lands
<1>9. FixupsAreExact'
  <2>1. \A k \in Label : Target(k)' = Target(k) /\ Fixups(k)' = Fixups(k)
    BY <1>3 DEF Target, Fixups
  <2>2. Fixups(n + 1)' = {} /\ {f \in DOMAIN fields : fields[f].label = n + 1} = {}
    BY <1>3, <1>7 DEF Fixups
  <2> QED
    BY <1>1, <1>3, <2>1, <2>2 DEF IInv, FixupsAreExact
<1>10. FieldsAreApart'
  BY <1>1 DEF IInv, FieldsAreApart, Bytes
<1> QED
  BY <1>4, <1>5, <1>6, <1>8, <1>9, <1>10 DEF IInv

(* bind moves the jumps among the fixups of its label, and no other. *)
LEMMA BindInv ==
  ASSUME IInv, Bind
  PROVE  IInv'
<1>1. PICK l \in Label :
        /\ m_labels' = [m_labels EXCEPT ![l].target = m_pos]
        /\ fields' = [f \in DOMAIN fields |->
                          IF f \in Fixups(l)
                          THEN [fields[f] EXCEPT !.disp = m_pos - (f + 4)]
                          ELSE fields[f]]
        /\ boundAt' = [boundAt EXCEPT ![l] = @ \cup {m_pos}]
  BY DEF Bind
<1>2. UNCHANGED <<m_pos, pending, nops, exec, faulted>>
  BY DEF Bind
<1>3. /\ m_labels \in Seq(LabelType)
      /\ boundAt \in Seq(SUBSET Nat) /\ Len(boundAt) = Len(m_labels)
      /\ m_pos \in Nat /\ DOMAIN fields \subseteq Nat
      /\ \A f \in DOMAIN fields : fields[f] \in [label : Label, disp : Int]
  BY DEF IInv, TypeOK, LabelType
<1>4. /\ m_labels' \in Seq(LabelType) /\ Len(m_labels') = Len(m_labels) /\ Label' = Label
      /\ \A k \in Label : Target(k)' = IF k = l THEN m_pos ELSE Target(k)
      /\ \A k \in Label : Fixups(k)' = Fixups(k)
  <2> DEFINE r == [m_labels[l] EXCEPT !.target = m_pos]
  <2>1. m_labels[l] \in LabelType
    BY <1>3 DEF Label
  <2>2. r \in LabelType /\ r.target = m_pos /\ r.fixups = m_labels[l].fixups
    BY <1>3, <2>1 DEF LabelType
  <2>3. m_labels' = [m_labels EXCEPT ![l] = r]
    BY <1>1
  <2> HIDE DEF r
  <2>4. /\ m_labels' \in Seq(LabelType) /\ Len(m_labels') = Len(m_labels)
        /\ \A k \in Label : m_labels'[k] = IF k = l THEN r ELSE m_labels[k]
    BY <1>3, <2>2, <2>3, SetElement DEF Label
  <2> QED
    BY <2>2, <2>4 DEF Label, Target, Fixups
<1>12. /\ boundAt' \in Seq(SUBSET Nat) /\ Len(boundAt') = Len(boundAt)
       /\ \A k \in Label : boundAt'[k] = IF k = l THEN boundAt[k] \cup {m_pos} ELSE boundAt[k]
  <2> DEFINE e == boundAt[l] \cup {m_pos}
  <2>1. l \in 1..Len(boundAt) /\ e \in SUBSET Nat
    BY <1>3 DEF Label
  <2>2. boundAt' = [boundAt EXCEPT ![l] = e]
    BY <1>1
  <2> HIDE DEF e
  <2>3. /\ boundAt' \in Seq(SUBSET Nat) /\ Len(boundAt') = Len(boundAt)
        /\ \A k \in 1..Len(boundAt) : boundAt'[k] = IF k = l THEN e ELSE boundAt[k]
    BY <1>3, <2>1, <2>2, SetElement
  <2> QED
    BY <1>3, <2>3 DEF Label, e
<1>5. /\ DOMAIN fields' = DOMAIN fields
      /\ \A f \in DOMAIN fields :
           /\ fields'[f].label = fields[f].label
           /\ f \in Fixups(l) => fields'[f].disp = m_pos - (f + 4)
           /\ f \notin Fixups(l) => fields'[f] = fields[f]
           /\ fields'[f] \in [label : Label, disp : Int]
  BY <1>1, <1>3, SMTT(20)
<1>6. TypeOK'
  BY <1>2, <1>3, <1>4, <1>5, <1>12 DEF IInv, TypeOK, LabelType
<1>7. PendingOK'
  BY <1>2, <1>4 DEF IInv, PendingOK
<1>8. TargetsAreBound'
  <2>1. m_pos # NoTarget
    BY <1>3 DEF NoTarget
  <2> QED
    BY <1>4, <1>12, <2>1 DEF IInv, TargetsAreBound
<1>9. JumpsLand'
  <2> SUFFICES ASSUME NEW f \in DOMAIN fields
               PROVE  IF boundAt'[fields'[f].label] = {} THEN fields'[f].disp = 0
                      ELSE f + 4 + fields'[f].disp \in boundAt'[fields'[f].label]
    BY <1>5 DEF JumpsLand, Lands
  <2>1. fields[f].label \in Label /\ f \in Nat
    BY <1>3
  <2>2. CASE f \in Fixups(l)
    <3>1. fields[f].label = l
      BY <2>2 DEF IInv, FixupsAreExact
    <3>2. f + 4 + fields'[f].disp = m_pos
      BY <1>3, <1>5, <2>1, <2>2
    <3> QED
      BY <1>12, <1>5, <3>1, <3>2
  <2>3. CASE f \notin Fixups(l) /\ fields[f].label = l
    <3>1. boundAt[l] # {}
      BY <2>3 DEF IInv, FixupsAreExact, TargetsAreBound
    <3> QED
      BY <1>12, <1>5, <2>3, <3>1 DEF IInv, JumpsLand, Lands
  <2>4. CASE f \notin Fixups(l) /\ fields[f].label # l
    BY <1>12, <1>5, <2>1, <2>4, ZenonT(30) DEF IInv, JumpsLand, Lands
  <2> QED
    BY <2>2, <2>3, <2>4
<1>10. FixupsAreExact'
  <2>1. \A k \in Label : {f \in DOMAIN fields' : fields'[f].label = k}
                       = {f \in DOMAIN fields : fields[f].label = k}
    BY <1>5
  <2>2. m_pos # NoTarget
    BY <1>3 DEF NoTarget
  <2> QED
    BY <1>4, <2>1, <2>2 DEF IInv, FixupsAreExact
<1>11. FieldsAreApart'
  BY <1>2, <1>5 DEF IInv, FieldsAreApart, Bytes
<1> QED
  BY <1>6, <1>7, <1>8, <1>9, <1>10, <1>11 DEF IInv

(* Every step keeps the invariant. *)
LEMMA StepInv == IInv /\ [Next]_vars => IInv'
<1> SUFFICES ASSUME IInv, [Next]_vars PROVE IInv'
  OBVIOUS
<1>1. CASE Instruction \/ Nop \/ Jump
  BY <1>1, BeginInv
<1>2. CASE Write
  BY <1>2, WriteInv
<1>3. CASE WriteForward
  BY <1>3, WriteForwardInv
<1>4. CASE WriteBackward
  BY <1>4, WriteBackwardInv
<1>5. CASE Overflow \/ WriteToExec \/ BindInExec \/ Patch \/ Commit
  <2>1. /\ UNCHANGED <<m_pos, m_labels, fields, boundAt>>
        /\ pending' \in {<<>>, pending} /\ nops' \subseteq nops
        /\ exec' \in {exec, TRUE} /\ faulted' \in {faulted, TRUE}
    BY <1>5 DEF Overflow, WriteToExec, BindInExec, Patch, Commit, Throw, Fault
  <2>2. exec' \in BOOLEAN /\ faulted' \in BOOLEAN
    BY <2>1 DEF IInv, TypeOK
  <2> QED
    BY <2>1, <2>2, QuietInv
<1>6. CASE NewLabel
  BY <1>6, NewLabelInv
<1>7. CASE Bind
  BY <1>7, BindInv
<1>8. CASE UNCHANGED vars
  <2>1. exec' \in BOOLEAN /\ faulted' \in BOOLEAN
    BY <1>8 DEF vars, IInv, TypeOK
  <2> QED
    BY <1>8, <2>1, QuietInv DEF vars
<1> QED
  BY <1>1, <1>2, <1>3, <1>4, <1>5, <1>6, <1>7, <1>8 DEF Next

(* The inductive invariant holds in every state of the assembler. *)
THEOREM Invariance == Spec => []IInv
BY InitInv, StepInv, PTL DEF Spec

(***************************************************************************)
(* In every state the end of the code is within the buffer, and labels,    *)
(* fixups and displacements are what their types say.                      *)
(***************************************************************************)
THEOREM TypeCorrect == Spec => []TypeOK
<1>1. IInv => TypeOK
  BY DEF IInv
<1> QED
  BY <1>1, Invariance, PTL

(***************************************************************************)
(* In any program of emissions, labels and binds, and whatever fails on    *)
(* the way, every jump goes to where its label was bound.                  *)
(***************************************************************************)
THEOREM EveryJumpLands == Spec => []JumpsLand
<1>1. IInv => JumpsLand
  BY DEF IInv
<1> QED
  BY <1>1, Invariance, PTL

(* No jump is lost between the label it names and the fixups of the label. *)
THEOREM NoJumpIsForgotten == Spec => []FixupsAreExact
<1>1. IInv => FixupsAreExact
  BY DEF IInv
<1> QED
  BY <1>1, Invariance, PTL

(* The places that bind and patch_at write to are theirs, and in the code. *)
THEOREM PatchesStayApart == Spec => []FieldsAreApart
<1>1. IInv => FieldsAreApart
  BY DEF IInv
<1> QED
  BY <1>1, Invariance, PTL

(***************************************************************************)
(* A displacement in the code is moved by no step but a bind of its own    *)
(* label, and that makes it land where the label is bound.                 *)
(***************************************************************************)
THEOREM ResolvedJumpsStay == Spec => OnlyBindMovesJumps
<1>1. IInv /\ [Next]_vars => MovesAtBind
  <2> SUFFICES ASSUME IInv, [Next]_vars PROVE MovesAtBind
    OBVIOUS
  <2>1. CASE Bind
    <3>1. PICK l \in Label :
            /\ m_labels' = [m_labels EXCEPT ![l].target = m_pos]
            /\ fields' = [f \in DOMAIN fields |->
                              IF f \in Fixups(l)
                              THEN [fields[f] EXCEPT !.disp = m_pos - (f + 4)]
                              ELSE fields[f]]
      BY <2>1 DEF Bind
    <3>2. /\ m_pos \in Nat /\ DOMAIN fields \subseteq Nat
          /\ \A f \in DOMAIN fields : fields[f] \in [label : Label, disp : Int]
      BY DEF IInv, TypeOK
    <3>3. m_labels'[l].target = m_pos
      <4>1. m_labels \in Seq(LabelType) /\ l \in 1..Len(m_labels)
        BY DEF IInv, TypeOK, LabelType, Label
      <4> DEFINE r == [m_labels[l] EXCEPT !.target = m_pos]
      <4>2. m_labels[l] \in LabelType
        BY <4>1
      <4>3. r \in LabelType /\ r.target = m_pos
        BY <3>2, <4>2 DEF LabelType
      <4>4. m_labels' = [m_labels EXCEPT ![l] = r]
        BY <3>1
      <4> HIDE DEF r
      <4> QED
        BY <4>1, <4>3, <4>4, SetElement
    <3> SUFFICES ASSUME NEW f \in DOMAIN fields
                 PROVE  /\ f \in DOMAIN fields'
                        /\ fields'[f].label = fields[f].label
                        /\ fields'[f].disp # fields[f].disp =>
                             /\ m_labels'[fields[f].label].target = m_pos
                             /\ f + 4 + fields'[f].disp = m_pos
      BY DEF MovesAtBind
    <3>4. CASE f \in Fixups(l)
      <4>1. fields[f].label = l
        BY <3>4 DEF IInv, FixupsAreExact
      <4>2. fields'[f].label = l /\ fields'[f].disp = m_pos - (f + 4)
        BY <3>1, <3>2, <3>4, <4>1
      <4> QED
        BY <3>1, <3>2, <3>3, <4>1, <4>2
    <3>5. CASE f \notin Fixups(l)
      BY <3>1, <3>5
    <3> QED
      BY <3>4, <3>5
  <2>2. CASE WriteForward \/ WriteBackward
    <3>1. PICK l, d : fields' = WithField(m_pos, l, d)
      BY <2>2 DEF WriteForward, WriteBackward
    <3>2. \A f \in DOMAIN fields : f # m_pos
      BY Inequalities
    <3> QED
      BY <3>1, <3>2 DEF MovesAtBind, WithField
  <2>3. CASE UNCHANGED fields
    BY <2>3 DEF MovesAtBind
  <2>4. Bind \/ WriteForward \/ WriteBackward \/ UNCHANGED fields
    BY DEF Next, vars, Instruction, Nop, Jump, Begin, Write, Overflow, WriteToExec,
                NewLabel, BindInExec, Patch, Commit, Throw, Fault
  <2> QED
    BY <2>1, <2>2, <2>3, <2>4
<1> QED
  BY <1>1, Invariance, PTL DEF Spec, OnlyBindMovesJumps
=============================================================================
