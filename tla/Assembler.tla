------------------------------- MODULE Assembler -------------------------------
(***************************************************************************)
(* The assembler and its code buffer: class Assembler of                   *)
(* src/include/amd64/assembler/assembler.hpp over class buffer_t of        *)
(* src/include/amd64/memory/buffer.hpp.                                    *)
(*                                                                         *)
(* Every operation of the assembler writes its instruction in one or more  *)
(* chunks (write_byte, write_bytes, write_imm), each checked against the   *)
(* end of the buffer on its own.  The bytes themselves are left out, but   *)
(* for the 4-byte displacement of every jump: labels, fixups and bind      *)
(* exist to get these right.  A position is an offset into the buffer.     *)
(***************************************************************************)
EXTENDS Integers, Sequences, FiniteSets

CONSTANTS
    Size,         \* m_size, the size of the buffer
    Encodings,    \* the instructions without a label: the sizes of their chunks
    JumpOpcodes,  \* the sizes of the opcodes of the jumps (jmp: 1, jcc: 2)
    NopCounts,    \* the arguments of nop (codegen: 3 for every register it saves)
    MaxLabels,    \* bounds: the number of labels,
    MaxBinds      \*   the positions one label is bound to

ASSUME SizeAssumption     == Size \in Nat
ASSUME Int32Assumption    == Size <= 2147483647   \* no displacement is truncated
ASSUME EncodingAssumption == Encodings \subseteq Seq(Nat \ {0})
ASSUME JumpAssumption     == JumpOpcodes \subseteq Nat \ {0}
ASSUME NopAssumption      == NopCounts \subseteq Nat
ASSUME BoundAssumption    == MaxLabels \in Nat /\ MaxBinds \in Nat

VARIABLES
    m_pos,      \* the end of the code written so far
    m_labels,   \* label_t of every label: target and fixups
    pending,    \* the chunks that the current operation still has to write
    fields,     \* the displacements in the code, by position, each with the label it is for
    nops,       \* the positions that nop has written and nothing has patched
    exec,       \* the buffer has been made executable, and read-only
    faulted,    \* the process has died of a write it may not make
    boundAt     \* auxiliary: every position that each label has been bound to

vars == <<m_pos, m_labels, pending, fields, nops, exec, faulted, boundAt>>

NoTarget == -1
Label    == 1..Len(m_labels)
Target(l) == m_labels[l].target

Init ==
    /\ m_pos = 0
    /\ m_labels = <<>>
    /\ pending = <<>>
    /\ fields = <<>>
    /\ nops = {}
    /\ exec = FALSE
    /\ faulted = FALSE
    /\ boundAt = <<>>

-----------------------------------------------------------------------------
(* The operations, up to their first write *)

Ready == pending = <<>> /\ ~faulted

Chunk(kind, size, label) == [kind |-> kind, size |-> size, label |-> label]

Begin(chunks) ==
    /\ Ready
    /\ pending' = chunks
    /\ UNCHANGED <<m_pos, m_labels, fields, nops, exec, faulted, boundAt>>

(* Any of the operations that write an instruction with no label in it. *)
Instruction ==
    \E e \in Encodings : Begin([k \in 1..Len(e) |-> Chunk("bytes", e[k], 0)])

Nop == \E n \in NopCounts : Begin([k \in 1..n |-> Chunk("nop", 1, 0)])

(* emit_jcc: an opcode, then the displacement. *)
Jump ==
    \E l \in Label, n \in JumpOpcodes :
        Begin(<<Chunk("bytes", n, 0), Chunk("field", 4, l)>>)

-----------------------------------------------------------------------------
(* The writes *)

(* A seeded fault: the end of the buffer is not checked. *)
Fits_Unchecked == m_pos <= Size

Fits == m_pos + Head(pending).size <= Size

Writing(kinds) == pending # <<>> /\ ~faulted /\ Head(pending).kind \in kinds

Advance ==
    /\ m_pos' = m_pos + Head(pending).size
    /\ pending' = Tail(pending)

(* An exception leaves the operation where it is: half an instruction. *)
Throw ==
    /\ pending' = <<>>
    /\ UNCHANGED <<m_pos, m_labels, fields, nops, exec, faulted, boundAt>>

Fault ==
    /\ faulted' = TRUE
    /\ UNCHANGED <<m_pos, m_labels, pending, fields, nops, exec, boundAt>>

(* write_bytes: check the end of the buffer, then copy. *)
Write ==
    /\ Writing({"bytes", "nop"})
    /\ Fits /\ ~exec
    /\ Advance
    /\ nops' = IF Head(pending).kind = "nop" THEN nops \cup {m_pos} ELSE nops
    /\ UNCHANGED <<m_labels, fields, exec, faulted, boundAt>>

WithField(p, l, d) ==
    [q \in DOMAIN fields \cup {p} |->
        IF q = p THEN [label |-> l, disp |-> d] ELSE fields[q]]

(* A seeded fault: the fixup is not recorded. *)
WriteForward_NoFixup ==
    /\ Writing({"field"})
    /\ Fits /\ ~exec
    /\ LET l == Head(pending).label IN
         /\ Target(l) = NoTarget
         /\ fields' = WithField(m_pos, l, 0)
    /\ Advance
    /\ UNCHANGED <<m_labels, nops, exec, faulted, boundAt>>

(* The label has no target yet: write_imm of a zero, and a fixup. *)
WriteForward ==
    /\ Writing({"field"})
    /\ Fits /\ ~exec
    /\ LET l == Head(pending).label IN
         /\ Target(l) = NoTarget
         /\ fields' = WithField(m_pos, l, 0)
         /\ m_labels' = [m_labels EXCEPT ![l].fixups = @ \cup {m_pos}]
    /\ Advance
    /\ UNCHANGED <<nops, exec, faulted, boundAt>>

(* A seeded fault: no skip after the memcpy. *)
WriteBackward_NoSkip ==
    /\ Writing({"field"})
    /\ Fits /\ ~exec
    /\ LET l == Head(pending).label IN
         /\ Target(l) # NoTarget
         /\ fields' = WithField(m_pos, l, Target(l) - (m_pos + 4))
    /\ pending' = Tail(pending)
    /\ UNCHANGED <<m_pos, m_labels, nops, exec, faulted, boundAt>>

(* The label has a target: memcpy of the displacement, then skip(4). *)
WriteBackward ==
    /\ Writing({"field"})
    /\ Fits /\ ~exec
    /\ LET l == Head(pending).label IN
         /\ Target(l) # NoTarget
         /\ fields' = WithField(m_pos, l, Target(l) - (m_pos + 4))
    /\ Advance
    /\ UNCHANGED <<m_labels, nops, exec, faulted, boundAt>>

Backward ==
    Head(pending).kind = "field" /\ Target(Head(pending).label) # NoTarget

(***************************************************************************)
(* A chunk past the end of the buffer throws.  The backward displacement   *)
(* has by then been copied past the end: into the rest of the last page,   *)
(* or where the process may not write.                                     *)
(***************************************************************************)
Overflow ==
    /\ Writing({"bytes", "nop", "field"})
    /\ ~Fits
    /\ ~(Backward /\ exec)
    /\ Throw \/ (Backward /\ Fault)

(* A write to the buffer after it has been made executable. *)
WriteToExec ==
    /\ Writing({"bytes", "nop", "field"})
    /\ exec /\ (Fits \/ Backward)
    /\ Fault

-----------------------------------------------------------------------------
(* The operations that write no instruction *)

NewLabel ==
    /\ Ready /\ Len(m_labels) < MaxLabels
    /\ m_labels' = Append(m_labels, [target |-> NoTarget, fixups |-> {}])
    /\ boundAt' = Append(boundAt, {})
    /\ UNCHANGED <<m_pos, pending, fields, nops, exec, faulted>>

Fixups(l) == m_labels[l].fixups

(* A seeded fault: the offset is not counted from the end of the displacement. *)
Bind_FromField ==
    /\ Ready
    /\ \E l \in Label :
         /\ Cardinality(boundAt[l]) < MaxBinds
         /\ exec => Fixups(l) = {}
         /\ m_labels' = [m_labels EXCEPT ![l].target = m_pos]
         /\ fields' = [f \in DOMAIN fields |->
                          IF f \in Fixups(l)
                          THEN [fields[f] EXCEPT !.disp = m_pos - f]
                          ELSE fields[f]]
         /\ boundAt' = [boundAt EXCEPT ![l] = @ \cup {m_pos}]
    /\ UNCHANGED <<m_pos, pending, nops, exec, faulted>>

(* A seeded fault: the fixups of every label are patched. *)
Bind_AllLabels ==
    /\ Ready
    /\ \E l \in Label :
         /\ Cardinality(boundAt[l]) < MaxBinds
         /\ exec => Fixups(l) = {}
         /\ m_labels' = [m_labels EXCEPT ![l].target = m_pos]
         /\ fields' = [f \in DOMAIN fields |->
                          IF \E k \in Label : f \in Fixups(k)
                          THEN [fields[f] EXCEPT !.disp = m_pos - (f + 4)]
                          ELSE fields[f]]
         /\ boundAt' = [boundAt EXCEPT ![l] = @ \cup {m_pos}]
    /\ UNCHANGED <<m_pos, pending, nops, exec, faulted>>

(* The label gets its target, and every fixup its displacement. *)
Bind ==
    /\ Ready
    /\ \E l \in Label :
         /\ Cardinality(boundAt[l]) < MaxBinds
         /\ exec => Fixups(l) = {}
         /\ m_labels' = [m_labels EXCEPT ![l].target = m_pos]
         /\ fields' = [f \in DOMAIN fields |->
                          IF f \in Fixups(l)
                          THEN [fields[f] EXCEPT !.disp = m_pos - (f + 4)]
                          ELSE fields[f]]
         /\ boundAt' = [boundAt EXCEPT ![l] = @ \cup {m_pos}]
    /\ UNCHANGED <<m_pos, pending, nops, exec, faulted>>

BindInExec ==
    /\ Ready /\ exec
    /\ \E l \in Label : Fixups(l) # {}
    /\ Fault

(***************************************************************************)
(* patch_at, as its one caller uses it: compile_function writes nops where *)
(* the prologue goes and patches them with pushes of 2 or 3 bytes, before  *)
(* compile_module commits.                                                 *)
(***************************************************************************)
Patch ==
    /\ Ready /\ ~exec
    /\ \E p \in nops, n \in {2, 3} :
         /\ p..(p + n - 1) \subseteq nops
         /\ nops' = nops \ (p..(p + n - 1))
    /\ UNCHANGED <<m_pos, m_labels, pending, fields, exec, faulted, boundAt>>

(* make_exec.  When mprotect fails commit throws and nothing changes. *)
Commit ==
    /\ Ready
    /\ exec' = TRUE
    /\ UNCHANGED <<m_pos, m_labels, pending, fields, nops, faulted, boundAt>>

Next ==
    \/ Instruction \/ Nop \/ Jump
    \/ Write \/ WriteForward \/ WriteBackward \/ Overflow \/ WriteToExec
    \/ NewLabel \/ Bind \/ BindInExec \/ Patch \/ Commit

Spec == Init /\ [][Next]_vars

-----------------------------------------------------------------------------
(* Properties *)

ChunkType == [kind : {"bytes", "nop", "field"}, size : Nat \ {0}, label : Nat]

TypeOK ==
    /\ m_pos \in 0..Size
    /\ m_labels \in Seq([target : Nat \cup {NoTarget}, fixups : SUBSET Nat])
    /\ pending \in Seq(ChunkType)
    /\ DOMAIN fields \subseteq Nat
    /\ \A f \in DOMAIN fields : fields[f] \in [label : Label, disp : Int]
    /\ nops \subseteq Nat
    /\ exec \in BOOLEAN /\ faulted \in BOOLEAN
    /\ boundAt \in Seq(SUBSET Nat) /\ Len(boundAt) = Len(m_labels)

(* Where the jump with its displacement at f goes, read as the processor does. *)
Lands(f) == f + 4 + fields[f].disp

(***************************************************************************)
(* Every jump goes to a position its label was bound to, before the jump   *)
(* or after it; it keeps the placeholder 0 while the label is not bound.   *)
(* A label bound once, as codegen binds its labels, is where all of its    *)
(* jumps go.                                                               *)
(***************************************************************************)
JumpsLand ==
    \A f \in DOMAIN fields :
        IF boundAt[fields[f].label] = {} THEN fields[f].disp = 0
        ELSE Lands(f) \in boundAt[fields[f].label]

(***************************************************************************)
(* No jump is forgotten: a jump whose label has no target is among the     *)
(* fixups that bind will patch, and a fixup is the displacement of a jump  *)
(* to that label and of no other.                                          *)
(***************************************************************************)
FixupsAreExact ==
    \A l \in Label :
        /\ Fixups(l) \subseteq {f \in DOMAIN fields : fields[f].label = l}
        /\ Target(l) = NoTarget =>
             Fixups(l) = {f \in DOMAIN fields : fields[f].label = l}

(***************************************************************************)
(* The displacements lie in the code that has been written, no two of them *)
(* overlap, and none lies in the nops that the prologue is patched into:   *)
(* neither bind nor patch_at overwrites code that is not theirs.           *)
(***************************************************************************)
Bytes(f) == f..(f + 3)

FieldsAreApart ==
    /\ \A f \in DOMAIN fields :
         /\ Bytes(f) \subseteq 0..(m_pos - 1)
         /\ Bytes(f) \cap nops = {}
    /\ \A f, g \in DOMAIN fields : f # g => Bytes(f) \cap Bytes(g) = {}
    /\ nops \subseteq 0..(m_pos - 1)

(***************************************************************************)
(* A displacement that has been written changes only when its own label is *)
(* bound, and then to the position it is bound at.                         *)
(***************************************************************************)
MovesAtBind ==
    \A f \in DOMAIN fields :
       /\ f \in DOMAIN fields'
       /\ fields'[f].label = fields[f].label
       /\ fields'[f].disp # fields[f].disp =>
            m_labels'[fields[f].label].target = m_pos /\ f + 4 + fields'[f].disp = m_pos

OnlyBindMovesJumps == [][MovesAtBind]_vars
=============================================================================
