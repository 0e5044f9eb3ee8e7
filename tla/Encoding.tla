-------------------------------- MODULE Encoding --------------------------------
(***************************************************************************)
(* The bytes of the instructions: the members of class Assembler           *)
(* (src/include/amd64/assembler/assembler.hpp) that write one, over rex    *)
(* and mod_rm (src/include/amd64/core/encode.hpp), and what a processor    *)
(* reads in them.                                                          *)
(*                                                                         *)
(* A member appends a piece of code: its bytes, and the assembly that its  *)
(* name and parameters stand for.  The processor knows the bytes only.     *)
(* Where a jump goes is the matter of Assembler; here its displacement is  *)
(* one of Numbers like every other offset or immediate.                    *)
(***************************************************************************)
EXTENDS Decoder

CONSTANTS
    Numbers,   \* the immediates, offsets and displacements, of 32 bits
    Shifts,    \* the immediates of the shifts
    Sizes,     \* the frames of enter
    Long       \* bound: pieces; behind them comes a ret, cqo or nop

Int32 == {n \in Int : -2147483647 - 1 <= n /\ n <= 2147483647}

(* A frame is rounded up to the next multiple of 16, and then in 32 bits too. *)
FrameSize == {n \in Nat : n <= 2147483632}

ASSUME EncodingAssumption ==
    /\ Numbers \subseteq Int32 /\ Shifts \subseteq 0..63
    /\ Sizes \subseteq FrameSize
    /\ Long \in Nat

VARIABLE code   \* the pieces

-----------------------------------------------------------------------------
(* Registers and bytes *)

Register == 0..15   \* in the order of the enumeration, and XmmRegister

rax == 0
rsp == 4
rbp == 5
r12 == 12

enc(r) == r % 8
ext(r) == IF r >= 8 THEN 1 ELSE 0

(* A seeded fault: R and B are exchanged. *)
rex_Swapped(w, reg1, reg2) == 64 + 8 * w + 4 * ext(reg2) + ext(reg1)

rex(w, reg1, reg2) == 64 + 8 * w + 4 * ext(reg1) + ext(reg2)

mod_rm(reg, rm) == 192 + 8 * enc(reg) + enc(rm)

(* write_imm of one, four and eight bytes, for numbers that four can hold. *)
write_imm8(n) == <<n>>

write_imm32(n) == <<n % 256, (n \div 256) % 256, (n \div 65536) % 256, (n \div 16777216) % 256>>

write_imm64(n) == write_imm32(n) \o [k \in 1..4 |-> IF n < 0 THEN 255 ELSE 0]

(* What a member writes, and what it stands for. *)
Piece(asm, bytes) == [asm |-> asm, bytes |-> bytes]

-----------------------------------------------------------------------------
(* The emit_ members *)

emit_rr(opcode, src, dst) == <<rex(1, src, dst), opcode, mod_rm(src, dst)>>

Digit(digit, reg) == 192 + 8 * digit + enc(reg)

emit_digit_rm(opcode, digit, reg) == <<rex(1, rax, reg), opcode, Digit(digit, reg)>>

emit_digit_rm_imm32(digit, reg, imm) ==
    <<rex(1, rax, reg), 129, Digit(digit, reg)>> \o write_imm32(imm)

emit_digit_rm_imm8(digit, reg, imm) ==
    <<rex(1, rax, reg), 193, Digit(digit, reg)>> \o write_imm8(imm)

emit_jcc(opcode, disp) == opcode \o write_imm32(disp)

(* A seeded fault: no base gets a SIB byte. *)
Address_NoSib(reg_field, base, offset) ==
    <<128 + 8 * enc(reg_field) + enc(base)>> \o write_imm32(offset)

(* The end that the three emit_mem_ members share; only rsp gets a SIB byte. *)
Address(reg_field, base, offset) ==
    <<128 + 8 * enc(reg_field) + enc(base)>>
    \o (IF base = rsp THEN <<36>> ELSE <<>>) \o write_imm32(offset)

emit_mem_disp32(opcode, reg_field, base, offset) ==
    <<rex(1, reg_field, base), opcode>> \o Address(reg_field, base, offset)

(* A rex that is there only for registers from r8 on. *)
RexIfExt(w, reg1, reg2) == IF ext(reg1) + ext(reg2) > 0 THEN <<rex(w, reg1, reg2)>> ELSE <<>>

emit_mem_disp32_8(opcode, reg_field, base, offset) ==
    RexIfExt(0, reg_field, base) \o <<opcode>> \o Address(reg_field, base, offset)

emit_mem_disp32_ext(bytes, reg_field, base, offset) ==
    bytes \o Address(reg_field, base, offset)

-----------------------------------------------------------------------------
(* The members, in groups of one form *)

Pick(table) == {<<name, table[name]>> : name \in DOMAIN table}

RegReg == [mov |-> 137, add |-> 1, sub |-> 41, and |-> 33, or |-> 9, xor |-> 49]

(* mov_reg_reg, add_reg_reg and so on, xor_rdx among them. *)
TwoRegisters(dst, src) ==
    {Piece(Asm(m[1], <<Reg(64, dst), Reg(64, src)>>), emit_rr(m[2], src, dst)) : m \in Pick(RegReg)}

(* The destination is the reg field: opcode, and the width of the source. *)
RegRm == [cmp    |-> <<<<59>>, 64>>,      imul  |-> <<<<15, 175>>, 64>>,
          movsxd |-> <<<<99>>, 32>>,      movzx |-> <<<<15, 182>>, 8>>]

Reversed(dst, src) ==
    {Piece(Asm(m[1], <<Reg(64, dst), Reg(m[2][2], src)>>),
           <<rex(1, dst, src)>> \o m[2][1] \o <<mod_rm(dst, src)>>) : m \in Pick(RegRm)}

mov_reg_reg32(dst, src) ==
    Piece(Asm("mov", <<Reg(32, dst), Reg(32, src)>>),
          RexIfExt(0, src, dst) \o <<137, mod_rm(src, dst)>>)

(* The registers are xmm, and their order is that of a store. *)
movsd_reg_reg(dst, src) ==
    Piece(Asm("movsd", <<Reg(128, dst), Reg(128, src)>>),
          <<242>> \o RexIfExt(1, src, dst) \o <<15, 16, mod_rm(src, dst)>>)

OneRegister == [dec |-> <<255, 1>>, not |-> <<247, 2>>, neg |-> <<247, 3>>,
                shl |-> <<211, 4>>, shr |-> <<211, 5>>, div |-> <<247, 6>>, idiv |-> <<247, 7>>]

Unary(reg) ==
    {Piece(Asm(m[1], <<Reg(64, reg)>>), emit_digit_rm(m[2][1], m[2][2], reg)) : m \in Pick(OneRegister)}

pop(reg)  == Piece(Asm("pop", <<Reg(64, reg)>>),  RexIfExt(0, rax, reg) \o <<143, Digit(0, reg)>>)
push(reg) == Piece(Asm("push", <<Reg(64, reg)>>), RexIfExt(0, rax, reg) \o <<255, Digit(6, reg)>>)

(* set_cc, in the order of set_cc_kind: no rex for any register. *)
Setcc == [sete |-> 148, setne |-> 149, setl |-> 156, setle |-> 158, setg |-> 159,
          setge |-> 157, setb |-> 146, setbe |-> 150, seta |-> 151, setae |-> 147]

set_cc(reg) ==
    {Piece(Asm(m[1], <<Reg(8, reg)>>), <<15, m[2], Digit(0, reg)>>) : m \in Pick(Setcc)}

Imm32 == [add |-> 0, sub |-> 5, cmp |-> 7]
Imm8  == [shl |-> 4, shr |-> 5, sar |-> 7]

RegImm(reg, imm) ==
    {Piece(Asm(m[1], <<Reg(64, reg), Imm(imm)>>), emit_digit_rm_imm32(m[2], reg, imm)) : m \in Pick(Imm32)}

mov_reg_imm64(reg, imm) ==
    Piece(Asm("mov", <<Reg(64, reg), Imm(imm)>>), <<rex(1, rax, reg), 184 + enc(reg)>> \o write_imm64(imm))

ShiftBy(reg, shift) ==
    {Piece(Asm(m[1], <<Reg(64, reg), Imm(shift)>>), emit_digit_rm_imm8(m[2], reg, shift)) : m \in Pick(Imm8)}

mov_reg_mem(r, b, o)  == Piece(Asm("mov", <<Reg(64, r), Mem(64, b, o)>>), emit_mem_disp32(139, r, b, o))
mov_mem_reg(r, b, o)  == Piece(Asm("mov", <<Mem(64, b, o), Reg(64, r)>>), emit_mem_disp32(137, r, b, o))
mov_reg_mem8(r, b, o) == Piece(Asm("mov", <<Reg(8, r), Mem(8, b, o)>>), emit_mem_disp32_8(138, r, b, o))
mov_mem_reg8(r, b, o) == Piece(Asm("mov", <<Mem(8, b, o), Reg(8, r)>>), emit_mem_disp32_8(136, r, b, o))

mov_mem_reg16(r, b, o) ==
    Piece(Asm("mov", <<Mem(16, b, o), Reg(16, r)>>),
          emit_mem_disp32_ext(<<102, rex(0, r, b), 137>>, r, b, o))

(* movzx and movsx: mnemonic, prefix, opcode and width of the memory. *)
Extending == {<<"movzx", <<>>, 182, 8>>, <<"movzx", <<102>>, 183, 16>>,
              <<"movsx", <<>>, 190, 8>>, <<"movsx", <<102>>, 191, 16>>}

Extended(r, b, o) ==
    {Piece(Asm(m[1], <<Reg(64, r), Mem(m[4], b, o)>>),
           emit_mem_disp32_ext(m[2] \o <<rex(1, r, b), 15, m[3]>>, r, b, o)) : m \in Extending}

Accesses(r, b, o) ==
    {mov_reg_mem(r, b, o), mov_mem_reg(r, b, o), mov_reg_mem8(r, b, o),
     mov_mem_reg8(r, b, o), mov_mem_reg16(r, b, o)} \cup Extended(r, b, o)

(***************************************************************************)
(* The loads and stores of the IR: compile_function chooses the member,    *)
(* what the instruction stands for is its name in the text, width in bytes *)
(* and sign.                                                               *)
(***************************************************************************)
Chosen(set, name, width) ==
    CHOOSE p \in set : p.asm.name = name /\ p.asm.operands[2].width = width

LoadCode(width, sign, r, b, o) ==
    IF width \in {1, 2}
    THEN Chosen(Extended(r, b, o), IF sign THEN "movsx" ELSE "movzx", 8 * width).bytes
    ELSE mov_reg_mem(r, b, o).bytes

(* A load of four bytes would clear the upper half of its register. *)
LoadOf(width, sign, r, b, o) ==
    Piece(CASE width = 8 -> Asm("mov", <<Reg(64, r), Mem(64, b, o)>>)
            [] width = 4 -> Asm("mov", <<Reg(32, r), Mem(32, b, o)>>)
            [] OTHER     -> Asm(IF sign THEN "movsx" ELSE "movzx", <<Reg(64, r), Mem(8 * width, b, o)>>),
          LoadCode(width, sign, r, b, o))

StoreCode(width, r, b, o) ==
    CASE width = 1 -> mov_mem_reg8(r, b, o).bytes
      [] width = 2 -> mov_mem_reg16(r, b, o).bytes
      [] OTHER     -> mov_mem_reg(r, b, o).bytes

StoreOf(width, r, b, o) ==
    Piece(Asm("mov", <<Mem(8 * width, b, o), Reg(8 * width, r)>>), StoreCode(width, r, b, o))

mov_mem_imm32(b, o, imm) ==
    Piece(Asm("mov", <<Mem(64, b, o), Imm(imm)>>), emit_mem_disp32(199, rax, b, o) \o write_imm32(imm))

(* jz and jnz are named je and jne when they are read. *)
Jumps == [jmp |-> <<233>>, je |-> <<15, 132>>, jne |-> <<15, 133>>, jl |-> <<15, 140>>, jge |-> <<15, 141>>]

Jump(disp) == {Piece(Asm(m[1], <<Imm(disp)>>), emit_jcc(m[2], disp)) : m \in Pick(Jumps)}

ret == Piece(Asm("ret", <<>>), <<195>>)
cqo == Piece(Asm("cqo", <<>>), <<72, 153>>)
nop == Piece(Asm("nop", <<>>), <<144>>)

sub_reg_imm32(reg, imm) == CHOOSE p \in RegImm(reg, imm) : p.asm.name = "sub"
add_reg_imm32(reg, imm) == CHOOSE p \in RegImm(reg, imm) : p.asm.name = "add"
mov_reg_reg(dst, src)   == CHOOSE p \in TwoRegisters(dst, src) : p.asm.name = "mov"

call(fptr) ==
    <<sub_reg_imm32(rsp, 40), mov_reg_imm64(rax, fptr),
      Piece(Asm("call", <<Reg(64, rax)>>), <<255, 208>>), add_reg_imm32(rsp, 40)>>

Aligned(size) == 16 * ((size + 15) \div 16)

enter(size) == <<push(rbp), mov_reg_reg(rbp, rsp), sub_reg_imm32(rsp, Aligned(size))>>
leave       == <<mov_reg_reg(rsp, rbp), pop(rbp)>>

-----------------------------------------------------------------------------
(* The members, called in any order *)

Append1(p) == code' = Append(code, p)
OpenEnded == Len(code) < Long

EmitTwoRegisters ==
    /\ OpenEnded
    /\ \E dst, src \in Register :
         \E p \in TwoRegisters(dst, src) \cup Reversed(dst, src)
                 \cup {mov_reg_reg32(dst, src), movsd_reg_reg(dst, src)} : Append1(p)

EmitOneRegister ==
    /\ OpenEnded
    /\ \E reg \in Register : \E p \in Unary(reg) \cup set_cc(reg) \cup {push(reg), pop(reg)} : Append1(p)

EmitImmediate ==
    /\ OpenEnded
    /\ \E reg \in Register :
         \/ \E n \in Numbers : \E p \in RegImm(reg, n) \cup {mov_reg_imm64(reg, n)} : Append1(p)
         \/ \E n \in Shifts : \E p \in ShiftBy(reg, n) : Append1(p)

EmitMemory ==
    /\ OpenEnded
    /\ \E b \in Register, o \in Numbers :
         \/ \E r \in Register : \E p \in Accesses(r, b, o) : Append1(p)
         \/ \E n \in Numbers : Append1(mov_mem_imm32(b, o, n))

(* As the formatter and the parser have them: four bytes have no sign. *)
EmitAccess ==
    /\ OpenEnded
    /\ \E r, b \in Register, o \in Numbers, width \in {1, 2, 4, 8}, sign \in BOOLEAN :
         /\ sign => width \in {1, 2}
         /\ \/ Append1(LoadOf(width, sign, r, b, o))
            \/ Append1(StoreOf(width, r, b, o))

EmitJump ==
    /\ OpenEnded
    /\ \E n \in Numbers : \E p \in Jump(n) : Append1(p)

(* Also behind the last of the others, to be spoilt by it. *)
EmitBare ==
    /\ Len(code) <= Long
    /\ \E p \in {ret, cqo, nop} : Append1(p)

EmitSeveral ==
    /\ OpenEnded
    /\ \/ \E n \in Numbers : code' = code \o call(n)
       \/ \E n \in Sizes : code' = code \o enter(n)
       \/ code' = code \o leave

Emit ==
    \/ EmitTwoRegisters \/ EmitOneRegister \/ EmitImmediate \/ EmitMemory
    \/ EmitAccess \/ EmitJump \/ EmitBare \/ EmitSeveral

Spec == code = <<>> /\ [][Emit]_code

-----------------------------------------------------------------------------
(* Properties *)

Bytes(pieces) == FlattenSeq([k \in 1..Len(pieces) |-> pieces[k].bytes])

(* What a processor reads that comes to the first byte of piece k. *)
Reading(k) == Decode(Bytes(code), Len(Bytes(SubSeq(code, 1, k - 1))) + 1)

(* An access to memory whose base is r12: its low bits ask for a SIB byte. *)
BaseIsR12(p) ==
    \E k \in DOMAIN p.asm.operands :
        p.asm.operands[k].kind = "memory" /\ p.asm.operands[k].num = r12

(* movsd_reg_reg of two registers: the move goes the other way. *)
GoesTheOtherWay(p) == p.asm.name = "movsd" /\ p.asm.operands[1] # p.asm.operands[2]

(* Bytes of rsp to rdi where no REX is written, and set_cc of r8 to r15. *)
IsWrongByte(p) ==
    LET ops == p.asm.operands
        setcc == p.asm.name \in DOMAIN Setcc
    IN  \E k \in DOMAIN ops :
          /\ ops[k].kind = "register" /\ ops[k].width = 8 /\ p.asm.name # "movzx"
          /\ IF setcc THEN ops[k].num >= 4
             ELSE ops[k].num \in 4..7 /\ \A j \in DOMAIN ops : ops[j].num < 8

(* A load or store of four bytes: no member moves as many. *)
MovesFourBytes(p) ==
    \E k \in DOMAIN p.asm.operands :
        p.asm.operands[k].kind = "memory" /\ p.asm.operands[k].width = 32

(***************************************************************************)
(* A processor that comes to an instruction reads what its member, or the  *)
(* load or store of the IR, stands for, whatever its registers and numbers *)
(* and whatever comes after it, but for four kinds, and those it always    *)
(* reads as something else.  The code generator writes the first and the   *)
(* last: r12 is the second register that the allocator gives, and the base *)
(* of a load or store may be in it; load.i32 and store.i32 move 8 bytes.   *)
(***************************************************************************)
ReadsAsMeant ==
    \A k \in 1..Len(code) :
       (Reading(k).asm # code[k].asm) <=>
           \/ BaseIsR12(code[k]) \/ GoesTheOtherWay(code[k])
           \/ IsWrongByte(code[k]) \/ MovesFourBytes(code[k])

(***************************************************************************)
(* An instruction that is read as another one still ends where the next    *)
(* begins, so that it spoils no other; but for those with the base r12,    *)
(* which take the next one's first byte as their own last.                 *)
(***************************************************************************)
EndsBeforeTheNext ==
    \A k \in 1..Len(code) :
       Reading(k).length = Len(code[k].bytes) + (IF BaseIsR12(code[k]) THEN 1 ELSE 0)
=============================================================================
