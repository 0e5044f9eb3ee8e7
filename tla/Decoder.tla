-------------------------------- MODULE Decoder --------------------------------
(***************************************************************************)
(* What an x86-64 processor reads in a sequence of bytes, for the opcodes  *)
(* that src/include/amd64/assembler/assembler.hpp writes: prefix, REX,     *)
(* opcode, ModRM, SIB, displacement, immediate.  This is the processor's   *)
(* side, external to the code, and knows nothing of the assembler.         *)
(***************************************************************************)
EXTENDS Integers, SequencesExt

-----------------------------------------------------------------------------
(* Assembly: a mnemonic and its operands, destination first *)

Operand(kind, width, num, disp) == [kind |-> kind, width |-> width, num |-> num, disp |-> disp]

Reg(width, r)          == Operand("register", width, r, 0)
Mem(width, base, disp) == Operand("memory", width, base, disp)
Imm(n)                 == Operand("number", 0, n, 0)

Asm(name, operands) == [name |-> name, operands |-> operands]

-----------------------------------------------------------------------------
(* The opcodes.  Of a form: the order of its operands (the reg field, the  *)
(* r/m field, the low bits of the opcode), their widths, 0 for that of the *)
(* instruction, and the bytes of its immediate.                            *)

Form(name, order, regWidth, rmWidth, imm) ==
    [name |-> name, order |-> order, reg |-> regWidth, rm |-> rmWidth, imm |-> imm]

MR == <<"rm", "reg">>
RM == <<"reg", "rm">>
M  == <<"rm">>
MI == <<"rm", "imm">>
OI == <<"low", "imm">>
I  == <<"imm">>
ZO == <<>>

ToRm(name)         == Form(name, MR, 0, 0, 0)
ToReg(name, width) == Form(name, RM, 0, width, 0)
OnRm(name, imm)    == Form(name, IF imm > 0 THEN MI ELSE M, 0, 0, imm)
Relative(name)     == Form(name, I, 0, 0, 4)
Bare(name)         == Form(name, ZO, 0, 0, 0)

Unknown == Bare("unknown")

OneByte(b) ==
    CASE b = 1   -> ToRm("add")                [] b = 9   -> ToRm("or")
      [] b = 33  -> ToRm("and")                [] b = 41  -> ToRm("sub")
      [] b = 49  -> ToRm("xor")                [] b = 137 -> ToRm("mov")
      [] b = 59  -> ToReg("cmp", 0)            [] b = 139 -> ToReg("mov", 0)
      [] b = 99  -> ToReg("movsxd", 32)
      [] b = 136 -> Form("mov", MR, 8, 8, 0)
      [] b = 138 -> Form("mov", RM, 8, 8, 0)
      [] b = 144 -> Bare("nop")                [] b = 153 -> Bare("cqo")
      [] b = 195 -> Bare("ret")                [] b = 233 -> Relative("jmp")
      [] b \in 184..191 -> Form("mov", OI, 0, 0, 8)
      [] OTHER -> Unknown

(* The opcodes whose reg field says which instruction it is. *)
Groups == {129, 143, 193, 199, 211, 247, 255}

Group(b, digit) ==
    CASE b = 129 /\ digit = 0 -> OnRm("add", 4)   [] b = 129 /\ digit = 5 -> OnRm("sub", 4)
      [] b = 129 /\ digit = 7 -> OnRm("cmp", 4)   [] b = 193 /\ digit = 4 -> OnRm("shl", 1)
      [] b = 193 /\ digit = 5 -> OnRm("shr", 1)   [] b = 193 /\ digit = 7 -> OnRm("sar", 1)
      [] b = 211 /\ digit = 4 -> OnRm("shl", 0)   [] b = 211 /\ digit = 5 -> OnRm("shr", 0)
      [] b = 247 /\ digit = 2 -> OnRm("not", 0)   [] b = 247 /\ digit = 3 -> OnRm("neg", 0)
      [] b = 247 /\ digit = 6 -> OnRm("div", 0)   [] b = 247 /\ digit = 7 -> OnRm("idiv", 0)
      [] b = 255 /\ digit = 1 -> OnRm("dec", 0)   [] b = 199 /\ digit = 0 -> OnRm("mov", 4)
      [] b = 255 /\ digit = 2 -> Form("call", M, 64, 64, 0)
      [] b = 255 /\ digit = 6 -> Form("push", M, 64, 64, 0)
      [] b = 143 /\ digit = 0 -> Form("pop", M, 64, 64, 0)
      [] OTHER -> Unknown

Sets(name) == Form(name, M, 0, 8, 0)

(* After the byte 0F. *)
TwoByte(b) ==
    CASE b = 16  -> Form("movsd", RM, 128, 128, 0)
      [] b = 175 -> ToReg("imul", 0)
      [] b = 182 -> ToReg("movzx", 8)          [] b = 183 -> ToReg("movzx", 16)
      [] b = 190 -> ToReg("movsx", 8)          [] b = 191 -> ToReg("movsx", 16)
      [] b = 130 -> Relative("jb")             [] b = 146 -> Sets("setb")
      [] b = 131 -> Relative("jae")            [] b = 147 -> Sets("setae")
      [] b = 132 -> Relative("je")             [] b = 148 -> Sets("sete")
      [] b = 133 -> Relative("jne")            [] b = 149 -> Sets("setne")
      [] b = 134 -> Relative("jbe")            [] b = 150 -> Sets("setbe")
      [] b = 135 -> Relative("ja")             [] b = 151 -> Sets("seta")
      [] b = 140 -> Relative("jl")             [] b = 156 -> Sets("setl")
      [] b = 141 -> Relative("jge")            [] b = 157 -> Sets("setge")
      [] b = 142 -> Relative("jle")            [] b = 158 -> Sets("setle")
      [] b = 143 -> Relative("jg")             [] b = 159 -> Sets("setg")
      [] OTHER -> Unknown

-----------------------------------------------------------------------------
(* The fields of a byte *)

Bit(byte, n)  == (byte \div n) % 2   \* n: 8 is W, 4 is R, 2 is X, 1 is B
Top(byte)     == byte \div 64
Middle(byte)  == (byte \div 8) % 8
Bottom(byte)  == byte % 8

(* Behind the end of the code there are zeros. *)
Byte(c, p) == IF p \in DOMAIN c THEN c[p] ELSE 0

(* Little endian, with its sign; of eight bytes the first four say it all here. *)
Signed(c, p, size) ==
    IF size = 1 THEN Byte(c, p)
    ELSE Byte(c, p) + 256 * Byte(c, p + 1) + 65536 * Byte(c, p + 2)
         + 16777216 * (IF Byte(c, p + 3) >= 128 THEN Byte(c, p + 3) - 256 ELSE Byte(c, p + 3))

(* A register of eight bits: without REX four of them are ah, ch, dh, bh. *)
Register8(r, hasRex) == IF ~hasRex /\ r \in 4..7 THEN Operand("high", 8, r - 4, 0) ELSE Reg(8, r)

Named8(width, r, hasRex) == IF width = 8 THEN Register8(r, hasRex) ELSE Reg(width, r)

-----------------------------------------------------------------------------
(* The byte ModRM at m, and the operands in it.  The forms of it are the   *)
(* two that the assembler writes: a register, or a base and four bytes.    *)
(* rex is the byte REX, 0 where there is none.                             *)

Direct(c, m) == Top(Byte(c, m)) = 3
HasSib(c, m) == ~Direct(c, m) /\ Bottom(Byte(c, m)) = 4
DispAt(c, m) == IF HasSib(c, m) THEN m + 2 ELSE m + 1

BehindModRM(c, m) == IF Direct(c, m) THEN m + 1 ELSE DispAt(c, m) + 4

RegField(c, m, width, rex) == Named8(width, Middle(Byte(c, m)) + 8 * Bit(rex, 4), rex # 0)

RmField(c, m, width, rex) ==
    LET rm   == Bottom(Byte(c, m)) + 8 * Bit(rex, 1)
        sib  == Byte(c, m + 1)
        disp == Signed(c, DispAt(c, m), 4)
    IN  IF Direct(c, m) THEN Named8(width, rm, rex # 0)
        ELSE IF ~HasSib(c, m) THEN Mem(width, rm, disp)
        ELSE IF Middle(sib) = 4 /\ Bit(rex, 2) = 0 THEN Mem(width, Bottom(sib) + 8 * Bit(rex, 1), disp)
        ELSE Operand("indexed", width, sib, disp)

-----------------------------------------------------------------------------
(* The instruction at p, and its length *)

HasModRM(form) == ToSet(form.order) \cap {"rm", "reg"} # {}

(* The instruction of a form, that begins at p and whose opcode ends before m. *)
Instruction(c, p, m, form, opcode, width, rex) ==
    LET Wide(w) == IF w = 0 THEN width ELSE w
        i       == IF HasModRM(form) THEN BehindModRM(c, m) ELSE m
        Said(k) == CASE k = "rm"  -> RmField(c, m, Wide(form.rm), rex)
                     [] k = "reg" -> RegField(c, m, Wide(form.reg), rex)
                     [] k = "low" -> Reg(width, Bottom(opcode) + 8 * Bit(rex, 1))
                     [] k = "imm" -> Imm(Signed(c, i, form.imm))
    IN  [asm    |-> Asm(form.name, [k \in DOMAIN form.order |-> Said(form.order[k])]),
         length |-> i + form.imm - p]

(* The opcode at o. *)
DecodeOpcode(c, p, o, width, rex) ==
    LET b == Byte(c, o) IN
    IF b = 15 THEN Instruction(c, p, o + 2, TwoByte(Byte(c, o + 1)), Byte(c, o + 1), width, rex)
    ELSE IF b \in Groups
         THEN Instruction(c, p, o + 1, Group(b, Middle(Byte(c, o + 1))), b, width, rex)
    ELSE Instruction(c, p, o + 1, OneByte(b), b, width, rex)

Decode(c, p) ==
    LET q      == IF Byte(c, p) \in {102, 242} THEN p + 1 ELSE p
        hasRex == Byte(c, q) \in 64..79
    IN  DecodeOpcode(c, p,
                     IF hasRex THEN q + 1 ELSE q,
                     IF hasRex /\ Bit(Byte(c, q), 8) = 1 THEN 64
                     ELSE IF Byte(c, p) = 102 THEN 16 ELSE 32,
                     IF hasRex THEN Byte(c, q) ELSE 0)
=============================================================================
