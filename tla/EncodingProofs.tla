------------------------------ MODULE EncodingProofs ------------------------------
(***************************************************************************)
(* What a processor reads in the bytes of any number of instructions, with *)
(* any registers and any numbers of 32 bits.                               *)
(*                                                                         *)
(* Decode reads bytes and nothing else of the code, so that it is enough   *)
(* to know which bytes are Located where it begins.  There is a lemma for  *)
(* each order of operands, for each way to an opcode, and for each group   *)
(* of members; a member is Meant where the bytes of it are read rightly,   *)
(* or wrongly in the way that the properties say.                          *)
(***************************************************************************)
EXTENDS Encoding, SequenceLemmas, TLAPS

(* Division with remainder by 256, as often as there are bytes. *)
LEMMA FourBytes ==
    ASSUME NEW n \in Int
    PROVE  n = (n % 256) + 256 * ((n \div 256) % 256) + 65536 * ((n \div 65536) % 256)
               + 16777216 * (n \div 16777216)
<1>1. n = (n % 256) + 256 * (n \div 256)
  BY SMT
<1>2. n \div 256 = ((n \div 256) % 256) + 256 * (n \div 65536)
  BY SMT
<1>3. n \div 65536 = ((n \div 65536) % 256) + 256 * (n \div 16777216)
  BY SMT
<1>4. QED
  BY SMT, <1>1, <1>2, <1>3

-----------------------------------------------------------------------------
(* Bytes and numbers *)

(* The bytes are at q. *)
Located(c, q, bytes) == \A j \in 1..Len(bytes) : Byte(c, q + j - 1) = bytes[j]

(* The four bytes of a number are at q. *)
NumberAt(c, q, n) ==
    /\ Byte(c, q) = n % 256 /\ Byte(c, q + 1) = (n \div 256) % 256
    /\ Byte(c, q + 2) = (n \div 65536) % 256 /\ Byte(c, q + 3) = (n \div 16777216) % 256

LEMMA TopByte ==
    ASSUME NEW n \in Int32
    PROVE  n \in Int /\ n \div 16777216 \in -128..127
<1>1. n \in Int /\ n >= -2147483648 /\ n <= 2147483647
  BY SMT DEF Int32
<1> DEFINE top == n \div 16777216
<1>2. top \in Int /\ n >= 16777216 * top /\ n < 16777216 * top + 16777216
  BY SMT, <1>1
<1> QED
  BY SMT, <1>1, <1>2

LEMMA SignedIs ==
    ASSUME NEW c, NEW q \in Int, NEW n \in Int32, NumberAt(c, q, n), NEW size, size # 1
    PROVE  Signed(c, q, size) = n
<1> DEFINE top == n \div 16777216
<1>1. n \in Int /\ top \in -128..127
  BY TopByte
<1>2. (IF top % 256 >= 128 THEN (top % 256) - 256 ELSE top % 256) = top
  BY SMT, <1>1
<1>3. Signed(c, q, size)
        = (n % 256) + 256 * ((n \div 256) % 256) + 65536 * ((n \div 65536) % 256) + 16777216 * top
  BY SMT, <1>2 DEF Signed, NumberAt
<1> QED
  BY SMT, <1>1, <1>3, FourBytes

(* Four bytes are read as n only if they are those of n. *)
LEMMA SignedBytes ==
    ASSUME NEW c, NEW q \in Int, NEW n \in Int32, Signed(c, q, 4) = n,
           \A k \in 0..3 : Byte(c, q + k) \in 0..255
    PROVE  NumberAt(c, q, n)
<1> DEFINE b0 == Byte(c, q)
           b1 == Byte(c, q + 1)
           b2 == Byte(c, q + 2)
           b3 == Byte(c, q + 3)
           t  == IF b3 >= 128 THEN b3 - 256 ELSE b3
<1>1. b0 \in 0..255 /\ b1 \in 0..255 /\ b2 \in 0..255 /\ b3 \in 0..255
  <2>1. 0 \in 0..3 /\ 1 \in 0..3 /\ 2 \in 0..3 /\ 3 \in 0..3 /\ q + 0 = q
    BY SMT
  <2> QED
    BY <2>1
<1>2. n = b0 + 256 * b1 + 65536 * b2 + 16777216 * t
  BY SMT DEF Signed
<1> HIDE DEF b0, b1, b2, b3
<1>3. t \in Int /\ t % 256 = b3
  BY SMT, <1>1
<1> HIDE DEF t
<1>4. n \div 256 = b1 + 256 * b2 + 65536 * t /\ n % 256 = b0
  BY SMT, <1>1, <1>2, <1>3
<1>5. n \div 65536 = b2 + 256 * t /\ (n \div 256) % 256 = b1
  <2>1. n \div 65536 = b2 + 256 * t
    BY SMT, <1>1, <1>2, <1>3
  <2>2. (n \div 256) % 256 = b1
    BY SMT, <1>1, <1>3, <1>4
  <2> QED
    BY <2>1, <2>2
<1>6. n \div 16777216 = t /\ (n \div 65536) % 256 = b2
  <2>1. n \div 16777216 = t
    BY SMT, <1>1, <1>2, <1>3
  <2>2. (n \div 65536) % 256 = b2
    BY SMT, <1>1, <1>3, <1>5
  <2> QED
    BY <2>1, <2>2
<1>7. /\ b0 = n % 256 /\ b1 = (n \div 256) % 256 /\ b2 = (n \div 65536) % 256
      /\ b3 = (n \div 16777216) % 256
  BY SMT, <1>3, <1>4, <1>5, <1>6
<1> QED
  BY SMT, <1>7 DEF NumberAt, b0, b1, b2, b3

LEMMA InARow ==
    \A a, b, c, d, e : /\ IsSequence(<<a>>) /\ IsSequence(<<a, b>>)
                       /\ IsSequence(<<a, b, c>>) /\ IsSequence(<<a, b, c, d>>)
                       /\ IsSequence(<<a, b, c, d, e>>)
BY SMT DEF IsSequence, ToSet

LEMMA RowJoins ==
    ASSUME NEW s, NEW t, NEW u, IsSequence(s), IsSequence(t), IsSequence(u),
           Len(u) = Len(s) + Len(t), \A i \in 1..Len(s) : u[i] = s[i],
           \A i \in 1..Len(t) : u[Len(s) + i] = t[i]
    PROVE  s \o t = u
<1>1. /\ IsSequence(s \o t) /\ Len(s \o t) = Len(s) + Len(t)
      /\ \A i \in 1..Len(s) : (s \o t)[i] = s[i]
      /\ \A i \in 1..Len(t) : (s \o t)[Len(s) + i] = t[i]
      /\ Len(s) \in Nat /\ Len(t) \in Nat
  BY ConcatElements, SequenceElements
<1>2. ASSUME NEW i \in 1..Len(u) PROVE (s \o t)[i] = u[i]
  <2>1. CASE i \in 1..Len(s)
    BY <1>1, <2>1
  <2>2. CASE i \notin 1..Len(s)
    <3>1. i - Len(s) \in 1..Len(t) /\ Len(s) + (i - Len(s)) = i
      BY SMT, <1>1, <2>2
    <3> QED
      BY <1>1, <3>1
  <2> QED
    BY <2>1, <2>2
<1> QED
  BY <1>1, <1>2, SameElements

LEMMA OneAndOne == \A a, b : <<a>> \o <<b>> = <<a, b>>
<1> SUFFICES ASSUME NEW a, NEW b
             PROVE  <<a>> \o <<b>> = <<a, b>>
  OBVIOUS
<1> DEFINE s == <<a>>
           t == <<b>>
           u == <<a, b>>
<1>1. IsSequence(s) /\ IsSequence(t) /\ IsSequence(u)
  BY InARow
<1>2. /\ Len(s) = 1 /\ Len(t) = 1 /\ Len(u) = 2
      /\ s[1] = a /\ t[1] = b /\ u[1] = a /\ u[2] = b
  OBVIOUS
<1> HIDE DEF s, t, u
<1>3. s \o t = u
  <2>1. /\ Len(u) = Len(s) + Len(t) /\ \A i \in 1..Len(s) : u[i] = s[i]
        /\ \A i \in 1..Len(t) : u[Len(s) + i] = t[i]
    BY SMT, <1>2
  <2> QED
    BY <1>1, <2>1, RowJoins
<1> QED
  BY <1>3 DEF s, t, u

LEMMA OneAndTwo == \A a, b, c : <<a>> \o <<b, c>> = <<a, b, c>>
<1> SUFFICES ASSUME NEW a, NEW b, NEW c
             PROVE  <<a>> \o <<b, c>> = <<a, b, c>>
  OBVIOUS
<1> DEFINE s == <<a>>
           t == <<b, c>>
           u == <<a, b, c>>
<1>1. IsSequence(s) /\ IsSequence(t) /\ IsSequence(u)
  BY InARow
<1>2. /\ Len(u) = Len(s) + Len(t) /\ \A i \in 1..Len(s) : u[i] = s[i]
      /\ \A i \in 1..Len(t) : u[Len(s) + i] = t[i]
  BY SMT
<1> HIDE DEF s, t, u
<1>3. s \o t = u
  BY <1>1, <1>2, RowJoins
<1> QED
  BY <1>3 DEF s, t, u

LEMMA TwoAndOne == \A a, b, c : <<a, b>> \o <<c>> = <<a, b, c>>
<1> SUFFICES ASSUME NEW a, NEW b, NEW c
             PROVE  <<a, b>> \o <<c>> = <<a, b, c>>
  OBVIOUS
<1> DEFINE s == <<a, b>>
           t == <<c>>
           u == <<a, b, c>>
<1>1. IsSequence(s) /\ IsSequence(t) /\ IsSequence(u)
  BY InARow
<1>2. /\ Len(u) = Len(s) + Len(t) /\ \A i \in 1..Len(s) : u[i] = s[i]
      /\ \A i \in 1..Len(t) : u[Len(s) + i] = t[i]
  BY SMT
<1> HIDE DEF s, t, u
<1>3. s \o t = u
  BY <1>1, <1>2, RowJoins
<1> QED
  BY <1>3 DEF s, t, u

LEMMA ThreeAndOne == \A a, b, c, d : <<a, b, c>> \o <<d>> = <<a, b, c, d>>
<1> SUFFICES ASSUME NEW a, NEW b, NEW c, NEW d
             PROVE  <<a, b, c>> \o <<d>> = <<a, b, c, d>>
  OBVIOUS
<1> DEFINE s == <<a, b, c>>
           t == <<d>>
           u == <<a, b, c, d>>
<1>1. IsSequence(s) /\ IsSequence(t) /\ IsSequence(u)
  BY InARow
<1>2. /\ Len(u) = Len(s) + Len(t) /\ \A i \in 1..Len(s) : u[i] = s[i]
      /\ \A i \in 1..Len(t) : u[Len(s) + i] = t[i]
  BY SMT
<1> HIDE DEF s, t, u
<1>3. s \o t = u
  BY <1>1, <1>2, RowJoins
<1> QED
  BY <1>3 DEF s, t, u

LEMMA OneAndThree == \A a, b, c, d : <<a>> \o <<b, c, d>> = <<a, b, c, d>>
<1> SUFFICES ASSUME NEW a, NEW b, NEW c, NEW d
             PROVE  <<a>> \o <<b, c, d>> = <<a, b, c, d>>
  OBVIOUS
<1> DEFINE s == <<a>>
           t == <<b, c, d>>
           u == <<a, b, c, d>>
<1>1. IsSequence(s) /\ IsSequence(t) /\ IsSequence(u)
  BY InARow
<1>2. /\ Len(u) = Len(s) + Len(t) /\ \A i \in 1..Len(s) : u[i] = s[i]
      /\ \A i \in 1..Len(t) : u[Len(s) + i] = t[i]
  BY SMT
<1> HIDE DEF s, t, u
<1>3. s \o t = u
  BY <1>1, <1>2, RowJoins
<1> QED
  BY <1>3 DEF s, t, u

LEMMA RowsJoin ==
    /\ \A a, b, c : (<<a>> \o <<b>>) \o <<c>> = <<a, b, c>>
    /\ \A a, b, c, d : (<<a>> \o <<b, c>>) \o <<d>> = <<a, b, c, d>>
<1>1. ASSUME NEW a, NEW b, NEW c PROVE (<<a>> \o <<b>>) \o <<c>> = <<a, b, c>>
  <2>1. <<a>> \o <<b>> = <<a, b>>
    BY Zenon, OneAndOne
  <2>2. <<a, b>> \o <<c>> = <<a, b, c>>
    BY Zenon, TwoAndOne
  <2> QED
    BY Zenon, <2>1, <2>2
<1>2. ASSUME NEW a, NEW b, NEW c, NEW d PROVE (<<a>> \o <<b, c>>) \o <<d>> = <<a, b, c, d>>
  <2>1. <<a>> \o <<b, c>> = <<a, b, c>>
    BY Zenon, OneAndTwo
  <2>2. <<a, b, c>> \o <<d>> = <<a, b, c, d>>
    BY Zenon, ThreeAndOne
  <2> QED
    BY Zenon, <2>1, <2>2
<1> QED
  BY Zenon, <1>1, <1>2

LEMMA ImmIs ==
    ASSUME NEW n
    PROVE  /\ IsSequence(write_imm32(n)) /\ Len(write_imm32(n)) = 4
           /\ write_imm32(n)[1] = n % 256 /\ write_imm32(n)[2] = (n \div 256) % 256
           /\ write_imm32(n)[3] = (n \div 65536) % 256
           /\ write_imm32(n)[4] = (n \div 16777216) % 256
<1> DEFINE b0 == n % 256
           b1 == (n \div 256) % 256
           b2 == (n \div 65536) % 256
           b3 == (n \div 16777216) % 256
<1>1. write_imm32(n) = <<b0, b1, b2, b3>>
  BY SMT DEF write_imm32
<1> HIDE DEF b0, b1, b2, b3
<1>2. IsSequence(<<b0, b1, b2, b3>>)
  BY InARow
<1> QED
  BY SMT, <1>1, <1>2 DEF b0, b1, b2, b3

LEMMA NumberLocated ==
    ASSUME NEW c, NEW q \in Int, NEW n, Located(c, q, write_imm32(n))
    PROVE  NumberAt(c, q, n)
BY SMT, ImmIs DEF Located, NumberAt

(***************************************************************************)
(* The number that write_imm writes in four bytes is the one a processor   *)
(* reads in them, for every number of 32 bits.                             *)
(***************************************************************************)
THEOREM NumbersSurvive ==
    ASSUME NEW n \in Int32
    PROVE  Signed(write_imm32(n), 1, 4) = n
<1>1. Located(write_imm32(n), 1, write_imm32(n))
  BY SMT, ImmIs DEF Located, Byte
<1> QED
  BY SMT, <1>1, NumberLocated, SignedIs

(***************************************************************************)
(* Both registers, and the width, can be read back from rex and mod_rm.    *)
(***************************************************************************)
THEOREM RegistersSurvive ==
    ASSUME NEW reg \in Register, NEW rm \in Register, NEW w \in {0, 1}
    PROVE  /\ Top(mod_rm(reg, rm)) = 3
           /\ Middle(mod_rm(reg, rm)) + 8 * Bit(rex(w, reg, rm), 4) = reg
           /\ Bottom(mod_rm(reg, rm)) + 8 * Bit(rex(w, reg, rm), 1) = rm
           /\ Bit(rex(w, reg, rm), 8) = w /\ Bit(rex(w, reg, rm), 2) = 0
<1>1. enc(reg) \in 0..7 /\ enc(rm) \in 0..7 /\ ext(reg) \in 0..1 /\ ext(rm) \in 0..1
  BY SMT DEF Register, enc, ext
<1>2. reg = enc(reg) + 8 * ext(reg) /\ rm = enc(rm) + 8 * ext(rm)
  BY SMT DEF Register, enc, ext
<1>3. /\ Top(mod_rm(reg, rm)) = 3
      /\ Middle(mod_rm(reg, rm)) = enc(reg) /\ Bottom(mod_rm(reg, rm)) = enc(rm)
  BY SMT, <1>1 DEF mod_rm, Top, Middle, Bottom
<1>4. /\ Bit(rex(w, reg, rm), 4) = ext(reg) /\ Bit(rex(w, reg, rm), 1) = ext(rm)
      /\ Bit(rex(w, reg, rm), 8) = w /\ Bit(rex(w, reg, rm), 2) = 0
  BY SMT, <1>1 DEF rex, Bit
<1>5. QED
  BY SMT, <1>2, <1>3, <1>4

-----------------------------------------------------------------------------
(* Where bytes are *)

LEMMA LocatedTogether ==
    ASSUME NEW c, NEW q \in Int, NEW s, NEW t, IsSequence(s), IsSequence(t), Located(c, q, s \o t)
    PROVE  Located(c, q, s) /\ Located(c, q + Len(s), t)
<1>1. /\ Len(s) \in Nat /\ Len(t) \in Nat /\ Len(s \o t) = Len(s) + Len(t)
      /\ \A i \in 1..Len(s) : (s \o t)[i] = s[i]
      /\ \A i \in 1..Len(t) : (s \o t)[Len(s) + i] = t[i]
  BY ConcatElements, SequenceElements
<1>2. ASSUME NEW i \in 1..Len(s) PROVE Byte(c, q + i - 1) = s[i]
  BY SMT, <1>1 DEF Located
<1>3. ASSUME NEW i \in 1..Len(t) PROVE Byte(c, (q + Len(s)) + i - 1) = t[i]
  <2>1. Len(s) + i \in 1..Len(s \o t) /\ q + (Len(s) + i) - 1 = (q + Len(s)) + i - 1
    BY SMT, <1>1
  <2> QED
    BY <1>1, <2>1 DEF Located
<1> QED
  BY <1>2, <1>3 DEF Located

LEMMA LocatedOne ==
    ASSUME NEW c, NEW q \in Int, NEW x, Located(c, q, <<x>>)
    PROVE  Byte(c, q) = x
BY SMT DEF Located

LEMMA LocatedTwo ==
    ASSUME NEW c, NEW q \in Int, NEW x, NEW y, Located(c, q, <<x, y>>)
    PROVE  Byte(c, q) = x /\ Byte(c, q + 1) = y
BY SMT DEF Located

LEMMA LocatedThree ==
    ASSUME NEW c, NEW q \in Int, NEW x, NEW y, NEW z, Located(c, q, <<x, y, z>>)
    PROVE  Byte(c, q) = x /\ Byte(c, q + 1) = y /\ Byte(c, q + 2) = z
BY SMT DEF Located

(* One byte or none, according to a condition, before others. *)
LEMMA LocatedIf ==
    ASSUME NEW c, NEW q \in Int, NEW b, NEW x, NEW t, IsSequence(t),
           Located(c, q, (IF b THEN <<x>> ELSE <<>>) \o t)
    PROVE  IF b THEN Byte(c, q) = x /\ Located(c, q + 1, t) ELSE Located(c, q, t)
<1>1. CASE b
  <2>1. IsSequence(<<x>>) /\ Len(<<x>>) = 1 /\ Located(c, q, <<x>> \o t)
    BY <1>1, InARow
  <2> QED
    BY <1>1, <2>1, LocatedTogether, LocatedOne
<1>2. CASE ~b
  <2>1. <<>> \o t = t
    BY ConcatNothing
  <2> QED
    BY <1>2, <2>1
<1> QED
  BY <1>1, <1>2

-----------------------------------------------------------------------------
(* Registers: REX, which is 0 if there is none, and ModRM *)

RexOf(r, reg, rm) ==
    r \in 0..79 /\ Bit(r, 4) = ext(reg) /\ Bit(r, 1) = ext(rm) /\ Bit(r, 2) = 0

LEMMA HalvesOfRegisters ==
    ASSUME NEW r \in Register
    PROVE  enc(r) \in 0..7 /\ ext(r) \in 0..1 /\ r = enc(r) + 8 * ext(r)
BY SMT DEF Register, enc, ext

LEMMA RexIs ==
    ASSUME NEW w \in {0, 1}, NEW reg \in Register, NEW rm \in Register
    PROVE  /\ rex(w, reg, rm) \in 64..79 /\ rex(w, reg, rm) # 0
           /\ RexOf(rex(w, reg, rm), reg, rm) /\ Bit(rex(w, reg, rm), 8) = w
<1>1. ext(reg) \in 0..1 /\ ext(rm) \in 0..1
  BY HalvesOfRegisters
<1>2. rex(w, reg, rm) \in 64..79 /\ rex(w, reg, rm) # 0
  BY SMT, <1>1 DEF rex
<1>3. /\ Bit(rex(w, reg, rm), 4) = ext(reg) /\ Bit(rex(w, reg, rm), 1) = ext(rm)
      /\ Bit(rex(w, reg, rm), 8) = w /\ Bit(rex(w, reg, rm), 2) = 0
  BY SMT, <1>1 DEF rex, Bit
<1> QED
  BY SMT, <1>2, <1>3 DEF RexOf

LEMMA NoRexIs ==
    ASSUME NEW reg, NEW rm, ext(reg) + ext(rm) = 0, ext(reg) \in 0..1, ext(rm) \in 0..1
    PROVE  RexOf(0, reg, rm)
BY SMT DEF RexOf, Bit

LEMMA FieldsOfModRM ==
    ASSUME NEW mode \in {2, 3}, NEW x \in 0..7, NEW y \in 0..7
    PROVE  /\ Top(64 * mode + 8 * x + y) = mode
           /\ Middle(64 * mode + 8 * x + y) = x /\ Bottom(64 * mode + 8 * x + y) = y
BY SMT DEF Top, Middle, Bottom

LEMMA DirectRead ==
    ASSUME NEW c, NEW m \in Int, NEW r, NEW reg \in Register, NEW rm \in Register,
           RexOf(r, reg, rm), Byte(c, m) = mod_rm(reg, rm), NEW width
    PROVE  /\ RmField(c, m, width, r) = Named8(width, rm, r # 0)
           /\ RegField(c, m, width, r) = Named8(width, reg, r # 0)
           /\ BehindModRM(c, m) = m + 1
           /\ Middle(Byte(c, m)) = enc(reg)
<1>1. /\ enc(reg) \in 0..7 /\ reg = enc(reg) + 8 * ext(reg)
      /\ enc(rm) \in 0..7 /\ rm = enc(rm) + 8 * ext(rm)
  BY HalvesOfRegisters
<1>2. Byte(c, m) = 64 * 3 + 8 * enc(reg) + enc(rm)
  BY SMT DEF mod_rm
<1>3. Top(Byte(c, m)) = 3 /\ Middle(Byte(c, m)) = enc(reg) /\ Bottom(Byte(c, m)) = enc(rm)
  BY <1>1, <1>2, FieldsOfModRM
<1>4. RmField(c, m, width, r) = Named8(width, Bottom(Byte(c, m)) + 8 * Bit(r, 1), r # 0)
  BY <1>3 DEF RmField, Direct
<1>5. RegField(c, m, width, r) = Named8(width, Middle(Byte(c, m)) + 8 * Bit(r, 4), r # 0)
  BY DEF RegField
<1>6. BehindModRM(c, m) = m + 1
  BY <1>3 DEF BehindModRM, Direct
<1> QED
  BY <1>1, <1>3, <1>4, <1>5, <1>6 DEF RexOf

(* A digit stands where a register would. *)
LEMMA DigitIs ==
    ASSUME NEW digit \in 0..7, NEW reg \in Register, NEW w
    PROVE  /\ digit \in Register /\ enc(digit) = digit
           /\ Digit(digit, reg) = mod_rm(digit, reg) /\ rex(w, rax, reg) = rex(w, digit, reg)
           /\ ext(rax) = 0 /\ ext(digit) = 0
<1>1. digit \in Register /\ enc(digit) = digit /\ ext(digit) = 0 /\ ext(rax) = 0
  BY SMT DEF Register, enc, ext, rax
<1>2. Digit(digit, reg) = mod_rm(digit, reg)
  BY <1>1 DEF Digit, mod_rm
<1>3. rex(w, rax, reg) = rex(w, digit, reg)
  BY <1>1 DEF rex
<1> QED
  BY <1>1, <1>2, <1>3

LEMMA NamesWithRex ==
    ASSUME NEW r, NEW x, x # 0, NEW width \in {8, 16, 32, 64, 128}
    PROVE  Named8(width, r, x # 0) = Reg(width, r)
BY DEF Named8, Register8

LEMMA NamesOfRegisters ==
    ASSUME NEW r, NEW hasRex
    PROVE  /\ \A width \in {16, 32, 64, 128} : Named8(width, r, hasRex) = Reg(width, r)
           /\ Named8(8, r, hasRex)
                = IF ~hasRex /\ r \in 4..7 THEN Operand("high", 8, r - 4, 0) ELSE Reg(8, r)
BY SMT DEF Named8, Register8

-----------------------------------------------------------------------------
(* Addresses: a base and an offset *)

LEMMA AddressIs ==
    ASSUME NEW reg, NEW base, NEW o
    PROVE  /\ IsSequence(Address(reg, base, o))
           /\ Len(Address(reg, base, o)) = IF base = rsp THEN 6 ELSE 5
           /\ \A c : \A m \in Int : Located(c, m, Address(reg, base, o)) =>
                /\ Byte(c, m) = 64 * 2 + 8 * enc(reg) + enc(base)
                /\ IF base = rsp THEN Byte(c, m + 1) = 36 /\ NumberAt(c, m + 2, o)
                   ELSE NumberAt(c, m + 1, o)
<1> DEFINE x == 128 + 8 * enc(reg) + enc(base)
           y == IF base = rsp THEN <<36>> ELSE <<>>
           n == write_imm32(o)
<1>0. Address(reg, base, o) = (<<x>> \o y) \o n /\ x = 64 * 2 + 8 * enc(reg) + enc(base)
  BY DEF Address
<1>1. IsSequence(n) /\ Len(n) = 4
  BY ImmIs
<1> HIDE DEF x, n
<1>2. /\ IsSequence(<<x>>) /\ Len(<<x>>) = 1
      /\ IsSequence(y) /\ Len(y) = (IF base = rsp THEN 1 ELSE 0)
  <2>1. IsSequence(<<x>>) /\ IsSequence(<<36>>) /\ IsSequence(<<>>)
    BY InARow, EmptySequence
  <2>2. Len(<<x>>) = 1 /\ Len(<<36>>) = 1 /\ Len(<<>>) = 0
    OBVIOUS
  <2> QED
    BY <2>1, <2>2
<1>3. base = rsp => y = <<36>>
  OBVIOUS
<1> HIDE DEF y
<1>4. /\ IsSequence(<<x>> \o y) /\ Len(<<x>> \o y) = 1 + Len(y)
      /\ IsSequence((<<x>> \o y) \o n) /\ Len((<<x>> \o y) \o n) = (1 + Len(y)) + 4
  BY <1>1, <1>2, ConcatLengths
<1>5. ASSUME NEW c, NEW m \in Int, Located(c, m, (<<x>> \o y) \o n)
      PROVE  /\ Byte(c, m) = 64 * 2 + 8 * enc(reg) + enc(base)
             /\ IF base = rsp THEN Byte(c, m + 1) = 36 /\ NumberAt(c, m + 2, o)
                ELSE NumberAt(c, m + 1, o)
  <2>1. Located(c, m, <<x>> \o y) /\ Located(c, m + (1 + Len(y)), n)
    BY <1>1, <1>4, <1>5, LocatedTogether
  <2>2. Located(c, m, <<x>>) /\ Located(c, m + 1, y)
    BY <1>1, <1>2, <2>1, LocatedTogether
  <2>3. Byte(c, m) = 64 * 2 + 8 * enc(reg) + enc(base)
    BY <1>0, <2>2, LocatedOne
  <2>4. CASE base = rsp
    <3>1. y = <<36>> /\ m + (1 + Len(y)) = m + 2 /\ m + 1 \in Int /\ m + 2 \in Int
      BY SMT, <2>4, <1>2, <1>3
    <3>2. Byte(c, m + 1) = 36
      BY <2>2, <3>1, LocatedOne
    <3> QED
      BY <2>1, <2>3, <2>4, <3>1, <3>2, NumberLocated DEF n
  <2>5. CASE base # rsp
    <3>1. m + (1 + Len(y)) = m + 1 /\ m + 1 \in Int
      BY SMT, <2>5, <1>2
    <3> QED
      BY <2>1, <2>3, <2>5, <3>1, NumberLocated DEF n
  <2> QED
    BY <2>4, <2>5
<1> QED
  BY SMT, <1>0, <1>2, <1>4, <1>5

(* An address at m, after the byte REX that is r. *)
AddressAt(c, m, reg, base, o, r) ==
    /\ m \in Int /\ reg \in Register /\ base \in Register /\ o \in Int32
    /\ Located(c, m, Address(reg, base, o)) /\ RexOf(r, reg, base)

(* What a processor reads of an address, but for one with the base r12. *)
LEMMA AddressRead ==
    ASSUME NEW c, NEW m, NEW reg, NEW base, NEW o, NEW r, AddressAt(c, m, reg, base, o, r),
           base # r12, NEW width
    PROVE  /\ RmField(c, m, width, r) = Mem(width, base, o)
           /\ BehindModRM(c, m) = m + Len(Address(reg, base, o))
           /\ Middle(Byte(c, m)) = enc(reg)
<1>0. /\ m \in Int /\ reg \in Register /\ base \in Register /\ o \in Int32
      /\ Located(c, m, Address(reg, base, o)) /\ RexOf(r, reg, base)
  BY DEF AddressAt
<1>1. /\ enc(reg) \in 0..7 /\ reg = enc(reg) + 8 * ext(reg)
      /\ enc(base) \in 0..7 /\ base = enc(base) + 8 * ext(base) /\ ext(base) \in 0..1
  BY <1>0, HalvesOfRegisters
<1>2. /\ Byte(c, m) = 64 * 2 + 8 * enc(reg) + enc(base)
      /\ IF base = rsp THEN Byte(c, m + 1) = 36 /\ NumberAt(c, m + 2, o)
         ELSE NumberAt(c, m + 1, o)
      /\ Len(Address(reg, base, o)) = IF base = rsp THEN 6 ELSE 5
  BY <1>0, AddressIs
<1>3. Top(Byte(c, m)) = 2 /\ Middle(Byte(c, m)) = enc(reg) /\ Bottom(Byte(c, m)) = enc(base)
  BY <1>0, <1>1, <1>2, FieldsOfModRM
<1>4. ~Direct(c, m) /\ (HasSib(c, m) <=> base = rsp)
  <2>1. enc(base) = 4 <=> base = rsp
    BY SMT, <1>0, <1>1 DEF rsp, r12
  <2> QED
    BY <1>0, <1>3, <2>1 DEF Direct, HasSib
<1>6. CASE base = rsp
  <2>1. DispAt(c, m) = m + 2 /\ BehindModRM(c, m) = m + 6
    BY SMT, <1>0, <1>4, <1>6 DEF DispAt, BehindModRM
  <2>2. Signed(c, DispAt(c, m), 4) = o
    BY SMT, <1>0, <1>2, <1>6, <2>1, SignedIs
  <2>3. Middle(Byte(c, m + 1)) = 4 /\ Bottom(Byte(c, m + 1)) + 8 * Bit(r, 1) = base
    BY SMT, <1>0, <1>1, <1>2, <1>6 DEF Middle, Bottom, RexOf, rsp
  <2>4. RmField(c, m, width, r) = Mem(width, base, o)
    BY <1>0, <1>4, <1>6, <2>2, <2>3 DEF RmField, RexOf
  <2> QED
    BY <1>0, <1>2, <1>3, <1>6, <2>1, <2>4
<1>7. CASE base # rsp
  <2>1. DispAt(c, m) = m + 1 /\ BehindModRM(c, m) = m + 5
    BY SMT, <1>0, <1>4, <1>7 DEF DispAt, BehindModRM
  <2>2. Signed(c, DispAt(c, m), 4) = o
    BY SMT, <1>0, <1>2, <1>7, <2>1, SignedIs
  <2>3. RmField(c, m, width, r) = Mem(width, base, o)
    BY <1>0, <1>1, <1>3, <1>4, <1>7, <2>2 DEF RmField, RexOf
  <2> QED
    BY <1>0, <1>2, <1>3, <1>7, <2>1, <2>3
<1> QED
  BY <1>0, <1>6, <1>7

(* The byte that asks for the base r12 and no index, whatever its scale. *)
SibOfR12 == {36, 100, 164, 228}

(* With the base r12 the first byte of the offset is taken for SIB. *)
LEMMA AddressMisread ==
    ASSUME NEW c, NEW m, NEW reg, NEW o, NEW r, AddressAt(c, m, reg, r12, o, r), NEW width,
           Byte(c, m + 5) \in 0..255
    PROVE  /\ BehindModRM(c, m) = m + 6
           /\ Middle(Byte(c, m)) = enc(reg)
           /\ RmField(c, m, width, r) = Mem(width, r12, o) => Byte(c, m + 5) \in SibOfR12
           /\ Len(Address(reg, r12, o)) = 5
<1>0. /\ m \in Int /\ reg \in Register /\ o \in Int32
      /\ Located(c, m, Address(reg, r12, o)) /\ RexOf(r, reg, r12)
  BY DEF AddressAt
<1>1. /\ enc(reg) \in 0..7 /\ reg = enc(reg) + 8 * ext(reg)
      /\ r12 \in Register /\ enc(r12) = 4 /\ ext(r12) = 1 /\ r12 # rsp /\ r12 = 12
  BY SMT, <1>0, HalvesOfRegisters DEF Register, enc, ext, r12, rsp
<1>2. /\ Byte(c, m) = 64 * 2 + 8 * enc(reg) + enc(r12) /\ NumberAt(c, m + 1, o)
      /\ Len(Address(reg, r12, o)) = 5
  BY <1>0, <1>1, AddressIs
<1>3. Top(Byte(c, m)) = 2 /\ Middle(Byte(c, m)) = enc(reg) /\ Bottom(Byte(c, m)) = 4
  BY SMT, <1>0, <1>1, <1>2, FieldsOfModRM
<1>4. ~Direct(c, m) /\ HasSib(c, m)
  BY SMT, <1>0, <1>3 DEF Direct, HasSib
<1>6. DispAt(c, m) = m + 2 /\ BehindModRM(c, m) = m + 6
  BY SMT, <1>0, <1>4 DEF DispAt, BehindModRM
<1>7. ASSUME RmField(c, m, width, r) = Mem(width, r12, o) PROVE Byte(c, m + 5) \in SibOfR12
  <2> DEFINE sib == Byte(c, m + 1)
  <2>1. RmField(c, m, width, r) =
          IF Middle(sib) = 4 /\ Bit(r, 2) = 0
          THEN Mem(width, Bottom(sib) + 8 * Bit(r, 1), Signed(c, m + 2, 4))
          ELSE Operand("indexed", width, sib, Signed(c, m + 2, 4))
    BY <1>0, <1>4, <1>6 DEF RmField
  <2>2. Middle(sib) = 4 /\ Bottom(sib) + 8 = 12 /\ Signed(c, m + 2, 4) = o
    BY SMT, <1>0, <1>1, <1>7, <2>1 DEF Mem, Operand, RexOf
  <2>3. /\ Byte(c, m + 1) = o % 256 /\ Byte(c, m + 2) = (o \div 256) % 256
        /\ Byte(c, m + 3) = (o \div 65536) % 256 /\ Byte(c, m + 4) = (o \div 16777216) % 256
        /\ o \in Int
    BY SMT, <1>0, <1>2 DEF NumberAt, Int32
  <2>4. \A k \in 0..3 : Byte(c, (m + 2) + k) \in 0..255
    BY SMT, <1>0, <2>3
  <2>5. NumberAt(c, m + 2, o)
    BY SMT, <1>0, <2>2, <2>4, SignedBytes
  <2>6. Byte(c, m + 5) = Byte(c, m + 1)
    BY SMT, <1>0, <2>3, <2>5 DEF NumberAt
  <2>7. sib \in 0..255 /\ Middle(sib) = 4 /\ Bottom(sib) = 4
    BY SMT, <1>0, <2>2, <2>3 DEF Bottom
  <2> QED
    BY SMT, <1>0, <2>6, <2>7 DEF Middle, Bottom, SibOfR12
<1> QED
  BY <1>0, <1>2, <1>3, <1>6, <1>7

-----------------------------------------------------------------------------
(* The operands, in each of the orders of a form *)

Wide(w, width) == IF w = 0 THEN width ELSE w

(* Tuples as the provers tell them apart best. *)
One(a)     == <<a>>
Pair(a, b) == <<a, b>>

(* What Decode answers. *)
Answer(name, operands, length) == [asm |-> Asm(name, operands), length |-> length]

LEMMA ModRMOrNot ==
    ASSUME NEW name, NEW a, NEW b, NEW imm
    PROVE  /\ HasModRM(Form(name, MR, a, b, imm))
           /\ HasModRM(Form(name, RM, a, b, imm))
           /\ HasModRM(Form(name, M, a, b, imm))
           /\ HasModRM(Form(name, MI, a, b, imm))
           /\ ~HasModRM(Form(name, I, a, b, imm))
           /\ ~HasModRM(Form(name, OI, a, b, imm))
           /\ ~HasModRM(Form(name, ZO, a, b, imm))
<1>1. HasModRM(Form(name, MR, a, b, imm))
  BY SMT DEF HasModRM, Form, ToSet, MR, RM, M, MI, OI, I, ZO
<1>2. HasModRM(Form(name, RM, a, b, imm))
  BY SMT DEF HasModRM, Form, ToSet, MR, RM, M, MI, OI, I, ZO
<1>3. HasModRM(Form(name, M, a, b, imm))
  BY SMT DEF HasModRM, Form, ToSet, MR, RM, M, MI, OI, I, ZO
<1>4. HasModRM(Form(name, MI, a, b, imm))
  BY SMT DEF HasModRM, Form, ToSet, MR, RM, M, MI, OI, I, ZO
<1>5. ~HasModRM(Form(name, I, a, b, imm))
  BY SMT DEF HasModRM, Form, ToSet, MR, RM, M, MI, OI, I, ZO
<1>6. ~HasModRM(Form(name, OI, a, b, imm))
  BY SMT DEF HasModRM, Form, ToSet, MR, RM, M, MI, OI, I, ZO
<1>7. ~HasModRM(Form(name, ZO, a, b, imm))
  BY SMT DEF HasModRM, Form, ToSet, MR, RM, M, MI, OI, I, ZO
<1> QED
  BY <1>1, <1>2, <1>3, <1>4, <1>5, <1>6, <1>7

LEMMA RmThenReg ==
    ASSUME NEW c, NEW p, NEW m, NEW name, NEW a, NEW b, NEW imm, NEW opcode, NEW width, NEW r
    PROVE  Instruction(c, p, m, Form(name, MR, a, b, imm), opcode, width, r)
             = Answer(name, Pair(RmField(c, m, Wide(b, width), r), RegField(c, m, Wide(a, width), r)),
                      BehindModRM(c, m) + imm - p)
<1>1. HasModRM(Form(name, MR, a, b, imm))
  BY ModRMOrNot
<1> QED
  BY SMT, <1>1 DEF Instruction, Form, Answer, Asm, Wide, MR, RM, M, MI, OI, I, ZO, Pair, One

LEMMA RegThenRm ==
    ASSUME NEW c, NEW p, NEW m, NEW name, NEW a, NEW b, NEW imm, NEW opcode, NEW width, NEW r
    PROVE  Instruction(c, p, m, Form(name, RM, a, b, imm), opcode, width, r)
             = Answer(name, Pair(RegField(c, m, Wide(a, width), r), RmField(c, m, Wide(b, width), r)),
                      BehindModRM(c, m) + imm - p)
<1>1. HasModRM(Form(name, RM, a, b, imm))
  BY ModRMOrNot
<1> QED
  BY SMT, <1>1 DEF Instruction, Form, Answer, Asm, Wide, MR, RM, M, MI, OI, I, ZO, Pair, One

LEMMA RmOnly ==
    ASSUME NEW c, NEW p, NEW m, NEW name, NEW a, NEW b, NEW imm, NEW opcode, NEW width, NEW r
    PROVE  Instruction(c, p, m, Form(name, M, a, b, imm), opcode, width, r)
             = Answer(name, One(RmField(c, m, Wide(b, width), r)), BehindModRM(c, m) + imm - p)
<1>1. HasModRM(Form(name, M, a, b, imm))
  BY ModRMOrNot
<1> QED
  BY SMT, <1>1 DEF Instruction, Form, Answer, Asm, Wide, MR, RM, M, MI, OI, I, ZO, Pair, One

LEMMA RmThenImm ==
    ASSUME NEW c, NEW p, NEW m, NEW name, NEW a, NEW b, NEW imm, NEW opcode, NEW width, NEW r
    PROVE  Instruction(c, p, m, Form(name, MI, a, b, imm), opcode, width, r)
             = Answer(name, Pair(RmField(c, m, Wide(b, width), r),
                                 Imm(Signed(c, BehindModRM(c, m), imm))),
                      BehindModRM(c, m) + imm - p)
<1>1. HasModRM(Form(name, MI, a, b, imm))
  BY ModRMOrNot
<1> QED
  BY SMT, <1>1 DEF Instruction, Form, Answer, Asm, Wide, MR, RM, M, MI, OI, I, ZO, Pair, One

LEMMA ImmOnly ==
    ASSUME NEW c, NEW p, NEW m, NEW name, NEW a, NEW b, NEW imm, NEW opcode, NEW width, NEW r
    PROVE  Instruction(c, p, m, Form(name, I, a, b, imm), opcode, width, r)
             = Answer(name, One(Imm(Signed(c, m, imm))), m + imm - p)
<1>1. ~HasModRM(Form(name, I, a, b, imm))
  BY ModRMOrNot
<1> QED
  BY SMT, <1>1 DEF Instruction, Form, Answer, Asm, Wide, MR, RM, M, MI, OI, I, ZO, Pair, One

LEMMA LowThenImm ==
    ASSUME NEW c, NEW p, NEW m, NEW name, NEW a, NEW b, NEW imm, NEW opcode, NEW width, NEW r
    PROVE  Instruction(c, p, m, Form(name, OI, a, b, imm), opcode, width, r)
             = Answer(name, Pair(Reg(width, Bottom(opcode) + 8 * Bit(r, 1)), Imm(Signed(c, m, imm))),
                      m + imm - p)
<1>1. ~HasModRM(Form(name, OI, a, b, imm))
  BY ModRMOrNot
<1> QED
  BY SMT, <1>1 DEF Instruction, Form, Answer, Asm, Wide, MR, RM, M, MI, OI, I, ZO, Pair, One

LEMMA NoOperands ==
    ASSUME NEW c, NEW p, NEW m, NEW name, NEW a, NEW b, NEW imm, NEW opcode, NEW width, NEW r
    PROVE  Instruction(c, p, m, Form(name, ZO, a, b, imm), opcode, width, r)
             = Answer(name, <<>>, m + imm - p)
<1>1. ~HasModRM(Form(name, ZO, a, b, imm))
  BY ModRMOrNot
<1> QED
  BY SMT, <1>1 DEF Instruction, Form, Answer, Asm, Wide, MR, RM, M, MI, OI, I, ZO, Pair, One

-----------------------------------------------------------------------------
(* The ways to an opcode: with and without a prefix, with and without REX *)

LEMMA AfterRex ==
    ASSUME NEW c, NEW q \in Int, NEW w \in {0, 1}, NEW reg \in Register, NEW rm \in Register,
           Byte(c, q) = rex(w, reg, rm)
    PROVE  Decode(c, q) = DecodeOpcode(c, q, q + 1, IF w = 1 THEN 64 ELSE 32, rex(w, reg, rm))
<1>1. rex(w, reg, rm) \in 64..79 /\ Bit(rex(w, reg, rm), 8) = w
  BY RexIs
<1> HIDE DEF rex
<1>2. Byte(c, q) \notin {102, 242} /\ Byte(c, q) # 102
  BY SMT, <1>1
<1> QED
  BY <1>1, <1>2 DEF Decode

LEMMA AfterNothing ==
    ASSUME NEW c, NEW q \in Int, Byte(c, q) \notin {102, 242}, Byte(c, q) \notin 64..79
    PROVE  Decode(c, q) = DecodeOpcode(c, q, q, 32, 0)
BY DEF Decode

LEMMA AfterPrefixAndRex ==
    ASSUME NEW c, NEW q \in Int, NEW w \in {0, 1}, NEW reg \in Register, NEW rm \in Register,
           Byte(c, q) \in {102, 242}, Byte(c, q + 1) = rex(w, reg, rm)
    PROVE  Decode(c, q) = DecodeOpcode(c, q, q + 2,
                                       IF w = 1 THEN 64 ELSE IF Byte(c, q) = 102 THEN 16 ELSE 32,
                                       rex(w, reg, rm))
<1>1. rex(w, reg, rm) \in 64..79 /\ Bit(rex(w, reg, rm), 8) = w /\ (q + 1) + 1 = q + 2
  BY SMT, RexIs
<1> QED
  BY <1>1 DEF Decode

LEMMA AfterPrefix ==
    ASSUME NEW c, NEW q \in Int, Byte(c, q) \in {102, 242}, Byte(c, q + 1) \notin 64..79
    PROVE  Decode(c, q) = DecodeOpcode(c, q, q + 1, IF Byte(c, q) = 102 THEN 16 ELSE 32, 0)
BY DEF Decode

LEMMA Opcodes ==
    ASSUME NEW c, NEW p, NEW o \in Int, NEW width, NEW r
    PROVE  /\ Byte(c, o) # 15 /\ Byte(c, o) \notin Groups =>
                DecodeOpcode(c, p, o, width, r)
                  = Instruction(c, p, o + 1, OneByte(Byte(c, o)), Byte(c, o), width, r)
           /\ Byte(c, o) # 15 /\ Byte(c, o) \in Groups =>
                DecodeOpcode(c, p, o, width, r)
                  = Instruction(c, p, o + 1, Group(Byte(c, o), Middle(Byte(c, o + 1))),
                                Byte(c, o), width, r)
           /\ Byte(c, o) = 15 =>
                DecodeOpcode(c, p, o, width, r)
                  = Instruction(c, p, o + 2, TwoByte(Byte(c, o + 1)), Byte(c, o + 1), width, r)
BY DEF DecodeOpcode

-----------------------------------------------------------------------------
(* The members *)

(* The processor that comes to the piece p at q reads it as the properties say. *)
Meant(c, q, p) ==
    /\ (Decode(c, q).asm # p.asm) <=>
         \/ BaseIsR12(p) \/ GoesTheOtherWay(p) \/ IsWrongByte(p) \/ MovesFourBytes(p)
    /\ Decode(c, q).length = Len(p.bytes) + (IF BaseIsR12(p) THEN 1 ELSE 0)

(* What comes after a piece is no SIB byte of r12: no piece begins with one. *)
Harmless == 0..255 \ SibOfR12

WellRead(p) ==
    /\ IsSequence(p.bytes) /\ Len(p.bytes) > 0 /\ p.bytes[1] \in Harmless
    /\ \A c : \A q \in Int :
         Located(c, q, p.bytes) /\ Byte(c, q + Len(p.bytes)) \in Harmless => Meant(c, q, p)

(* Assembly that none of the four kinds is about. *)
Ordinary(asm) ==
    /\ asm.name # "movsd"
    /\ \A k \in DOMAIN asm.operands :
         asm.operands[k].kind # "memory" /\ ~(asm.operands[k].kind = "register" /\ asm.operands[k].width = 8)

LEMMA OrdinaryIsMeant ==
    ASSUME NEW c, NEW q, NEW p, Ordinary(p.asm),
           Decode(c, q).asm = p.asm, Decode(c, q).length = Len(p.bytes), Len(p.bytes) \in Nat
    PROVE  Meant(c, q, p)
<1>1. ~BaseIsR12(p)
  BY DEF Ordinary, BaseIsR12
<1>2. ~GoesTheOtherWay(p)
  BY DEF Ordinary, GoesTheOtherWay
<1>3. ~IsWrongByte(p)
  BY DEF Ordinary, IsWrongByte
<1>4. ~MovesFourBytes(p)
  BY DEF Ordinary, MovesFourBytes
<1> QED
  BY <1>1, <1>2, <1>3, <1>4 DEF Meant

LEMMA OrdinaryOperands ==
    ASSUME NEW name, name # "movsd"
    PROVE  /\ \A a, b : Ordinary(Asm(name, <<Reg(64, a), Reg(64, b)>>))
           /\ \A a, b : Ordinary(Asm(name, <<Reg(32, a), Reg(32, b)>>))
           /\ \A a, b : Ordinary(Asm(name, <<Reg(64, a), Reg(32, b)>>))
           /\ \A a, n : Ordinary(Asm(name, <<Reg(64, a), Imm(n)>>))
           /\ \A a : Ordinary(Asm(name, <<Reg(64, a)>>))
           /\ \A n : Ordinary(Asm(name, <<Imm(n)>>))
           /\ Ordinary(Asm(name, <<>>))
BY SMT DEF Ordinary, Asm, Reg, Imm, Operand

LEMMA RexIsHarmless ==
    ASSUME NEW w \in {0, 1}, NEW reg \in Register, NEW rm \in Register
    PROVE  rex(w, reg, rm) \in Harmless
<1>1. rex(w, reg, rm) \in 64..79
  BY RexIs
<1> HIDE DEF rex
<1> QED
  BY SMT, <1>1 DEF Harmless, SibOfR12

LEMMA RegRegOpcodes ==
    \A name \in DOMAIN RegReg :
        /\ RegReg[name] # 15 /\ RegReg[name] \notin Groups /\ name # "movsd"
        /\ OneByte(RegReg[name]) = Form(name, MR, 0, 0, 0)
BY SMT DEF RegReg, OneByte, Groups, ToRm

LEMMA TwoRegistersAreWellRead ==
    ASSUME NEW dst \in Register, NEW src \in Register, NEW p \in TwoRegisters(dst, src)
    PROVE  WellRead(p)
<1>1. PICK name \in DOMAIN RegReg :
        p = Piece(Asm(name, <<Reg(64, dst), Reg(64, src)>>), emit_rr(RegReg[name], src, dst))
  BY SMT DEF TwoRegisters, Pick
<1> DEFINE r == rex(1, src, dst)
           b == RegReg[name]
           m == mod_rm(src, dst)
<1>2. /\ p.asm = Asm(name, <<Reg(64, dst), Reg(64, src)>>) /\ p.bytes = <<r, b, m>>
  BY <1>1 DEF Piece, emit_rr
<1>3. /\ b # 15 /\ b \notin Groups /\ name # "movsd"
      /\ OneByte(b) = Form(name, MR, 0, 0, 0)
  BY RegRegOpcodes
<1>4. RexOf(r, src, dst) /\ r # 0 /\ r \in Harmless
  BY RexIs, RexIsHarmless
<1>5. ASSUME NEW c, NEW q \in Int, Located(c, q, p.bytes) PROVE Meant(c, q, p)
  <2>1. Byte(c, q) = r /\ Byte(c, q + 1) = b /\ Byte(c, q + 2) = m
    <3> HIDE DEF r, b, m
    <3>1. Located(c, q, <<r, b, m>>)
      BY <1>2, <1>5
    <3> QED
      BY <3>1, LocatedThree
  <2>2. Decode(c, q) = DecodeOpcode(c, q, q + 1, 64, r)
    BY <2>1, AfterRex
  <2> HIDE DEF r, b, m
  <2>3. Decode(c, q) = Instruction(c, q, q + 2, Form(name, MR, 0, 0, 0), b, 64, r)
    <3>1. q + 1 \in Int /\ (q + 1) + 1 = q + 2
      BY SMT
    <3> QED
      BY <1>3, <2>1, <2>2, <3>1, Opcodes
  <2>4. /\ RmField(c, q + 2, 64, r) = Reg(64, dst) /\ RegField(c, q + 2, 64, r) = Reg(64, src)
        /\ BehindModRM(c, q + 2) = q + 3
    <3>1. q + 2 \in Int /\ (q + 2) + 1 = q + 3
      BY SMT
    <3> QED
      BY <1>4, <2>1, <3>1, DirectRead, NamesOfRegisters DEF m
  <2>5. Decode(c, q) = Answer(name, Pair(Reg(64, dst), Reg(64, src)), (q + 3) + 0 - q)
    BY <2>3, <2>4, RmThenReg DEF Wide
  <2>6. Decode(c, q).asm = p.asm /\ Decode(c, q).length = 3 /\ Len(p.bytes) = 3
    BY SMT, <1>2, <2>5 DEF Answer, Pair
  <2> QED
    BY <1>2, <1>3, <2>6, OrdinaryIsMeant, OrdinaryOperands
<1>6. IsSequence(p.bytes) /\ Len(p.bytes) > 0 /\ p.bytes[1] = r
  <2> HIDE DEF r, b, m
  <2>1. IsSequence(<<r, b, m>>) /\ Len(<<r, b, m>>) = 3 /\ <<r, b, m>>[1] = r
    BY InARow
  <2> QED
    BY <1>2, <2>1
<1> QED
  BY <1>4, <1>5, <1>6 DEF WellRead

LEMMA RegRmOpcodes ==
    \A name \in DOMAIN RegRm : \E b, v :
        /\ name # "movsd" /\ Wide(v, 64) = RegRm[name][2] /\ RegRm[name][2] \in {8, 32, 64}
        /\ RegRm[name][2] = 8 => name = "movzx"
        /\ \/ /\ RegRm[name][1] = <<b>> /\ b # 15 /\ b \notin Groups
              /\ OneByte(b) = Form(name, RM, 0, v, 0)
           \/ /\ RegRm[name][1] = <<15, b>>
              /\ TwoByte(b) = Form(name, RM, 0, v, 0)
<1>1. CASE TRUE
  <2>1. /\ RegRm["cmp"] = <<<<59>>, 64>> /\ RegRm["imul"] = <<<<15, 175>>, 64>>
        /\ RegRm["movsxd"] = <<<<99>>, 32>> /\ RegRm["movzx"] = <<<<15, 182>>, 8>>
        /\ DOMAIN RegRm = {"cmp", "imul", "movsxd", "movzx"}
    BY DEF RegRm
  <2>2. /\ OneByte(59) = Form("cmp", RM, 0, 0, 0)
        /\ OneByte(99) = Form("movsxd", RM, 0, 32, 0)
        /\ TwoByte(175) = Form("imul", RM, 0, 0, 0)
        /\ TwoByte(182) = Form("movzx", RM, 0, 8, 0)
        /\ 59 # 15 /\ 99 # 15 /\ 59 \notin Groups /\ 99 \notin Groups
    BY SMT DEF OneByte, TwoByte, ToReg, Groups
  <2>3. Wide(0, 64) = 64 /\ Wide(32, 64) = 32 /\ Wide(8, 64) = 8
    BY SMT DEF Wide
  <2> QED
    BY <2>1, <2>2, <2>3
<1> QED
  BY <1>1

LEMMA ReversedAreWellRead ==
    ASSUME NEW dst \in Register, NEW src \in Register, NEW p \in Reversed(dst, src)
    PROVE  WellRead(p)
<1>1. PICK name \in DOMAIN RegRm :
        p = Piece(Asm(name, <<Reg(64, dst), Reg(RegRm[name][2], src)>>),
                  <<rex(1, dst, src)>> \o RegRm[name][1] \o <<mod_rm(dst, src)>>)
  <2>1. PICK o \in Pick(RegRm) :
          p = Piece(Asm(o[1], <<Reg(64, dst), Reg(o[2][2], src)>>),
                    <<rex(1, dst, src)>> \o o[2][1] \o <<mod_rm(dst, src)>>)
    BY DEF Reversed
  <2>2. PICK name \in DOMAIN RegRm : o = <<name, RegRm[name]>>
    BY DEF Pick
  <2>3. o[1] = name /\ o[2] = RegRm[name]
    BY <2>2
  <2> QED
    BY <2>1, <2>3
<1> DEFINE r == rex(1, dst, src)
           w == RegRm[name][2]
           m == mod_rm(dst, src)
<1>2. PICK b, v :
        /\ name # "movsd" /\ Wide(v, 64) = w /\ w \in {8, 32, 64} /\ (w = 8 => name = "movzx")
        /\ \/ /\ RegRm[name][1] = <<b>> /\ b # 15 /\ b \notin Groups
              /\ OneByte(b) = Form(name, RM, 0, v, 0)
           \/ /\ RegRm[name][1] = <<15, b>>
              /\ TwoByte(b) = Form(name, RM, 0, v, 0)
  BY RegRmOpcodes
<1>3. RexOf(r, dst, src) /\ r # 0 /\ r \in Harmless
  BY RexIs, RexIsHarmless
<1>4. ASSUME NEW c, NEW q \in Int, NEW n \in Int, Byte(c, n) = m,
             Decode(c, q) = Instruction(c, q, n, Form(name, RM, 0, v, 0), b, 64, r),
             Len(p.bytes) = n + 1 - q
      PROVE  Meant(c, q, p)
  <2>1. /\ RegField(c, n, 64, r) = Reg(64, dst) /\ RmField(c, n, w, r) = Reg(w, src)
        /\ BehindModRM(c, n) = n + 1
    <3>1. /\ RmField(c, n, w, r) = Named8(w, src, r # 0)
          /\ RegField(c, n, 64, r) = Named8(64, dst, r # 0) /\ BehindModRM(c, n) = n + 1
      <4>1. Byte(c, n) = mod_rm(dst, src)
        BY <1>4
      <4> HIDE DEF w, r, m
      <4>2. /\ RmField(c, n, w, r) = Named8(w, src, r # 0)
            /\ BehindModRM(c, n) = n + 1
        BY <1>3, <4>1, DirectRead
      <4>3. RegField(c, n, 64, r) = Named8(64, dst, r # 0)
        BY <1>3, <4>1, DirectRead
      <4> QED
        BY <4>2, <4>3
    <3> HIDE DEF w, r
    <3>2. Named8(w, src, r # 0) = Reg(w, src) /\ Named8(64, dst, r # 0) = Reg(64, dst)
      BY <1>2, <1>3, NamesWithRex
    <3> QED
      BY <3>1, <3>2
  <2> HIDE DEF r, m, w
  <2>2. Decode(c, q) = Answer(name, Pair(Reg(64, dst), Reg(w, src)), (n + 1) + 0 - q)
    <3>1. Wide(0, 64) = 64 /\ Wide(v, 64) = w
      BY <1>2 DEF Wide, w
    <3>2. Decode(c, q) = Answer(name, Pair(RegField(c, n, Wide(0, 64), r), RmField(c, n, Wide(v, 64), r)),
                                BehindModRM(c, n) + 0 - q)
      BY <1>4, RegThenRm
    <3> QED
      BY <2>1, <3>1, <3>2
  <2>3. p.asm = Asm(name, <<Reg(64, dst), Reg(w, src)>>)
    BY <1>1 DEF Piece, w
  <2>4. Decode(c, q).asm = p.asm /\ Decode(c, q).length = Len(p.bytes) /\ Len(p.bytes) \in Int
    BY SMT, <1>4, <2>2, <2>3 DEF Answer, Pair
  <2>5. ~BaseIsR12(p) /\ ~MovesFourBytes(p) /\ ~GoesTheOtherWay(p)
    BY SMT, <1>2, <2>3 DEF BaseIsR12, MovesFourBytes, GoesTheOtherWay, Asm, Reg, Operand
  <2>6. ~IsWrongByte(p)
    BY SMT, <1>2, <2>3 DEF IsWrongByte, Asm, Reg, Operand
  <2> QED
    BY <2>4, <2>5, <2>6 DEF Meant
<1>5. ASSUME RegRm[name][1] = <<b>>, b # 15, b \notin Groups,
             OneByte(b) = Form(name, RM, 0, v, 0)
      PROVE  WellRead(p)
  <2>1. p.bytes = <<r, b, m>>
    <3>1. p.bytes = (<<r>> \o <<b>>) \o <<m>>
      BY <1>1, <1>5 DEF Piece
    <3> HIDE DEF r, m
    <3> QED
      BY Zenon, <3>1, RowsJoin
  <2> HIDE DEF r, m, w
  <2>2. IsSequence(<<r, b, m>>) /\ Len(<<r, b, m>>) = 3 /\ <<r, b, m>>[1] = r
    BY InARow
  <2>3. ASSUME NEW c, NEW q \in Int, Located(c, q, p.bytes) PROVE Meant(c, q, p)
    <3>1. Byte(c, q) = r /\ Byte(c, q + 1) = b /\ Byte(c, q + 2) = m
      BY <2>1, <2>3, LocatedThree
    <3>2. Decode(c, q) = DecodeOpcode(c, q, q + 1, 64, r)
      BY <3>1, AfterRex DEF r
    <3>3. q + 1 \in Int /\ q + 2 \in Int /\ (q + 1) + 1 = q + 2 /\ (q + 2) + 1 - q = 3
      BY SMT
    <3>4. Decode(c, q) = Instruction(c, q, q + 2, Form(name, RM, 0, v, 0), b, 64, r)
      BY <1>5, <3>1, <3>2, <3>3, Opcodes
    <3> QED
      BY <1>4, <2>1, <2>2, <3>1, <3>3, <3>4
  <2> QED
    BY <1>3, <2>1, <2>2, <2>3 DEF WellRead
<1>6. ASSUME RegRm[name][1] = <<15, b>>, TwoByte(b) = Form(name, RM, 0, v, 0)
      PROVE  WellRead(p)
  <2>1. p.bytes = <<r, 15, b, m>>
    <3>1. p.bytes = (<<r>> \o <<15, b>>) \o <<m>>
      BY <1>1, <1>6 DEF Piece
    <3> HIDE DEF r, m
    <3> QED
      BY Zenon, <3>1, RowsJoin
  <2> HIDE DEF r, m, w
  <2>2. IsSequence(<<r, 15, b, m>>) /\ Len(<<r, 15, b, m>>) = 4 /\ <<r, 15, b, m>>[1] = r
    BY InARow
  <2>3. ASSUME NEW c, NEW q \in Int, Located(c, q, p.bytes) PROVE Meant(c, q, p)
    <3>1. Byte(c, q) = r /\ Byte(c, q + 1) = 15 /\ Byte(c, q + 2) = b /\ Byte(c, q + 3) = m
      BY SMT, <2>1, <2>3 DEF Located
    <3>2. Decode(c, q) = DecodeOpcode(c, q, q + 1, 64, r)
      BY <3>1, AfterRex DEF r
    <3>3. /\ q + 1 \in Int /\ q + 3 \in Int /\ (q + 1) + 1 = q + 2 /\ (q + 1) + 2 = q + 3
          /\ (q + 3) + 1 - q = 4
      BY SMT
    <3>4. Decode(c, q) = Instruction(c, q, q + 3, Form(name, RM, 0, v, 0), b, 64, r)
      BY <1>6, <3>1, <3>2, <3>3, Opcodes
    <3> QED
      BY <1>4, <2>1, <2>2, <3>1, <3>3, <3>4
  <2> QED
    BY <1>3, <2>1, <2>2, <2>3 DEF WellRead
<1> QED
  BY <1>2, <1>5, <1>6

-----------------------------------------------------------------------------
(* A few bytes, and others behind them *)

Front1(a, t)          == <<a>> \o t
Front2(a, b, t)       == <<a, b>> \o t
Front3(a, b, d, t)    == <<a, b, d>> \o t
Front4(a, b, d, e, t) == (<<a>> \o <<b, d, e>>) \o t

LEMMA FrontOne ==
    ASSUME NEW a, NEW t, IsSequence(t)
    PROVE  /\ IsSequence(Front1(a, t)) /\ Len(Front1(a, t)) = 1 + Len(t) /\ Front1(a, t)[1] = a
           /\ \A c : \A q \in Int : Located(c, q, Front1(a, t)) =>
                Byte(c, q) = a /\ Located(c, q + 1, t)
<1> DEFINE s == <<a>>
<1>1. IsSequence(s) /\ Len(s) = 1 /\ s[1] = a
  BY InARow
<1>2. \A c : \A q \in Int : Located(c, q, s) => Byte(c, q) = a
  BY LocatedOne
<1> HIDE DEF s
<1>3. 1 \in 1..Len(s)
  BY SMT, <1>1
<1>4. IsSequence(s \o t) /\ Len(s \o t) = 1 + Len(t) /\ (s \o t)[1] = a
  <2>1. /\ IsSequence(s \o t) /\ Len(s \o t) = Len(s) + Len(t)
        /\ \A i \in 1..Len(s) : (s \o t)[i] = s[i]
    BY <1>1, ConcatElements
  <2> QED
    BY <1>1, <1>3, <2>1
<1>5. \A c : \A q \in Int : Located(c, q, s \o t) => Located(c, q, s) /\ Located(c, q + 1, t)
  BY <1>1, LocatedTogether
<1> QED
  BY <1>2, <1>4, <1>5 DEF s, Front1

LEMMA FrontTwo ==
    ASSUME NEW a, NEW b, NEW t, IsSequence(t)
    PROVE  /\ IsSequence(Front2(a, b, t)) /\ Len(Front2(a, b, t)) = 2 + Len(t) /\ Front2(a, b, t)[1] = a
           /\ \A c : \A q \in Int : Located(c, q, Front2(a, b, t)) =>
                Byte(c, q) = a /\ Byte(c, q + 1) = b /\ Located(c, q + 2, t)
<1> DEFINE s == <<a, b>>
<1>1. IsSequence(s) /\ Len(s) = 2 /\ s[1] = a
  BY InARow
<1>2. \A c : \A q \in Int : Located(c, q, s) => Byte(c, q) = a /\ Byte(c, q + 1) = b
  BY LocatedTwo
<1> HIDE DEF s
<1>3. 1 \in 1..Len(s)
  BY SMT, <1>1
<1>4. IsSequence(s \o t) /\ Len(s \o t) = 2 + Len(t) /\ (s \o t)[1] = a
  <2>1. /\ IsSequence(s \o t) /\ Len(s \o t) = Len(s) + Len(t)
        /\ \A i \in 1..Len(s) : (s \o t)[i] = s[i]
    BY <1>1, ConcatElements
  <2> QED
    BY <1>1, <1>3, <2>1
<1>5. \A c : \A q \in Int : Located(c, q, s \o t) => Located(c, q, s) /\ Located(c, q + 2, t)
  BY <1>1, LocatedTogether
<1> QED
  BY <1>2, <1>4, <1>5 DEF s, Front2

LEMMA FrontThree ==
    ASSUME NEW a, NEW b, NEW d, NEW t, IsSequence(t)
    PROVE  /\ IsSequence(Front3(a, b, d, t)) /\ Len(Front3(a, b, d, t)) = 3 + Len(t)
           /\ Front3(a, b, d, t)[1] = a
           /\ \A c : \A q \in Int : Located(c, q, Front3(a, b, d, t)) =>
                Byte(c, q) = a /\ Byte(c, q + 1) = b /\ Byte(c, q + 2) = d /\ Located(c, q + 3, t)
<1> DEFINE s == <<a, b, d>>
<1>1. IsSequence(s) /\ Len(s) = 3 /\ s[1] = a
  BY InARow
<1>2. \A c : \A q \in Int : Located(c, q, s) => Byte(c, q) = a /\ Byte(c, q + 1) = b /\ Byte(c, q + 2) = d
  BY LocatedThree
<1> HIDE DEF s
<1>3. 1 \in 1..Len(s)
  BY SMT, <1>1
<1>4. IsSequence(s \o t) /\ Len(s \o t) = 3 + Len(t) /\ (s \o t)[1] = a
  <2>1. /\ IsSequence(s \o t) /\ Len(s \o t) = Len(s) + Len(t)
        /\ \A i \in 1..Len(s) : (s \o t)[i] = s[i]
    BY <1>1, ConcatElements
  <2> QED
    BY <1>1, <1>3, <2>1
<1>5. \A c : \A q \in Int : Located(c, q, s \o t) => Located(c, q, s) /\ Located(c, q + 3, t)
  BY <1>1, LocatedTogether
<1> QED
  BY <1>2, <1>4, <1>5 DEF s, Front3

(* A prefix, then three bytes. *)
LEMMA FrontFour ==
    ASSUME NEW a, NEW b, NEW d, NEW e, NEW t, IsSequence(t)
    PROVE  /\ IsSequence(Front4(a, b, d, e, t)) /\ Len(Front4(a, b, d, e, t)) = 4 + Len(t)
           /\ Front4(a, b, d, e, t)[1] = a
           /\ \A c : \A q \in Int : Located(c, q, Front4(a, b, d, e, t)) =>
                /\ Byte(c, q) = a /\ Byte(c, q + 1) = b /\ Byte(c, q + 2) = d /\ Byte(c, q + 3) = e
                /\ Located(c, q + 4, t)
<1> DEFINE s == <<a>> \o <<b, d, e>>
<1>1. IsSequence(<<b, d, e>>) /\ Len(<<b, d, e>>) = 3
  BY InARow
<1>2. IsSequence(s) /\ Len(s) = 4 /\ s[1] = a
  BY SMT, <1>1, FrontOne DEF Front1
<1>3. ASSUME NEW c, NEW q \in Int, Located(c, q, s)
      PROVE  Byte(c, q) = a /\ Byte(c, q + 1) = b /\ Byte(c, q + 2) = d /\ Byte(c, q + 3) = e
  <2>1. Byte(c, q) = a /\ Located(c, q + 1, <<b, d, e>>)
    BY <1>1, <1>3, FrontOne DEF Front1
  <2>2. q + 1 \in Int /\ (q + 1) + 1 = q + 2 /\ (q + 1) + 2 = q + 3
    BY SMT
  <2> QED
    BY <2>1, <2>2, LocatedThree
<1> HIDE DEF s
<1>4. 1 \in 1..Len(s)
  BY SMT, <1>2
<1>5. IsSequence(s \o t) /\ Len(s \o t) = 4 + Len(t) /\ (s \o t)[1] = a
  <2>1. /\ IsSequence(s \o t) /\ Len(s \o t) = Len(s) + Len(t)
        /\ \A i \in 1..Len(s) : (s \o t)[i] = s[i]
    BY <1>2, ConcatElements
  <2> QED
    BY <1>2, <1>4, <2>1
<1>6. \A c : \A q \in Int : Located(c, q, s \o t) => Located(c, q, s) /\ Located(c, q + 4, t)
  BY <1>2, LocatedTogether
<1> QED
  BY <1>3, <1>5, <1>6 DEF s, Front4

LEMMA FrontsAre ==
    /\ \A a, t : IsSequence(t) =>
         /\ IsSequence(Front1(a, t)) /\ Len(Front1(a, t)) = 1 + Len(t) /\ Front1(a, t)[1] = a
    /\ \A a, b, t : IsSequence(t) =>
         /\ IsSequence(Front2(a, b, t)) /\ Len(Front2(a, b, t)) = 2 + Len(t) /\ Front2(a, b, t)[1] = a
    /\ \A a, b, d, t : IsSequence(t) =>
         /\ IsSequence(Front3(a, b, d, t)) /\ Len(Front3(a, b, d, t)) = 3 + Len(t)
         /\ Front3(a, b, d, t)[1] = a
    /\ \A a, b, d, e, t : IsSequence(t) =>
         /\ IsSequence(Front4(a, b, d, e, t)) /\ Len(Front4(a, b, d, e, t)) = 4 + Len(t)
         /\ Front4(a, b, d, e, t)[1] = a
<1>1. \A a, t : IsSequence(t) =>
        /\ IsSequence(Front1(a, t)) /\ Len(Front1(a, t)) = 1 + Len(t) /\ Front1(a, t)[1] = a
  BY FrontOne
<1>2. \A a, b, t : IsSequence(t) =>
        /\ IsSequence(Front2(a, b, t)) /\ Len(Front2(a, b, t)) = 2 + Len(t) /\ Front2(a, b, t)[1] = a
  BY FrontTwo
<1>3. \A a, b, d, t : IsSequence(t) =>
        /\ IsSequence(Front3(a, b, d, t)) /\ Len(Front3(a, b, d, t)) = 3 + Len(t)
        /\ Front3(a, b, d, t)[1] = a
  BY FrontThree
<1>4. \A a, b, d, e, t : IsSequence(t) =>
        /\ IsSequence(Front4(a, b, d, e, t)) /\ Len(Front4(a, b, d, e, t)) = 4 + Len(t)
        /\ Front4(a, b, d, e, t)[1] = a
  BY FrontFour
<1> QED
  BY <1>1, <1>2, <1>3, <1>4

LEMMA FrontsLocated ==
    /\ \A a, t, c, q : IsSequence(t) /\ q \in Int /\ Located(c, q, Front1(a, t)) =>
         Byte(c, q) = a /\ Located(c, q + 1, t)
    /\ \A a, b, t, c, q : IsSequence(t) /\ q \in Int /\ Located(c, q, Front2(a, b, t)) =>
         Byte(c, q) = a /\ Byte(c, q + 1) = b /\ Located(c, q + 2, t)
    /\ \A a, b, d, t, c, q : IsSequence(t) /\ q \in Int /\ Located(c, q, Front3(a, b, d, t)) =>
         Byte(c, q) = a /\ Byte(c, q + 1) = b /\ Byte(c, q + 2) = d /\ Located(c, q + 3, t)
    /\ \A a, b, d, e, t, c, q : IsSequence(t) /\ q \in Int /\ Located(c, q, Front4(a, b, d, e, t)) =>
         /\ Byte(c, q) = a /\ Byte(c, q + 1) = b /\ Byte(c, q + 2) = d /\ Byte(c, q + 3) = e
         /\ Located(c, q + 4, t)
<1>1. \A a, t, c, q : IsSequence(t) /\ q \in Int /\ Located(c, q, Front1(a, t)) =>
        Byte(c, q) = a /\ Located(c, q + 1, t)
  BY Zenon, FrontOne
<1>2. \A a, b, t, c, q : IsSequence(t) /\ q \in Int /\ Located(c, q, Front2(a, b, t)) =>
        Byte(c, q) = a /\ Byte(c, q + 1) = b /\ Located(c, q + 2, t)
  BY Zenon, FrontTwo
<1>3. \A a, b, d, t, c, q : IsSequence(t) /\ q \in Int /\ Located(c, q, Front3(a, b, d, t)) =>
        Byte(c, q) = a /\ Byte(c, q + 1) = b /\ Byte(c, q + 2) = d /\ Located(c, q + 3, t)
  BY Zenon, FrontThree
<1>4. \A a, b, d, e, t, c, q : IsSequence(t) /\ q \in Int /\ Located(c, q, Front4(a, b, d, e, t)) =>
        /\ Byte(c, q) = a /\ Byte(c, q + 1) = b /\ Byte(c, q + 2) = d /\ Byte(c, q + 3) = e
        /\ Located(c, q + 4, t)
  <2> SUFFICES ASSUME NEW a, NEW b, NEW d, NEW e, NEW t, NEW c, NEW q, IsSequence(t), q \in Int,
                      Located(c, q, Front4(a, b, d, e, t))
               PROVE  /\ Byte(c, q) = a /\ Byte(c, q + 1) = b /\ Byte(c, q + 2) = d /\ Byte(c, q + 3) = e
                      /\ Located(c, q + 4, t)
    OBVIOUS
  <2> QED
    BY Zenon, FrontFour
<1> QED
  BY Zenon, <1>1, <1>2, <1>3, <1>4

-----------------------------------------------------------------------------
(* The members on one register *)

(* The name of a register, after the byte REX that is r. *)
Called(width, reg, r) == Named8(width, reg, r # 0)

LEMMA CalledByWidth ==
    ASSUME NEW reg, NEW r
    PROVE  /\ Called(64, reg, r) = Reg(64, reg) /\ Called(32, reg, r) = Reg(32, reg)
           /\ Called(16, reg, r) = Reg(16, reg) /\ Called(128, reg, r) = Reg(128, reg)
           /\ r # 0 => Called(8, reg, r) = Reg(8, reg)
           /\ Called(8, reg, 0) = IF reg \in 4..7 THEN Operand("high", 8, reg - 4, 0) ELSE Reg(8, reg)
<1>1. /\ Called(64, reg, r) = Reg(64, reg) /\ Called(32, reg, r) = Reg(32, reg)
      /\ Called(16, reg, r) = Reg(16, reg) /\ Called(128, reg, r) = Reg(128, reg)
  BY SMT DEF Called, Named8
<1>2. r # 0 => Called(8, reg, r) = Reg(8, reg)
  BY SMT DEF Called, Named8, Register8
<1>3. Called(8, reg, 0) = IF reg \in 4..7 THEN Operand("high", 8, reg - 4, 0) ELSE Reg(8, reg)
  BY SMT DEF Called, Named8, Register8
<1> QED
  BY <1>1, <1>2, <1>3

LEMMA TwoRead ==
    ASSUME NEW c, NEW n \in Int, NEW r, NEW reg \in Register, NEW rm \in Register,
           RexOf(r, reg, rm), Byte(c, n) = mod_rm(reg, rm)
    PROVE  /\ \A width : RmField(c, n, width, r) = Called(width, rm, r)
           /\ \A width : RegField(c, n, width, r) = Called(width, reg, r)
           /\ BehindModRM(c, n) = n + 1 /\ Middle(Byte(c, n)) = enc(reg)
<1>1. ASSUME NEW width
      PROVE  /\ RmField(c, n, width, r) = Called(width, rm, r)
             /\ RegField(c, n, width, r) = Called(width, reg, r)
             /\ BehindModRM(c, n) = n + 1 /\ Middle(Byte(c, n)) = enc(reg)
  BY DirectRead DEF Called
<1> QED
  BY <1>1

(* A digit and a register, in a byte ModRM. *)
LEMMA DigitRead ==
    ASSUME NEW c, NEW n \in Int, NEW r, NEW digit \in 0..7, NEW reg \in Register,
           RexOf(r, digit, reg), Byte(c, n) = Digit(digit, reg)
    PROVE  /\ \A width : RmField(c, n, width, r) = Called(width, reg, r)
           /\ BehindModRM(c, n) = n + 1 /\ Middle(Byte(c, n)) = digit
<1>1. digit \in Register /\ enc(digit) = digit /\ Byte(c, n) = mod_rm(digit, reg)
  BY DigitIs
<1>2. /\ \A width : RmField(c, n, width, r) = Called(width, reg, r)
      /\ BehindModRM(c, n) = n + 1 /\ Middle(Byte(c, n)) = enc(digit)
  <2> PICK d : d = digit
    OBVIOUS
  <2>1. d \in Register /\ RexOf(r, d, reg) /\ Byte(c, n) = mod_rm(d, reg)
    BY <1>1
  <2>2. \A width : RmField(c, n, width, r) = Called(width, reg, r)
    BY <2>1, TwoRead
  <2>3. BehindModRM(c, n) = n + 1 /\ Middle(Byte(c, n)) = enc(d)
    BY <2>1, TwoRead
  <2> QED
    BY <2>2, <2>3
<1> QED
  BY <1>1, <1>2

LEMMA GroupOpcode ==
    ASSUME NEW c, NEW q, NEW o \in Int, NEW n, n = o + 1, NEW b \in Groups, Byte(c, o) = b,
           NEW digit \in 0..7, NEW reg \in Register, Byte(c, n) = Digit(digit, reg), NEW width, NEW r,
           Decode(c, q) = DecodeOpcode(c, q, o, width, r), NEW form, Group(b, digit) = form
    PROVE  Decode(c, q) = Instruction(c, q, n, form, b, width, r)
<1>1. b # 15
  BY SMT DEF Groups
<1>2. Middle(Digit(digit, reg)) = digit
  BY SMT, HalvesOfRegisters DEF Digit, Middle
<1> QED
  BY <1>1, <1>2, Opcodes

LEMMA OneRegisterOpcodes ==
    \A name \in DOMAIN OneRegister : \E b, digit :
        /\ OneRegister[name][1] = b /\ OneRegister[name][2] = digit
        /\ b # 15 /\ b \in Groups /\ digit \in 0..7 /\ name # "movsd"
        /\ Group(b, digit) = Form(name, M, 0, 0, 0)
<1>1. /\ OneRegister["dec"] = <<255, 1>> /\ OneRegister["not"] = <<247, 2>>
      /\ OneRegister["neg"] = <<247, 3>> /\ OneRegister["shl"] = <<211, 4>>
      /\ OneRegister["shr"] = <<211, 5>> /\ OneRegister["div"] = <<247, 6>>
      /\ OneRegister["idiv"] = <<247, 7>>
      /\ DOMAIN OneRegister = {"dec", "not", "neg", "shl", "shr", "div", "idiv"}
  BY DEF OneRegister
<1>2. /\ Group(255, 1) = Form("dec", M, 0, 0, 0) /\ Group(247, 2) = Form("not", M, 0, 0, 0)
      /\ Group(247, 3) = Form("neg", M, 0, 0, 0) /\ Group(211, 4) = Form("shl", M, 0, 0, 0)
      /\ Group(211, 5) = Form("shr", M, 0, 0, 0) /\ Group(247, 6) = Form("div", M, 0, 0, 0)
      /\ Group(247, 7) = Form("idiv", M, 0, 0, 0)
  BY SMT DEF Group, OnRm
<1>3. \A b \in {255, 247, 211} : b # 15 /\ b \in Groups
  BY SMT DEF Groups
<1>4. \A d \in 1..7 : d \in 0..7
  BY SMT
<1> DEFINE Right(name) == \E b, digit :
        /\ OneRegister[name][1] = b /\ OneRegister[name][2] = digit
        /\ b # 15 /\ b \in Groups /\ digit \in 0..7 /\ name # "movsd"
        /\ Group(b, digit) = Form(name, M, 0, 0, 0)
<1>5. Right("dec")
  BY <1>1, <1>2, <1>3, <1>4
<1>6. Right("not") /\ Right("neg")
  BY <1>1, <1>2, <1>3, <1>4
<1>7. Right("shl") /\ Right("shr")
  BY <1>1, <1>2, <1>3, <1>4
<1>8. Right("div") /\ Right("idiv")
  BY <1>1, <1>2, <1>3, <1>4
<1> QED
  BY <1>1, <1>5, <1>6, <1>7, <1>8

LEMMA OrdinaryTuples ==
    /\ \A name, a : name # "movsd" => Ordinary(Asm(name, One(Reg(64, a))))
    /\ \A name, n : name # "movsd" => Ordinary(Asm(name, One(Imm(n))))
    /\ \A name, a, b : name # "movsd" => Ordinary(Asm(name, Pair(Reg(64, a), Reg(64, b))))
    /\ \A name, a, b : name # "movsd" => Ordinary(Asm(name, Pair(Reg(32, a), Reg(32, b))))
    /\ \A name, a, n : name # "movsd" => Ordinary(Asm(name, Pair(Reg(64, a), Imm(n))))
    /\ \A name : name # "movsd" => Ordinary(Asm(name, <<>>))
BY OrdinaryOperands DEF One, Pair

LEMMA OrdinaryAnswer ==
    ASSUME NEW c, NEW q, NEW name, NEW operands, NEW length,
           Decode(c, q) = Answer(name, operands, length),
           NEW p, p.asm = Asm(name, operands), Len(p.bytes) = length, Len(p.bytes) \in Nat,
           Ordinary(p.asm)
    PROVE  Meant(c, q, p)
<1>1. Decode(c, q).asm = p.asm /\ Decode(c, q).length = Len(p.bytes)
  BY DEF Answer
<1> QED
  BY <1>1, OrdinaryIsMeant

LEMMA UnaryAreWellRead ==
    ASSUME NEW reg \in Register, NEW p \in Unary(reg)
    PROVE  WellRead(p)
<1>1. PICK name \in DOMAIN OneRegister :
        p = Piece(Asm(name, <<Reg(64, reg)>>),
                  emit_digit_rm(OneRegister[name][1], OneRegister[name][2], reg))
  <2>1. PICK o \in Pick(OneRegister) :
          p = Piece(Asm(o[1], <<Reg(64, reg)>>), emit_digit_rm(o[2][1], o[2][2], reg))
    BY DEF Unary
  <2>2. PICK name \in DOMAIN OneRegister : o = <<name, OneRegister[name]>>
    BY DEF Pick
  <2>3. o[1] = name /\ o[2] = OneRegister[name]
    BY <2>2
  <2> QED
    BY <2>1, <2>3
<1>2. PICK b, digit :
        /\ OneRegister[name][1] = b /\ OneRegister[name][2] = digit
        /\ b # 15 /\ b \in Groups /\ digit \in 0..7 /\ name # "movsd"
        /\ Group(b, digit) = Form(name, M, 0, 0, 0)
  BY OneRegisterOpcodes
<1> DEFINE r == rex(1, digit, reg)
           m == Digit(digit, reg)
<1>3. p.asm = Asm(name, <<Reg(64, reg)>>) /\ p.bytes = <<r, b, m>>
  <2>1. rex(1, rax, reg) = r
    BY <1>2, DigitIs
  <2> QED
    BY <1>1, <1>2, <2>1 DEF Piece, emit_digit_rm
<1>4. RexOf(r, digit, reg) /\ r \in Harmless /\ digit \in Register
  BY <1>2, RexIs, RexIsHarmless, DigitIs
<1>5. /\ \A c : \A q \in Int : Byte(c, q) = r =>
           Decode(c, q) = DecodeOpcode(c, q, q + 1, 64, r)
  BY <1>4, AfterRex
<1>6. IsSequence(<<r, b, m>>) /\ Len(<<r, b, m>>) = 3 /\ <<r, b, m>>[1] = r
  <2> HIDE DEF r, m
  <2> QED
    BY InARow
<1>7. m = Digit(digit, reg)
  OBVIOUS
<1> HIDE DEF r, m
<1>8. ASSUME NEW c, NEW q \in Int, Located(c, q, p.bytes) PROVE Meant(c, q, p)
  <2>1. Byte(c, q) = r /\ Byte(c, q + 1) = b /\ Byte(c, q + 2) = m
    BY <1>3, <1>8, LocatedThree
  <2>2. PICK n \in Int : n = q + 2 /\ n = (q + 1) + 1 /\ q + 1 \in Int /\ n + 1 - q = 3 /\ n >= q
    BY SMT
  <2>3. Byte(c, n) = Digit(digit, reg)
    BY <1>7, <2>1, <2>2
  <2>4. Decode(c, q) = Instruction(c, q, n, Form(name, M, 0, 0, 0), b, 64, r)
    BY <1>2, <1>5, <2>1, <2>2, <2>3, GroupOpcode
  <2>5. Wide(0, 64) = 64
    BY DEF Wide
  <2>6. RmField(c, n, 64, r) = Called(64, reg, r) /\ BehindModRM(c, n) = n + 1
    BY <1>2, <1>4, <2>3, DigitRead
  <2>7. Decode(c, q) = Answer(name, One(Reg(64, reg)), (n + 1) + 0 - q)
    BY <2>4, <2>5, <2>6, CalledByWidth, RmOnly
  <2>8. Len(p.bytes) = (n + 1) + 0 - q /\ Len(p.bytes) \in Nat
    BY SMT, <1>3, <1>6, <2>2
  <2>9. p.asm = Asm(name, One(Reg(64, reg))) /\ Ordinary(p.asm)
    BY <1>2, <1>3, OrdinaryTuples DEF One
  <2> QED
    BY <2>7, <2>8, <2>9, OrdinaryAnswer
<1> QED
  BY <1>3, <1>4, <1>6, <1>8 DEF WellRead

(* Bytes after a rex that is there only if it is needed. *)
RexThen(w, reg, rm, t) == RexIfExt(w, reg, rm) \o t

LEMMA RexOrNot ==
    ASSUME NEW w \in {0, 1}, NEW reg \in Register, NEW rm \in Register, NEW t, IsSequence(t)
    PROVE  \/ RexThen(w, reg, rm, t) = t /\ RexOf(0, reg, rm) /\ reg < 8 /\ rm < 8
           \/ /\ RexThen(w, reg, rm, t) = Front1(rex(w, reg, rm), t)
              /\ ~(reg < 8 /\ rm < 8)
<1> DEFINE x == rex(w, reg, rm)
           b == ext(reg) + ext(rm) > 0
<1>1. RexThen(w, reg, rm, t) = (IF b THEN <<x>> ELSE <<>>) \o t
  BY DEF RexIfExt, RexThen
<1>2. /\ ext(reg) \in 0..1 /\ ext(rm) \in 0..1 /\ (b <=> ~(reg < 8 /\ rm < 8))
      /\ ~b => ext(reg) + ext(rm) = 0
  BY SMT DEF ext, Register
<1>3. ~b => RexOf(0, reg, rm)
  BY <1>2, NoRexIs
<1> HIDE DEF b, x
<1>4. CASE b
  <2>1. RexThen(w, reg, rm, t) = Front1(x, t)
    BY <1>1, <1>4 DEF Front1
  <2> QED
    BY <1>2, <1>4, <2>1 DEF x
<1>5. CASE ~b
  <2>1. RexThen(w, reg, rm, t) = t
    BY <1>1, <1>5, ConcatNothing
  <2> QED
    BY <1>2, <1>3, <1>5, <2>1
<1> QED
  BY <1>4, <1>5

(* Neither a prefix nor a REX. *)
IsOpcode(b) == b \in Harmless /\ b \notin {102, 242} /\ b \notin 64..79

(* The piece p is the bytes t, perhaps after a rex, and then it is meant. *)
AfterAnyRex(reg, rm, t, p) ==
    \A c : \A q \in Int : \A o \in Int : \A x :
        /\ RexOf(x, reg, rm) /\ (x = 0 <=> (reg < 8 /\ rm < 8)) /\ Located(c, o, t) /\ o >= q
        /\ Decode(c, q) = DecodeOpcode(c, q, o, 32, x) /\ Len(p.bytes) = o + Len(t) - q
        /\ Byte(c, o + Len(t)) \in Harmless
        => Meant(c, q, p)

(***************************************************************************)
(* What holds of a piece wherever it is holds of it after a rex, if it     *)
(* holds for the opcodes that the rex leads to.                            *)
(***************************************************************************)
LEMMA RexThenIsWellRead ==
    ASSUME NEW reg \in Register, NEW rm \in Register, NEW t, IsSequence(t), Len(t) > 0,
           IsOpcode(t[1]),
           NEW p, p.bytes = RexThen(0, reg, rm, t),
           AfterAnyRex(reg, rm, t, p)
    PROVE  WellRead(p)
<1> DEFINE r == rex(0, reg, rm)
<1>1. RexOf(r, reg, rm) /\ r \in Harmless /\ r # 0
  BY RexIs, RexIsHarmless
<1>2. \A c : \A q \in Int : Byte(c, q) = r => Decode(c, q) = DecodeOpcode(c, q, q + 1, 32, r)
  BY AfterRex
<1>3. \/ RexThen(0, reg, rm, t) = t /\ RexOf(0, reg, rm) /\ reg < 8 /\ rm < 8
      \/ RexThen(0, reg, rm, t) = Front1(r, t) /\ ~(reg < 8 /\ rm < 8)
  BY RexOrNot
<1> HIDE DEF r
<1>4. Len(t) \in Nat /\ 1 \in 1..Len(t)
  BY SMT, SequenceElements
<1>5. CASE RexThen(0, reg, rm, t) = t /\ RexOf(0, reg, rm) /\ reg < 8 /\ rm < 8
  <2>1. ASSUME NEW c, NEW q \in Int, Located(c, q, p.bytes), Byte(c, q + Len(p.bytes)) \in Harmless
        PROVE  Meant(c, q, p)
    <3>1. Located(c, q, t) /\ p.bytes = t
      BY <1>5, <2>1
    <3>2. q + 1 - 1 = q /\ q >= q /\ Len(t) = q + Len(t) - q
      BY SMT, <1>4
    <3>3. Byte(c, q) = t[1]
      BY <1>4, <3>1, <3>2 DEF Located
    <3>4. Decode(c, q) = DecodeOpcode(c, q, q, 32, 0)
      BY <3>3, AfterNothing DEF IsOpcode
    <3> QED
      BY <1>5, <2>1, <3>1, <3>2, <3>4 DEF AfterAnyRex
  <2> QED
    BY <1>5, <2>1 DEF WellRead, IsOpcode
<1>6. CASE RexThen(0, reg, rm, t) = Front1(r, t) /\ ~(reg < 8 /\ rm < 8)
  <2>1. p.bytes = Front1(r, t)
    BY <1>6
  <2>2. IsSequence(p.bytes) /\ Len(p.bytes) = 1 + Len(t) /\ p.bytes[1] = r
    BY <2>1, FrontOne
  <2>3. ASSUME NEW c, NEW q \in Int, Located(c, q, p.bytes), Byte(c, q + Len(p.bytes)) \in Harmless
        PROVE  Meant(c, q, p)
    <3>0. Located(c, q, Front1(r, t))
      BY <2>1, <2>3
    <3>1. Byte(c, q) = r /\ Located(c, q + 1, t)
      BY <3>0, FrontOne
    <3>2. /\ q + 1 \in Int /\ q + 1 >= q /\ 1 + Len(t) = (q + 1) + Len(t) - q
          /\ q + (1 + Len(t)) = (q + 1) + Len(t)
      BY SMT, <1>4
    <3>3. Decode(c, q) = DecodeOpcode(c, q, q + 1, 32, r)
      BY <1>2, <3>1
    <3> QED
      BY <1>1, <1>6, <2>2, <2>3, <3>1, <3>2, <3>3 DEF AfterAnyRex
  <2>4. Len(p.bytes) > 0
    BY SMT, <1>4, <2>2
  <2> QED
    BY <1>1, <2>2, <2>3, <2>4 DEF WellRead
<1> QED
  BY <1>3, <1>5, <1>6

(* push and pop: a REX only where it is needed. *)
IsStackMember(p, reg, name, b, digit) ==
    /\ reg \in Register /\ name # "movsd" /\ b \in {143, 255} /\ digit \in 0..7
    /\ Group(b, digit) = Form(name, M, 64, 64, 0) /\ p.asm = Asm(name, <<Reg(64, reg)>>)
    /\ p.bytes = RexIfExt(0, rax, reg) \o <<b, Digit(digit, reg)>>

LEMMA StackMembersAreWellRead ==
    ASSUME NEW p, NEW reg, NEW name, NEW b, NEW digit, IsStackMember(p, reg, name, b, digit)
    PROVE  WellRead(p)
<1> SUFFICES ASSUME reg \in Register, name # "movsd", b \in {143, 255}, digit \in 0..7,
                    Group(b, digit) = Form(name, M, 64, 64, 0), p.asm = Asm(name, <<Reg(64, reg)>>),
                    p.bytes = RexIfExt(0, rax, reg) \o <<b, Digit(digit, reg)>>
             PROVE  WellRead(p)
  BY DEF IsStackMember
<1> DEFINE m == Digit(digit, reg)
           t == <<b, m>>
<1>1. b # 15 /\ b \in Groups /\ IsOpcode(b)
  BY SMT DEF Groups, Harmless, SibOfR12, IsOpcode
<1>2. p.bytes = RexThen(0, digit, reg, t) /\ digit \in Register
  <2>1. rex(0, rax, reg) = rex(0, digit, reg) /\ ext(rax) = ext(digit) /\ digit \in Register
    BY DigitIs
  <2> QED
    BY <2>1 DEF RexIfExt, RexThen
<1>3. IsSequence(t) /\ Len(t) = 2 /\ t[1] = b
  <2> HIDE DEF m
  <2> QED
    BY InARow
<1>4. Wide(64, 32) = 64
  BY DEF Wide
<1>5. ASSUME NEW c, NEW q \in Int, NEW o \in Int, NEW x, RexOf(x, digit, reg), Located(c, o, t),
             o >= q, Decode(c, q) = DecodeOpcode(c, q, o, 32, x), Len(p.bytes) = o + Len(t) - q
      PROVE  Meant(c, q, p)
  <2>2. PICK n \in Int : n = o + 1 /\ n + 1 - q = o + 2 - q /\ n >= q
    BY SMT, <1>5
  <2>1. Byte(c, o) = b /\ Byte(c, n) = Digit(digit, reg)
    BY <1>5, <2>2, LocatedTwo
  <2>4. Decode(c, q) = Instruction(c, q, n, Form(name, M, 64, 64, 0), b, 32, x)
    BY <1>1, <1>5, <2>1, <2>2, GroupOpcode
  <2>5. Len(p.bytes) = n + 1 - q
    BY <1>3, <1>5, <2>2
  <2> HIDE DEF t, m
  <2>6. RmField(c, n, 64, x) = Called(64, reg, x) /\ BehindModRM(c, n) = n + 1
    BY <1>5, <2>1, DigitRead
  <2>7. Decode(c, q) = Answer(name, One(Reg(64, reg)), (n + 1) + 0 - q)
    BY <1>4, <2>4, <2>6, CalledByWidth, RmOnly
  <2>8. Len(p.bytes) = (n + 1) + 0 - q /\ Len(p.bytes) \in Nat
    BY SMT, <2>2, <2>5
  <2>9. p.asm = Asm(name, One(Reg(64, reg)))
    BY DEF One
  <2>10. Ordinary(p.asm)
    BY <2>9, OrdinaryTuples
  <2> QED
    BY <2>7, <2>8, <2>9, <2>10, OrdinaryAnswer
<1> HIDE DEF t, m
<1>6. Len(t) > 0
  BY SMT, <1>3
<1>7. AfterAnyRex(digit, reg, t, p)
  BY <1>5 DEF AfterAnyRex
<1>8. IsOpcode(t[1])
  BY <1>1, <1>3
<1> QED
  BY Zenon, <1>2, <1>3, <1>6, <1>7, <1>8, RexThenIsWellRead

LEMMA PushAndPopAreWellRead ==
    ASSUME NEW reg \in Register
    PROVE  WellRead(push(reg)) /\ WellRead(pop(reg))
<1>1. WellRead(push(reg))
  <2>1. PICK b, digit, name : b = 255 /\ digit = 6 /\ name = "push"
    OBVIOUS
  <2>2. /\ Group(b, digit) = Form(name, M, 64, 64, 0) /\ name # "movsd"
        /\ b \in {143, 255} /\ digit \in 0..7
    BY SMT, <2>1 DEF Group
  <2>3. /\ push(reg).asm = Asm(name, <<Reg(64, reg)>>)
        /\ push(reg).bytes = RexIfExt(0, rax, reg) \o <<b, Digit(digit, reg)>>
    BY <2>1 DEF push, Piece
  <2>4. IsStackMember(push(reg), reg, name, b, digit)
    BY <2>2, <2>3 DEF IsStackMember
  <2> QED
    BY <2>4, StackMembersAreWellRead
<1>2. WellRead(pop(reg))
  <2>1. PICK b, digit, name : b = 143 /\ digit = 0 /\ name = "pop"
    OBVIOUS
  <2>2. /\ Group(b, digit) = Form(name, M, 64, 64, 0) /\ name # "movsd"
        /\ b \in {143, 255} /\ digit \in 0..7
    BY SMT, <2>1 DEF Group
  <2>3. /\ pop(reg).asm = Asm(name, <<Reg(64, reg)>>)
        /\ pop(reg).bytes = RexIfExt(0, rax, reg) \o <<b, Digit(digit, reg)>>
    BY <2>1 DEF pop, Piece
  <2>4. IsStackMember(pop(reg), reg, name, b, digit)
    BY <2>2, <2>3 DEF IsStackMember
  <2> QED
    BY <2>4, StackMembersAreWellRead
<1> QED
  BY <1>1, <1>2

LEMMA SetccOpcodes ==
    \A name \in DOMAIN Setcc :
        /\ name # "movsd" /\ name # "movzx"
        /\ TwoByte(Setcc[name]) = Form(name, M, 0, 8, 0)
<1>1. /\ DOMAIN Setcc = {"sete", "setne", "setl", "setle", "setg", "setge",
                         "setb", "setbe", "seta", "setae"}
      /\ Setcc["sete"] = 148 /\ Setcc["setne"] = 149 /\ Setcc["setl"] = 156
      /\ Setcc["setle"] = 158 /\ Setcc["setg"] = 159 /\ Setcc["setge"] = 157
      /\ Setcc["setb"] = 146 /\ Setcc["setbe"] = 150 /\ Setcc["seta"] = 151
      /\ Setcc["setae"] = 147
  BY SMT DEF Setcc
<1>2. /\ TwoByte(148) = Form("sete", M, 0, 8, 0) /\ TwoByte(149) = Form("setne", M, 0, 8, 0)
      /\ TwoByte(156) = Form("setl", M, 0, 8, 0) /\ TwoByte(158) = Form("setle", M, 0, 8, 0)
      /\ TwoByte(159) = Form("setg", M, 0, 8, 0)
  BY SMT DEF TwoByte, Sets
<1>3. /\ TwoByte(157) = Form("setge", M, 0, 8, 0) /\ TwoByte(146) = Form("setb", M, 0, 8, 0)
      /\ TwoByte(150) = Form("setbe", M, 0, 8, 0) /\ TwoByte(151) = Form("seta", M, 0, 8, 0)
      /\ TwoByte(147) = Form("setae", M, 0, 8, 0)
  BY SMT DEF TwoByte, Sets
<1> QED
  BY SMT, <1>1, <1>2, <1>3

(* Without a REX only the first four registers have their low byte. *)
LEMMA SetccAreWellRead ==
    ASSUME NEW reg \in Register, NEW p \in set_cc(reg)
    PROVE  WellRead(p)
<1>1. PICK name \in DOMAIN Setcc :
        p = Piece(Asm(name, <<Reg(8, reg)>>), <<15, Setcc[name], Digit(0, reg)>>)
  <2>1. PICK o \in Pick(Setcc) : p = Piece(Asm(o[1], <<Reg(8, reg)>>), <<15, o[2], Digit(0, reg)>>)
    BY DEF set_cc
  <2>2. PICK name \in DOMAIN Setcc : o = <<name, Setcc[name]>>
    BY DEF Pick
  <2>3. o[1] = name /\ o[2] = Setcc[name]
    BY <2>2
  <2> QED
    BY <2>1, <2>3
<1>2. PICK b : b = Setcc[name] /\ TwoByte(b) = Form(name, M, 0, 8, 0)
  BY SetccOpcodes
<1> DEFINE m == Digit(0, reg)
           low == enc(reg)
<1>3. p.asm = Asm(name, One(Reg(8, reg))) /\ p.bytes = <<15, b, m>>
  BY <1>1, <1>2 DEF Piece, One
<1>4. low \in Register /\ m = Digit(0, low) /\ RexOf(0, 0, low) /\ 0 \in 0..7 /\ low \in 0..7
  <2>1. enc(reg) \in 0..7 /\ ext(enc(reg)) = 0 /\ enc(enc(reg)) = enc(reg) /\ ext(0) = 0
    BY SMT DEF Register, enc, ext
  <2>2. RexOf(0, 0, low)
    BY SMT, <2>1, NoRexIs
  <2>3. low \in Register /\ 0 \in 0..7
    BY SMT, <2>1 DEF Register
  <2> QED
    BY <2>1, <2>2, <2>3 DEF Digit
<1>5. Called(8, low, 0) = Reg(8, reg) <=> reg < 4
  <2>1. Called(8, low, 0) = IF low \in 4..7 THEN Operand("high", 8, low - 4, 0) ELSE Reg(8, low)
    BY CalledByWidth
  <2>2. low \in 4..7 \/ reg >= 8 <=> ~(reg < 4)
    BY SMT DEF enc, Register
  <2>3. low = reg <=> reg < 8
    BY SMT DEF enc, Register
  <2>4. Operand("high", 8, low - 4, 0) # Reg(8, reg) /\ (Reg(8, low) = Reg(8, reg) => low = reg)
    BY DEF Reg, Operand
  <2>5. reg < 4 => low = reg /\ low \notin 4..7
    BY SMT DEF enc, Register
  <2> QED
    BY SMT, <1>4, <2>1, <2>2, <2>3, <2>4, <2>5
<1>6. IsSequence(<<15, b, m>>) /\ Len(<<15, b, m>>) = 3 /\ <<15, b, m>>[1] = 15
  <2> HIDE DEF m
  <2> QED
    BY InARow
<1>7. name # "movsd" /\ name # "movzx"
  BY SetccOpcodes
<1>8. (IsWrongByte(p) <=> reg >= 4) /\ ~BaseIsR12(p) /\ ~MovesFourBytes(p) /\ ~GoesTheOtherWay(p)
  <2>1. /\ p.asm.name = name /\ DOMAIN p.asm.operands = {1} /\ p.asm.operands[1].kind = "register"
        /\ p.asm.operands[1].width = 8 /\ p.asm.operands[1].num = reg
    BY SMT, <1>3 DEF Asm, One, Reg, Operand
  <2>2. ~BaseIsR12(p) /\ ~MovesFourBytes(p) /\ ~GoesTheOtherWay(p)
    BY <1>7, <2>1 DEF BaseIsR12, MovesFourBytes, GoesTheOtherWay
  <2>3. IsWrongByte(p) <=> reg >= 4
    BY <1>7, <2>1 DEF IsWrongByte
  <2> QED
    BY <2>2, <2>3
<1> HIDE DEF m, low
<1>9. ASSUME NEW c, NEW q \in Int, Located(c, q, p.bytes) PROVE Meant(c, q, p)
  <2>1. Byte(c, q) = 15 /\ Byte(c, q + 1) = b /\ Byte(c, q + 2) = m
    BY <1>3, <1>9, LocatedThree
  <2>2. PICK n \in Int : n = q + 2 /\ (n + 1) + 0 - q = 3
    BY SMT
  <2>3. Decode(c, q) = DecodeOpcode(c, q, q, 32, 0)
    BY SMT, <2>1, AfterNothing
  <2>4. Decode(c, q) = Instruction(c, q, n, Form(name, M, 0, 8, 0), b, 32, 0)
    BY <1>2, <2>1, <2>2, <2>3, Opcodes
  <2>5. RmField(c, n, 8, 0) = Called(8, low, 0) /\ BehindModRM(c, n) = n + 1
    BY <1>4, <2>1, <2>2, DigitRead
  <2>6. Wide(8, 32) = 8
    BY DEF Wide
  <2>7. Decode(c, q) = Answer(name, One(Called(8, low, 0)), 3)
    BY <2>2, <2>4, <2>5, <2>6, RmOnly
  <2>8. Decode(c, q).length = 3 /\ Decode(c, q).asm = Asm(name, One(Called(8, low, 0)))
    BY <2>7 DEF Answer
  <2>9. Decode(c, q).asm = p.asm <=> Called(8, low, 0) = Reg(8, reg)
    BY SMT, <1>3, <2>8 DEF Asm, One
  <2> QED
    BY SMT, <1>3, <1>5, <1>6, <1>8, <2>8, <2>9 DEF Meant, Register
<1>10. 15 \in Harmless
  BY SMT DEF Harmless, SibOfR12
<1> QED
  BY SMT, <1>3, <1>6, <1>9, <1>10 DEF WellRead

LEMMA MoveOf32BitsIsWellRead ==
    ASSUME NEW dst \in Register, NEW src \in Register
    PROVE  WellRead(mov_reg_reg32(dst, src))
<1> DEFINE p == mov_reg_reg32(dst, src)
           m == mod_rm(src, dst)
           t == <<137, m>>
<1>1. p.asm = Asm("mov", Pair(Reg(32, dst), Reg(32, src))) /\ p.bytes = RexThen(0, src, dst, t)
  BY DEF mov_reg_reg32, Piece, RexThen, Pair
<1>2. /\ 137 # 15 /\ 137 \notin Groups /\ IsOpcode(137)
      /\ OneByte(137) = Form("mov", MR, 0, 0, 0) /\ "mov" # "movsd"
  BY SMT DEF Groups, OneByte, ToRm, IsOpcode, Harmless, SibOfR12
<1>3. IsSequence(t) /\ Len(t) = 2 /\ t[1] = 137
  <2> HIDE DEF m
  <2> QED
    BY InARow
<1>4. Wide(0, 32) = 32
  BY DEF Wide
<1> HIDE DEF p
<1>5. ASSUME NEW c, NEW q \in Int, NEW o \in Int, NEW x, RexOf(x, src, dst), Located(c, o, t),
             o >= q, Decode(c, q) = DecodeOpcode(c, q, o, 32, x), Len(p.bytes) = o + Len(t) - q
      PROVE  Meant(c, q, p)
  <2>1. PICK n \in Int : n = o + 1 /\ n + 1 - q = o + 2 - q /\ n >= q
    BY SMT, <1>5
  <2>2. Byte(c, o) = 137 /\ Byte(c, n) = mod_rm(src, dst)
    BY <1>5, <2>1, LocatedTwo
  <2>3. Decode(c, q) = Instruction(c, q, n, Form("mov", MR, 0, 0, 0), 137, 32, x)
    BY <1>2, <1>5, <2>1, <2>2, Opcodes
  <2>4. /\ RmField(c, n, 32, x) = Called(32, dst, x) /\ RegField(c, n, 32, x) = Called(32, src, x)
        /\ BehindModRM(c, n) = n + 1
    <3>1. RexOf(x, src, dst) /\ Byte(c, n) = mod_rm(src, dst)
      BY <1>5, <2>2
    <3>2. /\ \A width : RmField(c, n, width, x) = Called(width, dst, x)
          /\ \A width : RegField(c, n, width, x) = Called(width, src, x)
          /\ BehindModRM(c, n) = n + 1
      BY <3>1, TwoRead
    <3> QED
      BY <3>2
  <2>5. Decode(c, q) = Answer("mov", Pair(Reg(32, dst), Reg(32, src)), (n + 1) + 0 - q)
    BY <1>4, <2>3, <2>4, CalledByWidth, RmThenReg
  <2>6. Len(p.bytes) = (n + 1) + 0 - q /\ Len(p.bytes) \in Nat
    <3> HIDE DEF t
    <3> QED
      BY SMT, <1>3, <1>5, <2>1
  <2>7. Ordinary(p.asm)
    BY <1>1, <1>2, OrdinaryTuples
  <2> QED
    BY <1>1, <2>5, <2>6, <2>7, OrdinaryAnswer
<1>6. AfterAnyRex(src, dst, t, p)
  BY <1>5 DEF AfterAnyRex
<1> HIDE DEF t, m
<1>7. Len(t) > 0
  BY SMT, <1>3
<1>8. IsOpcode(t[1])
  BY <1>2, <1>3
<1> QED
  BY Zenon, <1>1, <1>3, <1>6, <1>7, <1>8, RexThenIsWellRead DEF p

(* The opcode is that of a load: the reg field, src, is the destination. *)
LEMMA MovsdIsWellRead ==
    ASSUME NEW dst \in Register, NEW src \in Register
    PROVE  WellRead(movsd_reg_reg(dst, src))
<1> DEFINE p == movsd_reg_reg(dst, src)
           r == rex(1, src, dst)
           m == mod_rm(src, dst)
           t == <<15, 16, m>>
<1>1. /\ p.asm = Asm("movsd", Pair(Reg(128, dst), Reg(128, src)))
      /\ p.bytes = (<<242>> \o RexIfExt(1, src, dst)) \o t
  BY DEF movsd_reg_reg, Piece, Pair
<1>2. TwoByte(16) = Form("movsd", RM, 128, 128, 0)
  BY SMT DEF TwoByte
<1>3. IsSequence(t) /\ Len(t) = 3 /\ t[1] = 15
  <2> HIDE DEF m
  <2> QED
    BY InARow
<1>4. RexOf(r, src, dst) /\ r \in 64..79 /\ 242 \in Harmless /\ 242 \in {102, 242} /\ 242 # 102
  <2>1. RexOf(r, src, dst) /\ r \in 64..79
    BY RexIs
  <2>2. 242 \in Harmless
    BY SMT DEF Harmless, SibOfR12
  <2>3. 242 # 102
    BY SMT
  <2> QED
    BY <2>1, <2>2, <2>3
<1>5. \A c : \A q \in Int : Byte(c, q) = 242 /\ Byte(c, q + 1) = r =>
        Decode(c, q) = DecodeOpcode(c, q, q + 2, 64, r)
  BY <1>4, AfterPrefixAndRex
<1>6. \/ RexIfExt(1, src, dst) = <<>> /\ RexOf(0, src, dst)
      \/ RexIfExt(1, src, dst) = <<r>>
  <2>1. ext(src) \in 0..1 /\ ext(dst) \in 0..1
    BY HalvesOfRegisters
  <2>2. ~(ext(src) + ext(dst) > 0) => ext(src) + ext(dst) = 0
    BY SMT, <2>1
  <2> QED
    BY <2>1, <2>2, NoRexIs DEF RexIfExt
<1> HIDE DEF p, r, m
<1>7. ASSUME NEW c, NEW q \in Int, NEW o \in Int, NEW x, NEW width, RexOf(x, src, dst), Located(c, o, t),
             o >= q, Decode(c, q) = DecodeOpcode(c, q, o, width, x), Len(p.bytes) = o + 3 - q
      PROVE  Meant(c, q, p)
  <2>1. PICK n \in Int : n = o + 2 /\ n + 1 - q = o + 3 - q /\ n >= q
    BY SMT, <1>7
  <2>2. Byte(c, o) = 15 /\ Byte(c, o + 1) = 16 /\ Byte(c, n) = m
    BY <1>7, <2>1, LocatedThree
  <2> HIDE DEF t
  <2>3. Decode(c, q) = Instruction(c, q, n, Form("movsd", RM, 128, 128, 0), 16, width, x)
    BY <1>2, <1>7, <2>1, <2>2, Opcodes
  <2>4. /\ RmField(c, n, 128, x) = Reg(128, dst) /\ RegField(c, n, 128, x) = Reg(128, src)
        /\ BehindModRM(c, n) = n + 1
    <3>1. RexOf(x, src, dst) /\ Byte(c, n) = mod_rm(src, dst)
      BY <1>7, <2>2 DEF m
    <3>2. /\ \A w : RmField(c, n, w, x) = Called(w, dst, x)
          /\ \A w : RegField(c, n, w, x) = Called(w, src, x)
          /\ BehindModRM(c, n) = n + 1
      BY <3>1, TwoRead
    <3> QED
      BY <3>2, CalledByWidth
  <2>5. Wide(128, width) = 128
    BY DEF Wide
  <2>6. Decode(c, q) = Answer("movsd", Pair(Reg(128, src), Reg(128, dst)), (n + 1) + 0 - q)
    BY <2>3, <2>4, <2>5, RegThenRm
  <2>7. /\ Decode(c, q).length = (n + 1) + 0 - q
        /\ Decode(c, q).asm = Asm("movsd", Pair(Reg(128, src), Reg(128, dst)))
    BY <2>6 DEF Answer
  <2>8. Decode(c, q).length = Len(p.bytes) + 0
    BY SMT, <1>7, <2>1, <2>7
  <2>9. /\ p.asm.name = "movsd" /\ DOMAIN p.asm.operands = {1, 2}
        /\ p.asm.operands[1] = Reg(128, dst) /\ p.asm.operands[2] = Reg(128, src)
    BY SMT, <1>1 DEF Asm, Pair
  <2>10. \A x1 : Reg(128, x1).kind = "register" /\ Reg(128, x1).width = 128 /\ Reg(128, x1).num = x1
    BY DEF Reg, Operand
  <2>11. ~BaseIsR12(p) /\ ~MovesFourBytes(p) /\ ~IsWrongByte(p)
    BY SMT, <2>9, <2>10 DEF BaseIsR12, MovesFourBytes, IsWrongByte
  <2>12. GoesTheOtherWay(p) <=> dst # src
    BY <2>9, <2>10 DEF GoesTheOtherWay
  <2>13. Decode(c, q).asm = p.asm <=> dst = src
    <3>1. Asm("movsd", Pair(Reg(128, src), Reg(128, dst))) = Asm("movsd", Pair(Reg(128, dst), Reg(128, src)))
            => Reg(128, dst) = Reg(128, src)
      BY SMT DEF Asm, Pair
    <3> QED
      BY <1>1, <2>7, <2>10, <3>1
  <2> QED
    BY <2>8, <2>11, <2>12, <2>13 DEF Meant
<1>8. CASE RexIfExt(1, src, dst) = <<>> /\ RexOf(0, src, dst)
  <2>1. p.bytes = Front1(242, t)
    <3>1. IsSequence(<<242>>)
      BY InARow
    <3>2. <<242>> \o <<>> = <<242>>
      BY <3>1, ConcatNothing
    <3> HIDE DEF t
    <3> QED
      BY <1>1, <1>8, <3>2 DEF Front1
  <2> HIDE DEF t
  <2>2. IsSequence(p.bytes) /\ Len(p.bytes) = 1 + Len(t) /\ p.bytes[1] = 242
    <3>1. IsSequence(t)
      BY <1>3
    <3>2. IsSequence(p.bytes)
      BY <3>1, <2>1, FrontsAre
    <3>3. Len(p.bytes) = 1 + Len(t)
      BY <3>1, <2>1, FrontsAre
    <3>4. p.bytes[1] = 242
      BY <3>1, <2>1, FrontsAre
    <3> QED
      BY <3>2, <3>3, <3>4
  <2>3. ASSUME NEW c, NEW q \in Int, Located(c, q, p.bytes) PROVE Meant(c, q, p)
    <3>1. Located(c, q, Front1(242, t))
      BY <2>1, <2>3
    <3>2. Byte(c, q) = 242 /\ Located(c, q + 1, t)
      BY <1>3, <3>1, FrontsLocated
    <3>3. PICK o \in Int : o = q + 1 /\ o >= q /\ Len(p.bytes) = o + 3 - q
      BY SMT, <1>3, <2>2
    <3>4. Byte(c, q + 1) = 15
      BY <3>2, LocatedThree DEF t
    <3>5. Decode(c, q) = DecodeOpcode(c, q, o, 32, 0)
      BY SMT, <3>2, <3>3, <3>4, AfterPrefix
    <3>6. Located(c, o, t)
      BY <3>2, <3>3
    <3> QED
      BY <1>7, <1>8, <3>3, <3>5, <3>6
  <2>4. Len(p.bytes) > 0
    BY SMT, <1>3, <2>2
  <2>5. WellRead(p)
    BY <1>4, <2>2, <2>3, <2>4 DEF WellRead
  <2> QED
    BY <2>5 DEF p
<1>9. CASE RexIfExt(1, src, dst) = <<r>>
  <2>1. p.bytes = Front2(242, r, t)
    <3>1. <<242>> \o <<r>> = <<242, r>>
      BY Zenon, OneAndOne
    <3> HIDE DEF t
    <3> QED
      BY <1>1, <1>9, <3>1 DEF Front2
  <2> HIDE DEF t
  <2>2. IsSequence(p.bytes) /\ Len(p.bytes) = 2 + Len(t) /\ p.bytes[1] = 242
    <3>1. IsSequence(t)
      BY <1>3
    <3>2. IsSequence(p.bytes)
      BY <3>1, <2>1, FrontsAre
    <3>3. Len(p.bytes) = 2 + Len(t)
      BY <3>1, <2>1, FrontsAre
    <3>4. p.bytes[1] = 242
      BY <3>1, <2>1, FrontsAre
    <3> QED
      BY <3>2, <3>3, <3>4
  <2>3. ASSUME NEW c, NEW q \in Int, Located(c, q, p.bytes) PROVE Meant(c, q, p)
    <3>1. Located(c, q, Front2(242, r, t))
      BY <2>1, <2>3
    <3>2. Byte(c, q) = 242 /\ Byte(c, q + 1) = r /\ Located(c, q + 2, t)
      BY <1>3, <3>1, FrontsLocated
    <3>3. PICK o \in Int : o = q + 2 /\ o >= q /\ Len(p.bytes) = o + 3 - q
      BY SMT, <1>3, <2>2
    <3>5. Decode(c, q) = DecodeOpcode(c, q, o, 64, r)
      BY <1>5, <3>2, <3>3
    <3>6. Located(c, o, t)
      BY <3>2, <3>3
    <3> QED
      BY <1>4, <1>7, <3>3, <3>5, <3>6
  <2>4. Len(p.bytes) > 0
    BY SMT, <1>3, <2>2
  <2>5. WellRead(p)
    BY <1>4, <2>2, <2>3, <2>4 DEF WellRead
  <2> QED
    BY <2>5 DEF p
<1> QED
  BY <1>6, <1>8, <1>9 DEF p

-----------------------------------------------------------------------------
(* The members with an immediate *)

(* Where the bytes t are, a number of so many bytes is read as imm. *)
Says(t, size, imm) ==
    /\ IsSequence(t) /\ Len(t) = size /\ size \in Nat
    /\ \A c : \A q \in Int : Located(c, q, t) => Signed(c, q, size) = imm

LEMMA FourBytesSay ==
    ASSUME NEW imm \in Int32
    PROVE  Says(write_imm32(imm), 4, imm)
<1>1. IsSequence(write_imm32(imm)) /\ Len(write_imm32(imm)) = 4
  BY ImmIs
<1>2. ASSUME NEW c, NEW q \in Int, Located(c, q, write_imm32(imm))
      PROVE  Signed(c, q, 4) = imm
  <2>1. NumberAt(c, q, imm)
    BY <1>2, NumberLocated
  <2> QED
    BY SMT, <2>1, SignedIs
<1> QED
  BY <1>1, <1>2 DEF Says

LEMMA OneByteSays == \A imm : Says(write_imm8(imm), 1, imm)
<1> SUFFICES ASSUME NEW imm PROVE Says(write_imm8(imm), 1, imm)
  OBVIOUS
<1>1. IsSequence(<<imm>>) /\ Len(<<imm>>) = 1
  BY InARow
<1>2. \A c : \A q \in Int : Located(c, q, <<imm>>) => Signed(c, q, 1) = imm
  BY LocatedOne DEF Signed
<1> QED
  BY <1>1, <1>2 DEF Says, write_imm8

LEMMA GroupWithImmIsWellRead ==
    ASSUME NEW b \in Groups, NEW digit \in 0..7, NEW reg \in Register, NEW name, name # "movsd",
           NEW t, NEW size, NEW imm, Says(t, size, imm),
           Group(b, digit) = Form(name, MI, 0, 0, size),
           NEW p, p.asm = Asm(name, Pair(Reg(64, reg), Imm(imm))),
           p.bytes = Front3(rex(1, digit, reg), b, Digit(digit, reg), t)
    PROVE  WellRead(p)
<1> DEFINE r == rex(1, digit, reg)
           m == Digit(digit, reg)
<1>1. IsSequence(t) /\ Len(t) = size /\ size \in Nat
  BY DEF Says
<1>2. RexOf(r, digit, reg) /\ r \in Harmless /\ digit \in Register
  BY RexIs, RexIsHarmless, DigitIs
<1>3. \A c : \A q \in Int : Byte(c, q) = r => Decode(c, q) = DecodeOpcode(c, q, q + 1, 64, r)
  BY <1>2, AfterRex
<1>4. m = Digit(digit, reg) /\ p.bytes = Front3(r, b, m, t)
  OBVIOUS
<1> HIDE DEF r, m
<1>5. IsSequence(t)
  BY <1>1
<1>6. IsSequence(p.bytes) /\ Len(p.bytes) = 3 + Len(t) /\ p.bytes[1] = r
  BY <1>4, <1>5, FrontsAre
<1>7. ASSUME NEW c, NEW q \in Int, Located(c, q, p.bytes) PROVE Meant(c, q, p)
  <2>1. Located(c, q, Front3(r, b, m, t))
    BY <1>4, <1>7
  <2>2. Byte(c, q) = r /\ Byte(c, q + 1) = b /\ Byte(c, q + 2) = m /\ Located(c, q + 3, t)
    BY <1>5, <2>1, FrontsLocated
  <2>3. PICK n \in Int : n = q + 2 /\ n = (q + 1) + 1 /\ q + 1 \in Int
    BY SMT
  <2>4. Byte(c, n) = Digit(digit, reg)
    BY <1>4, <2>2, <2>3
  <2>5. Decode(c, q) = Instruction(c, q, n, Form(name, MI, 0, 0, size), b, 64, r)
    BY <1>3, <2>2, <2>3, <2>4, GroupOpcode
  <2>6. RmField(c, n, 64, r) = Called(64, reg, r) /\ BehindModRM(c, n) = n + 1
    BY <1>2, <2>4, DigitRead
  <2>7. Wide(0, 64) = 64
    BY DEF Wide
  <2>8. PICK k \in Int : k = n + 1 /\ k = q + 3
    BY SMT, <2>3
  <2>9. Signed(c, k, size) = imm
    BY <2>2, <2>8 DEF Says
  <2>10. Decode(c, q) = Answer(name, Pair(Reg(64, reg), Imm(imm)), k + size - q)
    BY <2>5, <2>6, <2>7, <2>8, <2>9, CalledByWidth, RmThenImm
  <2>11. Len(p.bytes) = k + size - q /\ Len(p.bytes) \in Nat
    BY SMT, <1>1, <1>6, <2>8
  <2>12. Ordinary(p.asm)
    BY OrdinaryTuples
  <2> QED
    BY <2>10, <2>11, <2>12, OrdinaryAnswer
<1>8. Len(p.bytes) > 0
  BY SMT, <1>1, <1>6
<1> QED
  BY <1>2, <1>6, <1>7, <1>8 DEF WellRead

LEMMA RegImmAreWellRead ==
    ASSUME NEW reg \in Register, NEW imm \in Int32, NEW p \in RegImm(reg, imm)
    PROVE  WellRead(p)
<1>1. PICK name \in DOMAIN Imm32 :
        p = Piece(Asm(name, <<Reg(64, reg), Imm(imm)>>), emit_digit_rm_imm32(Imm32[name], reg, imm))
  <2>1. PICK o \in Pick(Imm32) :
          p = Piece(Asm(o[1], <<Reg(64, reg), Imm(imm)>>), emit_digit_rm_imm32(o[2], reg, imm))
    BY DEF RegImm
  <2>2. PICK name \in DOMAIN Imm32 : o = <<name, Imm32[name]>>
    BY DEF Pick
  <2>3. o[1] = name /\ o[2] = Imm32[name]
    BY <2>2
  <2> QED
    BY <2>1, <2>3
<1>2. PICK digit \in 0..7 :
        digit = Imm32[name] /\ Group(129, digit) = Form(name, MI, 0, 0, 4) /\ name # "movsd"
  <2>1. /\ DOMAIN Imm32 = {"add", "sub", "cmp"}
        /\ Imm32["add"] = 0 /\ Imm32["sub"] = 5 /\ Imm32["cmp"] = 7
    BY DEF Imm32
  <2>2. /\ Group(129, 0) = Form("add", MI, 0, 0, 4) /\ Group(129, 5) = Form("sub", MI, 0, 0, 4)
        /\ Group(129, 7) = Form("cmp", MI, 0, 0, 4)
    BY SMT DEF Group, OnRm
  <2> QED
    BY SMT, <2>1, <2>2
<1>3. /\ p.asm = Asm(name, Pair(Reg(64, reg), Imm(imm)))
      /\ p.bytes = Front3(rex(1, digit, reg), 129, Digit(digit, reg), write_imm32(imm))
  <2>1. rex(1, rax, reg) = rex(1, digit, reg)
    BY DigitIs
  <2> QED
    BY <1>1, <1>2, <2>1 DEF Piece, Pair, emit_digit_rm_imm32, Front3
<1>4. PICK b \in Groups :
        /\ Group(b, digit) = Form(name, MI, 0, 0, 4)
        /\ p.bytes = Front3(rex(1, digit, reg), b, Digit(digit, reg), write_imm32(imm))
  <2>1. 129 \in Groups
    BY DEF Groups
  <2> QED
    BY <1>2, <1>3, <2>1
<1>5. Says(write_imm32(imm), 4, imm)
  BY FourBytesSay
<1>6. p.asm = Asm(name, Pair(Reg(64, reg), Imm(imm))) /\ name # "movsd"
  BY <1>2, <1>3
<1> QED
  BY <1>4, <1>5, <1>6, GroupWithImmIsWellRead

LEMMA ShiftsAreWellRead ==
    ASSUME NEW reg \in Register, NEW imm, NEW p \in ShiftBy(reg, imm)
    PROVE  WellRead(p)
<1>1. PICK name \in DOMAIN Imm8 :
        p = Piece(Asm(name, <<Reg(64, reg), Imm(imm)>>), emit_digit_rm_imm8(Imm8[name], reg, imm))
  <2>1. PICK o \in Pick(Imm8) :
          p = Piece(Asm(o[1], <<Reg(64, reg), Imm(imm)>>), emit_digit_rm_imm8(o[2], reg, imm))
    BY DEF ShiftBy
  <2>2. PICK name \in DOMAIN Imm8 : o = <<name, Imm8[name]>>
    BY DEF Pick
  <2>3. o[1] = name /\ o[2] = Imm8[name]
    BY <2>2
  <2> QED
    BY <2>1, <2>3
<1>2. PICK digit \in 0..7 :
        digit = Imm8[name] /\ Group(193, digit) = Form(name, MI, 0, 0, 1) /\ name # "movsd"
  <2>1. /\ DOMAIN Imm8 = {"shl", "shr", "sar"}
        /\ Imm8["shl"] = 4 /\ Imm8["shr"] = 5 /\ Imm8["sar"] = 7
    BY DEF Imm8
  <2>2. /\ Group(193, 4) = Form("shl", MI, 0, 0, 1) /\ Group(193, 5) = Form("shr", MI, 0, 0, 1)
        /\ Group(193, 7) = Form("sar", MI, 0, 0, 1)
    BY SMT DEF Group, OnRm
  <2> QED
    BY SMT, <2>1, <2>2
<1>3. /\ p.asm = Asm(name, Pair(Reg(64, reg), Imm(imm)))
      /\ p.bytes = Front3(rex(1, digit, reg), 193, Digit(digit, reg), write_imm8(imm))
  <2>1. rex(1, rax, reg) = rex(1, digit, reg)
    BY DigitIs
  <2> QED
    BY <1>1, <1>2, <2>1 DEF Piece, Pair, emit_digit_rm_imm8, Front3
<1>4. PICK b \in Groups :
        /\ Group(b, digit) = Form(name, MI, 0, 0, 1)
        /\ p.bytes = Front3(rex(1, digit, reg), b, Digit(digit, reg), write_imm8(imm))
  <2>1. 193 \in Groups
    BY DEF Groups
  <2> QED
    BY <1>2, <1>3, <2>1
<1>5. Says(write_imm8(imm), 1, imm)
  BY OneByteSays
<1>6. p.asm = Asm(name, Pair(Reg(64, reg), Imm(imm))) /\ name # "movsd"
  BY <1>2, <1>3
<1> QED
  BY <1>4, <1>5, <1>6, GroupWithImmIsWellRead

LEMMA EightBytesSay ==
    ASSUME NEW imm \in Int32
    PROVE  Says(write_imm64(imm), 8, imm)
<1> DEFINE s == write_imm32(imm)
           t == [k \in 1..4 |-> IF imm < 0 THEN 255 ELSE 0]
<1>1. IsSequence(s) /\ Len(s) = 4
  BY ImmIs
<1>2. IsSequence(t) /\ Len(t) = 4
  <2>1. t = [k \in 1..4 |-> t[k]] /\ 4 \in Nat /\ DOMAIN t = 1..4
    BY SMT
  <2>2. IsSequence(t)
    <3> HIDE DEF t
    <3> QED
      BY <2>1, FunctionIsSequence
  <2>3. Len(t) = 4
    BY SMT
  <2> QED
    BY <2>2, <2>3
<1>3. write_imm64(imm) = s \o t
  BY DEF write_imm64
<1> HIDE DEF s, t
<1>4. IsSequence(s \o t) /\ Len(s \o t) = 8
  <2>1. IsSequence(s) /\ IsSequence(t)
    BY <1>1, <1>2
  <2>2. IsSequence(s \o t) /\ Len(s \o t) = Len(s) + Len(t)
    BY <2>1, ConcatLengths
  <2> QED
    BY SMT, <1>1, <1>2, <2>2
<1>5. ASSUME NEW c, NEW q \in Int, Located(c, q, s \o t) PROVE Signed(c, q, 8) = imm
  <2>1. Located(c, q, s)
    BY <1>1, <1>2, <1>5, LocatedTogether
  <2>2. NumberAt(c, q, imm)
    BY <2>1, NumberLocated DEF s
  <2> QED
    BY SMT, <2>2, SignedIs
<1> QED
  BY SMT, <1>3, <1>4, <1>5 DEF Says

LEMMA MoveOfImmediateIsWellRead ==
    ASSUME NEW reg \in Register, NEW imm \in Int32
    PROVE  WellRead(mov_reg_imm64(reg, imm))
<1> DEFINE p == mov_reg_imm64(reg, imm)
           r == rex(1, rax, reg)
           b == 184 + enc(reg)
           t == write_imm64(imm)
<1>1. p.asm = Asm("mov", Pair(Reg(64, reg), Imm(imm))) /\ p.bytes = Front2(r, b, t)
  BY DEF mov_reg_imm64, Piece, Pair, Front2
<1>2. Says(t, 8, imm)
  BY EightBytesSay
<1>3. IsSequence(t)
  BY <1>2 DEF Says
<1>4. rax \in Register /\ enc(reg) \in 0..7 /\ reg = enc(reg) + 8 * ext(reg)
  <2>1. rax \in Register
    BY SMT DEF Register, rax
  <2> QED
    BY <2>1, HalvesOfRegisters
<1>5. RexOf(r, rax, reg) /\ r \in Harmless
  BY <1>4, RexIs, RexIsHarmless
<1>6. \A c : \A q \in Int : Byte(c, q) = r => Decode(c, q) = DecodeOpcode(c, q, q + 1, 64, r)
  BY <1>4, AfterRex
<1>7. b # 15 /\ b \notin Groups /\ OneByte(b) = Form("mov", OI, 0, 0, 8) /\ Bottom(b) = enc(reg)
  <2>1. b \in 184..191 /\ b # 15 /\ b \notin Groups
    BY SMT, <1>4 DEF Groups
  <2>2. Bottom(b) = enc(reg)
    BY SMT, <1>4 DEF Bottom
  <2> HIDE DEF b
  <2>3. OneByte(b) = Form("mov", OI, 0, 0, 8)
    BY SMT, <2>1 DEF OneByte
  <2> QED
    BY <2>1, <2>2, <2>3
<1> HIDE DEF p, r, b, t
<1>8. IsSequence(p.bytes) /\ Len(p.bytes) = 2 + Len(t) /\ p.bytes[1] = r
  BY <1>1, <1>3, FrontsAre
<1>9. Bottom(b) + 8 * Bit(r, 1) = reg
  BY <1>4, <1>5, <1>7 DEF RexOf
<1>10. ASSUME NEW c, NEW q \in Int, Located(c, q, p.bytes) PROVE Meant(c, q, p)
  <2>1. Located(c, q, Front2(r, b, t))
    BY <1>1, <1>10
  <2>2. Byte(c, q) = r /\ Byte(c, q + 1) = b /\ Located(c, q + 2, t)
    BY <1>3, <2>1, FrontsLocated
  <2>3. PICK n \in Int : n = q + 2 /\ n = (q + 1) + 1 /\ q + 1 \in Int
    BY SMT
  <2>4. Decode(c, q) = Instruction(c, q, n, Form("mov", OI, 0, 0, 8), b, 64, r)
    BY <1>6, <1>7, <2>2, <2>3, Opcodes
  <2>5. Signed(c, n, 8) = imm
    BY <1>2, <2>2, <2>3 DEF Says
  <2>6. Decode(c, q) = Answer("mov", Pair(Reg(64, reg), Imm(imm)), n + 8 - q)
    BY <1>9, <2>4, <2>5, LowThenImm
  <2>7. Len(p.bytes) = n + 8 - q /\ Len(p.bytes) \in Nat
    BY SMT, <1>2, <1>8, <2>3 DEF Says
  <2>8. Ordinary(p.asm)
    BY <1>1, OrdinaryTuples
  <2> QED
    BY <1>1, <2>6, <2>7, <2>8, OrdinaryAnswer
<1>11. Len(p.bytes) > 0
  BY SMT, <1>2, <1>8 DEF Says
<1>12. WellRead(p)
  BY <1>5, <1>8, <1>10, <1>11 DEF WellRead
<1> QED
  BY <1>12 DEF p

-----------------------------------------------------------------------------
(* Jumps, and what has no operands *)

LEMMA JumpOpcodes ==
    \A name \in DOMAIN Jumps :
        /\ name # "movsd"
        /\ \/ \E b : /\ Jumps[name] = <<b>> /\ IsOpcode(b) /\ b # 15 /\ b \notin Groups
                     /\ OneByte(b) = Form(name, I, 0, 0, 4)
           \/ \E b : Jumps[name] = <<15, b>> /\ TwoByte(b) = Form(name, I, 0, 0, 4)
<1>1. /\ DOMAIN Jumps = {"jmp", "je", "jne", "jl", "jge"} /\ Jumps["jmp"] = <<233>>
      /\ Jumps["je"] = <<15, 132>> /\ Jumps["jne"] = <<15, 133>>
      /\ Jumps["jl"] = <<15, 140>> /\ Jumps["jge"] = <<15, 141>>
  BY DEF Jumps
<1>2. OneByte(233) = Form("jmp", I, 0, 0, 4) /\ IsOpcode(233) /\ 233 # 15 /\ 233 \notin Groups
  BY SMT DEF OneByte, Relative, IsOpcode, Harmless, SibOfR12, Groups
<1>3. /\ TwoByte(132) = Form("je", I, 0, 0, 4) /\ TwoByte(133) = Form("jne", I, 0, 0, 4)
      /\ TwoByte(140) = Form("jl", I, 0, 0, 4) /\ TwoByte(141) = Form("jge", I, 0, 0, 4)
  BY SMT DEF TwoByte, Relative
<1>4. \A name \in DOMAIN Jumps : name # "movsd"
  BY <1>1
<1>5. /\ \E b : /\ Jumps["jmp"] = <<b>> /\ IsOpcode(b) /\ b # 15 /\ b \notin Groups
                /\ OneByte(b) = Form("jmp", I, 0, 0, 4)
      /\ \E b : Jumps["je"] = <<15, b>> /\ TwoByte(b) = Form("je", I, 0, 0, 4)
      /\ \E b : Jumps["jne"] = <<15, b>> /\ TwoByte(b) = Form("jne", I, 0, 0, 4)
  BY <1>1, <1>2, <1>3
<1>6. /\ \E b : Jumps["jl"] = <<15, b>> /\ TwoByte(b) = Form("jl", I, 0, 0, 4)
      /\ \E b : Jumps["jge"] = <<15, b>> /\ TwoByte(b) = Form("jge", I, 0, 0, 4)
  BY <1>1, <1>3
<1> QED
  BY <1>1, <1>4, <1>5, <1>6

LEMMA JumpsAreWellRead ==
    ASSUME NEW disp \in Int32, NEW p \in Jump(disp)
    PROVE  WellRead(p)
<1> DEFINE t == write_imm32(disp)
<1>1. PICK name \in DOMAIN Jumps : p = Piece(Asm(name, <<Imm(disp)>>), emit_jcc(Jumps[name], disp))
  <2>1. PICK o \in Pick(Jumps) : p = Piece(Asm(o[1], <<Imm(disp)>>), emit_jcc(o[2], disp))
    BY DEF Jump
  <2>2. PICK name \in DOMAIN Jumps : o = <<name, Jumps[name]>>
    BY DEF Pick
  <2>3. o[1] = name /\ o[2] = Jumps[name]
    BY <2>2
  <2> QED
    BY <2>1, <2>3
<1>2. p.asm = Asm(name, One(Imm(disp))) /\ p.bytes = Jumps[name] \o t
  BY <1>1 DEF Piece, One, emit_jcc
<1>3. Says(t, 4, disp)
  BY FourBytesSay
<1>4. IsSequence(t)
  BY ImmIs
<1>9. Len(t) = 4
  BY ImmIs
<1> HIDE DEF t
<1>5. name # "movsd"
  BY JumpOpcodes
<1>6. ASSUME NEW c, NEW q \in Int, NEW n \in Int, NEW b, Located(c, n, t), Len(p.bytes) = n + 4 - q, n >= q,
             Decode(c, q) = Instruction(c, q, n, Form(name, I, 0, 0, 4), b, 32, 0)
      PROVE  Meant(c, q, p)
  <2>1. Signed(c, n, 4) = disp
    BY <1>3, <1>6 DEF Says
  <2>2. Decode(c, q) = Answer(name, One(Imm(disp)), n + 4 - q)
    BY <1>6, <2>1, ImmOnly
  <2>3. Len(p.bytes) \in Nat
    BY SMT, <1>6
  <2>4. Ordinary(p.asm)
    BY <1>2, <1>5, OrdinaryTuples
  <2> QED
    BY <1>2, <1>6, <2>2, <2>3, <2>4, OrdinaryAnswer
<1>7. ASSUME NEW b, Jumps[name] = <<b>>, IsOpcode(b), b # 15, b \notin Groups,
             OneByte(b) = Form(name, I, 0, 0, 4)
      PROVE  WellRead(p)
  <2>1. p.bytes = Front1(b, t)
    BY <1>2, <1>7 DEF Front1
  <2>2. IsSequence(p.bytes) /\ Len(p.bytes) = 1 + Len(t) /\ p.bytes[1] = b
    BY <1>4, <2>1, FrontsAre
  <2>3. ASSUME NEW c, NEW q \in Int, Located(c, q, p.bytes) PROVE Meant(c, q, p)
    <3>1. Located(c, q, Front1(b, t))
      BY <2>1, <2>3
    <3>2. Byte(c, q) = b /\ Located(c, q + 1, t)
      BY <1>4, <3>1, FrontsLocated
    <3>3. PICK n \in Int : n = q + 1 /\ n >= q /\ Len(p.bytes) = n + 4 - q
      BY SMT, <1>9, <2>2
    <3>4. Decode(c, q) = DecodeOpcode(c, q, q, 32, 0)
      BY <1>7, <3>2, AfterNothing DEF IsOpcode
    <3>5. Decode(c, q) = Instruction(c, q, n, Form(name, I, 0, 0, 4), b, 32, 0)
      BY <1>7, <3>2, <3>3, <3>4, Opcodes
    <3>6. Located(c, n, t)
      BY <3>2, <3>3
    <3> QED
      BY <1>6, <3>3, <3>5, <3>6
  <2>4. Len(p.bytes) > 0
    BY SMT, <1>9, <2>2
  <2> QED
    BY <1>7, <2>2, <2>3, <2>4 DEF WellRead, IsOpcode
<1>8. ASSUME NEW b, Jumps[name] = <<15, b>>, TwoByte(b) = Form(name, I, 0, 0, 4)
      PROVE  WellRead(p)
  <2>1. p.bytes = Front2(15, b, t)
    BY <1>2, <1>8 DEF Front2
  <2>2. IsSequence(p.bytes) /\ Len(p.bytes) = 2 + Len(t) /\ p.bytes[1] = 15
    BY <1>4, <2>1, FrontsAre
  <2>3. ASSUME NEW c, NEW q \in Int, Located(c, q, p.bytes) PROVE Meant(c, q, p)
    <3>1. Located(c, q, Front2(15, b, t))
      BY <2>1, <2>3
    <3>2. Byte(c, q) = 15 /\ Byte(c, q + 1) = b /\ Located(c, q + 2, t)
      BY <1>4, <3>1, FrontsLocated
    <3>3. PICK n \in Int : n = q + 2 /\ n >= q /\ Len(p.bytes) = n + 4 - q
      BY SMT, <1>9, <2>2
    <3>4. Decode(c, q) = DecodeOpcode(c, q, q, 32, 0)
      BY SMT, <3>2, AfterNothing
    <3>5. Decode(c, q) = Instruction(c, q, n, Form(name, I, 0, 0, 4), b, 32, 0)
      BY <1>8, <3>2, <3>3, <3>4, Opcodes
    <3>6. Located(c, n, t)
      BY <3>2, <3>3
    <3> QED
      BY <1>6, <3>3, <3>5, <3>6
  <2>4. Len(p.bytes) > 0 /\ 15 \in Harmless
    BY SMT, <1>9, <2>2 DEF Harmless, SibOfR12
  <2> QED
    BY <2>2, <2>3, <2>4 DEF WellRead
<1> QED
  BY <1>7, <1>8, JumpOpcodes

(* One opcode alone. *)
LEMMA BareIsWellRead ==
    ASSUME NEW name, name # "movsd", NEW b, IsOpcode(b), b # 15, b \notin Groups,
           OneByte(b) = Form(name, ZO, 0, 0, 0),
           NEW p, p.asm = Asm(name, <<>>), p.bytes = <<b>>
    PROVE  WellRead(p)
<1>1. IsSequence(<<b>>) /\ Len(<<b>>) = 1 /\ <<b>>[1] = b
  BY InARow
<1>2. ASSUME NEW c, NEW q \in Int, Located(c, q, p.bytes) PROVE Meant(c, q, p)
  <2>1. Byte(c, q) = b
    BY <1>2, LocatedOne
  <2>2. Decode(c, q) = DecodeOpcode(c, q, q, 32, 0)
    BY <2>1, AfterNothing DEF IsOpcode
  <2>3. PICK n \in Int : n = q + 1 /\ n + 0 - q = 1
    BY SMT
  <2>4. Decode(c, q) = Instruction(c, q, n, Form(name, ZO, 0, 0, 0), b, 32, 0)
    BY <2>1, <2>2, <2>3, Opcodes
  <2>5. Decode(c, q) = Answer(name, <<>>, n + 0 - q)
    BY <2>4, NoOperands
  <2>6. Len(p.bytes) = n + 0 - q /\ Len(p.bytes) \in Nat
    BY <1>1, <2>3
  <2>7. Ordinary(p.asm)
    BY OrdinaryTuples
  <2> QED
    BY <2>5, <2>6, <2>7, OrdinaryAnswer
<1>3. Len(p.bytes) > 0
  BY SMT, <1>1
<1> QED
  BY <1>1, <1>2, <1>3 DEF WellRead, IsOpcode

LEMMA BareAreWellRead == WellRead(ret) /\ WellRead(cqo) /\ WellRead(nop)
<1>1. /\ IsOpcode(195) /\ 195 # 15 /\ 195 \notin Groups /\ OneByte(195) = Form("ret", ZO, 0, 0, 0)
      /\ IsOpcode(144) /\ 144 # 15 /\ 144 \notin Groups /\ OneByte(144) = Form("nop", ZO, 0, 0, 0)
  BY SMT DEF IsOpcode, Harmless, SibOfR12, Groups, OneByte, Bare
<1>2. WellRead(ret)
  <2>1. ret.asm = Asm("ret", <<>>) /\ ret.bytes = <<195>> /\ "ret" # "movsd"
    BY DEF ret, Piece
  <2> QED
    BY <1>1, <2>1, BareIsWellRead
<1>3. WellRead(nop)
  <2>1. nop.asm = Asm("nop", <<>>) /\ nop.bytes = <<144>> /\ "nop" # "movsd"
    BY DEF nop, Piece
  <2> QED
    BY <1>1, <2>1, BareIsWellRead
<1>4. WellRead(cqo)
  <2>1. cqo.asm = Asm("cqo", <<>>) /\ cqo.bytes = <<rex(1, 0, 0), 153>> /\ 0 \in Register
    BY SMT DEF cqo, Piece, rex, ext, Register
  <2>2. rex(1, 0, 0) \in Harmless
    BY <2>1, RexIsHarmless
  <2> DEFINE r == rex(1, 0, 0)
  <2>3. \A c : \A q \in Int : Byte(c, q) = r => Decode(c, q) = DecodeOpcode(c, q, q + 1, 64, r)
    BY <2>1, AfterRex
  <2>4. 153 # 15 /\ 153 \notin Groups /\ OneByte(153) = Form("cqo", ZO, 0, 0, 0)
    BY SMT DEF Groups, OneByte, Bare
  <2> HIDE DEF r
  <2>5. IsSequence(<<r, 153>>) /\ Len(<<r, 153>>) = 2 /\ <<r, 153>>[1] = r
    BY InARow
  <2>6. cqo.bytes = <<r, 153>>
    BY <2>1 DEF r
  <2>7. ASSUME NEW c, NEW q \in Int, Located(c, q, cqo.bytes) PROVE Meant(c, q, cqo)
    <3>1. Byte(c, q) = r /\ Byte(c, q + 1) = 153
      BY <2>6, <2>7, LocatedTwo
    <3>2. PICK n \in Int : n = q + 2 /\ n = (q + 1) + 1 /\ n + 0 - q = 2 /\ q + 1 \in Int
      BY SMT
    <3>3. Decode(c, q) = Instruction(c, q, n, Form("cqo", ZO, 0, 0, 0), 153, 64, r)
      BY <2>3, <2>4, <3>1, <3>2, Opcodes
    <3>4. Decode(c, q) = Answer("cqo", <<>>, n + 0 - q)
      BY <3>3, NoOperands
    <3>5. Len(cqo.bytes) = n + 0 - q /\ Len(cqo.bytes) \in Nat
      BY <2>5, <2>6, <3>2
    <3>6. Ordinary(cqo.asm)
      BY <2>1, OrdinaryTuples
    <3> QED
      BY <2>1, <3>4, <3>5, <3>6, OrdinaryAnswer
  <2>8. Len(cqo.bytes) > 0
    BY SMT, <2>5, <2>6
  <2> QED
    BY <2>2, <2>5, <2>6, <2>7, <2>8 DEF WellRead, r
<1> QED
  BY <1>2, <1>3, <1>4

LEMMA CallIsWellRead ==
    WellRead(Piece(Asm("call", <<Reg(64, rax)>>), <<255, 208>>))
<1> DEFINE p == Piece(Asm("call", <<Reg(64, rax)>>), <<255, 208>>)
           m == Digit(2, rax)
<1>1. p.asm = Asm("call", One(Reg(64, rax))) /\ p.bytes = <<255, m>>
  BY SMT DEF Piece, One, Digit, enc, rax
<1>2. RexOf(0, 2, rax) /\ rax \in Register /\ 2 \in 0..7 /\ 2 \in Register
  BY SMT, NoRexIs DEF Register, ext, rax
<1>3. IsOpcode(255) /\ 255 \in Groups /\ Group(255, 2) = Form("call", M, 64, 64, 0)
  BY SMT DEF IsOpcode, Harmless, SibOfR12, Groups, Group
<1> HIDE DEF m, p
<1>4. IsSequence(<<255, m>>) /\ Len(<<255, m>>) = 2 /\ <<255, m>>[1] = 255
  BY InARow
<1>5. ASSUME NEW c, NEW q \in Int, Located(c, q, p.bytes) PROVE Meant(c, q, p)
  <2>1. Byte(c, q) = 255 /\ Byte(c, q + 1) = m
    BY <1>1, <1>5, LocatedTwo
  <2>2. PICK n \in Int : n = q + 1 /\ (n + 1) + 0 - q = 2
    BY SMT
  <2>3. Byte(c, n) = Digit(2, rax)
    BY <2>1, <2>2 DEF m
  <2>4. Decode(c, q) = DecodeOpcode(c, q, q, 32, 0)
    BY <1>3, <2>1, AfterNothing DEF IsOpcode
  <2>5. Decode(c, q) = Instruction(c, q, n, Form("call", M, 64, 64, 0), 255, 32, 0)
    BY <1>2, <1>3, <2>1, <2>2, <2>3, <2>4, GroupOpcode
  <2>6. RmField(c, n, 64, 0) = Called(64, rax, 0) /\ BehindModRM(c, n) = n + 1
    BY <1>2, <2>3, DigitRead
  <2>7. Wide(64, 32) = 64
    BY DEF Wide
  <2>8. Decode(c, q) = Answer("call", One(Reg(64, rax)), (n + 1) + 0 - q)
    BY <2>5, <2>6, <2>7, CalledByWidth, RmOnly
  <2>9. Len(p.bytes) = (n + 1) + 0 - q /\ Len(p.bytes) \in Nat
    BY <1>1, <1>4, <2>2
  <2>10. Ordinary(p.asm)
    BY <1>1, OrdinaryTuples
  <2> QED
    BY <1>1, <2>8, <2>9, <2>10, OrdinaryAnswer
<1>6. Len(p.bytes) > 0
  BY SMT, <1>1, <1>4
<1>7. WellRead(p)
  BY <1>1, <1>3, <1>4, <1>5, <1>6 DEF WellRead, IsOpcode
<1> QED
  BY <1>7 DEF p

-----------------------------------------------------------------------------
(* The members on memory *)

(* The operands of a load, or of a store. *)
InOrder(load, a, b) == IF load THEN Pair(a, b) ELSE Pair(b, a)

FormOf(load, name, a, b) == IF load THEN Form(name, RM, a, b, 0) ELSE Form(name, MR, a, b, 0)

LEMMA OrderedTuples ==
    \A load, a, b :
        /\ DOMAIN InOrder(load, a, b) = {1, 2}
        /\ InOrder(load, a, b)[IF load THEN 1 ELSE 2] = a
        /\ InOrder(load, a, b)[IF load THEN 2 ELSE 1] = b
BY SMT DEF InOrder, Pair

LEMMA OrderedIsOne ==
    ASSUME NEW load, NEW a, NEW b, NEW x, NEW y, InOrder(load, a, b) = InOrder(load, x, y)
    PROVE  a = x /\ b = y
BY SMT DEF InOrder, Pair

(* Which of the four kinds an access to memory is of. *)
LEMMA KindsOfAccesses ==
    ASSUME NEW p, NEW load \in BOOLEAN, NEW name \in {"mov", "movzx", "movsx"},
           NEW rw, NEW reg, NEW mw, NEW base, NEW o,
           p.asm = Asm(name, InOrder(load, Reg(rw, reg), Mem(mw, base, o)))
    PROVE  /\ BaseIsR12(p) <=> base = r12
           /\ MovesFourBytes(p) <=> mw = 32
           /\ IsWrongByte(p) <=> rw = 8 /\ name # "movzx" /\ reg \in 4..7 /\ reg < 8 /\ base < 8
           /\ ~GoesTheOtherWay(p)
<1> DEFINE ops == InOrder(load, Reg(rw, reg), Mem(mw, base, o))
           i == IF load THEN 1 ELSE 2
           j == IF load THEN 2 ELSE 1
<1>1. p.asm.name = name /\ p.asm.operands = ops
  BY DEF Asm
<1>2. DOMAIN ops = {1, 2} /\ ops[i] = Reg(rw, reg) /\ ops[j] = Mem(mw, base, o)
  BY OrderedTuples
<1>3. {1, 2} = {i, j} /\ i # j
  BY SMT
<1>4. /\ Reg(rw, reg).kind = "register" /\ Reg(rw, reg).width = rw /\ Reg(rw, reg).num = reg
      /\ Mem(mw, base, o).kind = "memory" /\ Mem(mw, base, o).width = mw /\ Mem(mw, base, o).num = base
  BY DEF Reg, Mem, Operand
<1>5. DOMAIN Setcc = {"sete", "setne", "setl", "setle", "setg", "setge", "setb", "setbe", "seta", "setae"}
  BY DEF Setcc
<1>6. name # "movsd" /\ name \notin DOMAIN Setcc
  BY <1>5
<1> HIDE DEF ops, i, j
<1>7. DOMAIN ops = {i, j}
  BY <1>2, <1>3
<1>8. BaseIsR12(p) <=> base = r12
  BY <1>1, <1>2, <1>4, <1>7 DEF BaseIsR12
<1>9. MovesFourBytes(p) <=> mw = 32
  BY <1>1, <1>2, <1>4, <1>7 DEF MovesFourBytes
<1>10. ~GoesTheOtherWay(p)
  BY <1>1, <1>6 DEF GoesTheOtherWay
<1>11. IsWrongByte(p) <=> rw = 8 /\ name # "movzx" /\ reg \in 4..7 /\ reg < 8 /\ base < 8
  <2>1. IsWrongByte(p) <=>
          \E k \in {i, j} : /\ ops[k].kind = "register" /\ ops[k].width = 8 /\ name # "movzx"
                            /\ ops[k].num \in 4..7 /\ \A l \in {i, j} : ops[l].num < 8
    BY <1>1, <1>6, <1>7 DEF IsWrongByte
  <2>2. (\A l \in {i, j} : ops[l].num < 8) <=> reg < 8 /\ base < 8
    BY <1>2, <1>4
  <2> QED
    BY <1>2, <1>4, <2>1, <2>2
<1> QED
  BY <1>8, <1>9, <1>10, <1>11

LEMMA OrderedOperands ==
    ASSUME NEW c, NEW p, NEW m, NEW load \in BOOLEAN, NEW name, NEW a, NEW b, NEW opcode, NEW width, NEW r
    PROVE  Instruction(c, p, m, FormOf(load, name, a, b), opcode, width, r)
             = Answer(name, InOrder(load, RegField(c, m, Wide(a, width), r), RmField(c, m, Wide(b, width), r)),
                      BehindModRM(c, m) + 0 - p)
<1>1. CASE load = TRUE
  BY <1>1, RegThenRm DEF FormOf, InOrder
<1>2. CASE load = FALSE
  BY <1>2, RmThenReg DEF FormOf, InOrder
<1> QED
  BY <1>1, <1>2

LEMMA AddressOfOthers ==
    \A c, m, reg, base, o, r : AddressAt(c, m, reg, base, o, r) /\ base # r12 =>
        /\ \A width : RmField(c, m, width, r) = Mem(width, base, o)
        /\ BehindModRM(c, m) = m + Len(Address(reg, base, o))
BY AddressRead

LEMMA AddressOfR12 ==
    \A c, m, reg, o, r : AddressAt(c, m, reg, r12, o, r) /\ Byte(c, m + 5) \in 0..255 =>
        /\ \A width : RmField(c, m, width, r) = Mem(width, r12, o) => Byte(c, m + 5) \in SibOfR12
        /\ BehindModRM(c, m) = m + 6
BY AddressMisread

LEMMA RegOfAddress ==
    \A c, m, reg, base, o, r : AddressAt(c, m, reg, base, o, r) =>
        /\ Middle(Byte(c, m)) = enc(reg)
        /\ \A width : RegField(c, m, width, r) = Called(width, reg, r)
<1> SUFFICES ASSUME NEW c, NEW m, NEW reg, NEW base, NEW o, NEW r, AddressAt(c, m, reg, base, o, r)
    PROVE   /\ Middle(Byte(c, m)) = enc(reg)
            /\ \A width : RegField(c, m, width, r) = Called(width, reg, r)
  BY Zenon
<1>1. /\ Middle(Byte(c, m)) = enc(reg) /\ enc(reg) \in 0..7 /\ reg = enc(reg) + 8 * ext(reg)
      /\ RexOf(r, reg, base)
  <2>1. /\ enc(reg) \in 0..7 /\ enc(base) \in 0..7 /\ reg = enc(reg) + 8 * ext(reg)
        /\ RexOf(r, reg, base)
    BY HalvesOfRegisters DEF AddressAt
  <2>2. Byte(c, m) = 64 * 2 + 8 * enc(reg) + enc(base)
    BY AddressIs DEF AddressAt
  <2> QED
    BY <2>1, <2>2, FieldsOfModRM
<1>2. \A width : RegField(c, m, width, r) = Called(width, reg, r)
  BY <1>1 DEF RegField, Called, RexOf
<1> QED
  BY <1>1, <1>2

(***************************************************************************)
(* The bytes lead to an address at which an instruction of the form has    *)
(* its byte ModRM.  The REX is there always, or where it is needed.        *)
(***************************************************************************)
Leads(bytes, reg, base, rest, form, width, always) ==
    /\ IsSequence(bytes) /\ Len(bytes) > 0 /\ bytes[1] \in Harmless
    /\ \A c : \A q \in Int : Located(c, q, bytes) =>
         \E n \in Int : \E opcode, r :
            /\ Located(c, n, rest) /\ RexOf(r, reg, base)
            /\ r # 0 <=> always \/ ~(reg < 8 /\ base < 8)
            /\ Decode(c, q) = Instruction(c, q, n, form, opcode, width, r)
            /\ Len(bytes) = (n - q) + Len(rest)

LEMMA AccessIsWellRead ==
    ASSUME NEW p, NEW load \in BOOLEAN, NEW name \in {"mov", "movzx", "movsx"},
           NEW rw \in {8, 16, 64}, NEW reg \in Register, NEW mw \in {8, 16, 64}, NEW base \in Register,
           NEW o \in Int32, NEW a, NEW b, NEW width, NEW always \in BOOLEAN,
           p.asm = Asm(name, InOrder(load, Reg(rw, reg), Mem(mw, base, o))),
           Leads(p.bytes, reg, base, Address(reg, base, o), FormOf(load, name, a, b), width, always),
           Wide(a, width) = rw, Wide(b, width) = mw,
           rw = 8 => name = "mov" /\ ~always
    PROVE  WellRead(p)
<1>1. /\ BaseIsR12(p) <=> base = r12
      /\ ~MovesFourBytes(p) /\ ~GoesTheOtherWay(p)
      /\ IsWrongByte(p) <=> rw = 8 /\ name # "movzx" /\ reg \in 4..7 /\ reg < 8 /\ base < 8
  <2>1. mw # 32
    BY SMT
  <2> QED
    BY <2>1, KindsOfAccesses
<1>2. ASSUME NEW c, NEW q \in Int, Located(c, q, p.bytes), Byte(c, q + Len(p.bytes)) \in Harmless
      PROVE  Meant(c, q, p)
  <2> DEFINE addr == Address(reg, base, o)
  <2>1. PICK n \in Int : \E opcode, r :
            /\ Located(c, n, addr) /\ RexOf(r, reg, base)
            /\ r # 0 <=> always \/ ~(reg < 8 /\ base < 8)
            /\ Decode(c, q) = Instruction(c, q, n, FormOf(load, name, a, b), opcode, width, r)
            /\ Len(p.bytes) = (n - q) + Len(addr)
    BY <1>2 DEF Leads
  <2>2. PICK opcode, r :
            /\ Located(c, n, addr) /\ RexOf(r, reg, base)
            /\ r # 0 <=> always \/ ~(reg < 8 /\ base < 8)
            /\ Decode(c, q) = Instruction(c, q, n, FormOf(load, name, a, b), opcode, width, r)
            /\ Len(p.bytes) = (n - q) + Len(addr)
    BY <2>1
  <2> DEFINE rd == RegField(c, n, rw, r)
             rm == RmField(c, n, mw, r)
  <2>3. Decode(c, q) = Answer(name, InOrder(load, rd, rm), BehindModRM(c, n) + 0 - q)
    <3>1. Instruction(c, q, n, FormOf(load, name, a, b), opcode, width, r)
            = Answer(name, InOrder(load, RegField(c, n, Wide(a, width), r), RmField(c, n, Wide(b, width), r)),
                     BehindModRM(c, n) + 0 - q)
      BY OrderedOperands
    <3> QED
      BY <2>2, <3>1
  <2>4. /\ Decode(c, q).length = BehindModRM(c, n) + 0 - q
        /\ Decode(c, q).asm = Asm(name, InOrder(load, rd, rm))
    BY <2>3 DEF Answer
  <2>5. Decode(c, q).asm = p.asm <=> rd = Reg(rw, reg) /\ rm = Mem(mw, base, o)
    <3> HIDE DEF rd, rm
    <3>1. ASSUME Decode(c, q).asm = p.asm PROVE rd = Reg(rw, reg) /\ rm = Mem(mw, base, o)
      <4>1. InOrder(load, rd, rm) = InOrder(load, Reg(rw, reg), Mem(mw, base, o))
        BY <2>4, <3>1 DEF Asm
      <4> QED
        BY <4>1, OrderedIsOne
    <3>2. ASSUME rd = Reg(rw, reg), rm = Mem(mw, base, o) PROVE Decode(c, q).asm = p.asm
      BY <2>4, <3>2
    <3> QED
      BY <3>1, <3>2
  <2>10. AddressAt(c, n, reg, base, o, r)
    BY <2>2 DEF AddressAt
  <2>6. rd = Called(rw, reg, r)
    <3>1. \A w : RegField(c, n, w, r) = Called(w, reg, r)
      BY <2>10, RegOfAddress
    <3> QED
      BY <3>1
  <2>7. Len(addr) \in Nat /\ Len(p.bytes) \in Int
    BY SMT, <2>2, AddressIs, SequenceElements
  <2>8. CASE base = r12
    <3>1. Len(addr) = 5
      BY SMT, <2>8, AddressIs DEF r12, rsp
    <3>2. q + Len(p.bytes) = n + 5
      BY SMT, <2>2, <3>1
    <3>3. Byte(c, n + 5) \in 0..255 /\ Byte(c, n + 5) \notin SibOfR12
      BY <1>2, <3>2 DEF Harmless
    <3>4. rm # Mem(mw, base, o) /\ BehindModRM(c, n) = n + 6
      <4>1. AddressAt(c, n, reg, r12, o, r)
        BY <2>8, <2>10
      <4>2. /\ \A w : RmField(c, n, w, r) = Mem(w, r12, o) => Byte(c, n + 5) \in SibOfR12
            /\ BehindModRM(c, n) = n + 6
        BY <3>3, <4>1, AddressOfR12
      <4> QED
        BY <2>8, <3>3, <4>2
    <3>5. Decode(c, q).length = Len(p.bytes) + 1
      BY SMT, <2>2, <2>4, <3>1, <3>4
    <3> QED
      BY <1>1, <2>5, <2>8, <3>4, <3>5 DEF Meant
  <2>9. CASE base # r12
    <3>1. rm = Mem(mw, base, o) /\ BehindModRM(c, n) = n + Len(addr)
      <4>1. /\ \A w : RmField(c, n, w, r) = Mem(w, base, o)
            /\ BehindModRM(c, n) = n + Len(Address(reg, base, o))
        BY <2>9, <2>10, AddressOfOthers
      <4> QED
        BY <4>1
    <3>2. Decode(c, q).length = Len(p.bytes) + 0
      BY SMT, <2>2, <2>4, <2>7, <3>1
    <3>3. rd = Reg(rw, reg) <=> ~(rw = 8 /\ name # "movzx" /\ reg \in 4..7 /\ reg < 8 /\ base < 8)
      <4>1. CASE rw # 8
        <5>1. rw \in {16, 64}
          BY <4>1
        <5> QED
          BY <2>6, <4>1, <5>1, CalledByWidth
      <4>2. CASE rw = 8
        <5>1. r # 0 <=> ~(reg < 8 /\ base < 8)
          BY <2>2, <4>2
        <5>2. CASE r # 0
          BY <2>6, <4>2, <5>1, <5>2, CalledByWidth
        <5>3. CASE r = 0
          <6>1. rd = IF reg \in 4..7 THEN Operand("high", 8, reg - 4, 0) ELSE Reg(8, reg)
            BY <2>6, <4>2, <5>3, CalledByWidth
          <6>2. Operand("high", 8, reg - 4, 0) # Reg(8, reg)
            BY DEF Reg, Operand
          <6> HIDE DEF rd
          <6> QED
            BY <4>2, <5>1, <5>3, <6>1, <6>2
        <5> QED
          BY <5>2, <5>3
      <4> QED
        BY <4>1, <4>2
    <3> HIDE DEF rd, rm
    <3> QED
      BY <1>1, <2>5, <2>9, <3>1, <3>2, <3>3 DEF Meant
  <2> QED
    BY <2>8, <2>9
<1> QED
  BY <1>2 DEF WellRead, Leads

(* The ways to an address: REX, opcode. *)
LEMMA RexLeads ==
    ASSUME NEW reg \in Register, NEW base \in Register, NEW rest, IsSequence(rest), NEW form,
           NEW b, b # 15, b \notin Groups, OneByte(b) = form,
           NEW bytes, bytes = Front2(rex(1, reg, base), b, rest)
    PROVE  Leads(bytes, reg, base, rest, form, 64, TRUE)
<1> DEFINE r == rex(1, reg, base)
<1>1. RexOf(r, reg, base) /\ r # 0 /\ r \in Harmless
  BY RexIs, RexIsHarmless
<1>2. \A c : \A q \in Int : Byte(c, q) = r => Decode(c, q) = DecodeOpcode(c, q, q + 1, 64, r)
  BY AfterRex
<1> HIDE DEF r
<1>3. IsSequence(bytes) /\ Len(bytes) = 2 + Len(rest) /\ bytes[1] = r
  BY FrontsAre DEF r
<1>4. Len(rest) \in Nat
  BY SequenceElements
<1>5. Len(bytes) > 0
  BY SMT, <1>3, <1>4
<1>6. ASSUME NEW c, NEW q \in Int, Located(c, q, bytes)
      PROVE  \E n \in Int : \E opcode, x :
                /\ Located(c, n, rest) /\ RexOf(x, reg, base)
                /\ x # 0 <=> TRUE \/ ~(reg < 8 /\ base < 8)
                /\ Decode(c, q) = Instruction(c, q, n, form, opcode, 64, x)
                /\ Len(bytes) = (n - q) + Len(rest)
  <2>1. Located(c, q, Front2(r, b, rest))
    BY <1>6 DEF r
  <2>2. Byte(c, q) = r /\ Byte(c, q + 1) = b /\ Located(c, q + 2, rest)
    BY <2>1, FrontsLocated
  <2>3. PICK n \in Int : n = q + 2 /\ n = (q + 1) + 1 /\ q + 1 \in Int /\ Len(bytes) = (n - q) + Len(rest)
    BY SMT, <1>3, <1>4
  <2>4. Decode(c, q) = Instruction(c, q, n, form, b, 64, r)
    BY <1>2, <2>2, <2>3, Opcodes
  <2>5. Located(c, n, rest)
    BY <2>2, <2>3
  <2> QED
    BY <1>1, <2>3, <2>4, <2>5
<1> QED
  BY <1>1, <1>3, <1>5, <1>6 DEF Leads

(* REX, the byte 0F, opcode. *)
LEMMA RexLeadsTwo ==
    ASSUME NEW reg \in Register, NEW base \in Register, NEW rest, IsSequence(rest), NEW form,
           NEW b, TwoByte(b) = form, NEW bytes, bytes = Front3(rex(1, reg, base), 15, b, rest)
    PROVE  Leads(bytes, reg, base, rest, form, 64, TRUE)
<1> DEFINE r == rex(1, reg, base)
<1>1. RexOf(r, reg, base) /\ r # 0 /\ r \in Harmless
  BY RexIs, RexIsHarmless
<1>2. \A c : \A q \in Int : Byte(c, q) = r => Decode(c, q) = DecodeOpcode(c, q, q + 1, 64, r)
  BY AfterRex
<1> HIDE DEF r
<1>3. IsSequence(bytes) /\ Len(bytes) = 3 + Len(rest) /\ bytes[1] = r
  BY FrontsAre DEF r
<1>4. Len(rest) \in Nat
  BY SequenceElements
<1>5. Len(bytes) > 0
  BY SMT, <1>3, <1>4
<1>6. ASSUME NEW c, NEW q \in Int, Located(c, q, bytes)
      PROVE  \E n \in Int : \E opcode, x :
                /\ Located(c, n, rest) /\ RexOf(x, reg, base)
                /\ x # 0 <=> TRUE \/ ~(reg < 8 /\ base < 8)
                /\ Decode(c, q) = Instruction(c, q, n, form, opcode, 64, x)
                /\ Len(bytes) = (n - q) + Len(rest)
  <2>1. Located(c, q, Front3(r, 15, b, rest))
    BY <1>6 DEF r
  <2>2. Byte(c, q) = r /\ Byte(c, q + 1) = 15 /\ Byte(c, q + 2) = b /\ Located(c, q + 3, rest)
    BY <2>1, FrontsLocated
  <2>3. PICK n \in Int : /\ n = q + 3 /\ n = (q + 1) + 2 /\ q + 2 = (q + 1) + 1 /\ q + 1 \in Int
                         /\ Len(bytes) = (n - q) + Len(rest)
    BY SMT, <1>3, <1>4
  <2>4. Decode(c, q) = Instruction(c, q, n, form, b, 64, r)
    BY <1>2, <2>2, <2>3, Opcodes
  <2>5. Located(c, n, rest)
    BY <2>2, <2>3
  <2> QED
    BY <1>1, <2>3, <2>4, <2>5
<1> QED
  BY <1>1, <1>3, <1>5, <1>6 DEF Leads

(* The prefix 66, REX, opcode. *)
LEMMA PrefixLeads ==
    ASSUME NEW reg \in Register, NEW base \in Register, NEW rest, IsSequence(rest), NEW form,
           NEW b, b # 15, b \notin Groups, OneByte(b) = form,
           NEW bytes, bytes = Front3(102, rex(0, reg, base), b, rest)
    PROVE  Leads(bytes, reg, base, rest, form, 16, TRUE)
<1> DEFINE r == rex(0, reg, base)
<1>1. RexOf(r, reg, base) /\ r # 0 /\ 102 \in Harmless
  BY SMT, RexIs DEF Harmless, SibOfR12
<1>2. \A c : \A q \in Int : Byte(c, q) = 102 /\ Byte(c, q + 1) = r =>
        Decode(c, q) = DecodeOpcode(c, q, q + 2, 16, r)
  BY AfterPrefixAndRex
<1> HIDE DEF r
<1>3. IsSequence(bytes) /\ Len(bytes) = 3 + Len(rest) /\ bytes[1] = 102
  BY FrontsAre DEF r
<1>4. Len(rest) \in Nat
  BY SequenceElements
<1>5. Len(bytes) > 0
  BY SMT, <1>3, <1>4
<1>6. ASSUME NEW c, NEW q \in Int, Located(c, q, bytes)
      PROVE  \E n \in Int : \E opcode, x :
                /\ Located(c, n, rest) /\ RexOf(x, reg, base)
                /\ x # 0 <=> TRUE \/ ~(reg < 8 /\ base < 8)
                /\ Decode(c, q) = Instruction(c, q, n, form, opcode, 16, x)
                /\ Len(bytes) = (n - q) + Len(rest)
  <2>1. Located(c, q, Front3(102, r, b, rest))
    BY <1>6 DEF r
  <2>2. Byte(c, q) = 102 /\ Byte(c, q + 1) = r /\ Byte(c, q + 2) = b /\ Located(c, q + 3, rest)
    BY <2>1, FrontsLocated
  <2>3. PICK n \in Int : /\ n = q + 3 /\ n = (q + 2) + 1 /\ q + 2 \in Int
                         /\ Len(bytes) = (n - q) + Len(rest)
    BY SMT, <1>3, <1>4
  <2>4. Decode(c, q) = Instruction(c, q, n, form, b, 16, r)
    BY <1>2, <2>2, <2>3, Opcodes
  <2>5. Located(c, n, rest)
    BY <2>2, <2>3
  <2> QED
    BY <1>1, <2>3, <2>4, <2>5
<1> QED
  BY <1>1, <1>3, <1>5, <1>6 DEF Leads

(* The prefix 66, REX, the byte 0F, opcode. *)
LEMMA PrefixLeadsTwo ==
    ASSUME NEW reg \in Register, NEW base \in Register, NEW rest, IsSequence(rest), NEW form,
           NEW b, TwoByte(b) = form, NEW bytes, bytes = Front4(102, rex(1, reg, base), 15, b, rest)
    PROVE  Leads(bytes, reg, base, rest, form, 64, TRUE)
<1> DEFINE r == rex(1, reg, base)
<1>1. RexOf(r, reg, base) /\ r # 0 /\ 102 \in Harmless
  BY SMT, RexIs DEF Harmless, SibOfR12
<1>2. \A c : \A q \in Int : Byte(c, q) = 102 /\ Byte(c, q + 1) = r =>
        Decode(c, q) = DecodeOpcode(c, q, q + 2, 64, r)
  BY AfterPrefixAndRex
<1> HIDE DEF r
<1>3. IsSequence(bytes) /\ Len(bytes) = 4 + Len(rest) /\ bytes[1] = 102
  BY FrontsAre DEF r
<1>4. Len(rest) \in Nat
  BY SequenceElements
<1>5. Len(bytes) > 0
  BY SMT, <1>3, <1>4
<1>6. ASSUME NEW c, NEW q \in Int, Located(c, q, bytes)
      PROVE  \E n \in Int : \E opcode, x :
                /\ Located(c, n, rest) /\ RexOf(x, reg, base)
                /\ x # 0 <=> TRUE \/ ~(reg < 8 /\ base < 8)
                /\ Decode(c, q) = Instruction(c, q, n, form, opcode, 64, x)
                /\ Len(bytes) = (n - q) + Len(rest)
  <2>1. Located(c, q, Front4(102, r, 15, b, rest))
    BY <1>6 DEF r
  <2>2. /\ Byte(c, q) = 102 /\ Byte(c, q + 1) = r /\ Byte(c, q + 2) = 15 /\ Byte(c, q + 3) = b
        /\ Located(c, q + 4, rest)
    BY <2>1, FrontsLocated
  <2>3. PICK n \in Int : /\ n = q + 4 /\ n = (q + 2) + 2 /\ q + 3 = (q + 2) + 1 /\ q + 2 \in Int
                         /\ Len(bytes) = (n - q) + Len(rest)
    BY SMT, <1>3, <1>4
  <2>4. Decode(c, q) = Instruction(c, q, n, form, b, 64, r)
    BY <1>2, <2>2, <2>3, Opcodes
  <2>5. Located(c, n, rest)
    BY <2>2, <2>3
  <2> QED
    BY <1>1, <2>3, <2>4, <2>5
<1> QED
  BY <1>1, <1>3, <1>5, <1>6 DEF Leads

(* An opcode, after a REX only where it is needed. *)
LEMMA OpcodeLeads ==
    ASSUME NEW reg \in Register, NEW base \in Register, NEW rest, IsSequence(rest), NEW form,
           NEW b, IsOpcode(b), b # 15, b \notin Groups, OneByte(b) = form,
           NEW bytes, bytes = RexThen(0, reg, base, Front1(b, rest))
    PROVE  Leads(bytes, reg, base, rest, form, 32, FALSE)
<1> DEFINE r == rex(0, reg, base)
           t == Front1(b, rest)
<1>1. RexOf(r, reg, base) /\ r # 0 /\ r \in Harmless
  BY RexIs, RexIsHarmless
<1>2. \A c : \A q \in Int : Byte(c, q) = r => Decode(c, q) = DecodeOpcode(c, q, q + 1, 32, r)
  BY AfterRex
<1>3. IsSequence(t) /\ Len(t) = 1 + Len(rest) /\ t[1] = b
  BY FrontsAre
<1>4. Len(rest) \in Nat
  BY SequenceElements
<1>5. \/ bytes = t /\ RexOf(0, reg, base) /\ reg < 8 /\ base < 8
      \/ bytes = Front1(r, t) /\ ~(reg < 8 /\ base < 8)
  <2> HIDE DEF t
  <2> QED
    BY <1>3, RexOrNot DEF t
<1>6. \A c : \A q \in Int : Located(c, q, t) => Byte(c, q) = b /\ Located(c, q + 1, rest)
  BY FrontsLocated
<1>7. IsSequence(t)
  BY <1>3
<1> HIDE DEF r, t
<1>8. CASE bytes = t /\ RexOf(0, reg, base) /\ reg < 8 /\ base < 8
  <2>1. ASSUME NEW c, NEW q \in Int, Located(c, q, bytes)
        PROVE  \E n \in Int : \E opcode, x :
                  /\ Located(c, n, rest) /\ RexOf(x, reg, base)
                  /\ x # 0 <=> FALSE \/ ~(reg < 8 /\ base < 8)
                  /\ Decode(c, q) = Instruction(c, q, n, form, opcode, 32, x)
                  /\ Len(bytes) = (n - q) + Len(rest)
    <3>1. Byte(c, q) = b /\ Located(c, q + 1, rest)
      BY <1>6, <1>8, <2>1
    <3>2. PICK n \in Int : n = q + 1 /\ Len(bytes) = (n - q) + Len(rest)
      BY SMT, <1>3, <1>4, <1>8
    <3>3. Decode(c, q) = DecodeOpcode(c, q, q, 32, 0)
      BY <3>1, AfterNothing DEF IsOpcode
    <3>4. Decode(c, q) = Instruction(c, q, n, form, b, 32, 0)
      BY <3>1, <3>2, <3>3, Opcodes
    <3>5. Located(c, n, rest)
      BY <3>1, <3>2
    <3> QED
      BY <1>8, <3>2, <3>4, <3>5
  <2>2. Len(bytes) > 0
    BY SMT, <1>3, <1>4, <1>8
  <2> QED
    BY <1>3, <1>8, <2>1, <2>2 DEF Leads, IsOpcode
<1>9. CASE bytes = Front1(r, t) /\ ~(reg < 8 /\ base < 8)
  <2>1. IsSequence(bytes) /\ Len(bytes) = 1 + Len(t) /\ bytes[1] = r
    BY <1>7, <1>9, FrontsAre
  <2>2. ASSUME NEW c, NEW q \in Int, Located(c, q, bytes)
        PROVE  \E n \in Int : \E opcode, x :
                  /\ Located(c, n, rest) /\ RexOf(x, reg, base)
                  /\ x # 0 <=> FALSE \/ ~(reg < 8 /\ base < 8)
                  /\ Decode(c, q) = Instruction(c, q, n, form, opcode, 32, x)
                  /\ Len(bytes) = (n - q) + Len(rest)
    <3>1. Located(c, q, Front1(r, t))
      BY <1>9, <2>2
    <3>2. Byte(c, q) = r /\ Located(c, q + 1, t) /\ q + 1 \in Int
      BY <1>7, <3>1, FrontsLocated
    <3>3. Byte(c, q + 1) = b /\ Located(c, (q + 1) + 1, rest)
      BY <1>6, <3>2
    <3>4. PICK n \in Int : n = (q + 1) + 1 /\ Len(bytes) = (n - q) + Len(rest)
      BY SMT, <1>3, <1>4, <2>1
    <3>5. Decode(c, q) = Instruction(c, q, n, form, b, 32, r)
      BY <1>2, <3>2, <3>3, <3>4, Opcodes
    <3>6. Located(c, n, rest)
      BY <3>3, <3>4
    <3> QED
      BY <1>1, <1>9, <3>4, <3>5, <3>6
  <2>3. Len(bytes) > 0
    BY SMT, <1>3, <1>4, <2>1
  <2> QED
    BY <1>1, <2>1, <2>2, <2>3 DEF Leads
<1> QED
  BY <1>5, <1>8, <1>9

(* Everything that makes an access to memory a piece that is well read. *)
IsAccess(p, load, name, rw, reg, mw, base, o, a, b, width, always) ==
    /\ load \in BOOLEAN /\ name \in {"mov", "movzx", "movsx"} /\ always \in BOOLEAN
    /\ rw \in {8, 16, 64} /\ mw \in {8, 16, 64} /\ Wide(a, width) = rw /\ Wide(b, width) = mw
    /\ rw = 8 => name = "mov" /\ ~always
    /\ reg \in Register /\ base \in Register /\ o \in Int32
    /\ p.asm = Asm(name, InOrder(load, Reg(rw, reg), Mem(mw, base, o)))
    /\ Leads(p.bytes, reg, base, Address(reg, base, o), FormOf(load, name, a, b), width, always)

LEMMA IsAccessWellRead ==
    \A p, load, name, rw, reg, mw, base, o, a, b, width, always :
        IsAccess(p, load, name, rw, reg, mw, base, o, a, b, width, always) => WellRead(p)
BY AccessIsWellRead DEF IsAccess

LEMMA MovesOf64BitsLead ==
    ASSUME NEW reg \in Register, NEW base \in Register, NEW o
    PROVE  /\ Leads(mov_reg_mem(reg, base, o).bytes, reg, base, Address(reg, base, o),
                    FormOf(TRUE, "mov", 0, 0), 64, TRUE)
           /\ Leads(mov_mem_reg(reg, base, o).bytes, reg, base, Address(reg, base, o),
                    FormOf(FALSE, "mov", 0, 0), 64, TRUE)
<1> PICK addr : addr = Address(reg, base, o)
  OBVIOUS
<1>1. IsSequence(addr)
  BY AddressIs
<1>2. PICK b, d : b = 139 /\ d = 137
  OBVIOUS
<1>3. OneByte(b) = FormOf(TRUE, "mov", 0, 0) /\ b # 15 /\ b \notin Groups
  BY SMT, <1>2 DEF OneByte, FormOf, ToReg, Groups
<1>4. OneByte(d) = FormOf(FALSE, "mov", 0, 0) /\ d # 15 /\ d \notin Groups
  BY SMT, <1>2 DEF OneByte, FormOf, ToRm, Groups
<1>5. /\ mov_reg_mem(reg, base, o).bytes = Front2(rex(1, reg, base), b, addr)
      /\ mov_mem_reg(reg, base, o).bytes = Front2(rex(1, reg, base), d, addr)
  BY <1>2 DEF mov_reg_mem, mov_mem_reg, Piece, emit_mem_disp32, Front2
<1>6. Leads(mov_reg_mem(reg, base, o).bytes, reg, base, addr, FormOf(TRUE, "mov", 0, 0), 64, TRUE)
  BY <1>1, <1>3, <1>5, RexLeads
<1>7. Leads(mov_mem_reg(reg, base, o).bytes, reg, base, addr, FormOf(FALSE, "mov", 0, 0), 64, TRUE)
  BY <1>1, <1>4, <1>5, RexLeads
<1> QED
  BY <1>6, <1>7

LEMMA MovesOf64BitsAreWellRead ==
    ASSUME NEW reg \in Register, NEW base \in Register, NEW o \in Int32
    PROVE  WellRead(mov_reg_mem(reg, base, o)) /\ WellRead(mov_mem_reg(reg, base, o))
<1>1. Wide(0, 64) = 64 /\ 64 \in {8, 16, 64} /\ 64 # 8
  BY SMT DEF Wide
<1>2. WellRead(mov_reg_mem(reg, base, o))
  <2> DEFINE p == mov_reg_mem(reg, base, o)
  <2>1. p.asm = Asm("mov", InOrder(TRUE, Reg(64, reg), Mem(64, base, o)))
    BY DEF mov_reg_mem, Piece, InOrder, Pair
  <2>2. IsAccess(p, TRUE, "mov", 64, reg, 64, base, o, 0, 0, 64, TRUE)
    BY <1>1, <2>1, MovesOf64BitsLead DEF IsAccess
  <2> QED
    BY <2>2, IsAccessWellRead
<1>3. WellRead(mov_mem_reg(reg, base, o))
  <2> DEFINE p == mov_mem_reg(reg, base, o)
  <2>1. p.asm = Asm("mov", InOrder(FALSE, Reg(64, reg), Mem(64, base, o)))
    BY DEF mov_mem_reg, Piece, InOrder, Pair
  <2>2. IsAccess(p, FALSE, "mov", 64, reg, 64, base, o, 0, 0, 64, TRUE)
    BY <1>1, <2>1, MovesOf64BitsLead DEF IsAccess
  <2> QED
    BY <2>2, IsAccessWellRead
<1> QED
  BY <1>2, <1>3

LEMMA OneByteAccess ==
    ASSUME NEW load \in BOOLEAN, NEW reg \in Register, NEW base \in Register, NEW o \in Int32,
           NEW b, IsOpcode(b), b # 15, b \notin Groups, OneByte(b) = FormOf(load, "mov", 8, 8),
           NEW p, p.asm = Asm("mov", InOrder(load, Reg(8, reg), Mem(8, base, o))),
           p.bytes = RexThen(0, reg, base, Front1(b, Address(reg, base, o)))
    PROVE  WellRead(p)
<1> DEFINE addr == Address(reg, base, o)
<1>1. IsSequence(addr)
  BY AddressIs
<1>2. Leads(p.bytes, reg, base, addr, FormOf(load, "mov", 8, 8), 32, FALSE)
  <2> HIDE DEF addr
  <2> QED
    BY <1>1, OpcodeLeads DEF addr
<1>3. Wide(8, 32) = 8 /\ 8 \in {8, 16, 64}
  BY SMT DEF Wide
<1>5. IsAccess(p, load, "mov", 8, reg, 8, base, o, 8, 8, 32, FALSE)
  BY <1>2, <1>3 DEF IsAccess
<1> QED
  BY <1>5, IsAccessWellRead

(* The rex, the opcode and the address, the first two written together. *)
LEMMA OpcodeAndAddress ==
    ASSUME NEW reg \in Register, NEW base \in Register, NEW o, NEW b
    PROVE  emit_mem_disp32_8(b, reg, base, o) = RexThen(0, reg, base, Front1(b, Address(reg, base, o)))
<1> DEFINE addr == Address(reg, base, o)
           x == RexIfExt(0, reg, base)
<1>1. IsSequence(addr)
  BY AddressIs
<1>4. \A a : IsSequence(<<a>>)
  BY InARow
<1>2. IsSequence(x)
  BY InARow, EmptySequence DEF RexIfExt
<1>3. (x \o <<b>>) \o addr = x \o (<<b>> \o addr)
  <2> HIDE DEF addr, x
  <2> QED
    BY <1>1, <1>2, <1>4, ConcatAssociates
<1> QED
  BY <1>3 DEF emit_mem_disp32_8, RexThen, Front1

LEMMA MovesOfBytesAreWellRead ==
    ASSUME NEW reg \in Register, NEW base \in Register, NEW o \in Int32
    PROVE  WellRead(mov_reg_mem8(reg, base, o)) /\ WellRead(mov_mem_reg8(reg, base, o))
<1> DEFINE addr == Address(reg, base, o)
<1>1. WellRead(mov_reg_mem8(reg, base, o))
  <2> DEFINE p == mov_reg_mem8(reg, base, o)
  <2>1. PICK b : b = 138
    OBVIOUS
  <2>2. OneByte(b) = FormOf(TRUE, "mov", 8, 8) /\ b # 15 /\ b \notin Groups
    BY SMT, <2>1 DEF OneByte, FormOf, Groups
  <2>6. IsOpcode(b)
    BY SMT, <2>1 DEF IsOpcode, Harmless, SibOfR12
  <2>3. p.asm = Asm("mov", InOrder(TRUE, Reg(8, reg), Mem(8, base, o)))
    BY DEF mov_reg_mem8, Piece, InOrder, Pair
  <2>4. p.bytes = RexThen(0, reg, base, Front1(b, addr))
    BY <2>1, OpcodeAndAddress DEF mov_reg_mem8, Piece
  <2> HIDE DEF p
  <2>5. WellRead(p)
    BY <2>2, <2>3, <2>4, <2>6, OneByteAccess
  <2> QED
    BY <2>5 DEF p
<1>2. WellRead(mov_mem_reg8(reg, base, o))
  <2> DEFINE p == mov_mem_reg8(reg, base, o)
  <2>1. PICK b : b = 136
    OBVIOUS
  <2>2. OneByte(b) = FormOf(FALSE, "mov", 8, 8) /\ b # 15 /\ b \notin Groups
    BY SMT, <2>1 DEF OneByte, FormOf, Groups
  <2>6. IsOpcode(b)
    BY SMT, <2>1 DEF IsOpcode, Harmless, SibOfR12
  <2>3. p.asm = Asm("mov", InOrder(FALSE, Reg(8, reg), Mem(8, base, o)))
    BY DEF mov_mem_reg8, Piece, InOrder, Pair
  <2>4. p.bytes = RexThen(0, reg, base, Front1(b, addr))
    BY <2>1, OpcodeAndAddress DEF mov_mem_reg8, Piece
  <2> HIDE DEF p
  <2>5. WellRead(p)
    BY <2>2, <2>3, <2>4, <2>6, OneByteAccess
  <2> QED
    BY <2>5 DEF p
<1> QED
  BY <1>1, <1>2

LEMMA MoveOf16BitsIsWellRead ==
    ASSUME NEW reg \in Register, NEW base \in Register, NEW o \in Int32
    PROVE  WellRead(mov_mem_reg16(reg, base, o))
<1> DEFINE addr == Address(reg, base, o)
           p == mov_mem_reg16(reg, base, o)
<1>1. IsSequence(addr)
  BY AddressIs
<1>2. PICK b : b = 137
  OBVIOUS
<1>3. OneByte(b) = FormOf(FALSE, "mov", 0, 0) /\ b # 15 /\ b \notin Groups
  BY SMT, <1>2 DEF OneByte, FormOf, ToRm, Groups
<1>4. p.asm = Asm("mov", InOrder(FALSE, Reg(16, reg), Mem(16, base, o)))
  BY DEF mov_mem_reg16, Piece, InOrder, Pair
<1>5. p.bytes = Front3(102, rex(0, reg, base), b, addr)
  BY <1>2 DEF mov_mem_reg16, Piece, emit_mem_disp32_ext, Front3
<1>6. Wide(0, 16) = 16 /\ 16 \in {8, 16, 64} /\ 16 # 8
  BY SMT DEF Wide
<1> HIDE DEF p
<1>7. Leads(p.bytes, reg, base, addr, FormOf(FALSE, "mov", 0, 0), 16, TRUE)
  <2> HIDE DEF addr
  <2> QED
    BY <1>1, <1>3, <1>5, PrefixLeads
<1>8. IsAccess(p, FALSE, "mov", 16, reg, 16, base, o, 0, 0, 16, TRUE)
  BY <1>4, <1>6, <1>7 DEF IsAccess
<1>9. WellRead(p)
  BY <1>8, IsAccessWellRead
<1> QED
  BY <1>9 DEF p

LEMMA ExtendingOpcodes ==
    ASSUME NEW m \in Extending
    PROVE  /\ m[1] \in {"movzx", "movsx"} /\ m[4] \in {8, 16} /\ (m[2] = <<>> \/ m[2] = <<102>>)
           /\ TwoByte(m[3]) = FormOf(TRUE, m[1], 0, m[4])
<1>1. /\ TwoByte(182) = FormOf(TRUE, "movzx", 0, 8) /\ TwoByte(183) = FormOf(TRUE, "movzx", 0, 16)
      /\ TwoByte(190) = FormOf(TRUE, "movsx", 0, 8) /\ TwoByte(191) = FormOf(TRUE, "movsx", 0, 16)
  BY SMT DEF TwoByte, ToReg, FormOf
<1>2. \/ m = <<"movzx", <<>>, 182, 8>> \/ m = <<"movzx", <<102>>, 183, 16>>
      \/ m = <<"movsx", <<>>, 190, 8>> \/ m = <<"movsx", <<102>>, 191, 16>>
  BY DEF Extending
<1>3. \/ m[1] = "movzx" /\ m[2] = <<>> /\ m[3] = 182 /\ m[4] = 8
      \/ m[1] = "movzx" /\ m[2] = <<102>> /\ m[3] = 183 /\ m[4] = 16
      \/ m[1] = "movsx" /\ m[2] = <<>> /\ m[3] = 190 /\ m[4] = 8
      \/ m[1] = "movsx" /\ m[2] = <<102>> /\ m[3] = 191 /\ m[4] = 16
  BY <1>2
<1> QED
  BY <1>1, <1>3

LEMMA ExtendedAreWellRead ==
    ASSUME NEW reg \in Register, NEW base \in Register, NEW o \in Int32, NEW p \in Extended(reg, base, o)
    PROVE  WellRead(p)
<1> DEFINE addr == Address(reg, base, o)
           r == rex(1, reg, base)
<1>1. PICK m \in Extending :
        p = Piece(Asm(m[1], <<Reg(64, reg), Mem(m[4], base, o)>>),
                  emit_mem_disp32_ext(m[2] \o <<r, 15, m[3]>>, reg, base, o))
  BY DEF Extended
<1>2. /\ p.asm = Asm(m[1], InOrder(TRUE, Reg(64, reg), Mem(m[4], base, o)))
      /\ p.bytes = (m[2] \o <<r, 15, m[3]>>) \o addr
  BY <1>1 DEF Piece, InOrder, Pair, emit_mem_disp32_ext
<1> HIDE DEF addr, r
<1>3. /\ m[1] \in {"movzx", "movsx"} /\ m[4] \in {8, 16} /\ (m[2] = <<>> \/ m[2] = <<102>>)
      /\ TwoByte(m[3]) = FormOf(TRUE, m[1], 0, m[4])
  BY ExtendingOpcodes
<1> PICK name, mw, b : name = m[1] /\ mw = m[4] /\ b = m[3]
  OBVIOUS
<1>4. <<>> \o <<r, 15, b>> = <<r, 15, b>>
  <2>1. \A x, y, z : IsSequence(<<x, y, z>>)
    BY InARow
  <2> QED
    BY <2>1, ConcatNothing
<1>5. \/ p.bytes = Front3(r, 15, b, addr)
      \/ p.bytes = Front4(102, r, 15, b, addr)
  BY <1>2, <1>3, <1>4 DEF Front3, Front4
<1>6. /\ name \in {"movzx", "movsx"} /\ mw \in {8, 16} /\ TwoByte(b) = FormOf(TRUE, name, 0, mw)
      /\ p.asm = Asm(name, InOrder(TRUE, Reg(64, reg), Mem(mw, base, o)))
  BY <1>2, <1>3
<1>7. Leads(p.bytes, reg, base, addr, FormOf(TRUE, name, 0, mw), 64, TRUE)
  <2>1. IsSequence(addr)
    BY AddressIs DEF addr
  <2> QED
    BY <1>5, <1>6, <2>1, RexLeadsTwo, PrefixLeadsTwo DEF r
<1>8. Wide(0, 64) = 64 /\ Wide(mw, 64) = mw /\ 64 \in {8, 16, 64} /\ 64 # 8 /\ mw \in {8, 16, 64}
  BY <1>6, SMT DEF Wide
<1>9. IsAccess(p, TRUE, name, 64, reg, mw, base, o, 0, mw, 64, TRUE)
  BY <1>6, <1>7, <1>8 DEF IsAccess, addr
<1> QED
  BY <1>9, IsAccessWellRead

LEMMA AccessesAreWellRead ==
    ASSUME NEW reg \in Register, NEW base \in Register, NEW o \in Int32, NEW p \in Accesses(reg, base, o)
    PROVE  WellRead(p)
BY MovesOf64BitsAreWellRead, MovesOfBytesAreWellRead, MoveOf16BitsIsWellRead, ExtendedAreWellRead
   DEF Accesses

LEMMA KindsOfStoredImmediate ==
    ASSUME NEW p, NEW base, NEW o, NEW imm, p.asm = Asm("mov", Pair(Mem(64, base, o), Imm(imm)))
    PROVE  /\ BaseIsR12(p) <=> base = r12
           /\ ~MovesFourBytes(p) /\ ~IsWrongByte(p) /\ ~GoesTheOtherWay(p)
<1> DEFINE ops == p.asm.operands
<1>1. ops = Pair(Mem(64, base, o), Imm(imm)) /\ p.asm.name = "mov"
  BY DEF Asm
<1>2. DOMAIN ops = {1, 2} /\ ops[1] = Mem(64, base, o) /\ ops[2] = Imm(imm)
  BY <1>1 DEF Pair
<1>3. /\ ops[1].kind = "memory" /\ ops[1].width = 64 /\ ops[1].num = base
      /\ ops[2].kind = "number"
  BY <1>2 DEF Mem, Imm, Operand
<1>4. \A k \in DOMAIN ops : k = 1 \/ k = 2
  BY <1>2
<1>5. BaseIsR12(p) <=> base = r12
  BY <1>2, <1>3, <1>4 DEF BaseIsR12
<1>6. ~MovesFourBytes(p)
  BY <1>2, <1>3, <1>4 DEF MovesFourBytes
<1>7. ~IsWrongByte(p)
  BY <1>2, <1>3, <1>4 DEF IsWrongByte
<1>8. ~GoesTheOtherWay(p)
  BY <1>1 DEF GoesTheOtherWay
<1> QED
  BY <1>5, <1>6, <1>7, <1>8

(* Read one byte too late, a number is the same only if its bytes all are. *)
LEMMA ReadLate ==
    ASSUME NEW c, NEW q \in Int, NEW imm \in Int32, Located(c, q, write_imm32(imm)),
           Byte(c, q + 4) \in 0..255, Signed(c, q + 1, 4) = imm
    PROVE  Byte(c, q + 4) = Byte(c, q)
<1>1. imm \in Int
  BY DEF Int32
<1>2. NumberAt(c, q, imm)
  BY NumberLocated
<1>3. /\ Byte(c, q) \in 0..255 /\ Byte(c, q + 1) \in 0..255
      /\ Byte(c, q + 2) \in 0..255 /\ Byte(c, q + 3) \in 0..255
  BY SMT, <1>1, <1>2 DEF NumberAt
<1>4. PICK n \in Int : n = q + 1 /\ n + 1 = q + 2 /\ n + 2 = q + 3 /\ n + 3 = q + 4 /\ n + 0 = q + 1
  BY SMT
<1>5. \A k \in 0..3 : Byte(c, n + k) \in 0..255
  <2>1. \A k \in 0..3 : k = 0 \/ k = 1 \/ k = 2 \/ k = 3
    BY SMT
  <2> QED
    BY <1>3, <1>4, <2>1
<1>6. NumberAt(c, n, imm)
  BY <1>4, <1>5, SignedBytes
<1> QED
  BY <1>2, <1>4, <1>6 DEF NumberAt

LEMMA MoveOfImmediateToMemoryIsWellRead ==
    ASSUME NEW base \in Register, NEW o \in Int32, NEW imm \in Int32
    PROVE  WellRead(mov_mem_imm32(base, o, imm))
<1> DEFINE p == mov_mem_imm32(base, o, imm)
           addr == Address(rax, base, o)
           num == write_imm32(imm)
           r == rex(1, rax, base)
<1>1. rax \in Register /\ enc(rax) = 0
  BY SMT DEF rax, Register, enc
<1>2. RexOf(r, rax, base) /\ r # 0 /\ r \in Harmless
  BY <1>1, RexIs, RexIsHarmless
<1>3. \A c : \A q \in Int : Byte(c, q) = r => Decode(c, q) = DecodeOpcode(c, q, q + 1, 64, r)
  BY <1>1, AfterRex
<1>4. IsSequence(addr) /\ Len(addr) \in Nat
  BY AddressIs, SequenceElements
<1>5. IsSequence(num) /\ Len(num) = 4
  BY ImmIs
<1>6. p.asm = Asm("mov", Pair(Mem(64, base, o), Imm(imm)))
  BY DEF mov_mem_imm32, Piece, Pair
<1>7. PICK b : b = 199
  OBVIOUS
<1>8. b \in Groups /\ b # 15 /\ Group(b, 0) = Form("mov", MI, 0, 0, 4)
  BY SMT, <1>7 DEF Groups, Group, OnRm
<1>9. p.bytes = Front2(r, b, addr \o num)
  <2>1. p.bytes = (<<r, b>> \o addr) \o num
    BY <1>7 DEF mov_mem_imm32, Piece, emit_mem_disp32
  <2>2. IsSequence(<<r, b>>)
    BY InARow
  <2> HIDE DEF p, addr, num, r
  <2> QED
    BY <1>4, <1>5, <2>1, <2>2, ConcatAssociates DEF Front2
<1> HIDE DEF p, num, r
<1>10. IsSequence(addr \o num) /\ Len(addr \o num) = Len(addr) + 4
  BY <1>4, <1>5, ConcatLengths
<1>11. IsSequence(p.bytes) /\ Len(p.bytes) = 2 + Len(addr \o num) /\ p.bytes[1] = r
  <2>1. PICK t : t = addr \o num
    OBVIOUS
  <2>2. IsSequence(t)
    BY <1>10, <2>1
  <2>3. p.bytes = Front2(r, b, t)
    BY <1>9, <2>1
  <2>4. IsSequence(p.bytes) /\ Len(p.bytes) = 2 + Len(t) /\ p.bytes[1] = r
    BY <2>2, <2>3, FrontsAre
  <2> QED
    BY <2>1, <2>4
<1>12. Len(p.bytes) = Len(addr) + 6 /\ Len(p.bytes) \in Nat /\ Len(p.bytes) > 0
  BY SMT, <1>4, <1>10, <1>11
<1>13. ASSUME NEW c, NEW q \in Int, Located(c, q, p.bytes), Byte(c, q + Len(p.bytes)) \in Harmless
       PROVE  Meant(c, q, p)
  <2>1. Byte(c, q) = r /\ Byte(c, q + 1) = b /\ Located(c, q + 2, addr \o num)
    <3>1. Located(c, q, Front2(r, b, addr \o num))
      BY <1>9, <1>13
    <3> HIDE DEF addr
    <3> QED
      BY <1>10, <3>1, FrontsLocated
  <2>2. PICK n \in Int : n = q + 2 /\ n = (q + 1) + 1 /\ q + 1 \in Int
    BY SMT
  <2>3. Located(c, n, addr) /\ Located(c, n + Len(addr), num)
    <3> HIDE DEF addr
    <3> QED
      BY <1>4, <1>5, <2>1, <2>2, LocatedTogether
  <2>4. AddressAt(c, n, rax, base, o, r)
    BY <1>1, <1>2, <2>3 DEF AddressAt
  <2>5. Middle(Byte(c, n)) = 0
    BY <1>1, <2>4, RegOfAddress
  <2>6. Decode(c, q) = Instruction(c, q, n, Form("mov", MI, 0, 0, 4), b, 64, r)
    <3>1. Decode(c, q) = DecodeOpcode(c, q, q + 1, 64, r)
      BY <1>3, <2>1
    <3> QED
      BY <1>8, <2>1, <2>2, <2>5, <3>1, Opcodes
  <2> DEFINE rm == RmField(c, n, 64, r)
             i == BehindModRM(c, n)
             said == Signed(c, i, 4)
  <2>7. Decode(c, q) = Answer("mov", Pair(rm, Imm(said)), i + 4 - q)
    <3>1. Wide(0, 64) = 64
      BY DEF Wide
    <3> QED
      BY <2>6, <3>1, RmThenImm
  <2>8. /\ Decode(c, q).length = i + 4 - q
        /\ Decode(c, q).asm = Asm("mov", Pair(rm, Imm(said)))
    BY <2>7 DEF Answer
  <2>9. Decode(c, q).asm = p.asm <=> rm = Mem(64, base, o) /\ said = imm
    <3> HIDE DEF rm, said
    <3>1. ASSUME Decode(c, q).asm = p.asm PROVE rm = Mem(64, base, o) /\ said = imm
      <4>1. Pair(rm, Imm(said)) = Pair(Mem(64, base, o), Imm(imm))
        BY <1>6, <2>8, <3>1 DEF Asm
      <4>2. rm = Mem(64, base, o) /\ Imm(said) = Imm(imm)
        BY <4>1 DEF Pair
      <4> QED
        BY <4>2 DEF Imm, Operand
    <3>2. ASSUME rm = Mem(64, base, o), said = imm PROVE Decode(c, q).asm = p.asm
      BY <1>6, <2>8, <3>2
    <3> QED
      BY <3>1, <3>2
  <2>10. /\ BaseIsR12(p) <=> base = r12
         /\ ~MovesFourBytes(p) /\ ~IsWrongByte(p) /\ ~GoesTheOtherWay(p)
    BY <1>6, KindsOfStoredImmediate
  <2>11. CASE base = r12
    <3>1. Len(addr) = 5
      BY SMT, <2>11, AddressIs DEF r12, rsp
    <3>2. PICK k \in Int : /\ k = n + Len(addr) /\ k = n + 5 /\ q + Len(p.bytes) = k + 4 /\ n + 6 = k + 1
      BY SMT, <1>12, <2>2, <3>1
    <3>3. Located(c, k, num) /\ Byte(c, k + 4) \in Harmless
      BY <1>13, <2>3, <3>2
    <3>4. Byte(c, n + 5) \in 0..255
      <4>1. NumberAt(c, k, imm)
        BY <3>3, NumberLocated DEF num
      <4>2. imm \in Int
        BY DEF Int32
      <4>3. Byte(c, k) = imm % 256 /\ imm % 256 \in 0..255
        BY SMT, <4>1, <4>2 DEF NumberAt
      <4> QED
        BY <3>2, <4>3
    <3>5. AddressAt(c, n, rax, r12, o, r)
      BY <2>4, <2>11
    <3>6. i = n + 6 /\ (rm = Mem(64, r12, o) => Byte(c, n + 5) \in SibOfR12)
      BY <3>4, <3>5, AddressOfR12
    <3>7. Decode(c, q).length = Len(p.bytes) + 1
      BY SMT, <1>12, <2>2, <2>8, <3>1, <3>6
    <3>8. Decode(c, q).asm # p.asm
      <4> SUFFICES ASSUME Decode(c, q).asm = p.asm PROVE FALSE
        OBVIOUS
      <4>1. Byte(c, k) \in SibOfR12
        BY <2>9, <2>11, <3>2, <3>6
      <4>2. Byte(c, k + 4) \in 0..255 /\ Byte(c, k + 4) \notin SibOfR12
        BY <3>3 DEF Harmless
      <4>3. Signed(c, k + 1, 4) = imm
        BY <2>9, <3>2, <3>6
      <4>4. Byte(c, k + 4) = Byte(c, k)
        BY <3>3, <4>2, <4>3, ReadLate DEF num
      <4> QED
        BY <4>1, <4>2, <4>4
    <3> QED
      BY <2>10, <2>11, <3>7, <3>8 DEF Meant
  <2>12. CASE base # r12
    <3>1. i = n + Len(addr) /\ rm = Mem(64, base, o)
      BY <2>4, <2>12, AddressOfOthers
    <3>2. said = imm
      <4>1. i \in Int /\ Located(c, i, num)
        BY <1>4, <2>3, <3>1
      <4> HIDE DEF said, i
      <4> QED
        BY <4>1, FourBytesSay DEF said, num, Says
    <3>3. Decode(c, q).length = Len(p.bytes) + 0
      BY SMT, <1>4, <1>12, <2>2, <2>8, <3>1
    <3> QED
      BY <2>9, <2>10, <2>12, <3>1, <3>2, <3>3 DEF Meant
  <2> QED
    BY <2>11, <2>12
<1>14. WellRead(p)
  BY <1>2, <1>11, <1>12, <1>13 DEF WellRead
<1> QED
  BY <1>14 DEF p

(* The loads and stores of the IR: four bytes are never read as they are meant. *)
LEMMA AccessOfFourBytesIsWellRead ==
    ASSUME NEW p, NEW load \in BOOLEAN, NEW reg \in Register, NEW base \in Register, NEW o \in Int32,
           p.asm = Asm("mov", InOrder(load, Reg(32, reg), Mem(32, base, o))),
           Leads(p.bytes, reg, base, Address(reg, base, o), FormOf(load, "mov", 0, 0), 64, TRUE)
    PROVE  WellRead(p)
<1> DEFINE addr == Address(reg, base, o)
<1>1. (BaseIsR12(p) <=> base = r12) /\ MovesFourBytes(p)
  BY KindsOfAccesses
<1>2. ASSUME NEW c, NEW q \in Int, Located(c, q, p.bytes), Byte(c, q + Len(p.bytes)) \in Harmless
      PROVE  Meant(c, q, p)
  <2>1. PICK n \in Int : \E opcode, r :
            /\ Located(c, n, addr) /\ RexOf(r, reg, base)
            /\ Decode(c, q) = Instruction(c, q, n, FormOf(load, "mov", 0, 0), opcode, 64, r)
            /\ Len(p.bytes) = (n - q) + Len(addr)
    BY <1>2 DEF Leads
  <2>2. PICK opcode, r :
            /\ Located(c, n, addr) /\ RexOf(r, reg, base)
            /\ Decode(c, q) = Instruction(c, q, n, FormOf(load, "mov", 0, 0), opcode, 64, r)
            /\ Len(p.bytes) = (n - q) + Len(addr)
    BY <2>1
  <2> DEFINE rd == RegField(c, n, 64, r)
             rm == RmField(c, n, 64, r)
  <2>3. Decode(c, q) = Answer("mov", InOrder(load, rd, rm), BehindModRM(c, n) + 0 - q)
    <3>1. Wide(0, 64) = 64
      BY DEF Wide
    <3>2. load = TRUE \/ load = FALSE
      OBVIOUS
    <3> PICK name : name = "mov"
      OBVIOUS
    <3>3. Decode(c, q) = Instruction(c, q, n, FormOf(load, name, 0, 0), opcode, 64, r)
      BY <2>2
    <3>4. CASE load = TRUE
      <4>1. Decode(c, q) = Instruction(c, q, n, Form(name, RM, 0, 0, 0), opcode, 64, r)
        BY <3>3, <3>4 DEF FormOf
      <4> QED
        BY <3>1, <3>4, <4>1, RegThenRm DEF InOrder
    <3>5. CASE load = FALSE
      <4>1. Decode(c, q) = Instruction(c, q, n, Form(name, MR, 0, 0, 0), opcode, 64, r)
        BY <3>3, <3>5 DEF FormOf
      <4> QED
        BY <3>1, <3>5, <4>1, RmThenReg DEF InOrder
    <3> QED
      BY <3>2, <3>4, <3>5
  <2>4. /\ Decode(c, q).length = BehindModRM(c, n) + 0 - q
        /\ Decode(c, q).asm = Asm("mov", InOrder(load, rd, rm))
    BY <2>3 DEF Answer
  <2>5. AddressAt(c, n, reg, base, o, r)
    BY <2>2 DEF AddressAt
  <2>6. Decode(c, q).asm # p.asm
    <3> SUFFICES ASSUME Decode(c, q).asm = p.asm PROVE FALSE
      OBVIOUS
    <3>1. rd = Reg(64, reg)
      <4>1. \A w : RegField(c, n, w, r) = Called(w, reg, r)
        BY <2>5, RegOfAddress
      <4> QED
        BY <4>1, CalledByWidth
    <3> HIDE DEF rd, rm
    <3>2. InOrder(load, rd, rm) = InOrder(load, Reg(32, reg), Mem(32, base, o))
      BY <2>4 DEF Asm
    <3>3. rd = Reg(32, reg)
      BY <3>2, OrderedIsOne
    <3> QED
      BY SMT, <3>1, <3>3 DEF Reg, Operand
  <2>7. Len(addr) \in Nat /\ Len(p.bytes) \in Int
    BY SMT, <2>2, AddressIs, SequenceElements
  <2>8. CASE base = r12
    <3>1. Len(addr) = 5
      BY SMT, <2>8, AddressIs DEF r12, rsp
    <3>2. q + Len(p.bytes) = n + 5
      BY SMT, <2>2, <3>1
    <3>3. Byte(c, n + 5) \in 0..255
      BY <1>2, <3>2 DEF Harmless
    <3>4. AddressAt(c, n, reg, r12, o, r)
      BY <2>5, <2>8
    <3>5. BehindModRM(c, n) = n + 6
      BY <3>3, <3>4, AddressOfR12
    <3>6. Decode(c, q).length = Len(p.bytes) + 1
      BY SMT, <2>2, <2>4, <3>1, <3>5
    <3> QED
      BY <1>1, <2>6, <2>8, <3>6 DEF Meant
  <2>9. CASE base # r12
    <3>1. BehindModRM(c, n) = n + Len(addr)
      BY <2>5, <2>9, AddressOfOthers
    <3>2. Decode(c, q).length = Len(p.bytes) + 0
      BY SMT, <2>2, <2>4, <2>7, <3>1
    <3> QED
      BY <1>1, <2>6, <2>9, <3>2 DEF Meant
  <2> QED
    BY <2>8, <2>9
<1> QED
  BY <1>2 DEF WellRead, Leads

IsExtension(name, w) == name \in {"movzx", "movsx"} /\ w \in {8, 16}

(* The member for a narrow load: its name and width say which it is. *)
LEMMA ChosenExtension ==
    ASSUME NEW reg, NEW base, NEW o, NEW name, NEW w, IsExtension(name, w)
    PROVE  /\ Chosen(Extended(reg, base, o), name, w) \in Extended(reg, base, o)
           /\ Chosen(Extended(reg, base, o), name, w).asm = Asm(name, <<Reg(64, reg), Mem(w, base, o)>>)
<1> DEFINE S == Extended(reg, base, o)
           Is(p) == p.asm.name = name /\ p.asm.operands[2].width = w
           bytes(m) == emit_mem_disp32_ext(m[2] \o <<rex(1, reg, base), 15, m[3]>>, reg, base, o)
           piece(m) == Piece(Asm(m[1], <<Reg(64, reg), Mem(m[4], base, o)>>), bytes(m))
<1>1. \A m : /\ piece(m).asm = Asm(m[1], <<Reg(64, reg), Mem(m[4], base, o)>>)
             /\ piece(m).asm.name = m[1] /\ piece(m).asm.operands[2].width = m[4]
  <2> HIDE DEF bytes
  <2> QED
    BY DEF Piece, Asm, Mem, Operand
<1>2. \A p : p \in S <=> \E m \in Extending : p = piece(m)
  BY DEF Extended
<1>3. PICK m \in Extending : m[1] = name /\ m[4] = w
  <2>1. \A a, b, d, e : <<a, b, d, e>>[1] = a /\ <<a, b, d, e>>[4] = e
    OBVIOUS
  <2> QED
    BY <2>1 DEF Extending, IsExtension
<1> HIDE DEF piece, S
<1>4. piece(m) \in S /\ Is(piece(m))
  BY <1>1, <1>2, <1>3
<1>5. PICK x : x = CHOOSE p \in S : Is(p)
  OBVIOUS
<1>6. x \in S /\ Is(x)
  BY <1>4, <1>5
<1>7. x.asm = Asm(name, <<Reg(64, reg), Mem(w, base, o)>>)
  BY <1>1, <1>2, <1>6
<1> QED
  BY <1>5, <1>6, <1>7 DEF Chosen, S

LEMMA WellReadByParts ==
    ASSUME NEW p, WellRead(p), NEW asm, p.asm = asm
    PROVE  WellRead(Piece(asm, p.bytes))
BY DEF WellRead, Meant, BaseIsR12, GoesTheOtherWay, IsWrongByte, MovesFourBytes, Piece

LEMMA LoadIsWellRead ==
    ASSUME NEW width \in {1, 2, 4, 8}, NEW sign \in BOOLEAN, sign => width \in {1, 2},
           NEW r \in Register, NEW b \in Register, NEW o \in Int32
    PROVE  WellRead(LoadOf(width, sign, r, b, o))
<1>1. CASE width \in {1, 2}
  <2> DEFINE name == IF sign THEN "movsx" ELSE "movzx"
             q == Chosen(Extended(r, b, o), name, 8 * width)
  <2>1. 8 * width \in {8, 16} /\ name \in {"movzx", "movsx"} /\ width # 8 /\ width # 4
    BY SMT, <1>1
  <2> HIDE DEF name
  <2>2. q \in Extended(r, b, o) /\ q.asm = Asm(name, <<Reg(64, r), Mem(8 * width, b, o)>>)
    <3> PICK w : w = 8 * width
      OBVIOUS
    <3>1. IsExtension(name, w)
      BY <2>1 DEF IsExtension
    <3>2. /\ Chosen(Extended(r, b, o), name, w) \in Extended(r, b, o)
          /\ Chosen(Extended(r, b, o), name, w).asm = Asm(name, <<Reg(64, r), Mem(w, b, o)>>)
      BY <3>1, ChosenExtension
    <3> QED
      BY <3>2
  <2>3. LoadOf(width, sign, r, b, o) = Piece(Asm(name, <<Reg(64, r), Mem(8 * width, b, o)>>), q.bytes)
    BY <1>1, <2>1 DEF LoadOf, LoadCode, name
  <2> HIDE DEF q
  <2>4. WellRead(q)
    BY <2>2, ExtendedAreWellRead
  <2> QED
    BY <2>2, <2>3, <2>4, WellReadByParts
<1>2. CASE width = 8
  <2> DEFINE q == mov_reg_mem(r, b, o)
  <2>1. WellRead(q)
    BY MovesOf64BitsAreWellRead
  <2>2. q.asm = Asm("mov", <<Reg(64, r), Mem(64, b, o)>>)
    BY DEF mov_reg_mem, Piece
  <2>3. width \notin {1, 2}
    BY SMT, <1>2
  <2>4. LoadOf(width, sign, r, b, o) = Piece(Asm("mov", <<Reg(64, r), Mem(64, b, o)>>), q.bytes)
    BY <1>2, <2>3 DEF LoadOf, LoadCode
  <2> HIDE DEF q
  <2> QED
    BY <2>1, <2>2, <2>4, WellReadByParts
<1>3. CASE width = 4
  <2> DEFINE p == LoadOf(width, sign, r, b, o)
  <2>1. width \notin {1, 2} /\ width # 8
    BY SMT, <1>3
  <2>2. p.asm = Asm("mov", InOrder(TRUE, Reg(32, r), Mem(32, b, o)))
    BY <1>3, <2>1 DEF LoadOf, Piece, InOrder, Pair
  <2>3. p.bytes = mov_reg_mem(r, b, o).bytes
    BY <2>1 DEF LoadOf, LoadCode, Piece
  <2>4. Leads(p.bytes, r, b, Address(r, b, o), FormOf(TRUE, "mov", 0, 0), 64, TRUE)
    BY <2>3, MovesOf64BitsLead
  <2> HIDE DEF p
  <2>5. WellRead(p)
    BY <2>2, <2>4, AccessOfFourBytesIsWellRead
  <2> QED
    BY <2>5 DEF p
<1> QED
  BY <1>1, <1>2, <1>3

LEMMA StoreIsWellRead ==
    ASSUME NEW width \in {1, 2, 4, 8}, NEW r \in Register, NEW b \in Register, NEW o \in Int32
    PROVE  WellRead(StoreOf(width, r, b, o))
<1> DEFINE p == StoreOf(width, r, b, o)
<1>1. CASE width = 1
  <2> DEFINE q == mov_mem_reg8(r, b, o)
  <2>1. q.asm = Asm("mov", <<Mem(8 * width, b, o), Reg(8 * width, r)>>) /\ WellRead(q)
    <3>1. 8 * width = 8
      BY SMT, <1>1
    <3> QED
      BY <3>1, MovesOfBytesAreWellRead DEF mov_mem_reg8, Piece
  <2>2. p = Piece(Asm("mov", <<Mem(8 * width, b, o), Reg(8 * width, r)>>), q.bytes)
    BY <1>1 DEF StoreOf, StoreCode
  <2> HIDE DEF p, q
  <2>3. WellRead(p)
    BY <2>1, <2>2, WellReadByParts
  <2> QED
    BY <2>3 DEF p
<1>2. CASE width = 2
  <2> DEFINE q == mov_mem_reg16(r, b, o)
  <2>1. q.asm = Asm("mov", <<Mem(8 * width, b, o), Reg(8 * width, r)>>) /\ WellRead(q)
    <3>1. 8 * width = 16
      BY SMT, <1>2
    <3> QED
      BY <3>1, MoveOf16BitsIsWellRead DEF mov_mem_reg16, Piece
  <2>2. p = Piece(Asm("mov", <<Mem(8 * width, b, o), Reg(8 * width, r)>>), q.bytes)
    BY <1>2 DEF StoreOf, StoreCode
  <2> HIDE DEF p, q
  <2>3. WellRead(p)
    BY <2>1, <2>2, WellReadByParts
  <2> QED
    BY <2>3 DEF p
<1>3. CASE width = 8
  <2> DEFINE q == mov_mem_reg(r, b, o)
  <2>1. q.asm = Asm("mov", <<Mem(8 * width, b, o), Reg(8 * width, r)>>) /\ WellRead(q)
    <3>1. 8 * width = 64
      BY SMT, <1>3
    <3> QED
      BY <3>1, MovesOf64BitsAreWellRead DEF mov_mem_reg, Piece
  <2>2. p = Piece(Asm("mov", <<Mem(8 * width, b, o), Reg(8 * width, r)>>), q.bytes)
    BY <1>3 DEF StoreOf, StoreCode
  <2> HIDE DEF p, q
  <2>3. WellRead(p)
    BY <2>1, <2>2, WellReadByParts
  <2> QED
    BY <2>3 DEF p
<1>4. CASE width = 4
  <2>1. 8 * width = 32 /\ width # 1 /\ width # 2
    BY SMT, <1>4
  <2>2. p.asm = Asm("mov", InOrder(FALSE, Reg(32, r), Mem(32, b, o)))
    BY <2>1 DEF StoreOf, Piece, InOrder, Pair
  <2>3. p.bytes = mov_mem_reg(r, b, o).bytes
    BY <2>1 DEF StoreOf, StoreCode, Piece
  <2>4. Leads(p.bytes, r, b, Address(r, b, o), FormOf(FALSE, "mov", 0, 0), 64, TRUE)
    BY <2>3, MovesOf64BitsLead
  <2> HIDE DEF p
  <2>5. WellRead(p)
    BY <2>2, <2>4, AccessOfFourBytesIsWellRead
  <2> QED
    BY <2>5 DEF p
<1> QED
  BY <1>1, <1>2, <1>3, <1>4

(* The pieces of a call, of enter and of leave *)

LEMMA NamedRegImm ==
    ASSUME NEW reg, NEW imm
    PROVE  sub_reg_imm32(reg, imm) \in RegImm(reg, imm) /\ add_reg_imm32(reg, imm) \in RegImm(reg, imm)
<1> DEFINE S == RegImm(reg, imm)
           piece(m) == Piece(Asm(m[1], <<Reg(64, reg), Imm(imm)>>), emit_digit_rm_imm32(m[2], reg, imm))
<1>1. "sub" \in DOMAIN Imm32 /\ "add" \in DOMAIN Imm32
  BY DEF Imm32
<1>2. /\ piece(<<"sub", Imm32["sub"]>>) \in S /\ piece(<<"add", Imm32["add"]>>) \in S
  BY <1>1 DEF RegImm, Pick
<1>3. /\ piece(<<"sub", Imm32["sub"]>>).asm.name = "sub" /\ piece(<<"add", Imm32["add"]>>).asm.name = "add"
  BY DEF Piece, Asm
<1> HIDE DEF S, piece
<1>4. (CHOOSE p \in S : p.asm.name = "sub") \in S
  BY <1>2, <1>3
<1>5. (CHOOSE p \in S : p.asm.name = "add") \in S
  BY <1>2, <1>3
<1> QED
  BY <1>4, <1>5 DEF sub_reg_imm32, add_reg_imm32, S

LEMMA NamedTwoRegisters ==
    ASSUME NEW dst, NEW src
    PROVE  mov_reg_reg(dst, src) \in TwoRegisters(dst, src)
<1> DEFINE S == TwoRegisters(dst, src)
           piece(m) == Piece(Asm(m[1], <<Reg(64, dst), Reg(64, src)>>), emit_rr(m[2], src, dst))
<1>1. "mov" \in DOMAIN RegReg
  BY DEF RegReg
<1>2. piece(<<"mov", RegReg["mov"]>>) \in S
  BY <1>1 DEF TwoRegisters, Pick
<1>3. piece(<<"mov", RegReg["mov"]>>).asm.name = "mov"
  BY DEF Piece, Asm
<1> HIDE DEF S, piece
<1>4. (CHOOSE p \in S : p.asm.name = "mov") \in S
  BY <1>2, <1>3
<1> QED
  BY <1>4 DEF mov_reg_reg, S

(* A sequence of pieces that are all well read. *)
AllWellRead(pieces) == IsSequence(pieces) /\ \A k \in 1..Len(pieces) : WellRead(pieces[k])

LEMMA WellReadAppended ==
    ASSUME NEW pieces, AllWellRead(pieces), NEW p, WellRead(p)
    PROVE  AllWellRead(Append(pieces, p))
<1>1. /\ IsSequence(Append(pieces, p)) /\ Len(Append(pieces, p)) = Len(pieces) + 1
      /\ \A i \in 1..Len(pieces) : Append(pieces, p)[i] = pieces[i]
      /\ Append(pieces, p)[Len(pieces) + 1] = p
  BY AppendedElements DEF AllWellRead
<1>2. Len(pieces) \in Nat
  BY SequenceElements DEF AllWellRead
<1>3. \A k \in 1..(Len(pieces) + 1) : k \in 1..Len(pieces) \/ k = Len(pieces) + 1
  BY SMT, <1>2
<1> QED
  BY <1>1, <1>3 DEF AllWellRead

LEMMA WellReadJoined ==
    ASSUME NEW s, AllWellRead(s), NEW t, AllWellRead(t)
    PROVE  AllWellRead(s \o t)
<1>1. /\ IsSequence(s \o t) /\ Len(s \o t) = Len(s) + Len(t)
      /\ \A i \in 1..Len(s) : (s \o t)[i] = s[i]
      /\ \A i \in 1..Len(t) : (s \o t)[Len(s) + i] = t[i]
  BY ConcatElements DEF AllWellRead
<1>2. Len(s) \in Nat /\ Len(t) \in Nat
  BY SequenceElements DEF AllWellRead
<1>3. \A k \in 1..(Len(s) + Len(t)) : k \in 1..Len(s) \/ \E i \in 1..Len(t) : k = Len(s) + i
  <2> SUFFICES ASSUME NEW k \in 1..(Len(s) + Len(t)), k \notin 1..Len(s)
               PROVE  \E i \in 1..Len(t) : k = Len(s) + i
    OBVIOUS
  <2>1. k - Len(s) \in 1..Len(t) /\ k = Len(s) + (k - Len(s))
    BY SMT, <1>2
  <2> QED
    BY <2>1
<1> QED
  BY <1>1, <1>3 DEF AllWellRead

LEMMA WellReadNothing == AllWellRead(<<>>)
<1>1. IsSequence(<<>>) /\ Len(<<>>) = 0
  BY EmptySequence
<1>2. 1..0 = {}
  BY SMT
<1> QED
  BY <1>1, <1>2 DEF AllWellRead

LEMMA WellReadFew ==
    /\ \A p, q : WellRead(p) /\ WellRead(q) => AllWellRead(<<p, q>>)
    /\ \A p, q, r : WellRead(p) /\ WellRead(q) /\ WellRead(r) => AllWellRead(<<p, q, r>>)
    /\ \A p, q, r, s : WellRead(p) /\ WellRead(q) /\ WellRead(r) /\ WellRead(s)
                         => AllWellRead(<<p, q, r, s>>)
<1>1. ASSUME NEW p, NEW q, WellRead(p), WellRead(q) PROVE AllWellRead(<<p, q>>)
  <2>1. Len(<<p, q>>) = 2 /\ <<p, q>>[1] = p /\ <<p, q>>[2] = q
    OBVIOUS
  <2>2. \A k \in 1..2 : k = 1 \/ k = 2
    BY SMT
  <2>3. IsSequence(<<p, q>>)
    BY InARow
  <2> QED
    BY <1>1, <2>1, <2>2, <2>3 DEF AllWellRead
<1>2. ASSUME NEW p, NEW q, NEW r, WellRead(p), WellRead(q), WellRead(r) PROVE AllWellRead(<<p, q, r>>)
  <2>1. Len(<<p, q, r>>) = 3 /\ <<p, q, r>>[1] = p /\ <<p, q, r>>[2] = q /\ <<p, q, r>>[3] = r
    OBVIOUS
  <2>2. \A k \in 1..3 : k = 1 \/ k = 2 \/ k = 3
    BY SMT
  <2>3. IsSequence(<<p, q, r>>)
    BY InARow
  <2> QED
    BY <1>2, <2>1, <2>2, <2>3 DEF AllWellRead
<1>3. ASSUME NEW p, NEW q, NEW r, NEW s, WellRead(p), WellRead(q), WellRead(r), WellRead(s)
      PROVE  AllWellRead(<<p, q, r, s>>)
  <2>1. /\ Len(<<p, q, r, s>>) = 4 /\ <<p, q, r, s>>[1] = p /\ <<p, q, r, s>>[2] = q
        /\ <<p, q, r, s>>[3] = r /\ <<p, q, r, s>>[4] = s
    OBVIOUS
  <2>2. \A k \in 1..4 : k = 1 \/ k = 2 \/ k = 3 \/ k = 4
    BY SMT
  <2>3. IsSequence(<<p, q, r, s>>)
    BY InARow
  <2> QED
    BY <1>3, <2>1, <2>2, <2>3 DEF AllWellRead
<1> QED
  BY <1>1, <1>2, <1>3

LEMMA SeveralAreWellRead ==
    /\ \A n \in Numbers : AllWellRead(call(n))
    /\ \A n \in Sizes : AllWellRead(enter(n))
    /\ AllWellRead(leave)
<1>1. rax \in Register /\ rsp \in Register /\ rbp \in Register
  BY SMT DEF rax, rsp, rbp, Register
<1>2. \A reg \in Register : \A imm \in Int32 :
        WellRead(sub_reg_imm32(reg, imm)) /\ WellRead(add_reg_imm32(reg, imm))
  BY NamedRegImm, RegImmAreWellRead
<1>3. \A dst, src \in Register : WellRead(mov_reg_reg(dst, src))
  BY NamedTwoRegisters, TwoRegistersAreWellRead
<1>4. ASSUME NEW n \in Numbers PROVE AllWellRead(call(n))
  <2>1. n \in Int32
    BY EncodingAssumption
  <2>2. 40 \in Int32
    BY SMT DEF Int32
  <2>3. WellRead(sub_reg_imm32(rsp, 40)) /\ WellRead(add_reg_imm32(rsp, 40))
    BY <1>1, <1>2, <2>2
  <2>4. WellRead(mov_reg_imm64(rax, n))
    BY <1>1, <2>1, MoveOfImmediateIsWellRead
  <2> QED
    BY <2>3, <2>4, CallIsWellRead, WellReadFew DEF call
<1>5. ASSUME NEW n \in Sizes PROVE AllWellRead(enter(n))
  <2>1. Aligned(n) \in Int32
    <3>1. n \in FrameSize
      BY EncodingAssumption
    <3> QED
      BY SMT, <3>1 DEF Aligned, Int32, FrameSize
  <2>2. WellRead(sub_reg_imm32(rsp, Aligned(n)))
    BY <1>1, <1>2, <2>1
  <2>3. WellRead(push(rbp)) /\ WellRead(mov_reg_reg(rbp, rsp))
    BY <1>1, <1>3, PushAndPopAreWellRead
  <2> QED
    BY <2>2, <2>3, WellReadFew DEF enter
<1>6. AllWellRead(leave)
  <2>1. WellRead(pop(rbp)) /\ WellRead(mov_reg_reg(rsp, rbp))
    BY <1>1, <1>3, PushAndPopAreWellRead
  <2> QED
    BY <2>1, WellReadFew DEF leave
<1> QED
  BY <1>4, <1>5, <1>6

(* Every member that the code can be extended by *)

LEMMA NumbersOf32Bits == Numbers \subseteq Int32
BY EncodingAssumption

LEMMA EmitWellRead ==
    ASSUME AllWellRead(code), Emit
    PROVE  AllWellRead(code')
<1>1. \A p : WellRead(p) /\ Append1(p) => AllWellRead(code')
  BY WellReadAppended DEF Append1
<1>2. CASE EmitTwoRegisters
  <2>1. \A dst, src \in Register : \A p \in TwoRegisters(dst, src) \cup Reversed(dst, src)
            \cup {mov_reg_reg32(dst, src), movsd_reg_reg(dst, src)} : WellRead(p)
    BY TwoRegistersAreWellRead, ReversedAreWellRead, MoveOf32BitsIsWellRead, MovsdIsWellRead
  <2> QED
    BY <1>1, <1>2, <2>1 DEF EmitTwoRegisters
<1>3. CASE EmitOneRegister
  <2>1. \A reg \in Register : \A p \in Unary(reg) \cup set_cc(reg) \cup {push(reg), pop(reg)} : WellRead(p)
    BY UnaryAreWellRead, SetccAreWellRead, PushAndPopAreWellRead
  <2> QED
    BY <1>1, <1>3, <2>1 DEF EmitOneRegister
<1>4. CASE EmitImmediate
  <2>1. \A reg \in Register : \A n \in Numbers :
          \A p \in RegImm(reg, n) \cup {mov_reg_imm64(reg, n)} : WellRead(p)
    BY NumbersOf32Bits, RegImmAreWellRead, MoveOfImmediateIsWellRead
  <2>2. \A reg \in Register : \A n \in Shifts : \A p \in ShiftBy(reg, n) : WellRead(p)
    BY ShiftsAreWellRead
  <2> QED
    BY <1>1, <1>4, <2>1, <2>2 DEF EmitImmediate
<1>5. CASE EmitMemory
  <2>1. \A b, r \in Register : \A o \in Numbers : \A p \in Accesses(r, b, o) : WellRead(p)
    BY NumbersOf32Bits, AccessesAreWellRead
  <2>2. \A b \in Register : \A o, n \in Numbers : WellRead(mov_mem_imm32(b, o, n))
    BY NumbersOf32Bits, MoveOfImmediateToMemoryIsWellRead
  <2> QED
    BY <1>1, <1>5, <2>1, <2>2 DEF EmitMemory
<1>6. CASE EmitAccess
  <2>1. \A r, b \in Register : \A o \in Numbers : \A width \in {1, 2, 4, 8} : \A sign \in BOOLEAN :
          /\ (sign => width \in {1, 2}) => WellRead(LoadOf(width, sign, r, b, o))
          /\ WellRead(StoreOf(width, r, b, o))
    BY NumbersOf32Bits, LoadIsWellRead, StoreIsWellRead
  <2> QED
    BY <1>1, <1>6, <2>1 DEF EmitAccess
<1>7. CASE EmitJump
  <2>1. \A n \in Numbers : \A p \in Jump(n) : WellRead(p)
    BY NumbersOf32Bits, JumpsAreWellRead
  <2> QED
    BY <1>1, <1>7, <2>1 DEF EmitJump
<1>8. CASE EmitBare
  BY <1>1, <1>8, BareAreWellRead DEF EmitBare
<1>9. CASE EmitSeveral
  BY <1>9, SeveralAreWellRead, WellReadJoined DEF EmitSeveral
<1> QED
  BY <1>2, <1>3, <1>4, <1>5, <1>6, <1>7, <1>8, <1>9 DEF Emit

(***************************************************************************)
(* Every piece of the code is read as the properties say, whatever comes   *)
(* before and behind it: no piece begins with a byte that, taken for a SIB *)
(* byte, would make the instruction before it read rightly.                *)
(***************************************************************************)
THEOREM PiecesAreWellRead == Spec => []AllWellRead(code)
<1>1. code = <<>> => AllWellRead(code)
  BY WellReadNothing
<1>2. AllWellRead(code) /\ [Emit]_code => AllWellRead(code)'
  BY EmitWellRead
<1> QED
  BY <1>1, <1>2, PTL DEF Spec

(* Where the bytes of the pieces are *)

PartsOf(pieces) == [k \in 1..Len(pieces) |-> pieces[k].bytes]

LEMMA PartsOfPieces ==
    ASSUME NEW pieces, AllWellRead(pieces)
    PROVE  /\ Parts(PartsOf(pieces)) /\ Len(PartsOf(pieces)) = Len(pieces) /\ Len(pieces) \in Nat
           /\ \A k \in 1..Len(pieces) : PartsOf(pieces)[k] = pieces[k].bytes
<1> DEFINE ss == PartsOf(pieces)
           n == Len(pieces)
<1>1. n \in Nat
  BY SequenceElements DEF AllWellRead
<1>2. ss = [k \in 1..n |-> pieces[k].bytes]
  BY DEF PartsOf
<1> HIDE DEF ss, n
<1>3. \A k \in 1..n : ss[k] = pieces[k].bytes
  BY <1>2
<1>4. ss = [k \in 1..n |-> ss[k]]
  BY <1>2
<1>5. IsSequence(ss)
  BY <1>1, <1>4, FunctionIsSequence
<1>6. Len(ss) = n
  <2>1. DOMAIN ss = 1..n /\ DOMAIN ss = 1..Len(ss) /\ Len(ss) \in Nat
    BY <1>2, <1>5, SequenceElements
  <2> QED
    BY SMT, <1>1, <2>1
<1>7. \A k \in 1..n : IsSequence(pieces[k].bytes)
  BY DEF AllWellRead, WellRead, n
<1>8. Parts(ss)
  BY <1>3, <1>5, <1>6, <1>7 DEF Parts
<1> QED
  BY <1>1, <1>3, <1>6, <1>8 DEF ss, n

LEMMA BytesBefore ==
    ASSUME NEW pieces, AllWellRead(pieces), NEW k \in 1..Len(pieces)
    PROVE  /\ Bytes(SubSeq(pieces, 1, k - 1)) = Joined(PartsOf(pieces), k - 1)
           /\ Bytes(pieces) = Joined(PartsOf(pieces), Len(pieces))
<1> DEFINE ss == PartsOf(pieces)
           n == Len(pieces)
           front == SubSeq(pieces, 1, k - 1)
<1>1. Parts(ss) /\ Len(ss) = n /\ n \in Nat /\ \A i \in 1..n : ss[i] = pieces[i].bytes
  BY PartsOfPieces
<1>2. k - 1 \in 0..n
  BY SMT, <1>1
<1>3. IsSequence(front) /\ Len(front) = k - 1 /\ \A i \in 1..(k - 1) : front[i] = pieces[i]
  BY <1>2, PrefixElements DEF AllWellRead
<1>4. \A i \in 1..(k - 1) : i \in 1..n
  BY SMT, <1>1, <1>2
<1>5. AllWellRead(front)
  BY <1>3, <1>4 DEF AllWellRead
<1>6. /\ Parts(PartsOf(front)) /\ Len(PartsOf(front)) = k - 1
      /\ \A i \in 1..(k - 1) : PartsOf(front)[i] = front[i].bytes
  BY <1>3, <1>5, PartsOfPieces
<1>7. /\ IsSequence(SubSeq(ss, 1, k - 1)) /\ Len(SubSeq(ss, 1, k - 1)) = k - 1
      /\ \A i \in 1..(k - 1) : SubSeq(ss, 1, k - 1)[i] = ss[i]
  BY <1>1, <1>2, PrefixElements DEF Parts
<1>8. PartsOf(front) = SubSeq(ss, 1, k - 1)
  <2> HIDE DEF ss, front, n
  <2>1. \A i \in 1..(k - 1) : PartsOf(front)[i] = SubSeq(ss, 1, k - 1)[i]
    BY <1>1, <1>3, <1>4, <1>6, <1>7
  <2>2. IsSequence(PartsOf(front))
    BY <1>6 DEF Parts
  <2> QED
    BY <1>6, <1>7, <2>1, <2>2, SameElements
<1>9. Bytes(front) = FlattenSeq(PartsOf(front)) /\ Bytes(pieces) = FlattenSeq(ss)
  BY DEF Bytes, PartsOf
<1>10. FlattenSeq(ss) = Joined(ss, n)
  BY <1>1, FlattenJoins
<1> QED
  BY <1>8, <1>9, <1>10 DEF Joined

LEMMA PlacesOfPieces ==
    ASSUME NEW pieces, AllWellRead(pieces), NEW k \in 1..Len(pieces)
    PROVE  Meant(Bytes(pieces), Len(Bytes(SubSeq(pieces, 1, k - 1))) + 1, pieces[k])
<1> DEFINE ss == PartsOf(pieces)
           n == Len(pieces)
           c == Bytes(pieces)
<1>1. Parts(ss) /\ Len(ss) = n /\ n \in Nat /\ \A i \in 1..n : ss[i] = pieces[i].bytes
  BY PartsOfPieces
<1>2. /\ c = Joined(ss, n) /\ Bytes(SubSeq(pieces, 1, k - 1)) = Joined(ss, k - 1)
  BY BytesBefore
<1>3. \A i \in 1..n : WellRead(pieces[i])
  BY DEF AllWellRead
<1>4. k \in 1..n /\ k \in Int /\ k - 1 \in 0..n /\ k \in 0..n /\ n \in 0..n
  BY SMT, <1>1
<1> PICK bytes : bytes = ss[k]
  OBVIOUS
<1>5. IsSequence(bytes) /\ bytes = pieces[k].bytes /\ Len(bytes) \in Nat
  BY <1>1, <1>4, SequenceElements DEF Parts
<1> HIDE DEF ss, n, c
<1>6. JoinedWell(ss, k) /\ JoinedWell(ss, k - 1) /\ JoinedWell(ss, n)
  BY <1>1, <1>4, JoinedParts
<1>7. EachPlaced(ss, n)
  BY <1>1, <1>4, JoinedPlaces
<1> DEFINE q == Offset(ss, k - 1) + 1
<1>8. Offset(ss, k - 1) \in Nat /\ Offset(ss, n) \in Nat /\ Offset(ss, k) = Offset(ss, k - 1) + Len(bytes)
  <2>1. k > 0
    BY SMT, <1>1, <1>4
  <2> QED
    BY <1>6, <2>1 DEF JoinedWell
<1>9. DOMAIN c = 1..Offset(ss, n)
  <2>1. IsSequence(Joined(ss, n))
    BY <1>6 DEF JoinedWell
  <2> QED
    BY <1>2, <2>1, SequenceElements DEF Offset
<1>10. \A b \in 1..n : \A i \in 1..Len(ss[b]) : Byte(c, Offset(ss, b - 1) + i) = ss[b][i]
  BY <1>2, <1>7, <1>9 DEF EachPlaced, Byte
<1>11. Located(c, q, bytes)
  <2> SUFFICES ASSUME NEW j \in 1..Len(bytes) PROVE Byte(c, q + j - 1) = bytes[j]
    BY DEF Located
  <2>1. q + j - 1 = Offset(ss, k - 1) + j
    BY SMT, <1>5, <1>8
  <2> QED
    BY <1>4, <1>10, <2>1
<1>12. Byte(c, q + Len(bytes)) \in Harmless
  <2>1. q + Len(bytes) = Offset(ss, k) + 1
    BY SMT, <1>5, <1>8
  <2>2. CASE k = n
    <3>1. Offset(ss, k) + 1 \notin 1..Offset(ss, n)
      BY SMT, <1>8, <2>2
    <3>2. 0 \in Harmless
      BY SMT DEF Harmless, SibOfR12
    <3> QED
      BY <1>9, <2>1, <3>1, <3>2 DEF Byte
  <2>3. CASE k # n
    <3>1. PICK b : b = k + 1 /\ b \in 1..n /\ b - 1 = k
      BY SMT, <1>1, <1>4, <2>3
    <3>2. WellRead(pieces[b]) /\ ss[b] = pieces[b].bytes
      BY <1>1, <1>3, <3>1
    <3>3. Len(ss[b]) > 0 /\ ss[b][1] \in Harmless /\ IsSequence(ss[b])
      BY <3>2 DEF WellRead
    <3>4. 1 \in 1..Len(ss[b])
      BY SMT, <3>3, SequenceElements
    <3> QED
      BY <1>10, <2>1, <3>1, <3>3, <3>4
  <2> QED
    BY <2>2, <2>3
<1>13. q \in Int
  BY SMT, <1>8
<1>14. Meant(c, q, pieces[k])
  <2> HIDE DEF q
  <2> QED
    BY <1>3, <1>4, <1>5, <1>11, <1>12, <1>13 DEF WellRead
<1> QED
  BY <1>2, <1>14 DEF c, Offset

LEMMA WellReadIsMeant ==
    ASSUME AllWellRead(code)
    PROVE  \A k \in 1..Len(code) :
             /\ (Reading(k).asm # code[k].asm) <=>
                   \/ BaseIsR12(code[k]) \/ GoesTheOtherWay(code[k])
                   \/ IsWrongByte(code[k]) \/ MovesFourBytes(code[k])
             /\ Reading(k).length = Len(code[k].bytes) + (IF BaseIsR12(code[k]) THEN 1 ELSE 0)
<1> SUFFICES ASSUME NEW k \in 1..Len(code)
             PROVE  /\ (Reading(k).asm # code[k].asm) <=>
                         \/ BaseIsR12(code[k]) \/ GoesTheOtherWay(code[k])
                         \/ IsWrongByte(code[k]) \/ MovesFourBytes(code[k])
                    /\ Reading(k).length = Len(code[k].bytes) + (IF BaseIsR12(code[k]) THEN 1 ELSE 0)
  OBVIOUS
<1>1. Meant(Bytes(code), Len(Bytes(SubSeq(code, 1, k - 1))) + 1, code[k])
  BY PlacesOfPieces
<1> QED
  BY <1>1 DEF Meant, Reading

(***************************************************************************)
(* Whatever members are called, with whatever registers and numbers of 32  *)
(* bits, a processor that comes to an instruction reads what the member    *)
(* stands for, but for the four kinds that the property names, and those   *)
(* it never reads rightly.                                                 *)
(***************************************************************************)
THEOREM EncodingsAreRead == Spec => []ReadsAsMeant
<1>1. AllWellRead(code) => ReadsAsMeant
  BY WellReadIsMeant DEF ReadsAsMeant
<1> QED
  BY <1>1, PiecesAreWellRead, PTL

(***************************************************************************)
(* And each of them, rightly read or not, ends where the next begins, but  *)
(* for those with the base r12, which end one byte later.                  *)
(***************************************************************************)
THEOREM EncodingsEnd == Spec => []EndsBeforeTheNext
<1>1. AllWellRead(code) => EndsBeforeTheNext
  BY WellReadIsMeant DEF EndsBeforeTheNext
<1> QED
  BY <1>1, PiecesAreWellRead, PTL
=============================================================================
