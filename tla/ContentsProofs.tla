---------------------------- MODULE ContentsProofs ----------------------------
(***************************************************************************)
(* Why compiled code computes what the IR says, for functions of any size, *)
(* any pool of registers and any calling convention.                       *)
(*                                                                         *)
(* What registers and slots contain can be read in the code without        *)
(* running it.  A claim says of a place in the code which registers, slots *)
(* and words pushed there are values of the IR; each instruction takes the *)
(* claim before it to the one after it, and finds its operands in the one  *)
(* before it.  Between the items of the line the claim is that every value *)
(* that is live there is in its home: the lowerings keep that up because   *)
(* no two values that are live at one place share a home (CompilerProofs), *)
(* and jumps because what is live at a block is live where it is left for. *)
(***************************************************************************)
EXTENDS CompilerProofs

-----------------------------------------------------------------------------
(* Claims                                                                  *)
(*                                                                         *)
(* A place that is not live is one that no path leads to.  Where the frame *)
(* is known, the claim may say what is in slots and in the words pushed.   *)

Claim(regsHold, depth, stackHolds, slotsHold) ==
    [live |-> TRUE, framed |-> TRUE, regs |-> regsHold,
     depth |-> depth, stack |-> stackHolds, slots |-> slotsHold]

(* After the epilogue has begun: the registers are all that is known. *)
Answer(regsHold) ==
    [live |-> TRUE, framed |-> FALSE, regs |-> regsHold,
     depth |-> 0, stack |-> {}, slots |-> {}]

(* Nothing new on the stack. *)
SameBelow(a, b) ==
    b.framed => /\ a.framed /\ b.depth = a.depth
                /\ b.stack \subseteq a.stack /\ b.slots \subseteq a.slots

(* The register dst is written: it may be claimed to hold what new says. *)
MovCarries(i, a, b) ==
    /\ i.op = "mov" /\ i.dst \in Register /\ i.dst # rbp /\ SameBelow(a, b)
    /\ \A f \in b.regs : IF f[1] = i.dst THEN <<i.src, f[2]>> \in a.regs ELSE f \in a.regs

LoadCarries(i, a, b) ==
    /\ i.op = "load_slot" /\ i.dst \in Register /\ i.dst # rbp /\ SameBelow(a, b) /\ a.framed
    /\ \A f \in b.regs : IF f[1] = i.dst THEN <<i.slot \div 8, f[2]>> \in a.slots
                         ELSE f \in a.regs

(* A slot is written where nothing is pushed. *)
StoreCarries(i, a, b) ==
    /\ i.op = "store_slot" /\ b.regs \subseteq a.regs /\ i.slot \div 8 \in Int
    /\ b.framed => /\ a.framed /\ a.depth = 0 /\ b.depth = 0 /\ b.stack = {}
                   /\ \A f \in b.slots : IF f[1] = i.slot \div 8 THEN <<i.src, f[2]>> \in a.regs
                                         ELSE f \in a.slots

PushCarries(i, a, b) ==
    /\ i.op = "push" /\ b.regs \subseteq a.regs /\ b.depth \in Nat
    /\ b.framed =>
         /\ a.framed
         /\ \/ b.slots = {} /\ b.stack = {}
            \/ /\ b.depth = a.depth + 1 /\ b.slots \subseteq a.slots
               /\ \A f \in b.stack : IF f[1] = b.depth THEN <<i.src, f[2]>> \in a.regs
                                     ELSE f \in a.stack

PopCarries(i, a, b) ==
    /\ i.op = "pop" /\ i.dst \in Register
    /\ b.framed => /\ a.framed /\ i.dst # rbp /\ b.depth \in Nat /\ b.depth = a.depth - 1
                   /\ b.slots \subseteq a.slots
                   /\ \A f \in b.stack : f \in a.stack /\ f[1] <= b.depth
    /\ \A f \in b.regs : IF f[1] = i.dst THEN a.framed /\ <<a.depth, f[2]>> \in a.stack
                         ELSE f \in a.regs

(* The facts of b are old, and not about ids whose values change. *)
Unchanged(b, a, ids) == \A f \in b : f \in a /\ f[2] \notin ids

BelowWithout(a, b, ids) ==
    b.framed => /\ a.framed /\ b.depth = a.depth
                /\ Unchanged(b.stack, a.stack, ids) /\ Unchanged(b.slots, a.slots, ids)

ComputeCarries(i, a, b) ==
    /\ i.op = "compute" /\ i.dst \in Register /\ i.dst # rbp
    /\ i.reads \subseteq a.regs /\ BelowWithout(a, b, {i.value})
    /\ \A f \in b.regs : IF f[1] = i.dst THEN f[2] = i.value
                         ELSE f \in a.regs /\ f[2] # i.value

ClobberCarries(i, a, b) ==
    /\ i.op = "clobber" /\ i.dst # rbp /\ SameBelow(a, b)
    /\ \A f \in b.regs : f \in a.regs /\ f[1] # i.dst

StoreMemCarries(i, a, b) ==
    /\ i.op = "store_mem" /\ i.reads \subseteq a.regs
    /\ SameBelow(a, b) /\ b.regs \subseteq a.regs

(* Arguments are in their registers. *)
Passes(a, args) ==
    \A k \in 1..Len(args) : k <= Len(ARG_REGISTERS) /\ <<ARG_REGISTERS[k], args[k]>> \in a.regs

CallCarries(i, a, b) ==
    /\ i.op = "call" /\ Passes(a, i.args) /\ BelowWithout(a, b, {i.value})
    /\ \A f \in b.regs : IF f[1] = rax THEN f[2] = i.value
                         ELSE f[1] \in CALLEE_SAVED /\ f \in a.regs /\ f[2] # i.value

JnzCarries(i, a, b) == i.op = "jnz" /\ i.reads \subseteq a.regs /\ b = a

(***************************************************************************)
(* entry gives the claim at the beginning of each block.  A jump gives the *)
(* parameters of the block the values in the argument registers.           *)
(***************************************************************************)
JmpCarries(entry, i, a) ==
    LET b   == entry[i.block]
        new == {i.params[k] : k \in 1..Len(i.params)}
    IN  /\ i.op = "jmp" /\ b.live /\ Passes(a, i.args) /\ BelowWithout(a, b, new)
        /\ \A f \in b.regs :
             \/ \E k \in 1..Len(i.args) : f[1] = ARG_REGISTERS[k] /\ f[2] = i.params[k]
             \/ /\ f \in a.regs /\ f[2] \notin new
                /\ \A k \in 1..Len(i.args) : f[1] # ARG_REGISTERS[k]

EnterCarries(i, a, b) ==
    /\ i.op = "enter" /\ i.words \in Nat
    /\ \A f \in b.regs : f \in a.regs /\ f[1] # rbp
    /\ b.framed => a.framed /\ b.slots = {} /\ b.stack = {} /\ b.depth \in Nat

LeaveCarries(i, a, b) ==
    i.op = "leave" /\ ~b.framed /\ \A f \in b.regs : f \in a.regs /\ f[1] # rbp

(* The instruction i takes the claim a to the claim b, or leaves for elsewhere. *)
Carries(entry, i, a, b) ==
    a.live =>
      \/ /\ b.live
         /\ \/ MovCarries(i, a, b) \/ LoadCarries(i, a, b) \/ StoreCarries(i, a, b)
            \/ PushCarries(i, a, b) \/ PopCarries(i, a, b) \/ ComputeCarries(i, a, b)
            \/ ClobberCarries(i, a, b) \/ StoreMemCarries(i, a, b) \/ CallCarries(i, a, b)
            \/ JnzCarries(i, a, b) \/ EnterCarries(i, a, b) \/ LeaveCarries(i, a, b)
      \/ JmpCarries(entry, i, a)
      \/ i.op = "ret" /\ <<rax, i.value>> \in a.regs

(* d has a claim for each place of the code c. *)
Claimed(entry, c, d) ==
    \A p \in 1..Len(c) :
      /\ Carries(entry, c[p], d[p], d[p + 1])
      /\ c[p].op = "jnz" /\ d[p].live =>
           /\ c[p].over \in Nat /\ p + 1 + c[p].over <= Len(c)
           /\ d[p + 1 + c[p].over] = d[p]

(* Code that takes the claim a to the claim b. *)
Leads(entry, c, a, b) ==
    /\ IsSequence(c)
    /\ \E d : Claimed(entry, c, d) /\ d[1] = a /\ d[Len(c) + 1] = b

LEMMA LeadsNone ==
    ASSUME NEW entry, NEW a
    PROVE  Leads(entry, <<>>, a, a)
<1> DEFINE d == [p \in Nat |-> a]
<1>1. d[1] = a /\ d[0 + 1] = a
  OBVIOUS
<1>2. Claimed(entry, <<>>, d)
  BY EmptySequence DEF Claimed
<1> HIDE DEF d
<1> QED
  BY <1>1, <1>2, EmptySequence DEF Leads

LEMMA ThenClaims ==
    ASSUME NEW d, NEW e, NEW n \in Nat, d[n + 1] = e[1]
    PROVE  /\ \A p \in 1..(n + 1) : Then(d, e, n)[p] = d[p]
           /\ \A p \in Nat \ {0} : Then(d, e, n)[n + p] = e[p]
<1>1. \A p \in Nat : Then(d, e, n)[p] = IF p <= n THEN d[p] ELSE e[p - n]
  BY DEF Then
<1>2. ASSUME NEW p \in 1..(n + 1) PROVE Then(d, e, n)[p] = d[p]
  <2>1. CASE p <= n
    BY <1>1, <2>1
  <2>2. CASE p = n + 1
    <3>1. ~(n + 1 <= n) /\ (n + 1) - n = 1
      OBVIOUS
    <3> QED
      BY <1>1, <2>2, <3>1
  <2> QED
    BY <2>1, <2>2
<1>3. ASSUME NEW p \in Nat \ {0} PROVE Then(d, e, n)[n + p] = e[p]
  <2>1. ~(n + p <= n) /\ (n + p) - n = p /\ n + p \in Nat
    OBVIOUS
  <2> QED
    BY <1>1, <2>1
<1> QED
  BY <1>2, <1>3

LEMMA ClaimedTogether ==
    ASSUME NEW entry, NEW s, IsSequence(s), NEW t, IsSequence(t),
           NEW d, Claimed(entry, s, d), NEW e, Claimed(entry, t, e),
           d[Len(s) + 1] = e[1]
    PROVE  Claimed(entry, s \o t, Then(d, e, Len(s)))
<1> DEFINE n == Len(s)
           m == Len(t)
           c == s \o t
           g == Then(d, e, n)
<1>1. n \in Nat /\ m \in Nat
  BY SequenceElements
<1>2. /\ Len(c) = n + m
      /\ \A i \in 1..n : c[i] = s[i]
      /\ \A i \in 1..m : c[n + i] = t[i]
  BY ConcatElements
<1>3. /\ \A p \in 1..(n + 1) : g[p] = d[p]
      /\ \A p \in Nat \ {0} : g[n + p] = e[p]
  BY <1>1, ThenClaims
<1> SUFFICES ASSUME NEW p \in 1..(n + m)
             PROVE  /\ Carries(entry, c[p], g[p], g[p + 1])
                    /\ c[p].op = "jnz" /\ g[p].live =>
                         /\ c[p].over \in Nat /\ p + 1 + c[p].over <= Len(c)
                         /\ g[p + 1 + c[p].over] = g[p]
  BY <1>2 DEF Claimed
<1> HIDE DEF n, m, c, g
<1>4. CASE p <= n
  <2>1. p \in 1..n /\ p \in 1..(n + 1) /\ p + 1 \in 1..(n + 1) /\ p \in Nat
    BY <1>1, <1>4
  <2>2. /\ Carries(entry, s[p], d[p], d[p + 1])
        /\ s[p].op = "jnz" /\ d[p].live => /\ s[p].over \in Nat /\ p + 1 + s[p].over <= n
                                          /\ d[p + 1 + s[p].over] = d[p]
    BY <2>1 DEF Claimed, n
  <2>3. c[p] = s[p] /\ g[p] = d[p] /\ g[p + 1] = d[p + 1]
    BY <1>2, <1>3, <2>1
  <2>4. ASSUME s[p].op = "jnz", d[p].live
        PROVE  /\ s[p].over \in Nat /\ p + 1 + s[p].over <= Len(c)
               /\ g[p + 1 + s[p].over] = g[p]
    <3> DEFINE q == p + 1 + s[p].over
    <3>1. s[p].over \in Nat /\ q <= n /\ d[q] = d[p]
      BY <2>2, <2>4
    <3>2. q \in 1..(n + 1) /\ q <= n + m
      BY <1>1, <2>1, <3>1
    <3> HIDE DEF q
    <3>3. g[q] = d[q]
      BY <1>3, <3>2
    <3> QED
      BY <1>2, <2>3, <3>1, <3>2, <3>3 DEF q
  <2> QED
    BY <2>2, <2>3, <2>4
<1>5. CASE p > n
  <2> DEFINE j == p - n
  <2>1. j \in 1..m /\ j \in Nat \ {0} /\ j + 1 \in Nat \ {0} /\ p = n + j /\ p + 1 = n + (j + 1)
    BY <1>1, <1>5
  <2> HIDE DEF j
  <2>2. /\ Carries(entry, t[j], e[j], e[j + 1])
        /\ t[j].op = "jnz" /\ e[j].live => /\ t[j].over \in Nat /\ j + 1 + t[j].over <= m
                                          /\ e[j + 1 + t[j].over] = e[j]
    BY <2>1 DEF Claimed, m
  <2>3. c[p] = t[j] /\ g[p] = e[j] /\ g[p + 1] = e[j + 1]
    BY <1>2, <1>3, <2>1
  <2>4. ASSUME t[j].op = "jnz", e[j].live
        PROVE  /\ t[j].over \in Nat /\ p + 1 + t[j].over <= Len(c)
               /\ g[p + 1 + t[j].over] = g[p]
    <3> DEFINE o == t[j].over
    <3>1. o \in Nat /\ j + 1 + o <= m /\ e[j + 1 + o] = e[j]
      BY <2>2, <2>4
    <3> HIDE DEF o
    <3>2. j + 1 + o \in Nat \ {0} /\ p + 1 + o = n + (j + 1 + o) /\ p + 1 + o <= n + m
      BY <1>1, <2>1, <3>1
    <3>3. g[p + 1 + o] = e[j + 1 + o]
      BY <1>3, <3>2
    <3> QED
      BY <1>2, <2>3, <3>1, <3>2, <3>3 DEF o
  <2> QED
    BY <2>2, <2>3, <2>4
<1> QED
  BY <1>1, <1>4, <1>5

LEMMA LeadsTogether ==
    ASSUME NEW entry, NEW s, NEW t, NEW a, NEW b, NEW c,
           Leads(entry, s, a, b), Leads(entry, t, b, c)
    PROVE  Leads(entry, s \o t, a, c)
<1>1. IsSequence(s) /\ IsSequence(t) /\ Len(s) \in Nat /\ Len(t) \in Nat
  BY SequenceElements DEF Leads
<1>2. PICK d : Claimed(entry, s, d) /\ d[1] = a /\ d[Len(s) + 1] = b
  BY DEF Leads
<1>3. PICK e : Claimed(entry, t, e) /\ e[1] = b /\ e[Len(t) + 1] = c
  BY DEF Leads
<1> DEFINE g == Then(d, e, Len(s))
<1>4. d[Len(s) + 1] = e[1]
  BY <1>2, <1>3
<1>5. Claimed(entry, s \o t, g)
  BY <1>1, <1>2, <1>3, <1>4, ClaimedTogether
<1>6. /\ \A p \in 1..(Len(s) + 1) : g[p] = d[p]
      /\ \A p \in Nat \ {0} : g[Len(s) + p] = e[p]
  BY <1>1, <1>4, ThenClaims
<1> HIDE DEF g
<1>7. g[1] = a
  <2>1. 1 \in 1..(Len(s) + 1)
    BY <1>1
  <2> QED
    BY <1>2, <1>6, <2>1
<1>8. g[Len(s \o t) + 1] = c
  <2>1. Len(s \o t) + 1 = Len(s) + (Len(t) + 1) /\ Len(t) + 1 \in Nat \ {0}
    BY <1>1, ConcatLengths
  <2> QED
    BY <1>3, <1>6, <2>1
<1>9. IsSequence(s \o t)
  BY <1>1, ConcatLengths
<1> QED
  BY <1>5, <1>7, <1>8, <1>9 DEF Leads

(* Instructions that do not look at what comes after them. *)
LEMMA LeadsEach ==
    ASSUME NEW entry, NEW c, IsSequence(c), NEW d,
           \A p \in 1..Len(c) : Carries(entry, c[p], d[p], d[p + 1]) /\ c[p].op # "jnz"
    PROVE  Leads(entry, c, d[1], d[Len(c) + 1])
BY DEF Leads, Claimed

LEMMA LeadsOne ==
    ASSUME NEW entry, NEW i, NEW a, NEW b, Carries(entry, i, a, b), i.op # "jnz"
    PROVE  Leads(entry, <<i>>, a, b)
<1> DEFINE d == [p \in Nat |-> IF p = 1 THEN a ELSE b]
           c == <<i>>
<1>1. IsSequence(c) /\ Len(c) = 1 /\ c[1] = i
  BY EmptySequence, AppendIsConcatenation
<1>2. d[1] = a /\ d[1 + 1] = b
  OBVIOUS
<1>3. \A p \in 1..1 : p = 1
  OBVIOUS
<1> HIDE DEF d, c
<1>4. Claimed(entry, c, d)
  BY <1>1, <1>2, <1>3 DEF Claimed
<1> QED
  BY <1>1, <1>2, <1>4 DEF Leads, c

(* Nothing has to be shown of code that no path leads to. *)
LEMMA DeadLeads ==
    ASSUME NEW entry, NEW c, IsSequence(c), Len(c) # 0, NEW a, a.live = FALSE, NEW b
    PROVE  Leads(entry, c, a, b)
<1> DEFINE n == Len(c)
           d == [p \in Nat |-> IF p <= n THEN a ELSE b]
<1>1. n \in Nat
  BY SequenceElements
<1>2. d[1] = a /\ d[n + 1] = b /\ \A p \in 1..n : d[p] = a
  BY <1>1
<1> HIDE DEF d
<1>3. Claimed(entry, c, d)
  BY <1>2 DEF Claimed, Carries
<1> QED
  BY <1>2, <1>3 DEF Leads

-----------------------------------------------------------------------------
(* Code in pieces *)

(* The pieces of ss are entered with the claims of g, one after the other. *)
ClaimedAt(entry, ss, g, d) ==
    /\ Claimed(entry, FlattenSeq(ss), d)
    /\ \A k \in 0..Len(ss) : d[Offset(ss, k) + 1] = g[k + 1]

LEMMA PiecesClaimed ==
    ASSUME NEW entry, NEW ss, IsSequence(ss), NEW g,
           \A k \in 1..Len(ss) : Leads(entry, ss[k], g[k], g[k + 1])
    PROVE  /\ Parts(ss) /\ Len(ss) \in Nat
           /\ \E d : ClaimedAt(entry, ss, g, d)
<1> DEFINE n == Len(ss)
           Done(k) == \E d : /\ Claimed(entry, Joined(ss, k), d)
                             /\ \A j \in 0..k : d[Offset(ss, j) + 1] = g[j + 1]
           S == {k \in Nat : k <= n => Done(k)}
<1>1. Parts(ss) /\ n \in Nat
  BY SequenceElements DEF Parts, Leads
<1>2. /\ Joined(ss, 0) = <<>> /\ Offset(ss, 0) = 0
      /\ Joined(ss, n) = FlattenSeq(ss)
  BY JoinedNone, EmptySequence DEF Offset
<1> HIDE DEF n
<1>3. 0 \in S
  <2>1. Leads(entry, <<>>, g[0 + 1], g[0 + 1])
    BY LeadsNone
  <2>2. PICK d : Claimed(entry, <<>>, d) /\ d[0 + 1] = g[0 + 1]
    BY <2>1 DEF Leads
  <2>3. \A j \in 0..0 : j = 0
    OBVIOUS
  <2> QED
    BY <1>2, <2>2, <2>3
<1>4. ASSUME NEW k \in S PROVE k + 1 \in S
  <2> SUFFICES ASSUME k + 1 <= n PROVE Done(k + 1)
    OBVIOUS
  <2>1. k \in Nat /\ k + 1 \in 1..n /\ k \in 0..n /\ k + 1 \in 0..n /\ (k + 1) - 1 = k /\ Done(k)
    BY <1>1
  <2>2. PICK d : /\ Claimed(entry, Joined(ss, k), d)
                 /\ \A j \in 0..k : d[Offset(ss, j) + 1] = g[j + 1]
    BY <2>1
  <2>3. Leads(entry, ss[k + 1], g[k + 1], g[(k + 1) + 1])
    BY <2>1 DEF n
  <2>4. PICK e : /\ Claimed(entry, ss[k + 1], e) /\ e[1] = g[k + 1]
                 /\ e[Len(ss[k + 1]) + 1] = g[(k + 1) + 1]
    BY <2>3 DEF Leads
  <2>5. /\ \A j \in 0..n : IsSequence(Joined(ss, j)) /\ Offset(ss, j) \in Nat
        /\ Joined(ss, k + 1) = Joined(ss, k) \o ss[k + 1]
        /\ Offset(ss, k + 1) = Offset(ss, k) + Len(ss[k + 1])
        /\ IsSequence(ss[k + 1])
    <3>1. \A j \in 0..n : JoinedWell(ss, j)
      BY <1>1, JoinedParts DEF n
    <3>2. JoinedWell(ss, k + 1) /\ k + 1 > 0
      BY <2>1, <3>1
    <3>3. IsSequence(ss[k + 1])
      BY <1>1, <2>1 DEF Parts, n
    <3> QED
      BY <2>1, <3>1, <3>2, <3>3 DEF JoinedWell
  <2>6. \A j \in 0..k : Offset(ss, j) <= Offset(ss, k)
    BY <1>1, <2>1, JoinedPlaces DEF Increasing, n
  <2> DEFINE o == Offset(ss, k)
             f == Then(d, e, o)
  <2>7. o \in Nat /\ o = Len(Joined(ss, k)) /\ d[o + 1] = e[1]
    BY <2>1, <2>2, <2>4, <2>5 DEF Offset
  <2>8. /\ \A p \in 1..(o + 1) : f[p] = d[p]
        /\ \A p \in Nat \ {0} : f[o + p] = e[p]
    <3> HIDE DEF o
    <3>1. o \in Nat /\ d[o + 1] = e[1]
      BY <2>7
    <3> QED
      BY <3>1, ThenClaims
  <2>9. Claimed(entry, Joined(ss, k + 1), f)
    <3>1. Claimed(entry, Joined(ss, k) \o ss[k + 1], Then(d, e, Len(Joined(ss, k))))
      BY <2>1, <2>2, <2>4, <2>5, <2>7, ClaimedTogether
    <3> QED
      BY <2>5, <2>7, <3>1
  <2> HIDE DEF o, f
  <2>10. ASSUME NEW j \in 0..(k + 1) PROVE f[Offset(ss, j) + 1] = g[j + 1]
    <3>1. CASE j <= k
      <4>1. j \in 0..k /\ Offset(ss, j) \in Nat /\ Offset(ss, j) <= o
        BY <1>1, <2>1, <2>5, <2>6, <3>1 DEF o
      <4>2. Offset(ss, j) + 1 \in 1..(o + 1)
        BY <2>7, <4>1
      <4> QED
        BY <2>2, <2>8, <4>1, <4>2
    <3>2. CASE j = k + 1
      <4> DEFINE l == Len(ss[k + 1])
      <4>1. l \in Nat
        BY <2>5, SequenceElements
      <4> HIDE DEF l
      <4>2. l + 1 \in Nat \ {0} /\ Offset(ss, j) + 1 = o + (l + 1)
        BY <2>5, <2>7, <3>2, <4>1 DEF o, l
      <4> QED
        BY <2>4, <2>8, <3>2, <4>2 DEF l
    <3> QED
      BY <2>1, <3>1, <3>2
  <2> QED
    BY <2>9, <2>10
<1>5. S \in SUBSET Nat
  OBVIOUS
<1> HIDE DEF S
<1>6. S = Nat
  BY <1>3, <1>4, <1>5, Induction
<1>7. Done(n)
  BY <1>1, <1>6 DEF S
<1> QED
  BY <1>1, <1>2, <1>7 DEF n, ClaimedAt

LEMMA PiecesLead ==
    ASSUME NEW entry, NEW ss, IsSequence(ss), NEW g,
           \A k \in 1..Len(ss) : Leads(entry, ss[k], g[k], g[k + 1])
    PROVE  Leads(entry, FlattenSeq(ss), g[1], g[Len(ss) + 1])
<1>1. Parts(ss) /\ Len(ss) \in Nat
  BY PiecesClaimed
<1>2. PICK d : ClaimedAt(entry, ss, g, d)
  BY PiecesClaimed
<1>3. IsSequence(FlattenSeq(ss)) /\ Len(FlattenSeq(ss)) = Offset(ss, Len(ss))
  BY <1>1, FlattenJoins
<1>4. Offset(ss, 0) = 0
  BY JoinedNone, EmptySequence DEF Offset
<1>5. 0 \in 0..Len(ss) /\ Len(ss) \in 0..Len(ss)
  BY <1>1
<1>6. d[0 + 1] = g[0 + 1] /\ d[Len(FlattenSeq(ss)) + 1] = g[Len(ss) + 1]
  BY <1>2, <1>3, <1>4, <1>5 DEF ClaimedAt
<1> QED
  BY <1>2, <1>3, <1>6 DEF Leads, ClaimedAt
-----------------------------------------------------------------------------
(* Values in their homes *)

(* The registers that are the home of no value. *)
Reserved == ArgRegisters \cup {rax, rcx, rdx, r10, r11, rbp}

(* The allocator's answer: every value has one home, its own if it is a slot. *)
Housed ==
    /\ N \in Nat
    /\ \A v \in ValueIds : RegOf(v) # NoReg =>
         RegOf(v) \in CALLEE_SAVED /\ RegOf(v) \notin Reserved
    /\ \A v \in ValueIds : RegOf(v) = NoReg <=> SlotOf(v) # 0
    /\ \A v \in ValueIds : SlotOf(v) \div 8 \in Int
    /\ \A v, w \in ValueIds :
         v # w /\ RegOf(v) = NoReg /\ RegOf(w) = NoReg => SlotOf(v) \div 8 # SlotOf(w) \div 8

RegFacts(V)  == {<<RegOf(v), v>> : v \in {u \in V : RegOf(u) # NoReg}}
SlotFacts(V) == {<<SlotOf(v) \div 8, v>> : v \in {u \in V : RegOf(u) = NoReg}}

(* The first t arguments, as they have been pushed. *)
PushedFacts(args, t) == {<<j, args[j]>> : j \in 1..t}

(* The values of V are in their homes, and E tells of other registers. *)
Busy(V, E, args, t) ==
    Claim(RegFacts(V) \cup E, t, PushedFacts(args, t), SlotFacts(V))

Known(V, E) == Busy(V, E, <<>>, 0)

LEMMA BusyIs ==
    ASSUME NEW V, NEW E, NEW args, NEW t
    PROVE  /\ Busy(V, E, args, t).live /\ Busy(V, E, args, t).framed
           /\ Busy(V, E, args, t).regs = RegFacts(V) \cup E
           /\ Busy(V, E, args, t).depth = t
           /\ Busy(V, E, args, t).stack = PushedFacts(args, t)
           /\ Busy(V, E, args, t).slots = SlotFacts(V)
BY DEF Busy, Claim

LEMMA KnownIs ==
    ASSUME NEW V, NEW E, NEW args
    PROVE  Known(V, E) = Busy(V, E, args, 0) /\ PushedFacts(args, 0) = {}
BY DEF Known, Busy, PushedFacts

LEMMA FactsOfFewer ==
    ASSUME NEW V, NEW W, W \subseteq V
    PROVE  RegFacts(W) \subseteq RegFacts(V) /\ SlotFacts(W) \subseteq SlotFacts(V)
BY DEF RegFacts, SlotFacts

(* No value of V has its home in r. *)
Vacant(V, r) == \A v \in V : RegOf(v) # NoReg => RegOf(v) # r

LEMMA VacantFacts ==
    ASSUME NEW V, NEW r, Vacant(V, r)
    PROVE  \A f \in RegFacts(V) : f[1] # r
BY DEF RegFacts, Vacant

LEMMA ReservedIsVacant ==
    ASSUME Housed, NEW V \in SUBSET ValueIds, NEW r \in Reserved
    PROVE  Vacant(V, r)
BY DEF Housed, Vacant

LEMMA ReservedRegisters ==
    /\ Reserved \subseteq Register /\ CALLEE_SAVED \subseteq Register
    /\ {rax, rcx, rdx, r10, r11} \subseteq Reserved /\ ArgRegisters \subseteq Reserved
    /\ rbp \notin ArgRegisters \cup {rax, rcx, rdx, r10, r11}
    /\ rax \notin CALLEE_SAVED
BY ConventionAssumption DEF Reserved, Register

(* Of what is claimed of registers, what a new claim may keep or gain. *)
LEMMA MovLeads ==
    ASSUME NEW entry, NEW V, NEW W, W \subseteq V, NEW E, NEW F, NEW args, NEW t,
           NEW dst \in Register, dst # rbp, Vacant(W, dst), NEW src, NEW v,
           <<src, v>> \in RegFacts(V) \cup E,
           \A f \in F : f = <<dst, v>> \/ (f \in RegFacts(V) \cup E /\ f[1] # dst)
    PROVE  Leads(entry, <<Mov(dst, src)>>, Busy(V, E, args, t), Busy(W, F, args, t))
<1> DEFINE a == Busy(V, E, args, t)
           b == Busy(W, F, args, t)
           i == Mov(dst, src)
<1>1. i.op = "mov" /\ i.dst = dst /\ i.src = src /\ i.op # "jnz"
  BY DEF Mov
<1>2. /\ b.live /\ b.framed /\ a.framed /\ a.depth = t /\ b.depth = t
      /\ a.regs = RegFacts(V) \cup E /\ b.regs = RegFacts(W) \cup F
      /\ a.stack = PushedFacts(args, t) /\ b.stack = PushedFacts(args, t)
      /\ a.slots = SlotFacts(V) /\ b.slots = SlotFacts(W)
  BY BusyIs
<1> HIDE DEF a, b, i
<1>3. SameBelow(a, b)
  BY <1>2, FactsOfFewer DEF SameBelow
<1>4. ASSUME NEW f \in b.regs
      PROVE  IF f[1] = dst THEN <<src, f[2]>> \in a.regs ELSE f \in a.regs
  <2>1. CASE f \in RegFacts(W)
    BY <1>2, <2>1, VacantFacts, FactsOfFewer
  <2>2. CASE f \in F
    BY <1>2, <2>2
  <2> QED
    BY <1>2, <2>1, <2>2
<1>5. Carries(entry, i, a, b)
  BY <1>1, <1>2, <1>3, <1>4 DEF Carries, MovCarries
<1> QED
  BY <1>1, <1>5, LeadsOne DEF a, b, i

LEMMA ComputeLeads ==
    ASSUME NEW entry, NEW V, NEW W, W \subseteq V, NEW E, NEW args, NEW t,
           NEW dst \in Register, dst # rbp, Vacant(W, dst), NEW v, v \notin W,
           NEW reads, reads \subseteq RegFacts(V) \cup E, v \notin {args[j] : j \in 1..t}
    PROVE  Leads(entry, <<Compute(dst, reads, v)>>, Busy(V, E, args, t),
                 Busy(W, {<<dst, v>>}, args, t))
<1> DEFINE a == Busy(V, E, args, t)
           b == Busy(W, {<<dst, v>>}, args, t)
           i == Compute(dst, reads, v)
<1>1. i.op = "compute" /\ i.dst = dst /\ i.reads = reads /\ i.value = v /\ i.op # "jnz"
  BY DEF Compute
<1>2. /\ b.live /\ b.framed /\ a.framed /\ a.depth = t /\ b.depth = t
      /\ a.regs = RegFacts(V) \cup E /\ b.regs = RegFacts(W) \cup {<<dst, v>>}
      /\ a.stack = PushedFacts(args, t) /\ b.stack = PushedFacts(args, t)
      /\ a.slots = SlotFacts(V) /\ b.slots = SlotFacts(W)
  BY BusyIs
<1> HIDE DEF a, b, i
<1>3. /\ \A f \in RegFacts(W) : f[2] \in W
      /\ \A f \in SlotFacts(W) : f[2] \in W
      /\ \A f \in PushedFacts(args, t) : f[2] \in {args[j] : j \in 1..t}
  BY DEF RegFacts, SlotFacts, PushedFacts
<1>4. BelowWithout(a, b, {v})
  BY <1>2, <1>3, FactsOfFewer DEF BelowWithout, Unchanged
<1>5. ASSUME NEW f \in b.regs
      PROVE  IF f[1] = dst THEN f[2] = v ELSE f \in a.regs /\ f[2] # v
  <2>1. CASE f \in RegFacts(W)
    BY <1>2, <1>3, <2>1, VacantFacts, FactsOfFewer
  <2>2. CASE f = <<dst, v>>
    BY <2>2
  <2> QED
    BY <1>2, <2>1, <2>2
<1>6. Carries(entry, i, a, b)
  BY <1>1, <1>2, <1>4, <1>5 DEF Carries, ComputeCarries
<1> QED
  BY <1>1, <1>6, LeadsOne DEF a, b, i

LEMMA ClobberLeads ==
    ASSUME NEW entry, NEW V, NEW E, NEW F, NEW args, NEW t,
           NEW dst, dst # rbp, Vacant(V, dst),
           \A f \in F : f \in E /\ f[1] # dst
    PROVE  Leads(entry, <<Clobber(dst)>>, Busy(V, E, args, t), Busy(V, F, args, t))
<1> DEFINE a == Busy(V, E, args, t)
           b == Busy(V, F, args, t)
           i == Clobber(dst)
<1>1. i.op = "clobber" /\ i.dst = dst /\ i.op # "jnz"
  BY DEF Clobber
<1>2. /\ b.live /\ b.framed /\ a.framed /\ a.depth = t /\ b.depth = t
      /\ a.regs = RegFacts(V) \cup E /\ b.regs = RegFacts(V) \cup F
      /\ a.stack = PushedFacts(args, t) /\ b.stack = PushedFacts(args, t)
      /\ a.slots = SlotFacts(V) /\ b.slots = SlotFacts(V)
  BY BusyIs
<1> HIDE DEF a, b, i
<1>3. SameBelow(a, b)
  BY <1>2 DEF SameBelow
<1>4. \A f \in b.regs : f \in a.regs /\ f[1] # dst
  BY <1>2, VacantFacts
<1>5. Carries(entry, i, a, b)
  BY <1>1, <1>2, <1>3, <1>4 DEF Carries, ClobberCarries
<1> QED
  BY <1>1, <1>5, LeadsOne DEF a, b, i

LEMMA StoreMemLeads ==
    ASSUME NEW entry, NEW V, NEW W, W \subseteq V, NEW E, NEW args, NEW t,
           NEW reads, reads \subseteq RegFacts(V) \cup E
    PROVE  Leads(entry, <<StoreMem(reads)>>, Busy(V, E, args, t), Busy(W, {}, args, t))
<1> DEFINE F == {}
           a == Busy(V, E, args, t)
           b == Busy(W, F, args, t)
           i == StoreMem(reads)
<1>1. i.op = "store_mem" /\ i.reads = reads /\ i.op # "jnz"
  BY DEF StoreMem
<1> HIDE DEF F
<1>2. /\ b.live /\ b.framed /\ a.framed /\ a.depth = t /\ b.depth = t
      /\ a.regs = RegFacts(V) \cup E /\ b.regs = RegFacts(W) \cup F
      /\ a.stack = PushedFacts(args, t) /\ b.stack = PushedFacts(args, t)
      /\ a.slots = SlotFacts(V) /\ b.slots = SlotFacts(W)
  BY BusyIs
<1> HIDE DEF a, b, i
<1>3. SameBelow(a, b) /\ b.regs \subseteq a.regs
  BY <1>2, FactsOfFewer DEF SameBelow, F
<1>4. Carries(entry, i, a, b)
  BY <1>1, <1>2, <1>3 DEF Carries, StoreMemCarries
<1> QED
  BY <1>1, <1>4, LeadsOne DEF a, b, i, F

(* in_register: the value is where the lowering reads it. *)
LEMMA FetchLeads ==
    ASSUME NEW entry, Housed, NEW V \in SUBSET ValueIds, NEW E, NEW args, NEW t, NEW v \in V,
           NEW scratch \in Reserved \ {rbp}, \A f \in E : f[1] # scratch
    PROVE  Leads(entry, Fetch(v, scratch), Busy(V, E, args, t),
                 Busy(V, E \cup {<<In(v, scratch), v>>}, args, t))
<1> DEFINE a == Busy(V, E, args, t)
           b == Busy(V, E \cup {<<In(v, scratch), v>>}, args, t)
<1>1. CASE RegOf(v) # NoReg
  <2>1. Fetch(v, scratch) = <<>> /\ In(v, scratch) = RegOf(v)
    BY <1>1 DEF Fetch, In
  <2>2. <<RegOf(v), v>> \in RegFacts(V)
    BY <1>1 DEF RegFacts
  <2>3. RegFacts(V) \cup (E \cup {<<In(v, scratch), v>>}) = RegFacts(V) \cup E
    BY <2>1, <2>2
  <2>4. a = b
    BY <2>3 DEF Busy
  <2> QED
    BY <2>1, <2>4, LeadsNone
<1>2. CASE RegOf(v) = NoReg
  <2> DEFINE i == LoadSlot(scratch, SlotOf(v))
  <2>1. Fetch(v, scratch) = <<i>> /\ In(v, scratch) = scratch
    BY <1>2 DEF Fetch, In
  <2>2. <<SlotOf(v) \div 8, v>> \in SlotFacts(V)
    BY <1>2 DEF SlotFacts
  <2>3. i.op = "load_slot" /\ i.dst = scratch /\ i.slot = SlotOf(v) /\ i.op # "jnz"
    BY DEF LoadSlot
  <2>4. /\ b.live /\ b.framed /\ a.framed /\ a.depth = t /\ b.depth = t
        /\ a.regs = RegFacts(V) \cup E /\ b.regs = RegFacts(V) \cup (E \cup {<<scratch, v>>})
        /\ a.stack = PushedFacts(args, t) /\ b.stack = PushedFacts(args, t)
        /\ a.slots = SlotFacts(V) /\ b.slots = SlotFacts(V)
    BY <2>1, BusyIs
  <2>5. scratch \in Register /\ scratch # rbp
    BY ReservedRegisters
  <2>6. Vacant(V, scratch)
    BY ReservedIsVacant
  <2> HIDE DEF a, b, i
  <2>7. SameBelow(a, b)
    BY <2>4 DEF SameBelow
  <2>8. ASSUME NEW f \in b.regs
        PROVE  IF f[1] = scratch THEN <<SlotOf(v) \div 8, f[2]>> \in a.slots ELSE f \in a.regs
    <3>1. CASE f \in RegFacts(V)
      BY <2>4, <2>6, <3>1, VacantFacts
    <3>2. CASE f \in E
      BY <2>4, <3>2
    <3>3. CASE f = <<scratch, v>>
      BY <2>2, <2>4, <3>3
    <3> QED
      BY <2>4, <3>1, <3>2, <3>3
  <2>9. Carries(entry, i, a, b)
    BY <2>3, <2>4, <2>5, <2>7, <2>8 DEF Carries, LoadCarries
  <2> QED
    BY <2>1, <2>3, <2>9, LeadsOne DEF a, b
<1> QED
  BY <1>1, <1>2

(* store_if_spilled: a value that has been made goes to its home. *)
LEMMA StoreLeads ==
    ASSUME NEW entry, Housed, NEW W \in SUBSET ValueIds, NEW v \in ValueIds, v \notin W, NEW E
    PROVE  Leads(entry, store_if_spilled(v, dest_register(v)),
                 Known(W, E \cup {<<dest_register(v), v>>}), Known(W \cup {v}, E))
<1> DEFINE a == Known(W, E \cup {<<dest_register(v), v>>})
           b == Known(W \cup {v}, E)
<1>1. CASE RegOf(v) # NoReg
  <2>1. store_if_spilled(v, dest_register(v)) = <<>> /\ dest_register(v) = RegOf(v)
    BY <1>1 DEF store_if_spilled, dest_register, Housed
  <2>2. RegFacts(W \cup {v}) = RegFacts(W) \cup {<<RegOf(v), v>>}
    BY <1>1 DEF RegFacts
  <2>3. SlotFacts(W \cup {v}) = SlotFacts(W)
    BY <1>1 DEF SlotFacts
  <2>4. RegFacts(W \cup {v}) \cup E = RegFacts(W) \cup (E \cup {<<dest_register(v), v>>})
    BY <2>1, <2>2
  <2>5. a = b
    BY <2>3, <2>4 DEF Known, Busy
  <2> QED
    BY <2>1, <2>5, LeadsNone
<1>2. CASE RegOf(v) = NoReg
  <2> DEFINE i == StoreSlot(SlotOf(v), r10)
             w == SlotOf(v) \div 8
  <2>1. store_if_spilled(v, dest_register(v)) = <<i>> /\ dest_register(v) = r10
    BY <1>2 DEF store_if_spilled, dest_register, Housed
  <2>2. RegFacts(W \cup {v}) = RegFacts(W)
    BY <1>2 DEF RegFacts
  <2>3. SlotFacts(W \cup {v}) = SlotFacts(W) \cup {<<w, v>>}
    BY <1>2 DEF SlotFacts
  <2>4. i.op = "store_slot" /\ i.slot = SlotOf(v) /\ i.src = r10 /\ i.op # "jnz"
    BY DEF StoreSlot
  <2>5. /\ b.live /\ b.framed /\ a.framed /\ a.depth = 0 /\ b.depth = 0
        /\ a.regs = RegFacts(W) \cup (E \cup {<<r10, v>>}) /\ b.regs = RegFacts(W) \cup E
        /\ b.stack = {}
        /\ a.slots = SlotFacts(W) /\ b.slots = SlotFacts(W) \cup {<<w, v>>}
    <3>1. /\ a.regs = RegFacts(W) \cup (E \cup {<<r10, v>>}) /\ a.framed /\ a.depth = 0
          /\ a.slots = SlotFacts(W)
      BY <2>1, BusyIs DEF Known
    <3>2. /\ b.live /\ b.framed /\ b.depth = 0 /\ b.regs = RegFacts(W) \cup E
          /\ b.stack = PushedFacts(<<>>, 0) /\ b.slots = SlotFacts(W \cup {v})
      <4> DEFINE U == W \cup {v}
      <4>1. RegFacts(U) = RegFacts(W)
        BY <2>2
      <4>2. b = Busy(U, E, <<>>, 0)
        BY DEF Known
      <4> HIDE DEF U, b
      <4>3. /\ b.live /\ b.framed /\ b.depth = 0 /\ b.regs = RegFacts(U) \cup E
            /\ b.stack = PushedFacts(<<>>, 0) /\ b.slots = SlotFacts(U)
        BY <4>2, BusyIs
      <4> QED
        BY <4>1, <4>3 DEF U
    <3> QED
      BY <2>3, <3>1, <3>2, KnownIs
  <2>6. \A f \in SlotFacts(W) : f[1] # w
    BY <1>2 DEF SlotFacts, Housed
  <2>7. w \in Int
    BY DEF Housed
  <2> HIDE DEF a, b, i, w
  <2>8. \A f \in b.slots : IF f[1] = w THEN <<r10, f[2]>> \in a.regs ELSE f \in a.slots
    BY <2>5, <2>6
  <2>9. StoreCarries(i, a, b)
    BY <2>4, <2>5, <2>7, <2>8 DEF StoreCarries, w
  <2>10. Carries(entry, i, a, b)
    BY <2>5, <2>9 DEF Carries
  <2> QED
    BY <2>1, <2>4, <2>10, LeadsOne DEF a, b
<1> QED
  BY <1>1, <1>2

LEMMA PushLeads ==
    ASSUME NEW entry, NEW V, NEW E, NEW F, F \subseteq E, NEW args, NEW t \in Nat, NEW src,
           <<src, args[t + 1]>> \in RegFacts(V) \cup E
    PROVE  Leads(entry, <<Push(src)>>, Busy(V, E, args, t), Busy(V, F, args, t + 1))
<1> DEFINE a == Busy(V, E, args, t)
           b == Busy(V, F, args, t + 1)
           i == Push(src)
<1>1. i.op = "push" /\ i.src = src /\ i.op # "jnz"
  BY DEF Push
<1>2. /\ b.live /\ b.framed /\ a.framed /\ a.depth = t /\ b.depth = t + 1
      /\ a.regs = RegFacts(V) \cup E /\ b.regs = RegFacts(V) \cup F
      /\ a.stack = PushedFacts(args, t) /\ b.stack = PushedFacts(args, t + 1)
      /\ a.slots = SlotFacts(V) /\ b.slots = SlotFacts(V)
  BY BusyIs
<1>3. PushedFacts(args, t + 1) = PushedFacts(args, t) \cup {<<t + 1, args[t + 1]>>}
  <2>1. 1..(t + 1) = 1..t \cup {t + 1}
    OBVIOUS
  <2> QED
    BY <2>1 DEF PushedFacts
<1>4. \A f \in PushedFacts(args, t) : f[1] # t + 1
  BY DEF PushedFacts
<1> HIDE DEF a, b, i
<1>5. \A f \in b.stack : IF f[1] = b.depth THEN <<src, f[2]>> \in a.regs ELSE f \in a.stack
  BY <1>2, <1>3, <1>4
<1>6. PushCarries(i, a, b)
  BY <1>1, <1>2, <1>5 DEF PushCarries
<1>7. Carries(entry, i, a, b)
  BY <1>2, <1>6 DEF Carries
<1> QED
  BY <1>1, <1>7, LeadsOne DEF a, b, i

LEMMA PopClaims ==
    ASSUME NEW entry, NEW V, NEW E, NEW F, NEW args, NEW t \in Nat,
           NEW dst \in Register, dst # rbp, Vacant(V, dst),
           \A f \in F : f = <<dst, args[t + 1]>> \/ (f \in E /\ f[1] # dst)
    PROVE  Carries(entry, Pop(dst), Busy(V, E, args, t + 1), Busy(V, F, args, t))
<1> DEFINE a == Busy(V, E, args, t + 1)
           b == Busy(V, F, args, t)
           i == Pop(dst)
<1>1. i.op = "pop" /\ i.dst = dst
  BY DEF Pop
<1>2. /\ b.live /\ b.framed /\ a.framed /\ a.depth = t + 1 /\ b.depth = t
      /\ a.regs = RegFacts(V) \cup E /\ b.regs = RegFacts(V) \cup F
      /\ a.stack = PushedFacts(args, t + 1) /\ b.stack = PushedFacts(args, t)
      /\ a.slots = SlotFacts(V) /\ b.slots = SlotFacts(V)
  BY BusyIs
<1>3. /\ \A f \in PushedFacts(args, t) : f \in PushedFacts(args, t + 1) /\ f[1] <= t
      /\ <<t + 1, args[t + 1]>> \in PushedFacts(args, t + 1)
  BY DEF PushedFacts
<1> HIDE DEF a, b, i
<1>4. ASSUME NEW f \in b.regs
      PROVE  IF f[1] = dst THEN <<t + 1, f[2]>> \in a.stack ELSE f \in a.regs
  <2>1. CASE f \in RegFacts(V)
    BY <1>2, <2>1, VacantFacts
  <2>2. CASE f \in F
    BY <1>2, <1>3, <2>2
  <2> QED
    BY <1>2, <2>1, <2>2
<1>5. PopCarries(i, a, b)
  BY <1>1, <1>2, <1>3, <1>4 DEF PopCarries
<1> QED
  BY <1>2, <1>5 DEF Carries, a, b, i

(* The lowerings that pass arguments *)

(* The arguments from the k-th on are in their registers. *)
Arriving(args, k) == {<<ARG_REGISTERS[j], args[j]>> : j \in k..Len(args)}

LEMMA ArgumentsApart ==
    /\ Len(ARG_REGISTERS) \in Nat
    /\ \A k \in 1..Len(ARG_REGISTERS) :
         /\ ARG_REGISTERS[k] \in Register /\ ARG_REGISTERS[k] \in Reserved
         /\ ARG_REGISTERS[k] \notin {rax, r10, r11, rbp}
    /\ \A j, k \in 1..Len(ARG_REGISTERS) : ARG_REGISTERS[j] = ARG_REGISTERS[k] => j = k
<1>1. Len(ARG_REGISTERS) \in Nat /\ DOMAIN ARG_REGISTERS = 1..Len(ARG_REGISTERS)
  BY RegistersAssumption
<1>2. \A k \in 1..Len(ARG_REGISTERS) : ARG_REGISTERS[k] \in ArgRegisters
  BY DEF ArgRegisters
<1>3. \A j, k \in 1..Len(ARG_REGISTERS) : ARG_REGISTERS[j] = ARG_REGISTERS[k] => j = k
  BY <1>1, BorrowedAssumption DEF IsInjective
<1> QED
  BY <1>1, <1>2, <1>3, BorrowedAssumption, ReservedRegisters

(* bind_call_args: every argument is pushed from its home, and popped where it goes. *)
LEMMA BindLeads ==
    ASSUME NEW entry, Housed, NEW V \in SUBSET ValueIds, NEW args, IsSequence(args),
           \A k \in 1..Len(args) : args[k] \in V, Len(args) <= Len(ARG_REGISTERS)
    PROVE  Leads(entry, bind_call_args(args), Known(V, {}), Known(V, Arriving(args, 1)))
<1> DEFINE n == Len(args)
           rows == [a \in 1..n |-> Append(Fetch(args[a], r10), Push(In(args[a], r10)))]
           pops == [a \in 1..n |-> Pop(ARG_REGISTERS[n + 1 - a])]
           g == [k \in Nat |-> Busy(V, {}, args, k - 1)]
           d == [p \in Nat |-> Busy(V, Arriving(args, n + 2 - p), args, n + 1 - p)]
<1>1. n \in Nat /\ n <= Len(ARG_REGISTERS) /\ Least(n, Len(ARG_REGISTERS)) = n
  BY SequenceElements, ArgumentsApart DEF Least
<1>2. bind_call_args(args) = FlattenSeq(rows) \o pops
  BY <1>1 DEF bind_call_args
<1>3. /\ IsSequence(rows) /\ Len(rows) = n
      /\ \A a \in 1..n : rows[a] = Append(Fetch(args[a], r10), Push(In(args[a], r10)))
  BY <1>1, FunctionIsSequence
<1>4. IsSequence(pops) /\ Len(pops) = n /\ \A a \in 1..n : pops[a] = Pop(ARG_REGISTERS[n + 1 - a])
  BY <1>1, FunctionIsSequence
<1>5. /\ \A k \in Nat : g[k] = Busy(V, {}, args, k - 1)
      /\ \A p \in Nat : d[p] = Busy(V, Arriving(args, n + 2 - p), args, n + 1 - p)
  OBVIOUS
<1> HIDE DEF n, rows, pops, g, d
<1>6. ASSUME NEW k \in 1..n PROVE Leads(entry, rows[k], g[k], g[k + 1])
  <2> DEFINE v == args[k]
             s == Fetch(v, r10)
             i == Push(In(v, r10))
             t == k - 1
             E == {} \cup {<<In(v, r10), v>>}
  <2>1. k \in Nat /\ k + 1 \in Nat /\ t \in Nat /\ t + 1 = k /\ (k + 1) - 1 = t + 1
    BY <1>1
  <2>2. v \in V /\ r10 \in Reserved \ {rbp} /\ v = args[t + 1]
    BY <2>1, ReservedRegisters DEF n
  <2>3. g[k] = Busy(V, {}, args, t) /\ g[k + 1] = Busy(V, {}, args, t + 1)
    BY <1>5, <2>1
  <2> HIDE DEF t, v
  <2>4. Leads(entry, s, Busy(V, {}, args, t), Busy(V, E, args, t))
    BY <2>2, FetchLeads
  <2>5. Leads(entry, <<i>>, Busy(V, E, args, t), Busy(V, {}, args, t + 1))
    <3>1. <<In(v, r10), args[t + 1]>> \in RegFacts(V) \cup E /\ {} \subseteq E
      BY <2>2
    <3> HIDE DEF E
    <3> QED
      BY <2>1, <3>1, PushLeads
  <2>6. rows[k] = s \o <<i>>
    <3>1. IsSequence(s)
      BY <2>4 DEF Leads
    <3> QED
      BY <1>3, <3>1, AppendIsConcatenation DEF v
  <2> HIDE DEF s, i, E
  <2> QED
    BY <2>3, <2>4, <2>5, <2>6, LeadsTogether
<1>7. Leads(entry, FlattenSeq(rows), Known(V, {}), Busy(V, {}, args, n))
  <2>1. g[1] = Known(V, {})
    <3>1. 1 \in Nat /\ 1 - 1 = 0
      OBVIOUS
    <3> QED
      BY <1>5, <3>1, KnownIs
  <2>2. g[n + 1] = Busy(V, {}, args, n)
    <3>1. n + 1 \in Nat /\ (n + 1) - 1 = n
      BY <1>1
    <3> QED
      BY <1>5, <3>1
  <2>3. Leads(entry, FlattenSeq(rows), g[1], g[Len(rows) + 1])
    BY <1>3, <1>6, PiecesLead
  <2> QED
    BY <1>3, <2>1, <2>2, <2>3
<1>8. Leads(entry, pops, Busy(V, {}, args, n), Known(V, Arriving(args, 1)))
  <2>1. ASSUME NEW p \in 1..n
        PROVE  Carries(entry, pops[p], d[p], d[p + 1]) /\ pops[p].op # "jnz"
    <3> DEFINE t == n - p
               r == ARG_REGISTERS[t + 1]
               E == Arriving(args, t + 2)
               F == Arriving(args, t + 1)
    <3>1. /\ t \in Nat /\ t + 1 \in 1..Len(ARG_REGISTERS) /\ t + 1 \in 1..n
          /\ p \in Nat /\ p + 1 \in Nat
          /\ n + 2 - p = t + 2 /\ n + 1 - p = t + 1
          /\ n + 2 - (p + 1) = t + 1 /\ n + 1 - (p + 1) = t
      BY <1>1, ArgumentsApart
    <3>2. d[p] = Busy(V, E, args, t + 1) /\ d[p + 1] = Busy(V, F, args, t)
      <4>1. d[p] = Busy(V, Arriving(args, n + 2 - p), args, n + 1 - p)
        BY <1>5, <3>1
      <4>2. d[p + 1] = Busy(V, Arriving(args, n + 2 - (p + 1)), args, n + 1 - (p + 1))
        BY <1>5, <3>1
      <4> HIDE DEF t
      <4> QED
        BY <3>1, <4>1, <4>2
    <3>3. pops[p] = Pop(r) /\ Pop(r).op # "jnz"
      BY <1>4, <3>1 DEF Pop
    <3> HIDE DEF t
    <3>4. r \in Register /\ r # rbp /\ Vacant(V, r)
      BY <3>1, ArgumentsApart, ReservedIsVacant
    <3>5. ASSUME NEW f \in F PROVE f = <<r, args[t + 1]>> \/ (f \in E /\ f[1] # r)
      <4>1. PICK j \in (t + 1)..n : f = <<ARG_REGISTERS[j], args[j]>>
        BY DEF Arriving, n
      <4>2. j \in 1..Len(ARG_REGISTERS) /\ (j = t + 1 \/ j \in (t + 2)..n)
        BY <1>1, <3>1, <4>1, ArgumentsApart
      <4>3. CASE j = t + 1
        BY <4>1, <4>3
      <4>4. CASE j \in (t + 2)..n
        <5>1. j # t + 1
          BY <3>1, <4>4
        <5>2. ARG_REGISTERS[j] # r
          BY <3>1, <4>2, <5>1, ArgumentsApart
        <5>3. f \in E
          BY <4>1, <4>4 DEF Arriving, n
        <5> QED
          BY <4>1, <5>2, <5>3
      <4> QED
        BY <4>2, <4>3, <4>4
    <3> HIDE DEF r, E, F
    <3>6. Carries(entry, Pop(r), Busy(V, E, args, t + 1), Busy(V, F, args, t))
      BY <3>1, <3>4, <3>5, PopClaims
    <3> QED
      BY <3>2, <3>3, <3>6
  <2>2. Leads(entry, pops, d[1], d[Len(pops) + 1])
    BY <1>4, <2>1, LeadsEach
  <2>3. d[1] = Busy(V, {}, args, n)
    <3>1. 1 \in Nat /\ n + 2 - 1 = n + 1 /\ n + 1 - 1 = n
      BY <1>1
    <3>2. Arriving(args, n + 1) = {}
      BY <1>1 DEF Arriving, n
    <3>3. d[1] = Busy(V, Arriving(args, n + 2 - 1), args, n + 1 - 1)
      BY <1>5
    <3> QED
      BY <3>1, <3>2, <3>3
  <2>4. d[n + 1] = Known(V, Arriving(args, 1))
    <3>1. n + 1 \in Nat /\ n + 2 - (n + 1) = 1 /\ n + 1 - (n + 1) = 0
      BY <1>1
    <3>2. d[n + 1] = Busy(V, Arriving(args, n + 2 - (n + 1)), args, n + 1 - (n + 1))
      BY <1>5, <3>1
    <3> QED
      BY <3>1, <3>2, KnownIs
  <2> QED
    BY <1>4, <2>2, <2>3, <2>4
<1> QED
  BY <1>2, <1>7, <1>8, LeadsTogether

-----------------------------------------------------------------------------
(* The lowerings that keep to registers and slots *)

LEMMA TupleIsSequence ==
    \A i, j, k, l, m : /\ IsSequence(<<i>>) /\ IsSequence(<<i, j>>) /\ IsSequence(<<i, j, k>>)
                       /\ IsSequence(<<i, j, k, l>>) /\ IsSequence(<<i, j, k, l, m>>)
BY DEF IsSequence, ToSet

LEMMA OneMore ==
    ASSUME NEW s, IsSequence(s), NEW e, NEW t, IsSequence(t), Len(t) = Len(s) + 1,
           \A p \in 1..Len(s) : t[p] = s[p], t[Len(s) + 1] = e
    PROVE  s \o <<e>> = t
<1>1. /\ IsSequence(Append(s, e)) /\ Append(s, e) = s \o <<e>>
      /\ Len(Append(s, e)) = Len(s) + 1
      /\ \A i \in 1..Len(s) : Append(s, e)[i] = s[i]
      /\ Append(s, e)[Len(s) + 1] = e
  BY AppendedElements, AppendIsConcatenation
<1>2. Len(s) \in Nat
  BY SequenceElements
<1>3. \A p \in 1..(Len(s) + 1) : p \in 1..Len(s) \/ p = Len(s) + 1
  BY <1>2
<1>4. \A p \in 1..(Len(s) + 1) : Append(s, e)[p] = t[p]
  BY <1>1, <1>3
<1> QED
  BY <1>1, <1>4, SameElements

LEMMA TuplesJoin ==
    \A i, j, k, l, m :
      /\ <<i>> \o <<j>> = <<i, j>>
      /\ <<i, j>> \o <<k>> = <<i, j, k>>
      /\ <<i, j, k>> \o <<l>> = <<i, j, k, l>>
      /\ <<i, j, k, l>> \o <<m>> = <<i, j, k, l, m>>
<1> SUFFICES ASSUME NEW i, NEW j, NEW k, NEW l, NEW m
             PROVE  /\ <<i>> \o <<j>> = <<i, j>>
                    /\ <<i, j>> \o <<k>> = <<i, j, k>>
                    /\ <<i, j, k>> \o <<l>> = <<i, j, k, l>>
                    /\ <<i, j, k, l>> \o <<m>> = <<i, j, k, l, m>>
  OBVIOUS
<1> DEFINE s1 == <<i>>
           s2 == <<i, j>>
           s3 == <<i, j, k>>
           s4 == <<i, j, k, l>>
           s5 == <<i, j, k, l, m>>
<1>1. /\ Len(s1) = 1 /\ s1[1] = i
      /\ Len(s2) = 2 /\ s2[1] = i /\ s2[2] = j
      /\ Len(s3) = 3 /\ s3[1] = i /\ s3[2] = j /\ s3[3] = k
      /\ Len(s4) = 4 /\ s4[1] = i /\ s4[2] = j /\ s4[3] = k /\ s4[4] = l
      /\ Len(s5) = 5 /\ s5[1] = i /\ s5[2] = j /\ s5[3] = k /\ s5[4] = l /\ s5[5] = m
  OBVIOUS
<1>2. IsSequence(s1) /\ IsSequence(s2) /\ IsSequence(s3) /\ IsSequence(s4) /\ IsSequence(s5)
  BY TupleIsSequence
<1> HIDE DEF s1, s2, s3, s4, s5
<1>3. s1 \o <<j>> = s2
  <2>1. Len(s2) = Len(s1) + 1 /\ (\A p \in 1..Len(s1) : s2[p] = s1[p]) /\ s2[Len(s1) + 1] = j
    BY <1>1
  <2> QED
    BY <1>2, <2>1, OneMore
<1>4. s2 \o <<k>> = s3
  <2>1. Len(s3) = Len(s2) + 1 /\ (\A p \in 1..Len(s2) : s3[p] = s2[p]) /\ s3[Len(s2) + 1] = k
    BY <1>1
  <2> QED
    BY <1>2, <2>1, OneMore
<1>5. s3 \o <<l>> = s4
  <2>1. Len(s4) = Len(s3) + 1 /\ (\A p \in 1..Len(s3) : s4[p] = s3[p]) /\ s4[Len(s3) + 1] = l
    BY <1>1
  <2> QED
    BY <1>2, <2>1, OneMore
<1>6. s4 \o <<m>> = s5
  <2>1. Len(s5) = Len(s4) + 1 /\ (\A p \in 1..Len(s4) : s5[p] = s4[p]) /\ s5[Len(s4) + 1] = m
    BY <1>1
  <2> QED
    BY <1>2, <2>1, OneMore
<1> QED
  BY <1>3, <1>4, <1>5, <1>6 DEF s1, s2, s3, s4, s5

LEMMA LeadsMore ==
    ASSUME NEW entry, NEW m, NEW a, NEW b, NEW c, Leads(entry, <<m>>, b, c)
    PROVE  /\ \A i : Leads(entry, <<i>>, a, b) => Leads(entry, <<i, m>>, a, c)
           /\ \A i, j : Leads(entry, <<i, j>>, a, b) => Leads(entry, <<i, j, m>>, a, c)
           /\ \A i, j, k : Leads(entry, <<i, j, k>>, a, b) => Leads(entry, <<i, j, k, m>>, a, c)
           /\ \A i, j, k, l : Leads(entry, <<i, j, k, l>>, a, b)
                              => Leads(entry, <<i, j, k, l, m>>, a, c)
<1>1. \A s : Leads(entry, s, a, b) => Leads(entry, s \o <<m>>, a, c)
  BY LeadsTogether
<1>2. ASSUME NEW i, Leads(entry, <<i>>, a, b) PROVE Leads(entry, <<i, m>>, a, c)
  <2>1. <<i>> \o <<m>> = <<i, m>>
    BY TuplesJoin
  <2> QED
    BY <1>1, <1>2, <2>1
<1>3. ASSUME NEW i, NEW j, Leads(entry, <<i, j>>, a, b)
      PROVE  Leads(entry, <<i, j, m>>, a, c)
  <2>1. <<i, j>> \o <<m>> = <<i, j, m>>
    BY TuplesJoin
  <2> QED
    BY <1>1, <1>3, <2>1
<1>4. ASSUME NEW i, NEW j, NEW k, Leads(entry, <<i, j, k>>, a, b)
      PROVE  Leads(entry, <<i, j, k, m>>, a, c)
  <2>1. <<i, j, k>> \o <<m>> = <<i, j, k, m>>
    BY TuplesJoin
  <2> QED
    BY <1>1, <1>4, <2>1
<1>5. ASSUME NEW i, NEW j, NEW k, NEW l, Leads(entry, <<i, j, k, l>>, a, b)
      PROVE  Leads(entry, <<i, j, k, l, m>>, a, c)
  <2>1. <<i, j, k, l>> \o <<m>> = <<i, j, k, l, m>>
    BY TuplesJoin
  <2> QED
    BY <1>1, <1>5, <2>1
<1> QED
  BY <1>2, <1>3, <1>4, <1>5

(* No two of the borrowed registers are one. *)
LEMMA BorrowedApart ==
    /\ rax \notin {rcx, rdx, r10, r11, rbp} /\ rcx \notin {rax, rdx, r10, r11, rbp}
    /\ rdx \notin {rax, rcx, r10, r11, rbp} /\ r10 \notin {rax, rcx, rdx, r11, rbp}
    /\ r11 \notin {rax, rcx, rdx, r10, rbp}
    /\ {rax, rcx, rdx, r10, r11} \subseteq Reserved \cap Register
<1> DEFINE s == <<rax, rcx, rdx, r10, r11>>
<1>1. \A j, k \in 1..5 : s[j] = s[k] => j = k
  <2>1. DOMAIN s = 1..5
    OBVIOUS
  <2> QED
    BY <2>1, BorrowedAssumption DEF IsInjective
<1>2. s[1] = rax /\ s[2] = rcx /\ s[3] = rdx /\ s[4] = r10 /\ s[5] = r11
  OBVIOUS
<1> HIDE DEF s
<1>3. /\ rax # rcx /\ rax # rdx /\ rax # r10 /\ rax # r11 /\ rcx # rdx /\ rcx # r10
      /\ rcx # r11 /\ rdx # r10 /\ rdx # r11 /\ r10 # r11
  BY <1>1, <1>2
<1> QED
  BY <1>3, ReservedRegisters
(* v is made where the values of V are needed, and those of W still after it. *)
Making(V, W, v) ==
    /\ V \in SUBSET ValueIds /\ W \subseteq V /\ v \in ValueIds /\ v \notin V
    /\ Vacant(V, RegOf(v))

LEMMA DestinationFacts ==
    ASSUME Housed, NEW V, NEW W, NEW v, Making(V, W, v)
    PROVE  /\ dest_register(v) \in Register /\ dest_register(v) # rbp
           /\ dest_register(v) \notin Reserved \ {r10}
           /\ Vacant(V, dest_register(v)) /\ Vacant(W, dest_register(v))
<1>1. CASE RegOf(v) = NoReg
  <2>1. dest_register(v) = r10
    BY <1>1 DEF dest_register
  <2>2. Vacant(V, r10)
    BY BorrowedApart, ReservedIsVacant DEF Making
  <2> QED
    BY <2>1, <2>2, BorrowedApart DEF Making, Vacant
<1>2. CASE RegOf(v) # NoReg
  <2>1. dest_register(v) = RegOf(v) /\ RegOf(v) \in CALLEE_SAVED /\ RegOf(v) \notin Reserved
    BY <1>2 DEF dest_register, Housed, Making
  <2> QED
    BY <2>1, ReservedRegisters DEF Making, Vacant, Reserved
<1> QED
  BY <1>1, <1>2

(* Where an operand is read: in what it is loaded to, or at home. *)
LEMMA OperandFacts ==
    ASSUME Housed, NEW V \in SUBSET ValueIds, NEW v \in V, NEW scratch
    PROVE  /\ In(v, scratch) = scratch \/ In(v, scratch) \notin Reserved
           /\ \A r : Vacant(V, r) /\ r # scratch => In(v, scratch) # r
BY DEF In, Housed, Vacant

LEMMA FetchBoth ==
    ASSUME NEW entry, Housed, NEW V \in SUBSET ValueIds, NEW v \in V, NEW w \in V
    PROVE  Leads(entry, Fetch(v, r10) \o Fetch(w, r11), Known(V, {}),
                 Known(V, {<<In(v, r10), v>>, <<In(w, r11), w>>}))
<1> DEFINE E == {} \cup {<<In(v, r10), v>>}
           F == E \cup {<<In(w, r11), w>>}
<1>1. Leads(entry, Fetch(v, r10), Known(V, {}), Known(V, E))
  BY BorrowedApart, FetchLeads DEF Known
<1>2. \A f \in E : f[1] # r11
  BY BorrowedApart, OperandFacts
<1> HIDE DEF E
<1>3. Leads(entry, Fetch(w, r11), Known(V, E), Known(V, F))
  BY <1>2, BorrowedApart, FetchLeads DEF Known
<1>4. F = {<<In(v, r10), v>>, <<In(w, r11), w>>}
  BY DEF E
<1> HIDE DEF F
<1> QED
  BY <1>1, <1>3, <1>4, LeadsTogether

(* What a lowering computes, from the registers it has its operands in. *)
LEMMA MakeLeads ==
    ASSUME NEW entry, Housed, NEW V, NEW W, NEW v, Making(V, W, v), NEW E, NEW reads,
           reads \subseteq RegFacts(V) \cup E,
           NEW dst, dst = dest_register(v) \/ dst \in Reserved \ {rbp}
    PROVE  Leads(entry, <<Compute(dst, reads, v)>>, Known(V, E), Known(W, {<<dst, v>>}))
<1>1. dst \in Register /\ dst # rbp /\ Vacant(W, dst)
  <2>1. W \in SUBSET ValueIds
    BY DEF Making
  <2> QED
    BY <2>1, DestinationFacts, ReservedRegisters, ReservedIsVacant
<1>2. W \subseteq V /\ v \notin W /\ v \notin {<<>>[j] : j \in 1..0}
  BY DEF Making
<1> QED
  BY <1>1, <1>2, ComputeLeads DEF Known

(* The result of a lowering that has it in rax. *)
LEMMA FromRaxLeads ==
    ASSUME NEW entry, Housed, NEW V, NEW W, NEW v, Making(V, W, v)
    PROVE  Leads(entry, <<Mov(dest_register(v), rax)>>, Known(W, {<<rax, v>>}),
                 Known(W, {<<dest_register(v), v>>}))
<1> DEFINE dst == dest_register(v)
           E == {<<rax, v>>}
           F == {<<dst, v>>}
<1>1. dst \in Register /\ dst # rbp /\ Vacant(W, dst)
  BY DestinationFacts
<1>2. <<rax, v>> \in RegFacts(W) \cup E /\ \A f \in F : f = <<dst, v>>
  OBVIOUS
<1> HIDE DEF dst, E, F
<1>3. Leads(entry, <<Mov(dst, rax)>>, Busy(W, E, <<>>, 0), Busy(W, F, <<>>, 0))
  <2>1. W \subseteq W /\ \A f \in F : f = <<dst, v>> \/ (f \in RegFacts(W) \cup E /\ f[1] # dst)
    BY <1>2
  <2> QED
    BY <1>1, <1>2, <2>1, MovLeads
<1> QED
  BY <1>3 DEF Known, dst, E, F

LEMMA BinaryLeads ==
    ASSUME NEW entry, Housed, NEW V, NEW W, NEW inst, Making(V, W, inst.result),
           inst.operands[1] \in V, inst.operands[2] \in V
    PROVE  Leads(entry, Binary(inst), Known(V, {}),
                 Known(W, {<<dest_register(inst.result), inst.result>>}))
<1> DEFINE lhs == inst.operands[1]
           rhs == inst.operands[2]
           v   == inst.result
           reg == dest_register(v)
           E == {<<In(lhs, r10), lhs>>, <<In(rhs, r11), rhs>>}
           F == {<<reg, lhs>>, <<In(rhs, r11), rhs>>}
           i == Mov(reg, In(lhs, r10))
           j == Compute(reg, F, v)
           b == Known(W, {<<reg, v>>})
<1>1. V \in SUBSET ValueIds
  BY DEF Making
<1>2. Leads(entry, Fetch(lhs, r10) \o Fetch(rhs, r11), Known(V, {}), Known(V, E))
  BY <1>1, FetchBoth
<1>3. Leads(entry, <<i>>, Known(V, E), Known(V, F))
  <2>1. /\ reg \in Register /\ reg # rbp /\ Vacant(V, reg) /\ reg # r11
    BY BorrowedApart, DestinationFacts
  <2>2. <<In(lhs, r10), lhs>> \in RegFacts(V) \cup E /\ In(rhs, r11) # reg
    BY <1>1, <2>1, OperandFacts
  <2>3. \A f \in F : f = <<reg, lhs>> \/ (f \in RegFacts(V) \cup E /\ f[1] # reg)
    BY <2>2
  <2> HIDE DEF reg, lhs, rhs, E, F
  <2> QED
    BY <2>1, <2>2, <2>3, MovLeads DEF Known
<1>4. Leads(entry, <<j>>, Known(V, F), b)
  <2>1. F \subseteq RegFacts(V) \cup F
    OBVIOUS
  <2> HIDE DEF F
  <2> QED
    BY <2>1, MakeLeads
<1>5. Binary(inst) = (Fetch(lhs, r10) \o Fetch(rhs, r11)) \o <<i, j>>
  BY DEF Binary
<1> HIDE DEF E, F, i, j, b
<1>6. Leads(entry, <<i, j>>, Known(V, E), b)
  BY <1>3, <1>4, LeadsMore
<1> QED
  BY <1>2, <1>5, <1>6, LeadsTogether DEF b

LEMMA ShiftLeads ==
    ASSUME NEW entry, Housed, NEW V, NEW W, NEW inst, Making(V, W, inst.result),
           inst.operands[1] \in V, inst.operands[2] \in V
    PROVE  Leads(entry, Shift(inst), Known(V, {}),
                 Known(W, {<<dest_register(inst.result), inst.result>>}))
<1> DEFINE lhs == inst.operands[1]
           rhs == inst.operands[2]
           v   == inst.result
           reg == dest_register(v)
           E == {<<In(lhs, r10), lhs>>, <<In(rhs, r11), rhs>>}
           F == {<<In(lhs, r10), lhs>>, <<rcx, rhs>>}
           G == {<<reg, lhs>>, <<rcx, rhs>>}
           h == Mov(rcx, In(rhs, r11))
           i == Mov(reg, In(lhs, r10))
           j == Compute(reg, G, v)
           b == Known(W, {<<reg, v>>})
<1>1. V \in SUBSET ValueIds
  BY DEF Making
<1>2. Leads(entry, Fetch(lhs, r10) \o Fetch(rhs, r11), Known(V, {}), Known(V, E))
  BY <1>1, FetchBoth
<1>3. Leads(entry, <<h>>, Known(V, E), Known(V, F))
  <2>1. rcx \in Register /\ rcx # rbp /\ Vacant(V, rcx) /\ In(lhs, r10) # rcx
    BY <1>1, BorrowedApart, ReservedIsVacant, OperandFacts
  <2>2. /\ <<In(rhs, r11), rhs>> \in RegFacts(V) \cup E
        /\ \A f \in F : f = <<rcx, rhs>> \/ (f \in RegFacts(V) \cup E /\ f[1] # rcx)
    BY <2>1
  <2> HIDE DEF lhs, rhs, E, F
  <2> QED
    BY <2>1, <2>2, MovLeads DEF Known
<1>4. Leads(entry, <<i>>, Known(V, F), Known(V, G))
  <2>1. reg \in Register /\ reg # rbp /\ Vacant(V, reg) /\ reg # rcx
    BY BorrowedApart, DestinationFacts
  <2>2. /\ <<In(lhs, r10), lhs>> \in RegFacts(V) \cup F
        /\ \A f \in G : f = <<reg, lhs>> \/ (f \in RegFacts(V) \cup F /\ f[1] # reg)
    BY <2>1
  <2> HIDE DEF reg, lhs, rhs, F, G
  <2> QED
    BY <2>1, <2>2, MovLeads DEF Known
<1>5. Leads(entry, <<j>>, Known(V, G), b)
  <2>1. G \subseteq RegFacts(V) \cup G
    OBVIOUS
  <2> HIDE DEF G
  <2> QED
    BY <2>1, MakeLeads
<1>6. Shift(inst) = (Fetch(lhs, r10) \o Fetch(rhs, r11)) \o <<h, i, j>>
  BY DEF Shift
<1> HIDE DEF E, F, G, h, i, j, b
<1>7. Leads(entry, <<h, i>>, Known(V, E), Known(V, G))
  BY <1>3, <1>4, LeadsMore
<1>8. Leads(entry, <<h, i, j>>, Known(V, E), b)
  BY <1>5, <1>7, LeadsMore
<1> QED
  BY <1>2, <1>6, <1>8, LeadsTogether DEF b

LEMMA DivideLeads ==
    ASSUME NEW entry, Housed, NEW V, NEW W, NEW inst, Making(V, W, inst.result),
           inst.operands[1] \in V, inst.operands[2] \in V
    PROVE  Leads(entry, Divide(inst), Known(V, {}),
                 Known(W, {<<dest_register(inst.result), inst.result>>}))
<1> DEFINE lhs == inst.operands[1]
           rhs == inst.operands[2]
           v   == inst.result
           E == {<<In(lhs, r10), lhs>>, <<In(rhs, r11), rhs>>}
           F == {<<rax, lhs>>, <<In(rhs, r11), rhs>>}
           G == {<<rax, lhs>>, <<r11, rhs>>}
           h == Mov(rax, In(lhs, r10))
           i == Mov(r11, In(rhs, r11))
           j == Clobber(rdx)
           k == Compute(rax, G, v)
           l == Mov(dest_register(v), rax)
           b == Known(W, {<<dest_register(v), v>>})
<1>1. V \in SUBSET ValueIds
  BY DEF Making
<1>2. Leads(entry, Fetch(lhs, r10) \o Fetch(rhs, r11), Known(V, {}), Known(V, E))
  BY <1>1, FetchBoth
<1>3. Leads(entry, <<h>>, Known(V, E), Known(V, F))
  <2>1. rax \in Register /\ rax # rbp /\ Vacant(V, rax) /\ In(rhs, r11) # rax
    BY <1>1, BorrowedApart, ReservedIsVacant, OperandFacts
  <2>2. /\ <<In(lhs, r10), lhs>> \in RegFacts(V) \cup E
        /\ \A f \in F : f = <<rax, lhs>> \/ (f \in RegFacts(V) \cup E /\ f[1] # rax)
    BY <2>1
  <2> HIDE DEF lhs, rhs, E, F
  <2> QED
    BY <2>1, <2>2, MovLeads DEF Known
<1>4. Leads(entry, <<i>>, Known(V, F), Known(V, G))
  <2>1. r11 \in Register /\ r11 # rbp /\ Vacant(V, r11) /\ rax # r11
    BY <1>1, BorrowedApart, ReservedIsVacant
  <2>2. /\ <<In(rhs, r11), rhs>> \in RegFacts(V) \cup F
        /\ \A f \in G : f = <<r11, rhs>> \/ (f \in RegFacts(V) \cup F /\ f[1] # r11)
    BY <2>1
  <2> HIDE DEF lhs, rhs, F, G
  <2> QED
    BY <2>1, <2>2, MovLeads DEF Known
<1>5. Leads(entry, <<j>>, Known(V, G), Known(V, G))
  <2>1. rdx # rbp /\ Vacant(V, rdx) /\ \A f \in G : f \in G /\ f[1] # rdx
    BY <1>1, BorrowedApart, ReservedIsVacant
  <2> HIDE DEF G
  <2> QED
    BY <2>1, ClobberLeads DEF Known
<1>6. Leads(entry, <<k>>, Known(V, G), Known(W, {<<rax, v>>}))
  <2>1. G \subseteq RegFacts(V) \cup G /\ rax \in Reserved \ {rbp}
    BY BorrowedApart
  <2> HIDE DEF G
  <2> QED
    BY <2>1, MakeLeads
<1>7. Leads(entry, <<l>>, Known(W, {<<rax, v>>}), b)
  BY FromRaxLeads
<1>8. Divide(inst) = (Fetch(lhs, r10) \o Fetch(rhs, r11)) \o <<h, i, j, k, l>>
  BY DEF Divide
<1> HIDE DEF E, F, G, h, i, j, k, l, b
<1>9. Leads(entry, <<h, i>>, Known(V, E), Known(V, G))
  BY <1>3, <1>4, LeadsMore
<1>10. Leads(entry, <<h, i, j>>, Known(V, E), Known(V, G))
  BY <1>5, <1>9, LeadsMore
<1>11. Leads(entry, <<h, i, j, k>>, Known(V, E), Known(W, {<<rax, v>>}))
  BY <1>6, <1>10, LeadsMore
<1>12. Leads(entry, <<h, i, j, k, l>>, Known(V, E), b)
  BY <1>7, <1>11, LeadsMore
<1> QED
  BY <1>2, <1>8, <1>12, LeadsTogether DEF b

LEMMA CompareLeads ==
    ASSUME NEW entry, Housed, NEW V, NEW W, NEW inst, Making(V, W, inst.result),
           inst.operands[1] \in V, inst.operands[2] \in V
    PROVE  Leads(entry, Compare(inst), Known(V, {}),
                 Known(W, {<<dest_register(inst.result), inst.result>>}))
<1> DEFINE lhs == inst.operands[1]
           rhs == inst.operands[2]
           v   == inst.result
           E == {<<In(lhs, r10), lhs>>, <<In(rhs, r11), rhs>>}
           i == Compute(rax, E, v)
           j == Mov(dest_register(v), rax)
           b == Known(W, {<<dest_register(v), v>>})
<1>1. V \in SUBSET ValueIds
  BY DEF Making
<1>2. Leads(entry, Fetch(lhs, r10) \o Fetch(rhs, r11), Known(V, {}), Known(V, E))
  BY <1>1, FetchBoth
<1>3. Leads(entry, <<i>>, Known(V, E), Known(W, {<<rax, v>>}))
  <2>1. E \subseteq RegFacts(V) \cup E /\ rax \in Reserved \ {rbp}
    BY BorrowedApart
  <2> HIDE DEF E
  <2> QED
    BY <2>1, MakeLeads
<1>4. Leads(entry, <<j>>, Known(W, {<<rax, v>>}), b)
  BY FromRaxLeads
<1>5. Compare(inst) = (Fetch(lhs, r10) \o Fetch(rhs, r11)) \o <<i, j>>
  BY DEF Compare
<1> HIDE DEF E, i, j, b
<1>6. Leads(entry, <<i, j>>, Known(V, E), b)
  BY <1>3, <1>4, LeadsMore
<1> QED
  BY <1>2, <1>5, <1>6, LeadsTogether DEF b

LEMMA UnaryLeads ==
    ASSUME NEW entry, Housed, NEW V, NEW W, NEW inst, Making(V, W, inst.result),
           inst.operands[1] \in V
    PROVE  Leads(entry, Unary(inst), Known(V, {}),
                 Known(W, {<<dest_register(inst.result), inst.result>>}))
<1> DEFINE o == inst.operands[1]
           v   == inst.result
           reg == dest_register(v)
           E == {} \cup {<<In(o, r10), o>>}
           F == {<<reg, o>>}
           i == Mov(reg, In(o, r10))
           j == Compute(reg, F, v)
           b == Known(W, {<<reg, v>>})
<1>1. V \in SUBSET ValueIds
  BY DEF Making
<1>2. Leads(entry, Fetch(o, r10), Known(V, {}), Known(V, E))
  BY <1>1, BorrowedApart, FetchLeads DEF Known
<1>3. Leads(entry, <<i>>, Known(V, E), Known(V, F))
  <2>1. reg \in Register /\ reg # rbp /\ Vacant(V, reg)
    BY DestinationFacts
  <2>2. /\ <<In(o, r10), o>> \in RegFacts(V) \cup E /\ V \subseteq V
        /\ \A f \in F : f = <<reg, o>> \/ (f \in RegFacts(V) \cup E /\ f[1] # reg)
    OBVIOUS
  <2> HIDE DEF reg, o, E, F
  <2> QED
    BY <2>1, <2>2, MovLeads DEF Known
<1>4. Leads(entry, <<j>>, Known(V, F), b)
  <2>1. F \subseteq RegFacts(V) \cup F
    OBVIOUS
  <2> HIDE DEF F
  <2> QED
    BY <2>1, MakeLeads
<1>5. Unary(inst) = Fetch(o, r10) \o <<i, j>>
  BY DEF Unary
<1> HIDE DEF E, F, i, j, b
<1>6. Leads(entry, <<i, j>>, Known(V, E), b)
  BY <1>3, <1>4, LeadsMore
<1> QED
  BY <1>2, <1>5, <1>6, LeadsTogether DEF b

(* convert, and load, which has its base in another register. *)
LEMMA MakeFromOne ==
    ASSUME NEW entry, Housed, NEW V, NEW W, NEW v, Making(V, W, v), NEW o \in V,
           NEW scratch \in Reserved \ {rbp}
    PROVE  Leads(entry, Fetch(o, scratch)
                        \o <<Compute(dest_register(v), {<<In(o, scratch), o>>}, v)>>,
                 Known(V, {}), Known(W, {<<dest_register(v), v>>}))
<1> DEFINE E == {<<In(o, scratch), o>>}
<1>1. V \in SUBSET ValueIds /\ {} \cup E = E
  BY DEF Making
<1>2. Leads(entry, Fetch(o, scratch), Known(V, {}), Known(V, {} \cup E))
  BY <1>1, FetchLeads DEF Known
<1>3. E \subseteq RegFacts(V) \cup E
  OBVIOUS
<1> HIDE DEF E
<1>4. Leads(entry, <<Compute(dest_register(v), E, v)>>, Known(V, E),
            Known(W, {<<dest_register(v), v>>}))
  BY <1>3, MakeLeads
<1>5. Leads(entry, Fetch(o, scratch) \o <<Compute(dest_register(v), E, v)>>, Known(V, {}),
            Known(W, {<<dest_register(v), v>>}))
  BY <1>1, <1>2, <1>4, LeadsTogether
<1> QED
  BY <1>5 DEF E

LEMMA LowerStoreLeads ==
    ASSUME NEW entry, Housed, NEW V \in SUBSET ValueIds, NEW W, W \subseteq V, NEW inst,
           inst.operands[1] \in V, inst.operands[2] \in V
    PROVE  Leads(entry, LowerStore(inst), Known(V, {}), Known(W, {}))
<1> DEFINE value == inst.operands[1]
           base  == inst.operands[2]
           E == {<<In(base, r10), base>>, <<In(value, r11), value>>}
<1>1. Leads(entry, Fetch(base, r10) \o Fetch(value, r11), Known(V, {}), Known(V, E))
  BY FetchBoth
<1>2. Leads(entry, <<StoreMem(E)>>, Known(V, E), Known(W, {}))
  <2>1. E \subseteq RegFacts(V) \cup E
    OBVIOUS
  <2> HIDE DEF E
  <2> QED
    BY <2>1, StoreMemLeads DEF Known
<1>3. LowerStore(inst) = (Fetch(base, r10) \o Fetch(value, r11)) \o <<StoreMem(E)>>
  BY DEF LowerStore
<1> HIDE DEF E
<1> QED
  BY <1>1, <1>2, <1>3, LeadsTogether

-----------------------------------------------------------------------------
(* Calls, jumps and returns *)

(* A callee keeps the homes as they are. *)
LEMMA CallFnLeads ==
    ASSUME NEW entry, Housed, NEW V, NEW W, NEW v, Making(V, W, v), NEW args, IsSequence(args),
           Len(args) <= Len(ARG_REGISTERS)
    PROVE  Leads(entry, <<CallFn(args, v)>>, Known(V, Arriving(args, 1)), Known(W, {<<rax, v>>}))
<1> DEFINE a == Known(V, Arriving(args, 1))
           b == Known(W, {<<rax, v>>})
           i == CallFn(args, v)
<1>1. i.op = "call" /\ i.args = args /\ i.value = v /\ i.op # "jnz"
  BY DEF CallFn
<1>2. /\ b.live /\ b.framed /\ a.framed /\ a.depth = 0 /\ b.depth = 0
      /\ a.regs = RegFacts(V) \cup Arriving(args, 1) /\ b.regs = RegFacts(W) \cup {<<rax, v>>}
      /\ a.stack = PushedFacts(<<>>, 0) /\ b.stack = PushedFacts(<<>>, 0)
      /\ a.slots = SlotFacts(V) /\ b.slots = SlotFacts(W)
  BY BusyIs DEF Known
<1>3. PushedFacts(<<>>, 0) = {}
  BY KnownIs
<1>4. Passes(a, args)
  <2> SUFFICES ASSUME NEW k \in 1..Len(args)
               PROVE  k <= Len(ARG_REGISTERS) /\ <<ARG_REGISTERS[k], args[k]>> \in a.regs
    BY DEF Passes
  <2>1. Len(args) \in Nat
    BY SequenceElements
  <2> HIDE DEF a, b, i
  <2>2. <<ARG_REGISTERS[k], args[k]>> \in Arriving(args, 1)
    BY DEF Arriving
  <2> QED
    BY <1>2, <2>1, <2>2, ArgumentsApart
<1> HIDE DEF a, b, i
<1>5. /\ W \subseteq V /\ V \in SUBSET ValueIds /\ v \notin V
      /\ \A f \in RegFacts(W) : f[2] \in W
      /\ \A f \in SlotFacts(W) : f[2] \in W
  BY DEF Making, RegFacts, SlotFacts
<1>6. BelowWithout(a, b, {v})
  <2>1. b.stack = {} /\ SlotFacts(W) \subseteq SlotFacts(V)
    BY <1>2, <1>3, <1>5, FactsOfFewer
  <2>2. \A f \in b.slots : f \in a.slots /\ f[2] \notin {v}
    BY <1>2, <1>5, <2>1
  <2> QED
    BY <1>2, <2>1, <2>2 DEF BelowWithout, Unchanged
<1>7. ASSUME NEW f \in b.regs
      PROVE  IF f[1] = rax THEN f[2] = v
             ELSE f[1] \in CALLEE_SAVED /\ f \in a.regs /\ f[2] # v
  <2>1. CASE f \in RegFacts(W)
    <3>1. f[1] \in CALLEE_SAVED
      BY <1>5, <2>1 DEF RegFacts, Housed
    <3>2. f \in a.regs /\ f[2] # v
      BY <1>2, <1>5, <2>1, FactsOfFewer
    <3> QED
      BY <3>1, <3>2, ReservedRegisters
  <2>2. CASE f = <<rax, v>>
    BY <2>2
  <2> QED
    BY <1>2, <2>1, <2>2
<1>8. CallCarries(i, a, b)
  BY <1>1, <1>4, <1>6, <1>7 DEF CallCarries
<1>9. Carries(entry, i, a, b)
  BY <1>2, <1>8 DEF Carries
<1> QED
  BY <1>1, <1>9, LeadsOne DEF a, b, i

LEMMA CallLeads ==
    ASSUME NEW entry, Housed, NEW V, NEW W, NEW inst, Making(V, W, inst.result),
           IsSequence(inst.operands), \A k \in 1..Len(inst.operands) : inst.operands[k] \in V,
           Len(inst.operands) <= Len(ARG_REGISTERS)
    PROVE  Leads(entry, Call(inst), Known(V, {}),
                 Known(W, {<<dest_register(inst.result), inst.result>>}))
<1> DEFINE args == inst.operands
           v == inst.result
           i == CallFn(args, v)
           j == Mov(dest_register(v), rax)
           b == Known(W, {<<dest_register(v), v>>})
<1>1. V \in SUBSET ValueIds
  BY DEF Making
<1>2. Leads(entry, bind_call_args(args), Known(V, {}), Known(V, Arriving(args, 1)))
  BY <1>1, BindLeads
<1>3. Leads(entry, <<i>>, Known(V, Arriving(args, 1)), Known(W, {<<rax, v>>}))
  BY CallFnLeads
<1>4. Leads(entry, <<j>>, Known(W, {<<rax, v>>}), b)
  BY FromRaxLeads
<1>5. Call(inst) = bind_call_args(args) \o <<i, j>>
  BY DEF Call
<1> HIDE DEF i, j, b, args
<1>6. Leads(entry, <<i, j>>, Known(V, Arriving(args, 1)), b)
  BY <1>3, <1>4, LeadsMore
<1> QED
  BY <1>2, <1>5, <1>6, LeadsTogether DEF b

(* What a jump needs: its block begins with no more than is known where it leaves. *)
Target(entry, V, edge, params) ==
    \E U : /\ entry[edge.block] = Known(U, Arriving(params, 1))
           /\ U \subseteq V /\ U \cap ToSet(params) = {}
           /\ IsSequence(params) /\ IsSequence(edge.args) /\ Len(params) = Len(edge.args)
           /\ Len(params) <= Len(ARG_REGISTERS)

LEMMA JmpLeads ==
    ASSUME NEW entry, Housed, NEW V \in SUBSET ValueIds, NEW edge, NEW params,
           Target(entry, V, edge, params), NEW E, Arriving(edge.args, 1) \subseteq E, NEW c
    PROVE  Leads(entry, <<Jmp(edge.block, params, edge.args)>>, Known(V, E), c)
<1> DEFINE a == Known(V, E)
           b == entry[edge.block]
           args == edge.args
           i == Jmp(edge.block, params, args)
           new == {params[k] : k \in 1..Len(params)}
<1>1. PICK U : /\ entry[edge.block] = Known(U, Arriving(params, 1))
               /\ U \subseteq V /\ U \cap ToSet(params) = {}
               /\ IsSequence(params) /\ IsSequence(edge.args) /\ Len(params) = Len(edge.args)
               /\ Len(params) <= Len(ARG_REGISTERS)
  BY DEF Target
<1>2. i.op = "jmp" /\ i.block = edge.block /\ i.params = params /\ i.args = args /\ i.op # "jnz"
  BY DEF Jmp
<1>3. /\ b.live /\ b.framed /\ a.framed /\ a.depth = 0 /\ b.depth = 0
      /\ a.regs = RegFacts(V) \cup E /\ b.regs = RegFacts(U) \cup Arriving(params, 1)
      /\ a.stack = PushedFacts(<<>>, 0) /\ b.stack = PushedFacts(<<>>, 0)
      /\ a.slots = SlotFacts(V) /\ b.slots = SlotFacts(U)
  BY <1>1, BusyIs DEF Known
<1>4. PushedFacts(<<>>, 0) = {}
  BY KnownIs
<1>5. new = ToSet(params) /\ Len(params) \in Nat /\ Len(args) = Len(params)
  BY <1>1, SequenceElements
<1> HIDE DEF a, b, i, new
<1>6. Passes(a, args)
  <2> SUFFICES ASSUME NEW k \in 1..Len(args)
               PROVE  k <= Len(ARG_REGISTERS) /\ <<ARG_REGISTERS[k], args[k]>> \in a.regs
    BY DEF Passes
  <2>1. <<ARG_REGISTERS[k], args[k]>> \in Arriving(args, 1)
    BY DEF Arriving
  <2> QED
    BY <1>1, <1>3, <1>5, <2>1, ArgumentsApart
<1>7. /\ U \in SUBSET ValueIds
      /\ \A f \in RegFacts(U) : f[2] \in U
      /\ \A f \in SlotFacts(U) : f[2] \in U
  BY <1>1 DEF RegFacts, SlotFacts
<1>8. BelowWithout(a, b, new)
  <2>1. b.stack = {} /\ SlotFacts(U) \subseteq SlotFacts(V) /\ \A v \in U : v \notin new
    BY <1>1, <1>3, <1>4, <1>5, FactsOfFewer
  <2>2. \A f \in b.slots : f \in a.slots /\ f[2] \notin new
    BY <1>3, <1>7, <2>1
  <2> QED
    BY <1>3, <2>1, <2>2 DEF BelowWithout, Unchanged
<1>9. ASSUME NEW f \in b.regs
      PROVE  \/ \E k \in 1..Len(args) : f[1] = ARG_REGISTERS[k] /\ f[2] = params[k]
             \/ /\ f \in a.regs /\ f[2] \notin new
                /\ \A k \in 1..Len(args) : f[1] # ARG_REGISTERS[k]
  <2>1. CASE f \in RegFacts(U)
    <3>1. f \in a.regs /\ f[2] \notin new
      BY <1>1, <1>3, <1>5, <1>7, <2>1, FactsOfFewer
    <3>2. ASSUME NEW k \in 1..Len(args) PROVE f[1] # ARG_REGISTERS[k]
      <4>1. k \in 1..Len(ARG_REGISTERS)
        BY <1>1, <1>5, ArgumentsApart
      <4>2. Vacant(U, ARG_REGISTERS[k])
        BY <1>7, <4>1, ArgumentsApart, ReservedIsVacant
      <4> QED
        BY <2>1, <4>2, VacantFacts
    <3> QED
      BY <3>1, <3>2
  <2>2. CASE f \in Arriving(params, 1)
    BY <1>5, <2>2 DEF Arriving
  <2> QED
    BY <1>3, <2>1, <2>2
<1>10. JmpCarries(entry, i, a)
  BY <1>2, <1>3, <1>6, <1>8, <1>9 DEF JmpCarries, b, new
<1>11. Carries(entry, i, a, c)
  BY <1>10 DEF Carries
<1> QED
  BY <1>2, <1>11, LeadsOne DEF a, i

LEMMA FollowLeads ==
    ASSUME NEW entry, Housed, NEW V \in SUBSET ValueIds, NEW edge,
           Target(entry, V, edge, Params(func, edge.block)),
           \A k \in 1..Len(edge.args) : edge.args[k] \in V, NEW c
    PROVE  Leads(entry, Follow(edge), Known(V, {}), c)
<1> DEFINE args == edge.args
           params == Params(func, edge.block)
           i == Jmp(edge.block, params, args)
           E == Arriving(args, 1)
<1>1. IsSequence(args) /\ Len(args) <= Len(ARG_REGISTERS)
  BY DEF Target
<1>2. Leads(entry, bind_call_args(args), Known(V, {}), Known(V, E))
  BY <1>1, BindLeads
<1>3. Leads(entry, <<i>>, Known(V, E), c)
  BY JmpLeads
<1>4. Follow(edge) = bind_call_args(args) \o <<i>>
  <2>1. IsSequence(bind_call_args(args))
    BY <1>2 DEF Leads
  <2> QED
    BY <2>1, AppendIsConcatenation DEF Follow
<1> HIDE DEF args, params, i, E
<1> QED
  BY <1>2, <1>3, <1>4, LeadsTogether

(* An edge that passes nothing is a jump and no more. *)
LEMMA PlainFollow ==
    ASSUME NEW edge, edge.args = <<>>
    PROVE  Follow(edge) = <<Jmp(edge.block, Params(func, edge.block), <<>>)>>
<1> DEFINE i == Jmp(edge.block, Params(func, edge.block), <<>>)
<1>1. bind_call_args(<<>>) = <<>>
  <2>1. Least(Len(<<>>), Len(ARG_REGISTERS)) = 0
    BY EmptySequence, ArgumentsApart DEF Least
  <2>2. \A s : (\A k \in 1..0 : FALSE) /\ [a \in 1..0 |-> s[a]] = <<>>
    OBVIOUS
  <2>3. /\ [a \in 1..0 |-> Append(Fetch(<<>>[a], r10), Push(In(<<>>[a], r10)))] = <<>>
        /\ [a \in 1..0 |-> Pop(ARG_REGISTERS[0 + 1 - a])] = <<>>
    OBVIOUS
  <2>4. FlattenSeq(<<>>) = <<>>
    BY EmptySequence, JoinedNone
  <2> QED
    BY <2>1, <2>3, <2>4, EmptySequence, ConcatNothing DEF bind_call_args
<1>2. Append(<<>>, i) = <<i>>
  OBVIOUS
<1> QED
  BY <1>1, <1>2 DEF Follow

(* A branch whose edges pass nothing: a jump over a jump to another. *)
BranchJumps(inst) ==
    <<Jnz({<<In(inst.operands[1], r10), inst.operands[1]>>}, 1, inst.edges[1].block,
          inst.edges[2].block),
      Jmp(inst.edges[2].block, Params(func, inst.edges[2].block), <<>>),
      Jmp(inst.edges[1].block, Params(func, inst.edges[1].block), <<>>)>>

LEMMA BrifIs ==
    ASSUME NEW inst, \A k \in {1, 2} : inst.edges[k].args = <<>>
    PROVE  /\ Brif(inst) = Fetch(inst.operands[1], r10) \o BranchJumps(inst)
           /\ IsSequence(Fetch(inst.operands[1], r10)) /\ IsSequence(BranchJumps(inst))
<1> DEFINE o == inst.operands[1]
           yes == inst.edges[1]
           no  == inst.edges[2]
           h == Jnz({<<In(o, r10), o>>}, 1, yes.block, no.block)
           i == Jmp(no.block, Params(func, no.block), <<>>)
           j == Jmp(yes.block, Params(func, yes.block), <<>>)
<1>1. Follow(no) = <<i>> /\ Follow(yes) = <<j>> /\ Len(<<i>>) = 1
  BY PlainFollow
<1>2. Brif(inst) = ((Fetch(o, r10) \o <<h>>) \o <<i>>) \o <<j>>
  BY <1>1 DEF Brif
<1>3. IsSequence(Fetch(o, r10)) /\ \A x : IsSequence(<<x>>)
  BY PairAppends, EmptySequence DEF Fetch
<1>4. BranchJumps(inst) = <<h, i, j>>
  BY DEF BranchJumps
<1> HIDE DEF h, i, j
<1>5. (Fetch(o, r10) \o <<h>>) \o <<i>> = Fetch(o, r10) \o (<<h>> \o <<i>>)
  BY <1>3, ConcatAssociates
<1>6. <<h>> \o <<i>> = <<h, i>> /\ IsSequence(<<h, i>>) /\ <<h, i>> \o <<j>> = <<h, i, j>>
  BY TuplesJoin, PairAppends
<1>7. (Fetch(o, r10) \o <<h, i>>) \o <<j>> = Fetch(o, r10) \o (<<h, i>> \o <<j>>)
  BY <1>3, <1>6, ConcatAssociates
<1>8. IsSequence(<<h, i, j>>)
  BY <1>3, <1>6, ConcatLengths
<1> QED
  BY <1>2, <1>3, <1>4, <1>5, <1>6, <1>7, <1>8

(* Both edges of a branch leave with the same claim: nothing is passed. *)
LEMMA BrifLeads ==
    ASSUME NEW entry, Housed, NEW V \in SUBSET ValueIds, NEW inst, inst.operands[1] \in V,
           \A k \in {1, 2} : /\ inst.edges[k].args = <<>>
                             /\ Target(entry, V, inst.edges[k], Params(func, inst.edges[k].block)),
           NEW c
    PROVE  Leads(entry, Brif(inst), Known(V, {}), c)
<1> DEFINE o == inst.operands[1]
           yes == inst.edges[1]
           no  == inst.edges[2]
           E == {} \cup {<<In(o, r10), o>>}
           a == Known(V, E)
           h == Jnz(E, 1, yes.block, no.block)
           i == Jmp(no.block, Params(func, no.block), <<>>)
           j == Jmp(yes.block, Params(func, yes.block), <<>>)
           code3 == <<h, i, j>>
           d == [p \in Nat |-> IF p <= 3 THEN a ELSE c]
<1>1. Leads(entry, Fetch(o, r10), Known(V, {}), a)
  BY BorrowedApart, FetchLeads DEF Known
<1>2. Follow(no) = <<i>> /\ Follow(yes) = <<j>> /\ Len(<<i>>) = 1
  BY PlainFollow
<1>3. Arriving(<<>>, 1) \subseteq E
  BY EmptySequence DEF Arriving
<1>4. h.op = "jnz" /\ h.reads = E /\ h.over = 1 /\ i.op = "jmp" /\ j.op = "jmp"
  BY DEF Jnz, Jmp
<1>5. Carries(entry, h, a, a)
  <2>1. a.live /\ a.regs = RegFacts(V) \cup E
    BY BusyIs DEF Known
  <2> HIDE DEF a, h, E
  <2>2. JnzCarries(h, a, a)
    BY <1>4, <2>1 DEF JnzCarries
  <2> QED
    BY <2>1, <2>2 DEF Carries
<1>6. \A x : Carries(entry, i, a, x) /\ Carries(entry, j, a, x)
  <2> SUFFICES ASSUME NEW x PROVE Carries(entry, i, a, x) /\ Carries(entry, j, a, x)
    OBVIOUS
  <2>1. Leads(entry, <<i>>, a, x) /\ Leads(entry, <<j>>, a, x)
    <3>1. no.args = <<>> /\ yes.args = <<>>
      OBVIOUS
    <3>2. /\ Target(entry, V, no, Params(func, no.block))
          /\ Target(entry, V, yes, Params(func, yes.block))
      OBVIOUS
    <3> HIDE DEF E
    <3>3. Leads(entry, <<i>>, a, x)
      BY <1>3, <3>1, <3>2, JmpLeads
    <3>4. Leads(entry, <<j>>, a, x)
      BY <1>3, <3>1, <3>2, JmpLeads
    <3> QED
      BY <3>3, <3>4
  <2>2. \A y : Leads(entry, <<y>>, a, x) => Carries(entry, y, a, x)
    <3> SUFFICES ASSUME NEW y, Leads(entry, <<y>>, a, x) PROVE Carries(entry, y, a, x)
      OBVIOUS
    <3>1. Len(<<y>>) = 1 /\ <<y>>[1] = y /\ 1 \in 1..1
      OBVIOUS
    <3>2. PICK e : Claimed(entry, <<y>>, e) /\ e[1] = a /\ e[1 + 1] = x
      BY <3>1 DEF Leads
    <3> QED
      BY <3>1, <3>2 DEF Claimed
  <2> QED
    BY <2>1, <2>2
<1>7. Leads(entry, code3, a, c)
  <2>1. IsSequence(code3) /\ Len(code3) = 3 /\ code3[1] = h /\ code3[2] = i /\ code3[3] = j
    <3>1. IsSequence(<<h, i>> \o <<j>>)
      BY PairAppends, ConcatLengths
    <3> QED
      BY <3>1, TuplesJoin
  <2>2. d[1] = a /\ d[2] = a /\ d[3] = a /\ d[3 + 1] = c
    OBVIOUS
  <2> HIDE DEF d, code3, a, h, i, j
  <2>3. \A p \in 1..3 : p = 1 \/ p = 2 \/ p = 3
    OBVIOUS
  <2>4. Claimed(entry, code3, d)
    <3> SUFFICES ASSUME NEW p \in 1..3
                 PROVE  /\ Carries(entry, code3[p], d[p], d[p + 1])
                        /\ code3[p].op = "jnz" /\ d[p].live =>
                             /\ code3[p].over \in Nat /\ p + 1 + code3[p].over <= 3
                             /\ d[p + 1 + code3[p].over] = d[p]
      BY <2>1 DEF Claimed
    <3>1. CASE p = 1
      BY <1>4, <1>5, <2>1, <2>2, <3>1
    <3>2. CASE p = 2
      BY <1>4, <1>6, <2>1, <2>2, <3>2
    <3>3. CASE p = 3
      BY <1>4, <1>6, <2>1, <2>2, <3>3
    <3> QED
      BY <2>3, <3>1, <3>2, <3>3
  <2> QED
    BY <2>1, <2>2, <2>4 DEF Leads
<1>8. Brif(inst) = Fetch(o, r10) \o code3
  <2>1. E = {<<In(o, r10), o>>}
    OBVIOUS
  <2> QED
    BY <2>1, BrifIs DEF BranchJumps
<1> HIDE DEF code3, a
<1> QED
  BY <1>1, <1>7, <1>8, LeadsTogether

(* A return has its value in rax, which no register that is given back is. *)
LEMMA AnswerIs ==
    ASSUME NEW E
    PROVE  /\ Answer(E).live = TRUE /\ Answer(E).framed = FALSE /\ Answer(E).regs = E
BY DEF Answer

LEMMA ReturnLeads ==
    ASSUME NEW entry, Housed, NEW V \in SUBSET ValueIds, NEW inst, inst.operands[1] \in V,
           NEW saved, IsSequence(saved), ToSet(saved) \subseteq CALLEE_SAVED, NEW words, NEW c
    PROVE  Leads(entry, Return(inst, saved, words), Known(V, {}), c)
<1> DEFINE v == inst.operands[1]
           E == {} \cup {<<In(v, r10), v>>}
           A == Answer({<<rax, v>>})
           n == Len(saved)
           pops == [k \in 1..n |-> Pop(saved[n + 1 - k])]
           leaves == IF words > 0 THEN <<Leave>> ELSE <<>>
           i == Mov(rax, In(v, r10))
<1>1. Leads(entry, Fetch(v, r10), Known(V, {}), Known(V, E))
  BY BorrowedApart, FetchLeads DEF Known
<1>2. A.live = TRUE /\ A.framed = FALSE /\ A.regs = {<<rax, v>>}
  BY AnswerIs
<1>3. n \in Nat /\ \A k \in 1..n : saved[k] \in CALLEE_SAVED
  BY SequenceElements
<1>4. Leads(entry, <<i>>, Known(V, E), A)
  <2> DEFINE a == Known(V, E)
  <2>1. i.op = "mov" /\ i.dst = rax /\ i.src = In(v, r10) /\ i.op # "jnz"
    BY DEF Mov
  <2>2. a.regs = RegFacts(V) \cup E
    BY BusyIs DEF Known
  <2>3. <<In(v, r10), v>> \in a.regs
    BY <2>2
  <2> HIDE DEF a, i, A, E, v
  <2>4. MovCarries(i, a, A)
    BY <1>2, <2>1, <2>3, BorrowedApart DEF MovCarries, SameBelow
  <2>5. Carries(entry, i, a, A)
    BY <1>2, <2>4 DEF Carries
  <2> QED
    BY <2>1, <2>5, LeadsOne DEF a
<1>5. Leads(entry, pops, A, A)
  <2> DEFINE d == [p \in Nat |-> A]
  <2>1. IsSequence(pops) /\ Len(pops) = n /\ \A k \in 1..n : pops[k] = Pop(saved[n + 1 - k])
    BY <1>3, FunctionIsSequence
  <2>2. ASSUME NEW p \in 1..n PROVE Carries(entry, pops[p], A, A) /\ pops[p].op # "jnz"
    <3> DEFINE r == saved[n + 1 - p]
    <3>1. r \in CALLEE_SAVED
      <4>1. n + 1 - p \in 1..n
        BY <1>3
      <4> QED
        BY <1>3, <4>1
    <3>2. pops[p].op = "pop" /\ pops[p].dst = r /\ pops[p].op # "jnz"
      BY <2>1 DEF Pop
    <3>3. r \in Register /\ r # rax
      BY <3>1, ReservedRegisters
    <3> HIDE DEF r, A, pops
    <3>4. PopCarries(pops[p], A, A)
      BY <1>2, <3>2, <3>3 DEF PopCarries
    <3> QED
      BY <1>2, <3>2, <3>4 DEF Carries
  <2>3. d[1] = A /\ d[n + 1] = A /\ \A p \in 1..n : d[p] = A /\ d[p + 1] = A
    BY <1>3
  <2> HIDE DEF d, A, pops
  <2>4. Leads(entry, pops, d[1], d[Len(pops) + 1])
    BY <2>1, <2>2, <2>3, LeadsEach
  <2> QED
    BY <2>1, <2>3, <2>4
<1>6. Leads(entry, leaves, A, A)
  <2>1. CASE words > 0
    <3>1. Leave.op = "leave" /\ Leave.op # "jnz"
      BY DEF Leave
    <3> HIDE DEF A
    <3>2. LeaveCarries(Leave, A, A)
      BY <1>2, <3>1, BorrowedApart DEF LeaveCarries
    <3>3. Carries(entry, Leave, A, A)
      BY <1>2, <3>2 DEF Carries
    <3> QED
      BY <2>1, <3>1, <3>3, LeadsOne
  <2>2. CASE ~(words > 0)
    BY <2>2, LeadsNone
  <2> QED
    BY <2>1, <2>2
<1>7. Leads(entry, <<Ret(v)>>, A, c)
  <2>1. Ret(v).op = "ret" /\ Ret(v).value = v /\ Ret(v).op # "jnz"
    BY DEF Ret
  <2> HIDE DEF A
  <2>2. Carries(entry, Ret(v), A, c)
    BY <1>2, <2>1 DEF Carries
  <2> QED
    BY <2>1, <2>2, LeadsOne
<1>8. Return(inst, saved, words) = (((Fetch(v, r10) \o <<i>>) \o pops) \o leaves) \o <<Ret(v)>>
  BY DEF Return
<1> HIDE DEF E, A, n, pops, leaves, i
<1>9. Leads(entry, Fetch(v, r10) \o <<i>>, Known(V, {}), A)
  BY <1>1, <1>4, LeadsTogether
<1>10. Leads(entry, (Fetch(v, r10) \o <<i>>) \o pops, Known(V, {}), A)
  BY <1>5, <1>9, LeadsTogether
<1>11. Leads(entry, ((Fetch(v, r10) \o <<i>>) \o pops) \o leaves, Known(V, {}), A)
  BY <1>6, <1>10, LeadsTogether
<1> QED
  BY <1>7, <1>8, <1>11, LeadsTogether

-----------------------------------------------------------------------------
(* Code without branches, and what may be forgotten at its end *)

Straight(c) == IsSequence(c) /\ \A p \in 1..Len(c) : c[p].op # "jnz"

LEMMA StraightTogether ==
    ASSUME NEW s, Straight(s), NEW t, Straight(t)
    PROVE  Straight(s \o t)
<1>1. IsSequence(s \o t) /\ ToSet(s \o t) = ToSet(s) \cup ToSet(t)
  BY ConcatElements DEF Straight
<1>2. \A c : IsSequence(c) => (Straight(c) <=> \A i \in ToSet(c) : i.op # "jnz")
  <2> SUFFICES ASSUME NEW c, IsSequence(c)
               PROVE  Straight(c) <=> \A i \in ToSet(c) : i.op # "jnz"
    OBVIOUS
  <2>1. ToSet(c) = {c[p] : p \in 1..Len(c)}
    BY SequenceElements
  <2> QED
    BY <2>1 DEF Straight
<1> QED
  BY <1>1, <1>2 DEF Straight

LEMMA StraightOne ==
    ASSUME NEW i, i.op # "jnz"
    PROVE  Straight(<<i>>)
<1>1. IsSequence(<<i>>) /\ Len(<<i>>) = 1 /\ <<i>>[1] = i
  BY TupleIsSequence
<1>2. \A p \in 1..1 : p = 1
  OBVIOUS
<1> QED
  BY <1>1, <1>2 DEF Straight

LEMMA StraightNone == Straight(<<>>)
BY EmptySequence DEF Straight

LEMMA StraightFlat ==
    ASSUME NEW ss, IsSequence(ss), \A k \in 1..Len(ss) : Straight(ss[k])
    PROVE  Straight(FlattenSeq(ss))
<1>1. Parts(ss)
  BY DEF Parts, Straight
<1>2. IsSequence(FlattenSeq(ss)) /\ ToSet(FlattenSeq(ss)) = UNION {ToSet(ss[b]) : b \in 1..Len(ss)}
  BY <1>1, FlattenElements
<1>3. ASSUME NEW p \in 1..Len(FlattenSeq(ss)) PROVE FlattenSeq(ss)[p].op # "jnz"
  <2>1. FlattenSeq(ss)[p] \in ToSet(FlattenSeq(ss))
    BY <1>2, SequenceElements
  <2>2. PICK k \in 1..Len(ss) : FlattenSeq(ss)[p] \in ToSet(ss[k])
    BY <1>2, <2>1
  <2>3. IsSequence(ss[k]) /\ \A q \in 1..Len(ss[k]) : ss[k][q].op # "jnz"
    BY DEF Straight
  <2>4. PICK q \in 1..Len(ss[k]) : FlattenSeq(ss)[p] = ss[k][q]
    BY <2>2, <2>3, SequenceElements
  <2> QED
    BY <2>3, <2>4
<1> QED
  BY <1>2, <1>3 DEF Straight

LEMMA PlainIsStraight ==
    ASSUME NEW x, NEW c, AllPlain(x, c)
    PROVE  Straight(c)
<1>1. IsSequence(c) /\ ToSet(c) = {c[p] : p \in 1..Len(c)}
  BY SequenceElements DEF AllPlain
<1> QED
  BY <1>1 DEF AllPlain, PlainFits, Straight

LEMMA BindIsStraight ==
    ASSUME NEW x, Homes(x), NEW args, AllIds(args)
    PROVE  Straight(bind_call_args(args))
<1> DEFINE n == Least(Len(args), Len(ARG_REGISTERS))
           rows == [a \in 1..n |-> Append(Fetch(args[a], r10), Push(In(args[a], r10)))]
           pops == [a \in 1..n |-> Pop(ARG_REGISTERS[n + 1 - a])]
<1>1. n \in Nat /\ n <= Len(args)
  BY SequenceElements, ArgumentRegisters DEF Least, AllIds
<1>2. bind_call_args(args) = FlattenSeq(rows) \o pops
  BY DEF bind_call_args
<1>3. /\ IsSequence(rows) /\ Len(rows) = n
      /\ \A a \in 1..n : rows[a] = Append(Fetch(args[a], r10), Push(In(args[a], r10)))
  BY <1>1, FunctionIsSequence
<1>4. IsSequence(pops) /\ Len(pops) = n /\ \A a \in 1..n : pops[a] = Pop(ARG_REGISTERS[n + 1 - a])
  BY <1>1, FunctionIsSequence
<1> HIDE DEF rows, pops, n
<1>5. Straight(pops)
  BY <1>4 DEF Straight, Pop
<1>6. ASSUME NEW k \in 1..n PROVE Straight(rows[k])
  <2> DEFINE s == Fetch(args[k], r10)
             i == Push(In(args[k], r10))
  <2>1. args[k] \in ValueIds
    <3>1. k \in 1..Len(args)
      BY <1>1, SequenceElements DEF AllIds
    <3> QED
      BY <3>1 DEF AllIds
  <2>2. Straight(s)
    BY <2>1, FetchPlain, PlainIsStraight
  <2>3. Straight(<<i>>)
    BY StraightOne DEF Push
  <2>4. rows[k] = s \o <<i>>
    BY <1>3, <2>2, AppendIsConcatenation DEF Straight
  <2> HIDE DEF s, i
  <2> QED
    BY <2>2, <2>3, <2>4, StraightTogether
<1>7. Straight(FlattenSeq(rows))
  BY <1>3, <1>6, StraightFlat
<1> QED
  BY <1>2, <1>5, <1>7, StraightTogether

(* Every instruction but a branch is lowered to code without branches. *)
LEMMA StraightLowered ==
    ASSUME NEW x, Homes(x), NEW inst, Ready(x, inst), inst.op # "brif",
           NEW saved, IsSequence(saved), NEW words
    PROVE  Straight(Lower(inst, saved, words))
<1> DEFINE w == dest_register(inst.result)
<1>1. CASE inst.op \notin Terminators \cup {"call"}
  BY <1>1, PlainLowered, PlainIsStraight
<1>2. CASE inst.op = "call"
  <2>1. Straight(bind_call_args(inst.operands))
    BY BindIsStraight DEF Ready
  <2> DEFINE i == CallFn(inst.operands, inst.result)
             j == Mov(w, rax)
  <2>2. i.op # "jnz" /\ j.op # "jnz"
    BY DEF CallFn, Mov
  <2>3. Lower(inst, saved, words) = bind_call_args(inst.operands) \o <<i, j>>
    BY <1>2 DEF Lower, Call
  <2> HIDE DEF i, j
  <2>4. Straight(<<i, j>>)
    BY <2>2, StraightOne, StraightTogether, TuplesJoin
  <2> QED
    BY <2>1, <2>3, <2>4, StraightTogether
<1>3. CASE inst.op = "jmp"
  <2> DEFINE e == inst.edges[1]
             i == Jmp(e.block, Params(func, e.block), e.args)
  <2>1. e \in ToSet(inst.edges)
    BY <1>3, SequenceElements DEF Ready, Shaped
  <2>2. Straight(bind_call_args(e.args))
    BY <2>1, BindIsStraight DEF Ready
  <2>3. Straight(<<i>>)
    BY StraightOne DEF Jmp
  <2>4. Lower(inst, saved, words) = bind_call_args(e.args) \o <<i>>
    BY <1>3, <2>2, AppendIsConcatenation DEF Lower, Follow, Straight
  <2> QED
    BY <2>2, <2>3, <2>4, StraightTogether
<1>4. CASE inst.op = "ret"
  <2> DEFINE v == inst.operands[1]
             n == Len(saved)
             pops == [k \in 1..n |-> Pop(saved[n + 1 - k])]
             leaves == IF words > 0 THEN <<Leave>> ELSE <<>>
             i == Mov(rax, In(v, r10))
  <2>1. v \in ValueIds
    <3>1. Len(inst.operands) = 1 /\ 1 \in 1..1
      BY <1>4 DEF Ready, Shaped, OneOperand
    <3> QED
      BY <3>1 DEF Ready, AllIds
  <2>2. Straight(Fetch(v, r10))
    BY <2>1, FetchPlain, PlainIsStraight
  <2>3. Straight(<<i>>) /\ Straight(<<Ret(v)>>)
    BY StraightOne DEF Mov, Ret
  <2>4. Straight(pops)
    <3>1. IsSequence(pops) /\ Len(pops) = n /\ \A k \in 1..n : pops[k] = Pop(saved[n + 1 - k])
      BY SequenceElements, FunctionIsSequence
    <3> HIDE DEF pops, n
    <3> QED
      BY <3>1 DEF Straight, Pop
  <2>5. Straight(leaves)
    BY StraightOne, StraightNone DEF Leave
  <2>6. Lower(inst, saved, words) =
          (((Fetch(v, r10) \o <<i>>) \o pops) \o leaves) \o <<Ret(v)>>
    BY <1>4 DEF Lower, Return
  <2> HIDE DEF v, n, pops, leaves, i
  <2> QED
    BY <2>2, <2>3, <2>4, <2>5, <2>6, StraightTogether
<1> QED
  BY <1>1, <1>2, <1>3, <1>4 DEF Terminators

(* Less of what is claimed at the end of a piece of code. *)
Weaker(a, b) ==
    a.live /\ b.live /\ a.depth = b.depth /\ SameBelow(a, b) /\ b.regs \subseteq a.regs

LEMMA CarriesLess ==
    ASSUME NEW entry, NEW i, i.op # "jnz", NEW a, NEW b, Carries(entry, i, a, b),
           NEW c, Weaker(b, c)
    PROVE  Carries(entry, i, a, c)
<1> SUFFICES ASSUME a.live PROVE Carries(entry, i, a, c)
  BY DEF Carries
<1>1. /\ c.live /\ c.regs \subseteq b.regs /\ c.depth = b.depth
      /\ c.framed => /\ b.framed /\ c.depth = b.depth
                     /\ c.stack \subseteq b.stack /\ c.slots \subseteq b.slots
  BY DEF Weaker, SameBelow
<1>2. ASSUME MovCarries(i, a, b) PROVE MovCarries(i, a, c)
  BY <1>1, <1>2 DEF MovCarries, SameBelow
<1>3. ASSUME LoadCarries(i, a, b) PROVE LoadCarries(i, a, c)
  BY <1>1, <1>3 DEF LoadCarries, SameBelow
<1>4. ASSUME StoreCarries(i, a, b) PROVE StoreCarries(i, a, c)
  BY <1>1, <1>4 DEF StoreCarries
<1>5. ASSUME ComputeCarries(i, a, b) PROVE ComputeCarries(i, a, c)
  BY <1>1, <1>5 DEF ComputeCarries, BelowWithout, Unchanged
<1>6. ASSUME ClobberCarries(i, a, b) PROVE ClobberCarries(i, a, c)
  BY <1>1, <1>6 DEF ClobberCarries, SameBelow
<1>7. ASSUME StoreMemCarries(i, a, b) PROVE StoreMemCarries(i, a, c)
  BY <1>1, <1>7 DEF StoreMemCarries, SameBelow
<1>8. ASSUME CallCarries(i, a, b) PROVE CallCarries(i, a, c)
  BY <1>1, <1>8 DEF CallCarries, BelowWithout, Unchanged
<1>9. ASSUME PushCarries(i, a, b) PROVE PushCarries(i, a, c)
  BY <1>1, <1>9 DEF PushCarries
<1>10. ASSUME PopCarries(i, a, b) PROVE PopCarries(i, a, c)
  BY <1>1, <1>10 DEF PopCarries
<1>11. ASSUME EnterCarries(i, a, b) PROVE EnterCarries(i, a, c)
  BY <1>1, <1>11 DEF EnterCarries
<1>12. ASSUME LeaveCarries(i, a, b) PROVE LeaveCarries(i, a, c)
  BY <1>1, <1>12 DEF LeaveCarries
<1> QED
  BY <1>1, <1>2, <1>3, <1>4, <1>5, <1>6, <1>7, <1>8, <1>9, <1>10, <1>11, <1>12
     DEF Carries, JnzCarries

LEMMA LeadsLess ==
    ASSUME NEW entry, NEW s, Straight(s), Len(s) # 0, NEW a, NEW b, Leads(entry, s, a, b),
           NEW c, Weaker(b, c)
    PROVE  Leads(entry, s, a, c)
<1> DEFINE n == Len(s)
<1>1. IsSequence(s) /\ n \in Nat \ {0} /\ \A p \in 1..n : s[p].op # "jnz"
  BY SequenceElements DEF Straight
<1>2. PICK d : Claimed(entry, s, d) /\ d[1] = a /\ d[n + 1] = b
  BY DEF Leads
<1> DEFINE e == [p \in Nat |-> IF p <= n THEN d[p] ELSE c]
<1> HIDE DEF n
<1>3. e[1] = a /\ e[n + 1] = c /\ \A p \in 1..n : e[p] = d[p]
  BY <1>1, <1>2
<1>4. ASSUME NEW p \in 1..n PROVE Carries(entry, s[p], e[p], e[p + 1])
  <2>1. Carries(entry, s[p], d[p], d[p + 1]) /\ s[p].op # "jnz"
    BY <1>1, <1>2 DEF Claimed, n
  <2>2. CASE p < n
    <3>1. p + 1 \in 1..n
      BY <1>1, <2>2
    <3>2. e[p] = d[p] /\ e[p + 1] = d[p + 1]
      BY <1>3, <3>1
    <3> QED
      BY <2>1, <3>2
  <2>3. CASE p = n
    <3>1. e[p] = d[p] /\ e[p + 1] = c /\ d[p + 1] = b
      BY <1>2, <1>3, <2>3
    <3> HIDE DEF e
    <3> QED
      BY <2>1, <3>1, CarriesLess
  <2> QED
    BY <1>1, <2>2, <2>3
<1> HIDE DEF e
<1>5. Leads(entry, s, e[1], e[n + 1])
  BY <1>1, <1>4, LeadsEach DEF n
<1> QED
  BY <1>3, <1>5

LEMMA KnownLess ==
    ASSUME NEW V, NEW W, W \subseteq V, NEW E, NEW F, F \subseteq E
    PROVE  Weaker(Known(V, E), Known(W, F))
<1> DEFINE a == Known(V, E)
           b == Known(W, F)
<1>1. /\ a.live /\ a.framed /\ a.depth = 0 /\ a.regs = RegFacts(V) \cup E
      /\ a.stack = PushedFacts(<<>>, 0) /\ a.slots = SlotFacts(V)
  BY BusyIs DEF Known
<1>2. /\ b.live /\ b.framed /\ b.depth = 0 /\ b.regs = RegFacts(W) \cup F
      /\ b.stack = PushedFacts(<<>>, 0) /\ b.slots = SlotFacts(W)
  BY BusyIs DEF Known
<1> HIDE DEF a, b
<1>3. RegFacts(W) \subseteq RegFacts(V) /\ SlotFacts(W) \subseteq SlotFacts(V)
  BY FactsOfFewer
<1>4. SameBelow(a, b)
  BY <1>1, <1>2, <1>3 DEF SameBelow
<1>5. Weaker(a, b)
  BY <1>1, <1>2, <1>3, <1>4 DEF Weaker
<1> QED
  BY <1>5 DEF a, b

-----------------------------------------------------------------------------
(* The items of the line *)

(* What is needed next of a value that has been made, and of the others. *)
LEMMA KeptLeads ==
    ASSUME NEW entry, Housed, NEW V, NEW v, NEW W \in SUBSET ValueIds,
           Making(V, W \ {v}, v), NEW E,
           NEW s, Straight(s), Len(s) # 0, Straight(store_if_spilled(v, dest_register(v))), NEW a,
           Leads(entry, s, a, Known(W \ {v}, E \cup {<<dest_register(v), v>>}))
    PROVE  Leads(entry, s \o store_if_spilled(v, dest_register(v)), a, Known(W, E))
<1> DEFINE U == W \ {v}
           t == store_if_spilled(v, dest_register(v))
           m == Known(U, E \cup {<<dest_register(v), v>>})
<1>1. v \in ValueIds /\ v \notin U /\ U \in SUBSET ValueIds
  BY DEF Making
<1>2. Leads(entry, t, m, Known(U \cup {v}, E))
  <2> HIDE DEF U
  <2> QED
    BY <1>1, StoreLeads
<1> HIDE DEF U, t, m
<1>3. Leads(entry, s \o t, a, Known(U \cup {v}, E))
  BY <1>2, LeadsTogether DEF U, m
<1>4. Weaker(Known(U \cup {v}, E), Known(W, E))
  BY KnownLess DEF U
<1>5. Straight(s \o t) /\ Len(s \o t) # 0
  <2>1. Len(s) \in Nat /\ Len(t) \in Nat /\ Len(s \o t) = Len(s) + Len(t)
    BY SequenceElements, ConcatElements DEF Straight, t
  <2> QED
    BY <2>1, StraightTogether DEF t
<1> QED
  BY <1>3, <1>4, <1>5, LeadsLess DEF t

(* Code that is not empty. *)
Long(s) == IsSequence(s) /\ Len(s) # 0

LEMMA TuplesAreLong ==
    ASSUME NEW i, NEW j, NEW k, NEW l, NEW m
    PROVE  Long(<<i>>) /\ Long(<<i, j>>) /\ Long(<<i, j, k>>) /\ Long(<<i, j, k, l, m>>)
<1>1. /\ Len(<<i>>) # 0 /\ Len(<<i, j>>) # 0 /\ Len(<<i, j, k>>) # 0
      /\ Len(<<i, j, k, l, m>>) # 0
  OBVIOUS
<1> QED
  BY <1>1, TupleIsSequence DEF Long

LEMMA ThenLong ==
    ASSUME NEW s, IsSequence(s), NEW t, Long(t)
    PROVE  Long(s \o t)
<1>1. Len(s) \in Nat /\ Len(t) \in Nat /\ Len(s \o t) = Len(s) + Len(t) /\ IsSequence(s \o t)
  BY SequenceElements, ConcatElements DEF Long
<1> QED
  BY <1>1 DEF Long

(* Every instruction is lowered to something. *)
LEMMA SomethingLowered ==
    ASSUME NEW x, Homes(x), NEW inst, Ready(x, inst), inst.op \notin Terminators,
           NEW saved, IsSequence(saved), NEW words
    PROVE  Straight(Lower(inst, saved, words)) /\ Long(Lower(inst, saved, words))
<1> DEFINE c == Lower(inst, saved, words)
           v == inst.operands[1]
           w == inst.operands[2]
           r == inst.result
           reg == dest_register(r)
<1>1. Straight(c)
  BY StraightLowered DEF Terminators
<1>3. inst.op \in Emitted \cup {"load", "store"} /\ AllIds(inst.operands)
  BY DEF Ready, Shaped
<1>5. CASE inst.op = "const"
  <2>1. c = <<Compute(reg, {}, r)>>
    BY <1>5 DEF Lower
  <2> QED
    BY <1>1, <2>1, TuplesAreLong
<1>6. CASE inst.op = "call"
  <2>1. c = bind_call_args(inst.operands) \o <<CallFn(inst.operands, r), Mov(reg, rax)>>
    BY <1>6 DEF Lower, Call
  <2>2. IsSequence(bind_call_args(inst.operands))
    BY <1>3, BindIsStraight DEF Straight
  <2>3. Long(<<CallFn(inst.operands, r), Mov(reg, rax)>>)
    BY TuplesAreLong
  <2> HIDE DEF c
  <2>9. Long(c)
    BY <2>1, <2>2, <2>3, ThenLong
  <2> QED
    BY <1>1, <2>9 DEF c
<1>7. CASE inst.op \in {"unary", "convert", "load"}
  <2>1. v \in ValueIds
    <3>1. 1 \in 1..Len(inst.operands)
      BY <1>7 DEF Ready, Shaped, OneOperand
    <3> QED
      BY <1>3, <3>1 DEF AllIds
  <2>2. IsSequence(Fetch(v, r10)) /\ IsSequence(Fetch(v, rax))
    BY <2>1, FetchPlain DEF AllPlain
  <2>3. \E s, t : c = s \o t /\ IsSequence(s) /\ Long(t)
    <3>1. CASE inst.op = "unary"
      <4>1. c = Fetch(v, r10) \o <<Mov(reg, In(v, r10)), Compute(reg, {<<reg, v>>}, r)>>
        BY <3>1 DEF Lower, Unary
      <4>2. Long(<<Mov(reg, In(v, r10)), Compute(reg, {<<reg, v>>}, r)>>)
        BY TuplesAreLong
      <4> QED
        BY <2>2, <4>1, <4>2
    <3>2. CASE inst.op = "convert"
      <4>1. c = Fetch(v, r10) \o <<Compute(reg, {<<In(v, r10), v>>}, r)>>
        BY <3>2 DEF Lower, Convert
      <4>2. Long(<<Compute(reg, {<<In(v, r10), v>>}, r)>>)
        BY TuplesAreLong
      <4> QED
        BY <2>2, <4>1, <4>2
    <3>3. CASE inst.op = "load"
      <4>1. c = Fetch(v, rax) \o <<Compute(reg, {<<In(v, rax), v>>}, r)>>
        BY <3>3 DEF Lower, LowerLoad
      <4>2. Long(<<Compute(reg, {<<In(v, rax), v>>}, r)>>)
        BY TuplesAreLong
      <4> QED
        BY <2>2, <4>1, <4>2
    <3> QED
      BY <1>7, <3>1, <3>2, <3>3
  <2> HIDE DEF c
  <2>9. Long(c)
    BY <2>3, ThenLong
  <2> QED
    BY <1>1, <2>9 DEF c
<1>8. CASE inst.op \in {"binary", "shift", "divide", "compare", "store"}
  <2>1. v \in ValueIds /\ w \in ValueIds
    <3>1. 1 \in 1..Len(inst.operands) /\ 2 \in 1..Len(inst.operands)
      BY <1>8 DEF Ready, Shaped
    <3> QED
      BY <1>3, <3>1 DEF AllIds
  <2> DEFINE s == Fetch(v, r10) \o Fetch(w, r11)
             u == Fetch(w, r10) \o Fetch(v, r11)
  <2>2. IsSequence(s) /\ IsSequence(u)
    <3>1. /\ IsSequence(Fetch(v, r10)) /\ IsSequence(Fetch(w, r11))
          /\ IsSequence(Fetch(w, r10)) /\ IsSequence(Fetch(v, r11))
      BY <2>1, FetchPlain DEF AllPlain
    <3> QED
      BY <3>1, ConcatElements
  <2>3. \E t : c \in {s \o t, u \o t} /\ Long(t)
    <3>1. CASE inst.op = "binary"
      <4> DEFINE t == <<Mov(reg, In(v, r10)), Compute(reg, {<<reg, v>>, <<In(w, r11), w>>}, r)>>
      <4>1. c = s \o t
        BY <3>1 DEF Lower, Binary
      <4>2. Long(t)
        BY TuplesAreLong
      <4> HIDE DEF c, s, u, t
      <4> QED
        BY <4>1, <4>2
    <3>2. CASE inst.op = "shift"
      <4> DEFINE t == <<Mov(rcx, In(w, r11)), Mov(reg, In(v, r10)),
                        Compute(reg, {<<reg, v>>, <<rcx, w>>}, r)>>
      <4>1. c = s \o t
        BY <3>2 DEF Lower, Shift
      <4>2. Long(t)
        BY TuplesAreLong
      <4> HIDE DEF c, s, u, t
      <4> QED
        BY <4>1, <4>2
    <3>3. CASE inst.op = "divide"
      <4> DEFINE t == <<Mov(rax, In(v, r10)), Mov(r11, In(w, r11)), Clobber(rdx),
                        Compute(rax, {<<rax, v>>, <<r11, w>>}, r), Mov(reg, rax)>>
      <4>1. c = s \o t
        BY <3>3 DEF Lower, Divide
      <4>2. Long(t)
        BY TuplesAreLong
      <4> HIDE DEF c, s, u, t
      <4> QED
        BY <4>1, <4>2
    <3>4. CASE inst.op = "compare"
      <4> DEFINE t == <<Compute(rax, {<<In(v, r10), v>>, <<In(w, r11), w>>}, r), Mov(reg, rax)>>
      <4>1. c = s \o t
        BY <3>4 DEF Lower, Compare
      <4>2. Long(t)
        BY TuplesAreLong
      <4> HIDE DEF c, s, u, t
      <4> QED
        BY <4>1, <4>2
    <3>5. CASE inst.op = "store"
      <4> DEFINE t == <<StoreMem({<<In(w, r10), w>>, <<In(v, r11), v>>})>>
      <4>1. c = u \o t
        BY <3>5 DEF Lower, LowerStore
      <4>2. Long(t)
        BY TuplesAreLong
      <4> HIDE DEF c, s, u, t
      <4> QED
        BY <4>1, <4>2
    <3> QED
      BY <1>8, <3>1, <3>2, <3>3, <3>4, <3>5
  <2> HIDE DEF c, s, u
  <2>9. Long(c)
    BY <2>2, <2>3, ThenLong
  <2> QED
    BY <1>1, <2>9 DEF c
<1> QED
  BY <1>3, <1>5, <1>6, <1>7, <1>8 DEF Emitted

(* An instruction that goes on to the next one. *)
LEMMA LoweredLeads ==
    ASSUME NEW entry, Housed, NEW x, Homes(x), NEW inst, Ready(x, inst),
           inst.op \notin Terminators, NEW saved, IsSequence(saved), NEW words,
           NEW V \in SUBSET ValueIds, NEW W \in SUBSET ValueIds, W \subseteq V \cup {inst.result},
           \A k \in 1..Len(inst.operands) : inst.operands[k] \in V,
           inst.result # NoResult => inst.result \notin V /\ Vacant(V, RegOf(inst.result)),
           inst.op = "call" => Len(inst.operands) <= Len(ARG_REGISTERS)
    PROVE  Leads(entry, Lower(inst, saved, words) \o Keep(inst), Known(V, {}), Known(W, {}))
<1> DEFINE c == Lower(inst, saved, words)
           v == inst.result
           U == W \ {v}
           b == Known(U, {<<dest_register(v), v>>})
<1>1. Straight(c) /\ Len(c) # 0 /\ IsSequence(c)
  BY SomethingLowered DEF Long
<1>2. inst.op \in Emitted \cup {"load", "store"} /\ AllIds(inst.operands)
  BY DEF Ready, Shaped
<1>3. CASE inst.op = "store"
  <2>1. v = NoResult /\ Len(inst.operands) = 2
    BY <1>3 DEF Ready, Shaped
  <2>2. NoResult \notin ValueIds
    BY DEF NoResult, ValueIds
  <2>3. W \subseteq V /\ inst.operands[1] \in V /\ inst.operands[2] \in V
    BY <2>1, <2>2
  <2>4. c = LowerStore(inst) /\ Keep(inst) = <<>>
    BY <1>3, <2>1 DEF Lower, Keep
  <2> HIDE DEF c
  <2>5. Leads(entry, c, Known(V, {}), Known(W, {}))
    BY <2>3, <2>4, LowerStoreLeads
  <2>6. c \o <<>> = c
    BY <1>1, ConcatNothing
  <2> QED
    BY <2>4, <2>5, <2>6 DEF c
<1>4. CASE inst.op # "store"
  <2>1. v # NoResult /\ v \in ValueIds
    BY <1>2, <1>4 DEF Ready, Shaped
  <2>2. Making(V, U, v)
    BY <2>1 DEF Making
  <2>3. Keep(inst) = store_if_spilled(v, dest_register(v))
    BY <2>1 DEF Keep
  <2>4. inst.op \in {"unary", "convert", "load"} => inst.operands[1] \in V
    <3> SUFFICES ASSUME inst.op \in {"unary", "convert", "load"} PROVE inst.operands[1] \in V
      OBVIOUS
    <3>1. Len(inst.operands) = 1
      BY DEF Ready, Shaped, OneOperand
    <3>2. 1 \in 1..Len(inst.operands)
      BY <3>1
    <3> QED
      BY <3>2
  <2>5. inst.op \in {"binary", "shift", "divide", "compare"}
        => inst.operands[1] \in V /\ inst.operands[2] \in V
    <3> SUFFICES ASSUME inst.op \in {"binary", "shift", "divide", "compare"}
                 PROVE  inst.operands[1] \in V /\ inst.operands[2] \in V
      OBVIOUS
    <3>1. 1 \in 1..Len(inst.operands) /\ 2 \in 1..Len(inst.operands)
      BY DEF Ready, Shaped
    <3> QED
      BY <3>1
  <2> HIDE DEF U, v
  <2>6. Leads(entry, c, Known(V, {}), b)
    <3>1. CASE inst.op = "const"
      <4>1. c = <<Compute(dest_register(v), {}, v)>>
        BY <3>1 DEF Lower, v
      <4>2. {} \subseteq RegFacts(V) \cup {}
        OBVIOUS
      <4> HIDE DEF c
      <4> QED
        BY <2>2, <4>1, <4>2, MakeLeads
    <3>2. CASE inst.op = "binary"
      <4>1. c = Binary(inst)
        BY <3>2 DEF Lower
      <4> HIDE DEF c
      <4> QED
        BY <2>2, <2>5, <3>2, <4>1, BinaryLeads DEF v
    <3>3. CASE inst.op = "shift"
      <4>1. c = Shift(inst)
        BY <3>3 DEF Lower
      <4> HIDE DEF c
      <4> QED
        BY <2>2, <2>5, <3>3, <4>1, ShiftLeads DEF v
    <3>4. CASE inst.op = "divide"
      <4>1. c = Divide(inst)
        BY <3>4 DEF Lower
      <4> HIDE DEF c
      <4> QED
        BY <2>2, <2>5, <3>4, <4>1, DivideLeads DEF v
    <3>5. CASE inst.op = "compare"
      <4>1. c = Compare(inst)
        BY <3>5 DEF Lower
      <4> HIDE DEF c
      <4> QED
        BY <2>2, <2>5, <3>5, <4>1, CompareLeads DEF v
    <3>6. CASE inst.op = "unary"
      <4>1. c = Unary(inst)
        BY <3>6 DEF Lower
      <4> HIDE DEF c
      <4> QED
        BY <2>2, <2>4, <3>6, <4>1, UnaryLeads DEF v
    <3>7. CASE inst.op = "convert"
      <4> DEFINE o == inst.operands[1]
      <4>1. c = Fetch(o, r10) \o <<Compute(dest_register(v), {<<In(o, r10), o>>}, v)>>
        BY <3>7 DEF Lower, Convert, v
      <4>2. o \in V /\ r10 \in Reserved \ {rbp}
        BY <2>4, <3>7, BorrowedApart
      <4> HIDE DEF c, o
      <4> QED
        BY <2>2, <4>1, <4>2, MakeFromOne
    <3>8. CASE inst.op = "load"
      <4> DEFINE o == inst.operands[1]
      <4>1. c = Fetch(o, rax) \o <<Compute(dest_register(v), {<<In(o, rax), o>>}, v)>>
        BY <3>8 DEF Lower, LowerLoad, v
      <4>2. o \in V /\ rax \in Reserved \ {rbp}
        BY <2>4, <3>8, BorrowedApart
      <4> HIDE DEF c, o
      <4> QED
        BY <2>2, <4>1, <4>2, MakeFromOne
    <3>9. CASE inst.op = "call"
      <4>1. c = Call(inst)
        BY <3>9 DEF Lower
      <4>2. IsSequence(inst.operands)
        BY <1>2 DEF AllIds
      <4> HIDE DEF c
      <4> QED
        BY <2>2, <3>9, <4>1, <4>2, CallLeads DEF v
    <3> QED
      BY <1>2, <1>4, <3>1, <3>2, <3>3, <3>4, <3>5, <3>6, <3>7, <3>8, <3>9 DEF Emitted
  <2>7. Straight(store_if_spilled(v, dest_register(v)))
    BY <2>1, StorePlain, PlainIsStraight
  <2>8. b = Known(W \ {v}, {} \cup {<<dest_register(v), v>>})
    BY DEF U
  <2> HIDE DEF b, c
  <2>9. Leads(entry, c \o store_if_spilled(v, dest_register(v)), Known(V, {}), Known(W, {}))
    BY <1>1, <2>2, <2>6, <2>7, <2>8, KeptLeads DEF U
  <2> QED
    BY <2>3, <2>9 DEF c
<1> QED
  BY <1>3, <1>4
(* Every value that is passed along an edge is read. *)
LEMMA PassedIsRead ==
    ASSUME NEW inst, NEW e \in ToSet(inst.edges), NEW k \in 1..Len(e.args), IsSequence(e.args)
    PROVE  e.args[k] \in PassedOn(inst) /\ e.args[k] \in Reads(inst)
<1>1. ToSet(e.args) = {e.args[j] : j \in 1..Len(e.args)}
  BY SequenceElements
<1>2. e.args[k] \in ToSet(e.args)
  BY <1>1
<1> QED
  BY <1>2 DEF PassedOn, Reads

LEMMA OperandIsRead ==
    ASSUME NEW inst, IsSequence(inst.operands), NEW k \in 1..Len(inst.operands)
    PROVE  inst.operands[k] \in Reads(inst)
<1>1. ToSet(inst.operands) = {inst.operands[j] : j \in 1..Len(inst.operands)}
  BY SequenceElements
<1> QED
  BY <1>1 DEF Reads

(* An instruction that leaves its block. *)
LEMMA TerminatorLeads ==
    ASSUME NEW entry, Housed, NEW x, NEW inst, Ready(x, inst), inst.op \in Terminators,
           NEW saved, IsSequence(saved), ToSet(saved) \subseteq CALLEE_SAVED, NEW words,
           NEW V \in SUBSET ValueIds, Reads(inst) \subseteq V,
           \A e \in ToSet(inst.edges) : Target(entry, V, e, Params(func, e.block)),
           inst.op = "brif" => PassedOn(inst) = {}, NEW c
    PROVE  Leads(entry, Lower(inst, saved, words) \o Keep(inst), Known(V, {}), c)
<1> DEFINE s == Lower(inst, saved, words)
<1>1. /\ Keep(inst) = <<>> /\ IsSequence(inst.operands) /\ IsSequence(inst.edges)
      /\ \A e \in ToSet(inst.edges) : IsSequence(e.args)
  BY DEF Keep, Ready, Shaped, AllIds
<1>2. ASSUME inst.op \in {"brif", "ret"} PROVE inst.operands[1] \in V
  <2>1. Len(inst.operands) = 1 /\ 1 \in 1..1
    BY <1>2 DEF Ready, Shaped, OneOperand
  <2>2. inst.operands[1] \in Reads(inst)
    BY <1>1, <2>1, OperandIsRead
  <2> QED
    BY <2>2
<1>3. \A k \in 1..Len(inst.edges) : inst.edges[k] \in ToSet(inst.edges)
  BY <1>1, SequenceElements
<1>4. Leads(entry, s, Known(V, {}), c)
  <2>1. CASE inst.op = "jmp"
    <3> DEFINE e == inst.edges[1]
    <3>1. Len(inst.edges) = 1 /\ 1 \in 1..1
      BY <2>1 DEF Ready, Shaped
    <3>2. e \in ToSet(inst.edges)
      BY <1>3, <3>1
    <3>3. s = Follow(e)
      BY <2>1 DEF Lower
    <3> HIDE DEF s, e
    <3>4. \A k \in 1..Len(e.args) : e.args[k] \in V
      BY <1>1, <3>2, PassedIsRead
    <3> QED
      BY <3>2, <3>3, <3>4, FollowLeads
  <2>2. CASE inst.op = "brif"
    <3>1. Len(inst.edges) = 2 /\ 1 \in 1..2 /\ 2 \in 1..2
      BY <2>2 DEF Ready, Shaped
    <3>2. \A k \in {1, 2} : inst.edges[k] \in ToSet(inst.edges)
      BY <1>3, <3>1
    <3>3. ASSUME NEW e \in ToSet(inst.edges) PROVE e.args = <<>>
      <4>1. IsSequence(e.args) /\ ToSet(e.args) = {}
        BY <1>1, <2>2, <3>3 DEF PassedOn
      <4> QED
        BY <4>1 DEF IsSequence
    <3>4. s = Brif(inst)
      BY <2>2 DEF Lower
    <3> HIDE DEF s
    <3>5. \A k \in {1, 2} : /\ inst.edges[k].args = <<>>
                            /\ Target(entry, V, inst.edges[k], Params(func, inst.edges[k].block))
      BY <3>2, <3>3
    <3>6. inst.operands[1] \in V
      BY <1>2, <2>2
    <3> QED
      BY <3>4, <3>5, <3>6, BrifLeads
  <2>3. CASE inst.op = "ret"
    <3>1. s = Return(inst, saved, words)
      BY <2>3 DEF Lower
    <3>2. inst.operands[1] \in V
      BY <1>2, <2>3
    <3> HIDE DEF s
    <3> QED
      BY <3>1, <3>2, ReturnLeads
  <2> QED
    BY <2>1, <2>2, <2>3 DEF Terminators
<1>5. s \o <<>> = s
  <2>1. IsSequence(s)
    BY <1>4 DEF Leads
  <2> QED
    BY <2>1, ConcatNothing
<1> HIDE DEF s
<1>6. s \o Keep(inst) = s
  BY <1>1, <1>5
<1> QED
  BY <1>4, <1>6 DEF s

(* The head of a block, for the k-th of its parameters. *)
Row(params, k) ==
    (IF dest_register(params[k]) # ARG_REGISTERS[k]
     THEN <<Mov(dest_register(params[k]), ARG_REGISTERS[k])>> ELSE <<>>)
    \o store_if_spilled(params[k], dest_register(params[k]))

LEMMA RowLeads ==
    ASSUME NEW entry, Housed, NEW x, Homes(x),
           NEW params, IsSequence(params), Len(params) <= Len(ARG_REGISTERS),
           NEW k \in 1..Len(params),
           NEW V \in SUBSET ValueIds, NEW W \in SUBSET ValueIds, W \subseteq V \cup {params[k]},
           params[k] \in ValueIds, params[k] \notin V, Vacant(V, RegOf(params[k]))
    PROVE  Leads(entry, Row(params, k), Known(V, Arriving(params, k)),
                 Known(W, Arriving(params, k + 1)))
           /\ Long(Row(params, k)) /\ Straight(Row(params, k))
<1> DEFINE v == params[k]
           U == W \ {v}
           dst == dest_register(v)
           src == ARG_REGISTERS[k]
           E == Arriving(params, k)
           F == Arriving(params, k + 1) \cup {<<dst, v>>}
           t == store_if_spilled(v, dst)
<1>1. Making(V, U, v)
  BY DEF Making
<1>2. /\ dst \in Register /\ dst # rbp /\ dst \notin Reserved \ {r10} /\ Vacant(U, dst)
  <2> HIDE DEF v, dst, U
  <2> QED
    BY <1>1, DestinationFacts DEF dst
<1>3. /\ Len(params) \in Nat /\ Len(ARG_REGISTERS) \in Nat
      /\ \A j \in 1..Len(params) : j \in 1..Len(ARG_REGISTERS)
  BY SequenceElements, ArgumentsApart
<1>4. \A j \in 1..Len(params) : ARG_REGISTERS[j] # dst
  BY <1>2, <1>3, ArgumentsApart
<1>5. <<src, v>> \in E
  BY <1>3 DEF Arriving
<1>6. \A f \in F : f = <<dst, v>> \/ (f \in RegFacts(V) \cup E /\ f[1] # dst)
  <2> SUFFICES ASSUME NEW j \in (k + 1)..Len(params)
               PROVE  /\ <<ARG_REGISTERS[j], params[j]>> \in E
                      /\ ARG_REGISTERS[j] # dst
    BY DEF Arriving
  <2>1. j \in k..Len(params) /\ j \in 1..Len(params)
    BY <1>3
  <2> QED
    BY <1>4, <2>1 DEF Arriving
<1>7. Row(params, k) = <<Mov(dst, src)>> \o t
  BY <1>3, <1>4 DEF Row
<1>8. Leads(entry, <<Mov(dst, src)>>, Known(V, E), Known(U, F))
  <2>1. U \subseteq V
    OBVIOUS
  <2>2. <<src, v>> \in RegFacts(V) \cup E
    BY <1>5
  <2> HIDE DEF dst, src, E, F, U, v
  <2> QED
    BY <1>2, <1>6, <2>1, <2>2, MovLeads DEF Known
<1>9. Straight(<<Mov(dst, src)>>) /\ Len(<<Mov(dst, src)>>) # 0 /\ Straight(t)
  <2>1. Straight(<<Mov(dst, src)>>)
    BY StraightOne DEF Mov
  <2>2. Len(<<Mov(dst, src)>>) # 0
    OBVIOUS
  <2>3. Straight(t)
    <3> HIDE DEF dst
    <3> QED
      BY StorePlain, PlainIsStraight
  <2> QED
    BY <2>1, <2>2, <2>3
<1>10. Long(<<Mov(dst, src)>> \o t) /\ Straight(<<Mov(dst, src)>> \o t)
  <2> DEFINE s == <<Mov(dst, src)>>
  <2>1. IsSequence(s) /\ IsSequence(t) /\ Len(s) # 0
    BY <1>9 DEF Straight
  <2>2. Straight(s) /\ Straight(t)
    BY <1>9
  <2> HIDE DEF s, t
  <2>3. Len(s \o t) = Len(s) + Len(t) /\ Len(s) \in Nat /\ Len(t) \in Nat /\ IsSequence(s \o t)
    BY <2>1, SequenceElements, ConcatElements
  <2> QED
    BY <2>1, <2>2, <2>3, StraightTogether DEF Long, s
<1>11. Leads(entry, <<Mov(dst, src)>> \o t, Known(V, E), Known(W, Arriving(params, k + 1)))
  <2>1. Making(V, W \ {v}, v)
    BY <1>1
  <2>2. Leads(entry, <<Mov(dst, src)>>, Known(V, E),
              Known(W \ {v}, Arriving(params, k + 1) \cup {<<dst, v>>}))
    BY <1>8
  <2> HIDE DEF v, E, F, U, src
  <2> QED
    BY <1>9, <2>1, <2>2, KeptLeads
<1> QED
  BY <1>7, <1>10, <1>11

-----------------------------------------------------------------------------
(* The branches of the code *)

(* A branch is a jump over a jump: both lead where the branch is said to. *)
IsBranch(c, p) ==
    /\ c[p].over = 1 /\ p + 2 <= Len(c)
    /\ c[p + 1].op = "jmp" /\ c[p + 1].block = c[p].no
    /\ c[p + 2].op = "jmp" /\ c[p + 2].block = c[p].yes

Branched(c) == IsSequence(c) /\ \A p \in 1..Len(c) : c[p].op = "jnz" => IsBranch(c, p)

LEMMA StraightIsBranched ==
    ASSUME NEW c, Straight(c)
    PROVE  Branched(c)
BY DEF Straight, Branched

(* Where a part of the code is in the whole, its branches are too. *)
LEMMA BranchMoved ==
    ASSUME NEW s, IsSequence(s), NEW c, NEW n \in Nat, n + Len(s) <= Len(c), Len(c) \in Nat,
           \A i \in 1..Len(s) : c[n + i] = s[i],
           NEW i \in 1..Len(s), IsBranch(s, i)
    PROVE  IsBranch(c, n + i)
<1>1. Len(s) \in Nat
  BY SequenceElements
<1>2. i + 2 <= Len(s) /\ i + 1 \in 1..Len(s) /\ i + 2 \in 1..Len(s)
  BY <1>1 DEF IsBranch
<1>3. /\ c[n + i] = s[i] /\ c[n + (i + 1)] = s[i + 1] /\ c[n + (i + 2)] = s[i + 2]
  BY <1>2
<1>4. n + (i + 1) = (n + i) + 1 /\ n + (i + 2) = (n + i) + 2 /\ (n + i) + 2 <= Len(c)
  BY <1>1, <1>2
<1> QED
  BY <1>3, <1>4 DEF IsBranch

LEMMA BranchedTogether ==
    ASSUME NEW s, Branched(s), NEW t, Branched(t)
    PROVE  Branched(s \o t)
<1> DEFINE c == s \o t
           n == Len(s)
<1>1. /\ IsSequence(s) /\ IsSequence(t) /\ IsSequence(c) /\ n \in Nat /\ Len(t) \in Nat
      /\ Len(c) = n + Len(t) /\ Len(c) \in Nat
      /\ \A i \in 1..n : c[i] = s[i]
      /\ \A i \in 1..Len(t) : c[n + i] = t[i]
  <2>1. IsSequence(s) /\ IsSequence(t)
    BY DEF Branched
  <2>2. n \in Nat /\ Len(t) \in Nat
    BY <2>1, SequenceElements
  <2>3. /\ IsSequence(c) /\ Len(c) = n + Len(t)
        /\ \A i \in 1..n : c[i] = s[i]
        /\ \A i \in 1..Len(t) : c[n + i] = t[i]
    BY <2>1, ConcatElements
  <2> QED
    BY <2>1, <2>2, <2>3
<1> HIDE DEF c
<1>2. ASSUME NEW p \in 1..Len(c), c[p].op = "jnz" PROVE IsBranch(c, p)
  <2>1. CASE p <= n
    <3>1. p \in 1..n /\ 0 + p = p /\ c[p] = s[p]
      BY <1>1, <2>1
    <3>2. IsBranch(s, p)
      BY <1>2, <3>1 DEF Branched
    <3>3. \A i \in 1..Len(s) : c[0 + i] = s[i]
      BY <1>1
    <3>4. 0 \in Nat /\ 0 + Len(s) <= Len(c) /\ p \in 1..Len(s)
      BY <1>1, <3>1
    <3>5. IsBranch(c, 0 + p)
      BY <1>1, <3>2, <3>3, <3>4, BranchMoved
    <3> QED
      BY <3>1, <3>5
  <2>2. CASE p > n
    <3>1. p - n \in 1..Len(t) /\ n + (p - n) = p
      BY <1>1, <2>2
    <3>2. c[p] = t[p - n]
      BY <1>1, <3>1
    <3>3. IsBranch(t, p - n)
      BY <1>2, <3>1, <3>2 DEF Branched
    <3>4. n + Len(t) <= Len(c)
      BY <1>1
    <3> HIDE DEF n
    <3>5. IsBranch(c, n + (p - n))
      BY <1>1, <3>1, <3>3, <3>4, BranchMoved
    <3> QED
      BY <3>1, <3>5
  <2> QED
    BY <1>1, <2>1, <2>2
<1> QED
  BY <1>1, <1>2 DEF Branched, c

LEMMA BranchedFlat ==
    ASSUME NEW ss, IsSequence(ss), \A k \in 1..Len(ss) : Branched(ss[k])
    PROVE  Branched(FlattenSeq(ss))
<1> DEFINE c == FlattenSeq(ss)
           n == Len(ss)
<1>1. Parts(ss)
  BY DEF Parts, Branched
<1>2. /\ n \in Nat /\ IsSequence(c) /\ c = Joined(ss, n) /\ Len(c) = Offset(ss, n) /\ n \in 0..n
  BY <1>1, FlattenJoins
<1>3. EachPlaced(ss, n) /\ NoneElse(ss, n) /\ \A b \in 0..n : JoinedWell(ss, b)
  BY <1>1, <1>2, JoinedPlaces, JoinedParts
<1> HIDE DEF c, n
<1>4. ASSUME NEW p \in 1..Len(c), c[p].op = "jnz" PROVE IsBranch(c, p)
  <2>1. PICK b \in 1..n : \E i \in 1..Len(ss[b]) : p = Offset(ss, b - 1) + i
    BY <1>2, <1>3 DEF NoneElse
  <2>2. PICK i \in 1..Len(ss[b]) : p = Offset(ss, b - 1) + i
    BY <2>1
  <2> DEFINE m == Offset(ss, b - 1)
  <2>3. /\ b - 1 \in 0..n /\ b \in 0..n /\ b - 1 \in Nat
    BY <1>2
  <2>4. m \in Nat /\ IsSequence(ss[b]) /\ Len(ss[b]) \in Nat /\ Branched(ss[b])
    BY <1>3, <2>3, SequenceElements DEF JoinedWell, Branched, n
  <2>5. \A j \in 1..Len(ss[b]) : m + j \in 1..Len(c) /\ c[m + j] = ss[b][j]
    BY <1>2, <1>3 DEF EachPlaced
  <2>6. Len(c) \in Nat
    BY <1>2, SequenceElements
  <2> HIDE DEF m
  <2>7. m + Len(ss[b]) <= Len(c)
    <3>1. Len(ss[b]) \in 1..Len(ss[b])
      BY <2>2, <2>4
    <3> QED
      BY <2>4, <2>5, <2>6, <3>1
  <2>8. IsBranch(ss[b], i)
    BY <1>4, <2>2, <2>4, <2>5 DEF Branched, m
  <2>9. IsBranch(c, m + i)
    BY <2>4, <2>5, <2>6, <2>7, <2>8, BranchMoved
  <2> QED
    BY <2>2, <2>9 DEF m
<1> QED
  BY <1>2, <1>4 DEF Branched, c

LEMMA BrifBranched ==
    ASSUME NEW x, Homes(x), NEW inst, \A k \in {1, 2} : inst.edges[k].args = <<>>,
           inst.operands[1] \in ValueIds
    PROVE  Branched(Brif(inst))
<1> DEFINE c == BranchJumps(inst)
           s == Fetch(inst.operands[1], r10)
<1>1. Brif(inst) = s \o c /\ IsSequence(s) /\ IsSequence(c)
  BY BrifIs
<1>2. Straight(s)
  BY FetchPlain, PlainIsStraight
<1>3. /\ Len(c) = 3 /\ c[1].op = "jnz" /\ c[2].op = "jmp" /\ c[3].op = "jmp"
      /\ c[1].over = 1 /\ c[2].block = c[1].no /\ c[3].block = c[1].yes
  BY DEF BranchJumps, Jnz, Jmp
<1> HIDE DEF c, s
<1>4. \A p \in 1..3 : p = 1 \/ p = 2 \/ p = 3
  OBVIOUS
<1>5. 1 + 1 = 2 /\ 1 + 2 = 3 /\ 3 <= 3
  OBVIOUS
<1>6. IsBranch(c, 1)
  BY <1>3, <1>5 DEF IsBranch
<1>7. Branched(c)
  BY <1>1, <1>3, <1>4, <1>6 DEF Branched
<1> QED
  BY <1>1, <1>2, <1>7, StraightIsBranched, BranchedTogether

-----------------------------------------------------------------------------
(* What is live where *)

(* After as many steps as the line has items, no step finds more. *)
LEMMA LivenessSettles ==
    ASSUME IRInv, NEW v, NEW w, IsWithin(w, v, Len(Line))
    PROVE  Further(v, w[Len(Line)]) = w[Len(Line)]
<1> DEFINE m == Len(Line)
           P == Positions(Line)
           Settled(s) == Further(v, s) = s
<1>1. m \in Nat /\ P = 0..(m - 1)
  BY LineFacts DEF Positions
<1>2. IsFiniteSet(P) /\ Cardinality(P) = m
  <2>1. 0 \in Int /\ m - 1 \in Int
    BY <1>1
  <2>2. IsFiniteSet(P) /\ Cardinality(P) = IF 0 > m - 1 THEN 0 ELSE (m - 1) - 0 + 1
    BY <1>1, <2>1, FS_Interval
  <2> QED
    BY <1>1, <2>2
<1>3. /\ \A n \in 0..(m - 1) : w[n + 1] = Further(v, w[n])
      /\ \A n \in 0..m : w[n] \subseteq P
  BY WithinFacts
<1>4. \A s : s \subseteq Further(v, s) /\ (s \subseteq P => Further(v, s) \subseteq P)
  BY DEF Further
<1> HIDE DEF P, m
<1>5. \A s, t : s \subseteq t /\ t \subseteq P =>
        /\ Cardinality(s) \in Nat /\ Cardinality(t) \in Nat /\ Cardinality(s) <= Cardinality(t)
        /\ Cardinality(s) = Cardinality(t) => s = t
  <2> SUFFICES ASSUME NEW s, NEW t, s \subseteq t, t \subseteq P
               PROVE  /\ Cardinality(s) \in Nat /\ Cardinality(t) \in Nat
                      /\ Cardinality(s) <= Cardinality(t)
                      /\ Cardinality(s) = Cardinality(t) => s = t
    OBVIOUS
  <2>1. IsFiniteSet(t)
    BY <1>2, FS_Subset
  <2>2. IsFiniteSet(s) /\ Cardinality(s) <= Cardinality(t) /\ (Cardinality(t) = Cardinality(s) => t = s)
    BY <2>1, FS_Subset
  <2> QED
    BY <2>1, <2>2, FS_CardinalityType
<1> DEFINE S == {k \in Nat : k \in 0..m => Settled(w[k]) \/ Cardinality(w[k]) >= k}
<1>6. 0 \in S
  <2>1. 0 \in 0..m
    BY <1>1
  <2>2. Cardinality(w[0]) \in Nat
    BY <1>3, <1>5, <2>1
  <2> QED
    BY <2>2
<1>7. ASSUME NEW k \in S PROVE k + 1 \in S
  <2> SUFFICES ASSUME k + 1 \in 0..m
               PROVE  Settled(w[k + 1]) \/ Cardinality(w[k + 1]) >= k + 1
    OBVIOUS
  <2>1. k \in Nat /\ k \in 0..m /\ k \in 0..(m - 1)
    BY <1>1
  <2>2. w[k + 1] = Further(v, w[k]) /\ w[k] \subseteq w[k + 1] /\ w[k + 1] \subseteq P
    BY <1>3, <1>4, <2>1
  <2>3. CASE Settled(w[k])
    BY <2>2, <2>3
  <2>4. CASE Cardinality(w[k]) >= k /\ ~Settled(w[k])
    <3>1. w[k] # w[k + 1]
      BY <2>2, <2>4
    <3>2. /\ Cardinality(w[k]) \in Nat /\ Cardinality(w[k + 1]) \in Nat
          /\ Cardinality(w[k]) <= Cardinality(w[k + 1])
          /\ Cardinality(w[k]) # Cardinality(w[k + 1])
      BY <1>5, <2>2, <3>1
    <3> QED
      BY <2>1, <2>4, <3>2
  <2> QED
    BY <2>1, <2>3, <2>4
<1>8. S = Nat
  <2>1. S \in SUBSET Nat
    OBVIOUS
  <2> HIDE DEF S
  <2> QED
    BY <1>6, <1>7, <2>1, Induction
<1>9. m \in 0..m /\ m \in S
  BY <1>1, <1>8
<1>10. CASE Settled(w[m])
  BY <1>10 DEF m
<1>11. CASE Cardinality(w[m]) >= m
  <2>1. w[m] \subseteq P /\ P \subseteq P
    BY <1>3, <1>9
  <2>2. Cardinality(w[m]) \in Nat /\ Cardinality(w[m]) <= m
    BY <1>2, <1>5, <2>1
  <2>3. Cardinality(w[m]) = Cardinality(P)
    BY <1>1, <1>2, <1>11, <2>2
  <2>4. w[m] = P
    BY <1>5, <2>1, <2>3
  <2> QED
    BY <1>4, <2>1, <2>4 DEF m
<1> QED
  BY <1>9, <1>10, <1>11

(* A value is live where it is read, and where it will be and is not made. *)
LEMMA WhereLive ==
    ASSUME IRInv, NEW v \in Values(func), NEW p \in Positions(Line)
    PROVE  p \in LiveBefore[v] <=>
             \/ v \in Reads(Line[p + 1])
             \/ Line[p + 1].result # v /\ Successors[p] \cap LiveBefore[v] # {}
<1> DEFINE m == Len(Line)
<1>1. PICK w : IsWithin(w, v, m) /\ LiveBefore[v] = w[m]
  BY LiveBeforeIs
<1>2. m \in Nat /\ m \in 0..m /\ 0 \in 0..m
  BY LineFacts
<1>3. /\ w[0] = ReadAt(v)
      /\ \A n \in 0..(m - 1) : w[n + 1] = Further(v, w[n])
      /\ \A n \in 0..m : w[n] \subseteq w[m]
  BY <1>1, WithinFacts
<1>4. Further(v, w[m]) = w[m]
  BY <1>1, LivenessSettles
<1> HIDE DEF m
<1>5. ASSUME v \in Reads(Line[p + 1]) PROVE p \in w[m]
  BY <1>2, <1>3, <1>5 DEF ReadAt
<1>6. ASSUME Line[p + 1].result # v, Successors[p] \cap w[m] # {} PROVE p \in w[m]
  BY <1>4, <1>6 DEF Further
<1> DEFINE Comes == v \in Reads(Line[p + 1])
                    \/ (Line[p + 1].result # v /\ Successors[p] \cap w[m] # {})
           S == {k \in Nat : k \in 0..m /\ p \in w[k] => Comes}
<1>7. 0 \in S
  BY <1>3 DEF ReadAt
<1>8. ASSUME NEW k \in S PROVE k + 1 \in S
  <2> SUFFICES ASSUME k + 1 \in 0..m, p \in w[k + 1] PROVE Comes
    OBVIOUS
  <2>1. k \in Nat /\ k \in 0..m /\ k \in 0..(m - 1)
    BY <1>2
  <2>2. p \in Further(v, w[k]) /\ w[k] \subseteq w[m]
    BY <1>3, <2>1
  <2>3. CASE p \in w[k]
    BY <2>1, <2>3
  <2>4. CASE Line[p + 1].result # v /\ Successors[p] \cap w[k] # {}
    BY <2>2, <2>4
  <2> QED
    BY <2>2, <2>3, <2>4 DEF Further
<1>9. S = Nat
  <2>1. S \in SUBSET Nat
    OBVIOUS
  <2> HIDE DEF S
  <2> QED
    BY <1>7, <1>8, <2>1, Induction
<1>10. p \in w[m] => Comes
  BY <1>2, <1>9
<1> QED
  BY <1>1, <1>5, <1>6, <1>10

(* What is needed before the item at p, and that it has all been made. *)
Needed(p) == {v \in Values(func) : p \in LiveBefore[v]}
Made(p)   == \A v \in Needed(p) : Ranges[v].start < p

(* No path leads here. *)
Nowhere == [live |-> FALSE, framed |-> FALSE, regs |-> {}, depth |-> 0, stack |-> {}, slots |-> {}]

(* What is claimed before the item at p: what is needed is in its home. *)
Note(p, E) == IF Made(p) THEN Known(Needed(p), E) ELSE Nowhere

(* RegistersServeInTurn, when the allocator has answered. *)
InTurn ==
    \A v, w \in Values(func) :
        v # w /\ RegOf(v) # NoReg /\ RegOf(v) = RegOf(w) =>
            \A p \in Positions(Line) : ~(NeededAt(LiveBefore, v, p) /\ NeededAt(LiveBefore, w, p))

(* The parameters of every block have registers to come in. *)
FewParams ==
    /\ Len(func.args) <= Len(ARG_REGISTERS)
    /\ \A b \in Blocks(func) : Len(Params(func, b)) <= Len(ARG_REGISTERS)

(* A regular function, and the answer of the allocator to it. *)
Settled == Compiled /\ Regular /\ Housed /\ InTurn /\ FewParams

LEMMA SettledFacts ==
    ASSUME Settled
    PROVE  /\ IRInv /\ Accepted /\ Checked /\ Housed /\ InTurn /\ FewParams
           /\ WellFormed(func) /\ Values(func) = ValueIds /\ N \in Nat
           /\ \A p : Needed(p) \subseteq Values(func) /\ Needed(p) \in SUBSET ValueIds
           /\ NoResult \notin Values(func)
<1>1. IRInv /\ func.types = N
  BY DEF Settled, Compiled
<1>2. Values(func) = 0..(func.types - 1) /\ NoResult \notin Values(func) /\ WellFormed(func)
  BY <1>1, LineFacts
<1>3. \A p : Needed(p) \subseteq Values(func)
  BY DEF Needed
<1> QED
  BY <1>1, <1>2, <1>3, ValuesAssumption DEF Settled, Compiled, Regular, ValueIds

(* An item that is not the last of its block. *)
LEMMA NeededNext ==
    ASSUME Settled, NEW p \in Positions(Line), Line[p + 1].op \notin Terminators, Made(p)
    PROVE  /\ Needed(p + 1) \subseteq Needed(p) \cup {Line[p + 1].result}
           /\ Made(p + 1)
<1>1. IRInv /\ p \in Nat
  BY SettledFacts, LineFacts
<1>2. Successors[p] = {p + 1}
  BY DEF Successors
<1>3. ASSUME NEW v \in Needed(p + 1), v # Line[p + 1].result PROVE v \in Needed(p)
  <2>1. v \in Values(func) /\ p + 1 \in LiveBefore[v]
    BY DEF Needed
  <2>2. p \in LiveBefore[v]
    BY <1>1, <1>2, <1>3, <2>1, WhereLive
  <2> QED
    BY <2>1, <2>2 DEF Needed
<1>4. ASSUME NEW v \in Needed(p + 1) PROVE Ranges[v].start < p + 1
  <2>0. v \in Values(func)
    BY DEF Needed
  <2>1. Ranges[v].start \in Positions(Line) /\ Ranges[v].start \in Nat
    BY <1>1, <2>0, RangeFacts, LineFacts
  <2>2. CASE v = Line[p + 1].result
    <3>1. p + 1 \in 1..Len(Line)
      BY <1>1, LineFacts
    <3>2. p + 1 = Ranges[v].start + 1
      BY <1>1, <2>0, <2>2, <3>1, RangeFacts
    <3> QED
      BY <1>1, <2>1, <3>2
  <2>3. CASE v # Line[p + 1].result
    <3>1. Ranges[v].start < p
      BY <1>3, <2>3 DEF Made
    <3> QED
      BY <1>1, <2>1, <3>1
  <2> QED
    BY <2>2, <2>3
<1> QED
  BY <1>3, <1>4 DEF Made

(* What an item makes is not needed before it, and nothing that is has its home. *)
LEMMA MadeInTurn ==
    ASSUME Settled, NEW p \in Positions(Line), NEW v, v = Line[p + 1].result, v # NoResult, Made(p)
    PROVE  v \in ValueIds /\ v \notin Needed(p) /\ Vacant(Needed(p), RegOf(v))
<1>1. IRInv /\ p \in Nat /\ p + 1 \in 1..Len(Line) /\ WellFormed(func) /\ Line = Layout(func)
  BY SettledFacts, LineFacts
<1>2. v \in Values(func)
  <2> HIDE DEF Line
  <2> QED
    BY <1>1, ValuesOfLine
<1>3. Ranges[v].start = p
  <2>1. p + 1 = Ranges[v].start + 1
    BY <1>1, <1>2, RangeFacts
  <2>2. Ranges[v].start \in Nat
    BY <1>1, <1>2, RangeFacts, LineFacts
  <2> QED
    BY <1>1, <2>1, <2>2
<1>4. v \notin Needed(p)
  BY <1>1, <1>3 DEF Made
<1>5. ASSUME NEW u \in Needed(p), RegOf(u) # NoReg, RegOf(u) = RegOf(v) PROVE FALSE
  <2>1. u \in Values(func) /\ p \in LiveBefore[u] /\ u # v /\ Ranges[u].start < p
    BY <1>4 DEF Needed, Made
  <2>2. Ranges[u].start \in Nat
    BY <1>1, <2>1, RangeFacts, LineFacts
  <2>3. NeededAt(LiveBefore, u, p) /\ NeededAt(LiveBefore, v, p)
    BY <1>1, <1>3, <2>1, <2>2 DEF NeededAt
  <2> QED
    BY <1>2, <1>5, <2>1, <2>3 DEF InTurn, Settled
<1> QED
  BY <1>2, <1>4, <1>5, SettledFacts DEF Vacant

(* What an item reads is needed before it. *)
LEMMA ReadIsNeeded ==
    ASSUME Settled, NEW p \in Positions(Line)
    PROVE  Reads(Line[p + 1]) \subseteq Needed(p)
<1> SUFFICES ASSUME NEW v \in Reads(Line[p + 1]) PROVE v \in Needed(p)
  OBVIOUS
<1>1. IRInv /\ Checked /\ p + 1 \in 1..Len(Line)
  BY SettledFacts, LineFacts
<1>2. v \in Values(func)
  BY <1>1, CheckedReads
<1>3. p \in LiveBefore[v]
  BY <1>1, <1>2, WhereLive
<1> QED
  BY <1>2, <1>3 DEF Needed

(* The last item of a block: what the next one needs is there, or, where a *)
(* loop closes, is nothing.                                                *)
LEMMA NeededAcross ==
    ASSUME Settled, NEW p \in Positions(Line), Line[p + 1].op \in Terminators,
           Line[p + 1].result = NoResult, Made(p),
           NEW e \in ToSet(Line[p + 1].edges), e.block \in Blocks(func)
    PROVE  Needed(Entries[e.block]) \subseteq Needed(p) /\ Made(Entries[e.block])
<1> DEFINE q == Entries[e.block]
<1>1. /\ IRInv /\ p \in Nat /\ q \in Nat
  <2>1. q = Before(func, e.block) /\ WellFormed(func)
    BY SettledFacts, EntriesAre
  <2>2. \A b \in 1..(Len(func.blocks) + 1) : Before(func, b) \in Nat
    BY <2>1, BlockOffsets
  <2>3. e.block \in 1..(Len(func.blocks) + 1)
    BY <2>1, Sizes DEF Blocks
  <2> QED
    BY <2>1, <2>2, <2>3, SettledFacts, LineFacts
<1>2. q \in Successors[p]
  BY DEF Successors
<1>3. ClosedLoops(LiveBefore)
  BY DEF Settled, Regular
<1> HIDE DEF q
<1>4. Needed(q) \subseteq Needed(p)
  <2> SUFFICES ASSUME NEW v \in Needed(q) PROVE v \in Needed(p)
    OBVIOUS
  <2>1. v \in Values(func) /\ q \in LiveBefore[v] /\ v # NoResult
    BY SettledFacts DEF Needed
  <2>2. p \in LiveBefore[v]
    BY <1>1, <1>2, <2>1, WhereLive
  <2> QED
    BY <2>1, <2>2 DEF Needed
<1>5. Made(q)
  <2>1. CASE q <= p
    <3>1. \A v \in Values(func) : q \notin LiveBefore[v]
      BY <1>3, <2>1 DEF ClosedLoops, q
    <3> QED
      BY <3>1 DEF Made, Needed
  <2>2. CASE q > p
    <3> SUFFICES ASSUME NEW v \in Needed(q) PROVE Ranges[v].start < q
      BY DEF Made
    <3>1. Ranges[v].start < p /\ v \in Values(func)
      BY <1>4 DEF Made, Needed
    <3>2. Ranges[v].start \in Nat
      BY <1>1, <3>1, RangeFacts, LineFacts
    <3> QED
      BY <1>1, <2>2, <3>1, <3>2
  <2> QED
    BY <1>1, <2>1, <2>2
<1> QED
  BY <1>4, <1>5 DEF q

(* The entry block has the arguments of the function for its parameters. *)
BlockStart(b)  == IF b = 1 THEN 0 ELSE Before(func, b)
BlockParams(b) == IF b = 1 THEN func.args ELSE Params(func, b)

LEMMA BlockPlaces ==
    ASSUME Settled, NEW b \in Blocks(func)
    PROVE  /\ BlockStart(b) \in Nat /\ IsSequence(BlockParams(b))
           /\ Len(BlockParams(b)) \in Nat /\ Len(BlockParams(b)) <= Len(ARG_REGISTERS)
           /\ \A k \in 1..Len(BlockParams(b)) :
                /\ BlockStart(b) + (k - 1) \in Positions(Line)
                /\ Line[(BlockStart(b) + (k - 1)) + 1] = Param(BlockParams(b)[k])
           /\ \A i \in 1..Len(Instructions(func, b)) :
                /\ (BlockStart(b) + Len(BlockParams(b))) + (i - 1) \in Positions(Line)
                /\ Line[((BlockStart(b) + Len(BlockParams(b))) + (i - 1)) + 1]
                     = Instructions(func, b)[i]
           /\ b # 1 => Entries[b] = BlockStart(b)
<1>1. /\ IRInv /\ WellFormed(func) /\ Line = Layout(func) /\ Len(Line) \in Nat
      /\ \A p \in 1..Len(Line) : p - 1 \in Positions(Line)
      /\ Params(func, 1) = <<>>
  BY SettledFacts, LineFacts DEF Settled, Regular
<1>2. /\ Blocks(func) = 1..Len(func.blocks) /\ Len(func.blocks) \in Nat
      /\ Len(func.args) \in Nat /\ IsSequence(func.args)
      /\ Len(Params(func, b)) \in Nat /\ IsSequence(Params(func, b))
      /\ Len(Instructions(func, b)) \in Nat
  <2>1. IsSequence(func.args) /\ IsSequence(Params(func, b))
    BY <1>1 DEF WellFormed
  <2> QED
    BY <1>1, <2>1, Sizes
<1>3. /\ Before(func, b) \in Nat /\ Before(func, 1) = Len(func.args)
  <2>1. b \in 1..(Len(func.blocks) + 1)
    BY <1>2
  <2>2. Before(func, b) \in Nat
    BY <1>1, <2>1, BlockOffsets
  <2>3. IsSequence(Rows(func))
    BY <1>1, RowsAreParts DEF Parts
  <2>4. Offset(Rows(func), 0) = 0
    BY <2>3, JoinedNone, EmptySequence DEF Offset
  <2> QED
    BY <1>2, <2>2, <2>4 DEF Before
<1>4. /\ \A k \in 1..Len(func.args) : k \in 1..Len(Line) /\ Line[k] = Param(func.args[k])
      /\ \A k \in 1..Len(Params(func, b)) :
           /\ Before(func, b) + k \in 1..Len(Line)
           /\ Line[Before(func, b) + k] = Param(Params(func, b)[k])
      /\ \A i \in 1..Len(Instructions(func, b)) :
           /\ (Before(func, b) + Len(Params(func, b))) + i \in 1..Len(Line)
           /\ Line[(Before(func, b) + Len(Params(func, b))) + i] = Instructions(func, b)[i]
  BY <1>1, LinePlaces DEF Place
<1>5. /\ BlockStart(b) \in Nat /\ IsSequence(BlockParams(b)) /\ Len(BlockParams(b)) \in Nat
      /\ BlockStart(b) + Len(BlockParams(b)) = Before(func, b) + Len(Params(func, b))
  <2>1. CASE b = 1
    <3>1. Len(Params(func, b)) = 0
      BY <1>1, <2>1, EmptySequence
    <3> QED
      BY <1>2, <1>3, <2>1, <3>1 DEF BlockStart, BlockParams
  <2>2. CASE b # 1
    BY <1>2, <1>3, <2>2 DEF BlockStart, BlockParams
  <2> QED
    BY <2>1, <2>2
<1>6. Len(BlockParams(b)) <= Len(ARG_REGISTERS)
  BY DEF Settled, FewParams, BlockParams
<1>7. ASSUME NEW k \in 1..Len(BlockParams(b))
      PROVE  /\ BlockStart(b) + k \in 1..Len(Line)
             /\ Line[BlockStart(b) + k] = Param(BlockParams(b)[k])
  <2>1. CASE b = 1
    <3>1. BlockStart(b) + k = k /\ k \in 1..Len(func.args)
      BY <1>5, <2>1 DEF BlockStart, BlockParams
    <3> QED
      BY <1>4, <2>1, <3>1 DEF BlockParams
  <2>2. CASE b # 1
    BY <1>4, <2>2 DEF BlockStart, BlockParams
  <2> QED
    BY <2>1, <2>2
<1>8. \A n \in Nat, k \in Nat : (n + (k - 1)) + 1 = n + k /\ n + (k - 1) = (n + k) - 1
  OBVIOUS
<1>9. b # 1 => Entries[b] = BlockStart(b)
  BY <1>1, EntriesAre DEF BlockStart
<1> DEFINE m == BlockStart(b)
           n == BlockStart(b) + Len(BlockParams(b))
<1>10. m \in Nat /\ n \in Nat
  BY <1>5
<1>11. ASSUME NEW k \in 1..Len(BlockParams(b))
       PROVE  m + (k - 1) \in Positions(Line) /\ Line[(m + (k - 1)) + 1] = Param(BlockParams(b)[k])
  <2>1. (m + (k - 1)) + 1 = m + k /\ m + (k - 1) = (m + k) - 1
    BY <1>5, <1>8, <1>10
  <2> QED
    BY <1>1, <1>7, <2>1
<1>12. ASSUME NEW i \in 1..Len(Instructions(func, b))
       PROVE  n + (i - 1) \in Positions(Line) /\ Line[(n + (i - 1)) + 1] = Instructions(func, b)[i]
  <2>1. (n + (i - 1)) + 1 = n + i /\ n + (i - 1) = (n + i) - 1
    BY <1>2, <1>8, <1>10
  <2>2. n + i \in 1..Len(Line) /\ Line[n + i] = Instructions(func, b)[i]
    BY <1>4, <1>5
  <2> HIDE DEF n
  <2> QED
    BY <1>1, <2>1, <2>2
<1> QED
  BY <1>5, <1>6, <1>9, <1>11, <1>12

EntryNotes == [b \in Blocks(func) |-> Note(BlockStart(b), Arriving(BlockParams(b), 1))]

(* An edge leaves with what its block begins with. *)
LEMMA EdgesAreNoted ==
    ASSUME Settled, NEW p \in Positions(Line), Line[p + 1].op \in Terminators,
           Line[p + 1].result = NoResult, Made(p),
           NEW e \in ToSet(Line[p + 1].edges), EdgeFits(func, e), IsSequence(e.args)
    PROVE  Target(EntryNotes, Needed(p), e, Params(func, e.block))
<1> DEFINE b == e.block
           U == Needed(BlockStart(b))
           params == Params(func, b)
<1>1. b \in Blocks(func) /\ Len(params) = Len(e.args)
  BY DEF EdgeFits
<1>2. b # 1
  <2>1. Line[p + 1] \in ToSet(Line)
    <3>1. p + 1 \in 1..Len(Line) /\ IsSequence(Line)
      BY SettledFacts, LineFacts, LineItems
    <3> QED
      BY <3>1, SequenceElements
  <2> QED
    BY <2>1 DEF Settled, Regular, EntryOnce
<1> HIDE DEF b
<1>3. Entries[b] = BlockStart(b) /\ BlockParams(b) = params /\ IsSequence(params)
      /\ Len(params) <= Len(ARG_REGISTERS)
  BY <1>1, <1>2, BlockPlaces DEF BlockParams
<1>4. U \subseteq Needed(p) /\ Made(BlockStart(b))
  BY <1>1, <1>3, NeededAcross DEF b
<1>5. EntryNotes[b] = Known(U, Arriving(params, 1))
  <2>1. EntryNotes[b] = Note(BlockStart(b), Arriving(BlockParams(b), 1))
    BY <1>1 DEF EntryNotes
  <2> QED
    BY <1>3, <1>4, <2>1 DEF Note
<1>6. U \cap ToSet(params) = {}
  <2> SUFFICES ASSUME NEW v \in U, v \in ToSet(params) PROVE FALSE
    OBVIOUS
  <2>1. PICK k \in 1..Len(params) : v = params[k]
    BY <1>3, SequenceElements
  <2>2. /\ BlockStart(b) + (k - 1) \in Positions(Line) /\ BlockStart(b) \in Nat
        /\ Line[(BlockStart(b) + (k - 1)) + 1] = Param(v)
    BY <1>1, <1>3, <2>1, BlockPlaces
  <2>3. v \in Values(func) /\ Ranges[v].start < BlockStart(b) /\ IRInv
    BY <1>4, SettledFacts DEF Made, Needed
  <2>4. (BlockStart(b) + (k - 1)) + 1 \in 1..Len(Line)
    BY <2>2, <2>3, LineFacts
  <2>5. (BlockStart(b) + (k - 1)) + 1 = Ranges[v].start + 1
    BY <2>2, <2>3, <2>4, ParamIsInert, RangeFacts
  <2>6. Ranges[v].start \in Nat /\ Len(params) \in Nat
    BY <1>3, <2>3, RangeFacts, LineFacts, SequenceElements
  <2> QED
    BY <2>2, <2>3, <2>5, <2>6
<1> HIDE DEF U, params
<1> QED
  BY <1>1, <1>3, <1>4, <1>5, <1>6 DEF Target, b, params

(* No path leads to what a dead place leads to. *)
LEMMA NowhereLeads ==
    ASSUME NEW entry, NEW c, Long(c), NEW b
    PROVE  Leads(entry, c, Nowhere, b)
<1>1. Nowhere.live = FALSE
  BY DEF Nowhere
<1> QED
  BY <1>1, DeadLeads DEF Long

(* The head of a block. *)
LEMMA ReceiveLeads ==
    ASSUME Settled, NEW entry, NEW x, Homes(x), NEW b \in Blocks(func)
    PROVE  /\ Leads(entry, Receive(BlockParams(b)), Note(BlockStart(b), Arriving(BlockParams(b), 1)),
                    Note(BlockStart(b) + Len(BlockParams(b)), {}))
           /\ Branched(Receive(BlockParams(b)))
<1> DEFINE params == BlockParams(b)
           m == BlockStart(b)
           n == Len(params)
           rows == [k \in 1..n |-> Row(params, k)]
           g == [k \in Nat |-> Note(m + (k - 1), Arriving(params, k))]
<1>1. /\ m \in Nat /\ IsSequence(params) /\ n \in Nat /\ n <= Len(ARG_REGISTERS)
      /\ Len(ARG_REGISTERS) \in Nat
      /\ \A k \in 1..n : m + (k - 1) \in Positions(Line)
                         /\ Line[(m + (k - 1)) + 1] = Param(params[k])
  BY BlockPlaces, ArgumentsApart
<1>2. Receive(params) = FlattenSeq(rows)
  <2>1. Least(n, Len(ARG_REGISTERS)) = n
    BY <1>1 DEF Least
  <2> QED
    BY <2>1 DEF Receive, Row
<1>3. IsSequence(rows) /\ Len(rows) = n /\ \A k \in 1..n : rows[k] = Row(params, k)
  <2>1. rows = [k \in 1..n |-> rows[k]] /\ DOMAIN rows = 1..n
    OBVIOUS
  <2>2. IsSequence(rows)
    <3> HIDE DEF rows, n
    <3> QED
      BY <1>1, <2>1, FunctionIsSequence
  <2>3. Len(rows) \in Nat /\ DOMAIN rows = 1..Len(rows)
    BY <2>2, SequenceElements
  <2>4. Len(rows) = n
    <3> HIDE DEF rows, n
    <3> QED
      BY <1>1, <2>1, <2>3
  <2> QED
    BY <2>2, <2>4
<1> HIDE DEF rows, n, m, params
<1>4. ASSUME NEW k \in 1..n
      PROVE  /\ Leads(entry, rows[k], g[k], g[k + 1])
             /\ Straight(rows[k])
  <2> DEFINE p == m + (k - 1)
             v == params[k]
  <2>1. /\ p \in Positions(Line) /\ Line[p + 1] = Param(v) /\ p + 1 = m + ((k + 1) - 1)
        /\ k \in 1..Len(params) /\ Len(params) <= Len(ARG_REGISTERS)
    BY <1>1 DEF n
  <2>2. g[k] = Note(p, Arriving(params, k)) /\ g[k + 1] = Note(p + 1, Arriving(params, k + 1))
    <3>1. k \in Nat /\ k + 1 \in Nat
      BY <1>1
    <3>2. g[k + 1] = Note(m + ((k + 1) - 1), Arriving(params, k + 1))
      BY <3>1
    <3> QED
      BY <2>1, <3>1, <3>2
  <2>3. Line[p + 1].result = v /\ Line[p + 1].op \notin Terminators
    BY <2>1, ParamIsInert DEF Terminators
  <2> HIDE DEF g, p, v
  <2>4. v \in ValueIds /\ v # NoResult
    <3>1. p + 1 \in 1..Len(Line) /\ WellFormed(func) /\ WellTyped(func) /\ IRInv
      BY <2>1, SettledFacts, LineFacts DEF IRInv, FuncInv
    <3>2. v \in ToSet(params) /\ params \in Seq(Nat)
      <4>1. BlockParams(b) \in Seq(Nat)
        BY <3>1 DEF WellTyped, BlockParams
      <4> QED
        BY <1>1, <2>1, <4>1, SequenceElements DEF params, v
    <3>3. v # NoResult
      BY <3>2, NumbersOnly
    <3>4. v \in Values(func)
      BY <2>3, <3>1, <3>3, ValuesOfLine DEF Line
    <3> QED
      BY <3>3, <3>4, SettledFacts
  <2>5. Long(Row(params, k)) /\ Straight(Row(params, k))
    <3>1. {} \in SUBSET ValueIds /\ {} \subseteq {} \cup {params[k]} /\ params[k] \notin {}
      OBVIOUS
    <3>2. Vacant({}, RegOf(params[k]))
      BY DEF Vacant
    <3>3. Housed
      BY SettledFacts
    <3> QED
      BY <1>1, <2>1, <2>4, <3>1, <3>2, <3>3, RowLeads DEF v
  <2>6. CASE Made(p)
    <3>1. /\ Needed(p + 1) \subseteq Needed(p) \cup {v} /\ Made(p + 1)
          /\ v \notin Needed(p) /\ Vacant(Needed(p), RegOf(v))
      BY <2>1, <2>3, <2>4, <2>6, NeededNext, MadeInTurn
    <3>2. Needed(p) \in SUBSET ValueIds /\ Needed(p + 1) \in SUBSET ValueIds /\ Housed
      BY SettledFacts
    <3>3. Leads(entry, Row(params, k), Known(Needed(p), Arriving(params, k)),
                Known(Needed(p + 1), Arriving(params, k + 1)))
      BY <1>1, <2>1, <2>4, <3>1, <3>2, RowLeads DEF v
    <3> QED
      BY <1>3, <2>2, <2>5, <2>6, <3>1, <3>3 DEF Note
  <2>7. CASE ~Made(p)
    <3>1. g[k] = Nowhere
      BY <2>2, <2>7 DEF Note
    <3> QED
      BY <1>3, <2>5, <3>1, NowhereLeads
  <2> QED
    BY <2>6, <2>7
<1>5. Leads(entry, FlattenSeq(rows), g[1], g[n + 1])
  <2>1. \A k \in 1..Len(rows) : Leads(entry, rows[k], g[k], g[k + 1])
    BY <1>3, <1>4
  <2> HIDE DEF g
  <2>2. Leads(entry, FlattenSeq(rows), g[1], g[Len(rows) + 1])
    BY <1>3, <2>1, PiecesLead
  <2> QED
    BY <1>3, <2>2
<1>6. Branched(FlattenSeq(rows))
  BY <1>3, <1>4, StraightFlat, StraightIsBranched
<1>7. g[1] = Note(m, Arriving(params, 1)) /\ g[n + 1] = Note(m + n, {})
  <2>1. m + (1 - 1) = m /\ m + ((n + 1) - 1) = m + n /\ n + 1 \in Nat
    BY <1>1
  <2>2. Arriving(params, n + 1) = {}
    <3>1. (n + 1)..n = {}
      BY <1>1
    <3> QED
      BY <3>1 DEF Arriving, n
  <2> QED
    BY <2>1, <2>2
<1> QED
  BY <1>2, <1>5, <1>6, <1>7 DEF params, m, n

LEMMA LongThen ==
    ASSUME NEW s, Long(s), NEW t, IsSequence(t)
    PROVE  Long(s \o t)
<1>1. Len(s) \in Nat /\ Len(t) \in Nat /\ Len(s \o t) = Len(s) + Len(t) /\ IsSequence(s \o t)
  BY SequenceElements, ConcatElements DEF Long
<1> QED
  BY <1>1 DEF Long

(* What an instruction is lowered to, with what follows every lowering. *)
LoweredRow(inst, saved, words) == Lower(inst, saved, words) \o Keep(inst)

(* The branches of a regular function pass nothing. *)
LEMMA NothingPassed ==
    ASSUME Settled, NEW item \in ToSet(Line), item.op = "brif", IsSequence(item.edges),
           \A e \in ToSet(item.edges) : IsSequence(e.args), Len(item.edges) = 2
    PROVE  PassedOn(item) = {} /\ \A k \in {1, 2} : item.edges[k].args = <<>>
<1>1. PassedOn(item) = {}
  BY DEF Settled, Regular, PlainBranches
<1>2. ASSUME NEW k \in {1, 2} PROVE item.edges[k].args = <<>>
  <2>1. k \in 1..2
    BY <1>2
  <2>2. item.edges[k] \in ToSet(item.edges)
    BY <2>1, SequenceElements
  <2>3. ToSet(item.edges[k].args) = {} /\ IsSequence(item.edges[k].args)
    BY <1>1, <2>2 DEF PassedOn
  <2>4. \A s : IsSequence(s) /\ ToSet(s) = {} => s = <<>>
    BY DEF IsSequence
  <2> QED
    BY <2>3, <2>4
<1> QED
  BY <1>1, <1>2

LEMMA RowIsLong ==
    ASSUME NEW x, Homes(x), NEW inst, Ready(x, inst), NEW words, Framed(x, words)
    PROVE  Long(LoweredRow(inst, x.saved, words))
<1>1. IsSequence(x.saved) /\ IsSequence(Keep(inst))
  BY KeepPlain DEF Homes, IsContext, AllPlain
<1>2. CASE inst.op \in Terminators
  <2>1. Closed(LoweredRow(inst, x.saved, words))
    BY <1>2, LoweredRuns DEF LoweredRow
  <2> QED
    BY <2>1 DEF Closed, Long
<1>3. CASE inst.op \notin Terminators
  <2>1. Long(Lower(inst, x.saved, words))
    BY <1>1, <1>3, SomethingLowered
  <2> QED
    BY <1>1, <2>1, LongThen DEF LoweredRow
<1> QED
  BY <1>2, <1>3

LEMMA RowIsBranched ==
    ASSUME NEW x, Homes(x), NEW inst, Ready(x, inst), NEW words,
           inst.op = "brif" => \A k \in {1, 2} : inst.edges[k].args = <<>>
    PROVE  Branched(LoweredRow(inst, x.saved, words))
<1>1. IsSequence(x.saved) /\ Straight(Keep(inst))
  BY KeepPlain, PlainIsStraight DEF Homes, IsContext
<1>2. CASE inst.op = "brif"
  <2>1. inst.operands[1] \in ValueIds
    <3>1. Len(inst.operands) = 1 /\ 1 \in 1..1
      BY <1>2 DEF Ready, Shaped, OneOperand
    <3> QED
      BY <3>1 DEF Ready, AllIds
  <2>2. Branched(Brif(inst))
    BY <1>2, <2>1, BrifBranched
  <2>3. Lower(inst, x.saved, words) = Brif(inst)
    BY <1>2 DEF Lower
  <2> QED
    BY <1>1, <2>2, <2>3, StraightIsBranched, BranchedTogether DEF LoweredRow
<1>3. CASE inst.op # "brif"
  <2>1. Straight(Lower(inst, x.saved, words))
    BY <1>1, <1>3, StraightLowered
  <2> QED
    BY <1>1, <2>1, StraightIsBranched, BranchedTogether DEF LoweredRow
<1> QED
  BY <1>2, <1>3

(* What is claimed before an instruction of a block is taken to what is after it. *)
LEMMA InstructionLeads ==
    ASSUME Settled, NEW x, Homes(x), x.blocks = Len(func.blocks),
           ToSet(x.saved) \subseteq CALLEE_SAVED, NEW words, Framed(x, words),
           NEW b \in Blocks(func), NEW i \in 1..Len(Instructions(func, b)),
           NEW p \in Positions(Line), NEW inst, inst = Instructions(func, b)[i], Line[p + 1] = inst,
           NEW c, i < Len(Instructions(func, b)) => c = Note(p + 1, {})
    PROVE  /\ Leads(EntryNotes, LoweredRow(inst, x.saved, words), Note(p, {}), c)
           /\ Branched(LoweredRow(inst, x.saved, words))
<1>1. /\ IRInv /\ Housed /\ Ready(x, inst) /\ IsSequence(x.saved) /\ Needed(p) \in SUBSET ValueIds
      /\ Needed(p + 1) \in SUBSET ValueIds
  BY SettledFacts, InstructionsReady DEF Settled, Homes, IsContext
<1>2. inst \in ToSet(Line) /\ IsSequence(Line)
  <2>1. p + 1 \in 1..Len(Line) /\ IsSequence(Line)
    BY <1>1, LineFacts, LineItems
  <2> QED
    BY <2>1, SequenceElements
<1>3. /\ IsSequence(inst.operands) /\ IsSequence(inst.edges)
      /\ \A e \in ToSet(inst.edges) : IsSequence(e.args)
      /\ inst.op \in Terminators => inst.result = NoResult
      /\ inst.op = "brif" => Len(inst.edges) = 2
  BY <1>1 DEF Ready, Shaped, AllIds
<1>4. Long(LoweredRow(inst, x.saved, words))
  BY <1>1, RowIsLong
<1>5. Branched(LoweredRow(inst, x.saved, words))
  BY <1>1, <1>2, <1>3, NothingPassed, RowIsBranched
<1>6. Terminated(Instructions(func, b)) /\ \A e \in ToSet(inst.edges) : EdgeFits(func, e)
  BY SettledFacts DEF Accepted, Verified
<1>7. inst.op \in Terminators <=> i = Len(Instructions(func, b))
  <2>1. IsSequence(Instructions(func, b))
    BY SettledFacts DEF WellFormed
  <2> QED
    BY <1>6, <2>1, TerminatorIsLast
<1>8. Reads(inst) \subseteq Needed(p)
  BY ReadIsNeeded
<1>9. CASE ~Made(p)
  BY <1>4, <1>5, <1>9, NowhereLeads DEF Note
<1>10. CASE Made(p) /\ inst.op \in Terminators
  <2>1. \A e \in ToSet(inst.edges) : Target(EntryNotes, Needed(p), e, Params(func, e.block))
    BY <1>3, <1>6, <1>10, EdgesAreNoted
  <2>2. inst.op = "brif" => PassedOn(inst) = {}
    BY <1>2, <1>3, NothingPassed
  <2>3. Leads(EntryNotes, LoweredRow(inst, x.saved, words), Known(Needed(p), {}), c)
    BY <1>1, <1>8, <1>10, <2>1, <2>2, TerminatorLeads DEF LoweredRow
  <2> QED
    BY <1>5, <1>10, <2>3 DEF Note
<1>11. CASE Made(p) /\ inst.op \notin Terminators
  <2>1. Needed(p + 1) \subseteq Needed(p) \cup {inst.result} /\ Made(p + 1)
    BY <1>11, NeededNext
  <2>2. inst.result # NoResult =>
          inst.result \notin Needed(p) /\ Vacant(Needed(p), RegOf(inst.result))
    BY <1>11, MadeInTurn
  <2>3. \A k \in 1..Len(inst.operands) : inst.operands[k] \in Needed(p)
    BY <1>3, <1>8, OperandIsRead
  <2>4. inst.op = "call" => Len(inst.operands) <= Len(ARG_REGISTERS)
    BY <1>2 DEF Settled, Regular, Line
  <2>5. Leads(EntryNotes, LoweredRow(inst, x.saved, words), Known(Needed(p), {}),
              Known(Needed(p + 1), {}))
    BY <1>1, <1>11, <2>1, <2>2, <2>3, <2>4, LoweredLeads DEF LoweredRow
  <2>6. c = Known(Needed(p + 1), {})
    <3>1. i < Len(Instructions(func, b))
      <4>1. Len(Instructions(func, b)) \in Nat
        BY SettledFacts, Sizes
      <4> QED
        BY <1>7, <1>11, <4>1
    <3> QED
      BY <2>1, <3>1 DEF Note
  <2> QED
    BY <1>5, <1>11, <2>5, <2>6 DEF Note
<1> QED
  BY <1>9, <1>10, <1>11

(* A block is entered with what its note says, and left for nowhere else. *)
LEMMA BlockLeads ==
    ASSUME Settled, NEW x, Homes(x), x.blocks = Len(func.blocks),
           ToSet(x.saved) \subseteq CALLEE_SAVED, NEW words, Framed(x, words),
           NEW b \in Blocks(func), NEW c
    PROVE  /\ Leads(EntryNotes, BlockCode(b, x.saved, words), EntryNotes[b], c)
           /\ Branched(BlockCode(b, x.saved, words))
<1> DEFINE insts == Instructions(func, b)
           m == Len(insts)
           q == BlockStart(b) + Len(BlockParams(b))
           rows == [i \in 1..m |-> LoweredRow(insts[i], x.saved, words)]
           g == [i \in Nat |-> IF i = m + 1 THEN c ELSE Note(q + (i - 1), {})]
           head == Receive(BlockParams(b))
<1>1. /\ IsSequence(insts) /\ m \in Nat \ {0} /\ q \in Nat
      /\ \A i \in 1..m : q + (i - 1) \in Positions(Line) /\ Line[(q + (i - 1)) + 1] = insts[i]
  <2>1. IsSequence(insts) /\ Terminated(insts)
    BY SettledFacts DEF WellFormed, Accepted, Verified
  <2>2. m \in Nat \ {0}
    BY <2>1, TerminatorIsLast
  <2> QED
    BY <2>1, <2>2, BlockPlaces
<1>2. /\ Leads(EntryNotes, head, EntryNotes[b], Note(q, {}))
      /\ Branched(head)
  <2>1. EntryNotes[b] = Note(BlockStart(b), Arriving(BlockParams(b), 1))
    BY DEF EntryNotes
  <2> QED
    BY <2>1, ReceiveLeads
<1>3. BlockCode(b, x.saved, words) = head \o FlattenSeq(rows)
  BY DEF BlockCode, BlockParams, LoweredRow
<1>4. IsSequence(rows) /\ Len(rows) = m /\ \A i \in 1..m : rows[i] = LoweredRow(insts[i], x.saved, words)
  <2>1. rows = [k \in 1..m |-> rows[k]] /\ DOMAIN rows = 1..m
    OBVIOUS
  <2>2. IsSequence(rows)
    <3> HIDE DEF rows, m
    <3> QED
      BY <1>1, <2>1, FunctionIsSequence
  <2>3. Len(rows) \in Nat /\ DOMAIN rows = 1..Len(rows)
    BY <2>2, SequenceElements
  <2>4. Len(rows) = m
    <3> HIDE DEF rows, m
    <3> QED
      BY <1>1, <2>1, <2>3
  <2> QED
    BY <2>2, <2>4
<1> HIDE DEF rows, head, q, m, insts
<1>5. ASSUME NEW i \in 1..m PROVE Leads(EntryNotes, rows[i], g[i], g[i + 1]) /\ Branched(rows[i])
  <2>1. /\ q + (i - 1) \in Positions(Line) /\ Line[(q + (i - 1)) + 1] = insts[i]
        /\ i \in Nat /\ i + 1 \in Nat /\ (q + (i - 1)) + 1 = q + ((i + 1) - 1)
        /\ i # m + 1 /\ (i < m => i + 1 # m + 1)
    BY <1>1
  <2>2. /\ g[i] = Note(q + (i - 1), {})
        /\ i < m => g[i + 1] = Note((q + (i - 1)) + 1, {})
    BY <2>1
  <2> HIDE DEF g
  <2>3. insts[i] = Instructions(func, b)[i] /\ i \in 1..Len(Instructions(func, b))
        /\ (i < Len(Instructions(func, b)) => g[i + 1] = Note((q + (i - 1)) + 1, {}))
    BY <2>2 DEF insts, m
  <2>4. /\ Leads(EntryNotes, LoweredRow(insts[i], x.saved, words), Note(q + (i - 1), {}), g[i + 1])
        /\ Branched(LoweredRow(insts[i], x.saved, words))
    BY <2>1, <2>3, InstructionLeads
  <2> QED
    BY <1>4, <2>2, <2>4
<1>6. g[1] = Note(q, {}) /\ g[m + 1] = c
  <2>1. 1 # m + 1 /\ q + (1 - 1) = q /\ m + 1 \in Nat
    BY <1>1
  <2> QED
    BY <2>1
<1>7. Leads(EntryNotes, FlattenSeq(rows), Note(q, {}), c)
  <2> HIDE DEF g
  <2>1. \A k \in 1..Len(rows) : Leads(EntryNotes, rows[k], g[k], g[k + 1])
    BY <1>4, <1>5
  <2>2. Leads(EntryNotes, FlattenSeq(rows), g[1], g[Len(rows) + 1])
    BY <1>4, <2>1, PiecesLead
  <2> QED
    BY <1>4, <1>6, <2>2
<1>8. Branched(FlattenSeq(rows))
  BY <1>4, <1>5, BranchedFlat
<1> QED
  BY <1>2, <1>3, <1>7, <1>8, LeadsTogether, BranchedTogether

(* The prologue changes none of the registers that arguments come in. *)
LEMMA PrologueLeads ==
    ASSUME NEW entry, NEW x, IsContext(x), NEW words, Framed(x, words), FewParams,
           IsSequence(func.args)
    PROVE  LET a == Known({}, Arriving(func.args, 1)) IN
           /\ Leads(entry, Prologue(x.saved, words), a, a)
           /\ Straight(Prologue(x.saved, words))
<1> DEFINE a == Known({}, Arriving(func.args, 1))
           n == Len(x.saved)
           pushes == [k \in 1..n |-> Push(x.saved[k])]
           enters == IF words > 0 THEN <<Enter(words)>> ELSE <<>>
           d == [k \in Nat |-> a]
<1>1. /\ a.live /\ a.framed /\ a.depth = 0 /\ a.slots = {} /\ a.stack = {}
      /\ \A f \in a.regs : f[1] # rbp
  <2>1. /\ a.live /\ a.framed /\ a.regs = RegFacts({}) \cup Arriving(func.args, 1) /\ a.depth = 0
        /\ a.stack = PushedFacts(<<>>, 0) /\ a.slots = SlotFacts({})
    BY BusyIs DEF Known
  <2>2. RegFacts({}) = {} /\ SlotFacts({}) = {} /\ PushedFacts(<<>>, 0) = {}
    BY KnownIs DEF RegFacts, SlotFacts
  <2>3. ASSUME NEW f \in Arriving(func.args, 1) PROVE f[1] # rbp
    <3>1. PICK j \in 1..Len(func.args) : f = <<ARG_REGISTERS[j], func.args[j]>>
      BY DEF Arriving
    <3>2. j \in 1..Len(ARG_REGISTERS)
      BY SequenceElements, ArgumentsApart DEF FewParams
    <3> QED
      BY <3>1, <3>2, ArgumentsApart
  <2> HIDE DEF a
  <2> QED
    BY <2>1, <2>2, <2>3
<1> HIDE DEF a
<1>2. n \in Nat /\ words \in Nat
  BY SequenceElements DEF IsContext, Framed
<1>3. IsSequence(pushes) /\ Len(pushes) = n /\ \A k \in 1..n : pushes[k] = Push(x.saved[k])
  BY <1>2, FunctionIsSequence
<1>4. \A r : Carries(entry, Push(r), a, a) /\ Push(r).op = "push"
  BY <1>1 DEF Carries, PushCarries, Push
<1>5. Leads(entry, pushes, a, a) /\ Straight(pushes)
  <2>1. \A k \in Nat : d[k] = a
    OBVIOUS
  <2> HIDE DEF d, pushes, n
  <2>2. \A p \in 1..Len(pushes) : Carries(entry, pushes[p], d[p], d[p + 1]) /\ pushes[p].op # "jnz"
    BY <1>2, <1>3, <1>4, <2>1
  <2>3. Leads(entry, pushes, d[1], d[Len(pushes) + 1])
    BY <1>3, <2>2, LeadsEach
  <2>4. d[1] = a /\ d[Len(pushes) + 1] = a
    BY <1>2, <1>3, <2>1
  <2> QED
    BY <1>3, <2>2, <2>3, <2>4 DEF Straight
<1>6. Leads(entry, enters, a, a) /\ Straight(enters)
  <2>1. CASE words > 0
    <3>1. Carries(entry, Enter(words), a, a) /\ Enter(words).op # "jnz"
      BY <1>1, <1>2 DEF Carries, EnterCarries, Enter
    <3> QED
      BY <2>1, <3>1, LeadsOne, StraightOne
  <2>2. CASE ~(words > 0)
    BY <2>2, LeadsNone, StraightNone
  <2> QED
    BY <2>1, <2>2
<1>7. Prologue(x.saved, words) = pushes \o enters
  BY DEF Prologue
<1> HIDE DEF pushes, enters
<1>8. Leads(entry, pushes \o enters, a, a) /\ Straight(pushes \o enters)
  BY <1>5, <1>6, LeadsTogether, StraightTogether
<1> QED
  BY <1>7, <1>8 DEF a

-----------------------------------------------------------------------------
(* The code of a function                                                  *)

(* What arguments come in is all that is known where the code is entered. *)
Called == Known({}, Arriving(func.args, 1))

(* The claims d are about the code c, and entry has those of the blocks. *)
CodeClaimed(entry, c, d) ==
    /\ Claimed(entry, c.at, d) /\ Branched(c.at)
    /\ \A b \in Blocks(func) : d[c.block[b]] = entry[b]

LEMMA EntryIsCalled ==
    ASSUME Settled, 1 \in Blocks(func)
    PROVE  EntryNotes[1] = Called
<1>1. EntryNotes[1] = Note(0, Arriving(func.args, 1))
  BY DEF EntryNotes, BlockStart, BlockParams
<1>2. \A v \in Values(func) : 0 \notin LiveBefore[v]
  BY DEF Settled, Regular
<1>3. Needed(0) = {}
  BY <1>2 DEF Needed
<1>4. Made(0)
  BY <1>3 DEF Made
<1> QED
  BY <1>1, <1>3, <1>4 DEF Note, Called

LEMMA CodeIsClaimed ==
    ASSUME Settled, Homed, NEW saved \in UsedCalleeRegs
    PROVE  \E d : CodeClaimed(EntryNotes, CodeOf(saved), d) /\ d[1] = Called
<1> DEFINE x == ContextOf(saved)
           words == FrameWords
           m == Len(func.blocks)
           P == Prologue(saved, words)
           l == Len(P)
           ss == [b \in Blocks(func) |-> BlockCode(b, saved, words)]
           rest == FlattenSeq(ss)
           g == [k \in Nat |-> EntryNotes[k]]
           c == CodeOf(saved)
<1>1. /\ Homes(x) /\ Framed(x, words) /\ x.saved = saved /\ x.blocks = m
      /\ IsContext(x) /\ ToSet(x.saved) \subseteq CALLEE_SAVED
  BY ContextIs, SavedAreUsed DEF Settled, Compiled, Homes
<1>2. m \in Nat \ {0} /\ Blocks(func) = 1..m
  BY LineFacts, SequenceElements, EmptySequence, SameElements
     DEF Settled, Compiled, WellFormed, Blocks
<1>3. IsSequence(ss) /\ Len(ss) = m /\ \A b \in 1..m : ss[b] = BlockCode(b, saved, words)
  BY <1>2, FunctionIsSequence
<1>4. ASSUME NEW b \in 1..m, NEW e
      PROVE  Leads(EntryNotes, ss[b], EntryNotes[b], e) /\ Branched(ss[b])
  BY <1>1, <1>2, <1>3, BlockLeads
<1>5. /\ c.at = P \o rest
      /\ \A b \in 1..m : c.block[b] = 1 + l + Offset(ss, b - 1)
  BY <1>2 DEF CodeOf, Prologue, Offset, Joined
<1>6. Leads(EntryNotes, P, Called, Called) /\ Straight(P)
  <2>1. IsSequence(func.args) /\ FewParams
    BY SettledFacts, LineFacts, SequenceElements DEF WellFormed
  <2> QED
    BY <1>1, <2>1, PrologueLeads DEF Called
<1>7. \A k \in Nat : g[k] = EntryNotes[k]
  OBVIOUS
<1>8. EntryNotes[1] = Called
  BY <1>2, EntryIsCalled
<1> HIDE DEF x, words, m, P, l, ss, rest, g, c
<1>9. \A k \in 1..Len(ss) : Leads(EntryNotes, ss[k], g[k], g[k + 1])
  <2> SUFFICES ASSUME NEW k \in 1..m PROVE Leads(EntryNotes, ss[k], g[k], g[k + 1])
    BY <1>3
  <2>1. k \in Nat
    BY <1>2
  <2> QED
    BY <1>4, <1>7, <2>1
<1>10. Parts(ss)
  BY <1>3, <1>9, PiecesClaimed
<1>11. PICK e : ClaimedAt(EntryNotes, ss, g, e)
  BY <1>3, <1>9, PiecesClaimed
<1>12. /\ Claimed(EntryNotes, rest, e)
       /\ \A b \in 1..m : e[Offset(ss, b - 1) + 1] = EntryNotes[b]
  <2>1. Claimed(EntryNotes, rest, e) /\ \A k \in 0..m : e[Offset(ss, k) + 1] = g[k + 1]
    BY <1>3, <1>11 DEF ClaimedAt, rest
  <2>2. \A b \in 1..m : b - 1 \in 0..m /\ (b - 1) + 1 = b /\ b \in Nat
    BY <1>2
  <2> QED
    BY <1>7, <2>1, <2>2
<1>13. IsSequence(rest) /\ Len(rest) = Offset(ss, m) /\ Offset(ss, 0) = 0 /\ Branched(rest)
  <2>1. Offset(ss, 0) = 0
    BY <1>3, JoinedNone, EmptySequence DEF Offset
  <2>2. Branched(rest)
    BY <1>3, <1>4, BranchedFlat DEF rest
  <2> QED
    BY <1>3, <1>10, <2>1, <2>2, FlattenJoins DEF rest
<1>14. PICK p : Claimed(EntryNotes, P, p) /\ p[1] = Called /\ p[l + 1] = Called
  BY <1>6 DEF Leads, l
<1>15. IsSequence(P) /\ l \in Nat
  BY <1>6, SequenceElements DEF Straight, l
<1>16. e[1] = Called
  <2>1. 1 \in 1..m /\ 1 - 1 = 0 /\ 0 + 1 = 1
    BY <1>2
  <2> QED
    BY <1>8, <1>12, <1>13, <2>1
<1> DEFINE d == Then(p, e, l)
<1>17. Claimed(EntryNotes, c.at, d)
  <2>1. p[Len(P) + 1] = e[1]
    BY <1>14, <1>16 DEF l
  <2>2. Claimed(EntryNotes, P \o rest, Then(p, e, Len(P)))
    BY <1>12, <1>13, <1>14, <1>15, <2>1, ClaimedTogether
  <2> QED
    BY <1>5, <2>2 DEF l
<1>18. /\ \A q \in 1..(l + 1) : d[q] = p[q]
       /\ \A q \in Nat \ {0} : d[l + q] = e[q]
  <2>1. p[l + 1] = e[1]
    BY <1>14, <1>16
  <2> QED
    BY <1>15, <2>1, ThenClaims
<1> HIDE DEF d
<1>19. d[1] = Called
  <2>1. 1 \in 1..(l + 1)
    BY <1>15
  <2> QED
    BY <1>14, <1>18, <2>1
<1>20. Branched(c.at)
  BY <1>5, <1>6, <1>13, BranchedTogether, StraightIsBranched
<1>21. ASSUME NEW b \in 1..m
       PROVE  d[c.block[b]] = EntryNotes[b]
  <2> DEFINE o == Offset(ss, b - 1)
             k == b - 1
  <2>1. k \in 0..m
    BY <1>2
  <2>2. o \in Nat
    <3>1. JoinedWell(ss, k)
      <4> HIDE DEF k
      <4> QED
        BY <1>3, <1>10, <2>1, JoinedParts
    <3> QED
      BY <3>1 DEF JoinedWell
  <2>3. e[o + 1] = EntryNotes[b]
    BY <1>12
  <2>4. c.block[b] = 1 + l + o
    BY <1>5
  <2> HIDE DEF o, k
  <2>5. 1 + l + o = l + (o + 1) /\ o + 1 \in Nat \ {0}
    BY <1>15, <2>2
  <2> QED
    BY <1>18, <2>3, <2>4, <2>5
<1> QED
  BY <1>2, <1>17, <1>19, <1>20, <1>21 DEF CodeClaimed, c

-----------------------------------------------------------------------------
(* Claims at run time                                                      *)

InRegisters(facts) == \A f \in facts : f[1] \in Register /\ regs[f[1]] = Value(f[2])

ContentOf(words, a) == IF a \in DOMAIN words THEN words[a] ELSE Junk

(***************************************************************************)
(* The stack is s high, and slots are found from z on.  Of the words that  *)
(* are pushed the last is at the top, and slots lie below all of them.     *)
(***************************************************************************)
OnStack(words, s, z, a) ==
    /\ \A f \in a.stack : /\ f[1] \in 1..a.depth
                          /\ ContentOf(words, s + (a.depth - f[1])) = Value(f[2])
    /\ \A f \in a.slots : /\ f[1] \in Int /\ z + f[1] >= s + a.depth
                          /\ ContentOf(words, z + f[1]) = Value(f[2])

(* What is claimed is so. *)
Holds(a) ==
    /\ a.live /\ InRegisters(a.regs)
    /\ a.framed => /\ sp \in Int /\ a.depth \in Nat
                   /\ \E z \in Int : regs[rbp] = Address(z) /\ OnStack(mem, sp, z, a)

LEMMA ContentsApart ==
    /\ \A v, w : Value(v) = Value(w) => v = w
    /\ \A v, z : Value(v) # Address(z) /\ Value(v) # Junk
    /\ \A y, z : Address(y) = Address(z) => y = z
    /\ \A z : Address(z)[2] = z
BY DEF Value, Address, Junk

LEMMA WordIs == \A a : Word(a) = ContentOf(mem, a)
BY DEF Word, ContentOf

(* Words that are not written are as they were. *)
LEMMA WordWritten ==
    ASSUME NEW a, NEW x
    PROVE  \A b : ContentOf(WithWord(a, x), b) = IF b = a THEN x ELSE ContentOf(mem, b)
<1> DEFINE w == WithWord(a, x)
<1>1. DOMAIN w = DOMAIN mem \cup {a} /\ w[a] = x /\ \A b \in DOMAIN mem : b # a => w[b] = mem[b]
  BY DEF WithWord
<1> HIDE DEF w
<1>2. \A b : ContentOf(w, b) = IF b = a THEN x ELSE ContentOf(mem, b)
  BY <1>1 DEF ContentOf
<1> QED
  BY <1>2 DEF w

LEMMA ValueKept ==
    ASSUME NEW words, NEW ids, NEW a, NEW v, v \notin ids, ContentOf(words, a) = Value(v)
    PROVE  ContentOf(Forget(words, ids), a) = Value(v)
<1>1. a \in DOMAIN words /\ words[a] = Value(v)
  BY ContentsApart DEF ContentOf
<1>2. DOMAIN Forget(words, ids) = DOMAIN words /\ Forget(words, ids)[a] = Value(v)
  BY <1>1, ContentsApart DEF Forget
<1> QED
  BY <1>1, <1>2 DEF ContentOf

LEMMA RegisterKept ==
    ASSUME NEW ids, NEW r \in DOMAIN regs
    PROVE  /\ DOMAIN Forget(regs, ids) = DOMAIN regs
           /\ \A v : v \notin ids /\ regs[r] = Value(v) => Forget(regs, ids)[r] = Value(v)
           /\ \A z : regs[r] = Address(z) => Forget(regs, ids)[r] = Address(z)
BY ContentsApart DEF Forget

LEMMA SameStackHolds ==
    ASSUME NEW words, NEW s, NEW z, NEW a, NEW b, SameBelow(a, b), b.framed, OnStack(words, s, z, a)
    PROVE  OnStack(words, s, z, b)
BY DEF OnStack, SameBelow

LEMMA StackWithout ==
    ASSUME NEW words, NEW s, NEW z, NEW a, NEW b, NEW ids, BelowWithout(a, b, ids), b.framed,
           OnStack(words, s, z, a)
    PROVE  OnStack(Forget(words, ids), s, z, b)
BY ValueKept DEF OnStack, BelowWithout, Unchanged

LEMMA FoundWhereClaimed ==
    ASSUME NEW a, Holds(a), NEW reads, reads \subseteq a.regs
    PROVE  Found(reads)
BY DEF Holds, InRegisters, Found

(* What b claims of registers is so when a holds and x is written to dst. *)
Written(a, b, dst, x) ==
    \A f \in b.regs : IF f[1] = dst THEN f[1] \in Register /\ x = Value(f[2]) ELSE f \in a.regs

(* Where only the register dst is written. *)
LEMMA RegisterWritten ==
    ASSUME NEW a, NEW b, Holds(a), b.live, SameBelow(a, b), NEW dst, dst # rbp, NEW x,
           DOMAIN regs = Register, regs' = [regs EXCEPT ![dst] = x], sp' = sp, mem' = mem,
           Written(a, b, dst, x)
    PROVE  Holds(b)'
<1>1. InRegisters(b.regs)'
  <2> SUFFICES ASSUME NEW f \in b.regs PROVE f[1] \in Register /\ regs'[f[1]] = Value(f[2])
    BY DEF InRegisters
  <2>1. CASE f[1] = dst
    BY <2>1 DEF Written
  <2>2. CASE f[1] # dst
    BY <2>2 DEF Holds, InRegisters, Written
  <2> QED
    BY <2>1, <2>2
<1>2. ASSUME b.framed
      PROVE  /\ sp' \in Int /\ b.depth \in Nat
             /\ \E z \in Int : regs'[rbp] = Address(z) /\ OnStack(mem', sp', z, b)
  <2>1. a.framed /\ b.depth = a.depth /\ sp \in Int /\ a.depth \in Nat
    BY <1>2 DEF SameBelow, Holds
  <2>2. PICK z \in Int : regs[rbp] = Address(z) /\ OnStack(mem, sp, z, a)
    BY <2>1 DEF Holds
  <2>3. OnStack(mem, sp, z, b)
    BY <1>2, <2>2, SameStackHolds
  <2>4. regs'[rbp] = regs[rbp]
    OBVIOUS
  <2> QED
    BY <2>1, <2>2, <2>3, <2>4
<1> QED
  BY <1>1, <1>2 DEF Holds

LEMMA MovHolds ==
    ASSUME NEW a, NEW b, Holds(a), b.live, MovCarries(Now, a, b), DOMAIN regs = Register, DoMov
    PROVE  Holds(b)' /\ wrong' = wrong
<1> DEFINE x == regs[Now.src]
<1>1. /\ regs' = [regs EXCEPT ![Now.dst] = x] /\ sp' = sp /\ mem' = mem /\ wrong' = wrong
  BY DEF DoMov
<1>2. \A f \in b.regs : IF f[1] = Now.dst THEN f[1] \in Register /\ x = Value(f[2]) ELSE f \in a.regs
  <2> SUFFICES ASSUME NEW f \in b.regs, f[1] = Now.dst PROVE f[1] \in Register /\ x = Value(f[2])
    BY DEF MovCarries
  <2>1. <<Now.src, f[2]>> \in a.regs
    BY DEF MovCarries
  <2> QED
    BY <2>1 DEF Holds, InRegisters, MovCarries
<1>3. Now.dst # rbp /\ SameBelow(a, b)
  BY DEF MovCarries
<1>4. PICK dst, y : dst = Now.dst /\ y = x
  OBVIOUS
<1> HIDE DEF x
<1>5. regs' = [regs EXCEPT ![dst] = y] /\ sp' = sp /\ mem' = mem /\ dst # rbp
  BY <1>1, <1>3, <1>4
<1>6. Written(a, b, dst, y)
  BY <1>2, <1>4 DEF Written
<1>7. Holds(b)'
  BY <1>3, <1>5, <1>6, RegisterWritten
<1> QED
  BY <1>1, <1>7

LEMMA LoadHolds ==
    ASSUME NEW a, NEW b, Holds(a), b.live, LoadCarries(Now, a, b), DOMAIN regs = Register, DoLoadSlot
    PROVE  Holds(b)' /\ wrong' = wrong
<1> DEFINE x == Word(SlotWord(Now.slot))
<1>1. /\ regs' = [regs EXCEPT ![Now.dst] = x] /\ sp' = sp /\ mem' = mem /\ wrong' = wrong
  BY DEF DoLoadSlot
<1>2. \A f \in b.regs : IF f[1] = Now.dst THEN f[1] \in Register /\ x = Value(f[2]) ELSE f \in a.regs
  <2> SUFFICES ASSUME NEW f \in b.regs, f[1] = Now.dst PROVE f[1] \in Register /\ x = Value(f[2])
    BY DEF LoadCarries
  <2>1. <<Now.slot \div 8, f[2]>> \in a.slots /\ a.framed /\ f[1] \in Register
    BY DEF LoadCarries
  <2>2. PICK z \in Int : regs[rbp] = Address(z) /\ OnStack(mem, sp, z, a)
    BY <2>1 DEF Holds
  <2>3. ContentOf(mem, z + (Now.slot \div 8)) = Value(f[2])
    BY <2>1, <2>2 DEF OnStack
  <2>4. SlotWord(Now.slot) = z + (Now.slot \div 8)
    BY <2>2, ContentsApart DEF SlotWord
  <2> QED
    BY <2>1, <2>3, <2>4, WordIs
<1>3. Now.dst # rbp /\ SameBelow(a, b)
  BY DEF LoadCarries
<1>4. PICK dst, y : dst = Now.dst /\ y = x
  OBVIOUS
<1> HIDE DEF x
<1>5. regs' = [regs EXCEPT ![dst] = y] /\ sp' = sp /\ mem' = mem /\ dst # rbp
  BY <1>1, <1>3, <1>4
<1>6. Written(a, b, dst, y)
  BY <1>2, <1>4 DEF Written
<1>7. Holds(b)'
  BY <1>3, <1>5, <1>6, RegisterWritten
<1> QED
  BY <1>1, <1>7

LEMMA ClobberHolds ==
    ASSUME NEW a, NEW b, Holds(a), b.live, ClobberCarries(Now, a, b), DOMAIN regs = Register, DoClobber
    PROVE  Holds(b)' /\ wrong' = wrong
BY RegisterWritten DEF ClobberCarries, DoClobber, Written

LEMMA StoreMemHolds ==
    ASSUME NEW a, NEW b, Holds(a), b.live, StoreMemCarries(Now, a, b), DOMAIN regs = Register,
           DoStoreMem, wrong = FALSE
    PROVE  Holds(b)' /\ wrong' = FALSE
<1>1. Found(Now.reads)
  BY FoundWhereClaimed DEF StoreMemCarries
<1>2. regs' = regs /\ sp' = sp /\ mem' = mem /\ wrong' = FALSE
  BY <1>1 DEF DoStoreMem
<1>3. InRegisters(b.regs)'
  BY <1>2 DEF InRegisters, Holds, StoreMemCarries
<1>4. ASSUME b.framed
      PROVE  /\ sp' \in Int /\ b.depth \in Nat
             /\ \E z \in Int : regs'[rbp] = Address(z) /\ OnStack(mem', sp', z, b)
  <2>1. a.framed /\ b.depth = a.depth /\ sp \in Int /\ a.depth \in Nat /\ SameBelow(a, b)
    BY <1>4 DEF SameBelow, Holds, StoreMemCarries
  <2>2. PICK z \in Int : regs[rbp] = Address(z) /\ OnStack(mem, sp, z, a)
    BY <2>1 DEF Holds
  <2>3. OnStack(mem, sp, z, b)
    BY <1>4, <2>1, <2>2, SameStackHolds
  <2> QED
    BY <1>2, <2>1, <2>2, <2>3
<1> QED
  BY <1>2, <1>3, <1>4 DEF Holds

LEMMA StoreHolds ==
    ASSUME NEW a, NEW b, Holds(a), b.live, StoreCarries(Now, a, b), DOMAIN regs = Register,
           DoStoreSlot, strayed' = FALSE
    PROVE  Holds(b)' /\ wrong' = wrong
<1> DEFINE o == Now.slot \div 8
           x == regs[Now.src]
<1>1. /\ regs' = regs /\ sp' = sp /\ wrong' = wrong
      /\ mem' = WithWord(SlotWord(Now.slot), x)
      /\ ~strayed' => sp <= SlotWord(Now.slot)
  BY DEF DoStoreSlot
<1>2. InRegisters(b.regs)'
  BY <1>1 DEF InRegisters, Holds, StoreCarries
<1>3. ASSUME b.framed
      PROVE  /\ sp' \in Int /\ b.depth \in Nat
             /\ \E z \in Int : regs'[rbp] = Address(z) /\ OnStack(mem', sp', z, b)
  <2>1. /\ a.framed /\ a.depth = 0 /\ b.depth = 0 /\ b.stack = {} /\ sp \in Int /\ o \in Int
        /\ \A f \in b.slots : IF f[1] = o THEN <<Now.src, f[2]>> \in a.regs ELSE f \in a.slots
    BY <1>3 DEF StoreCarries, Holds
  <2>2. PICK z \in Int : regs[rbp] = Address(z) /\ OnStack(mem, sp, z, a)
    BY <2>1 DEF Holds
  <2>3. SlotWord(Now.slot) = z + o
    BY <2>2, ContentsApart DEF SlotWord
  <2>4. mem' = WithWord(z + o, x) /\ sp <= z + o
    BY <1>1, <2>3
  <2>5. \A y : ContentOf(mem', y) = IF y = z + o THEN x ELSE ContentOf(mem, y)
    BY <2>4, WordWritten
  <2>6. ASSUME NEW f \in b.slots
        PROVE  /\ f[1] \in Int /\ z + f[1] >= sp + b.depth
               /\ ContentOf(mem', z + f[1]) = Value(f[2])
    <3>1. CASE f[1] = o
      <4>1. x = Value(f[2])
        BY <2>1, <3>1 DEF Holds, InRegisters
      <4>2. z + o >= sp + 0
        BY <2>1, <2>4
      <4> HIDE DEF x, o
      <4> QED
        BY <2>1, <2>5, <3>1, <4>1, <4>2
    <3>2. CASE f[1] # o
      <4>1. f \in a.slots
        BY <2>1, <3>2
      <4>2. /\ f[1] \in Int /\ z + f[1] >= sp + a.depth
            /\ ContentOf(mem, z + f[1]) = Value(f[2])
        BY <2>2, <4>1 DEF OnStack
      <4>3. z + f[1] # z + o
        BY <2>1, <3>2, <4>2
      <4> HIDE DEF x, o
      <4> QED
        BY <2>1, <2>5, <4>2, <4>3
    <3> QED
      BY <3>1, <3>2
  <2>7. OnStack(mem', sp', z, b)
    <3> HIDE DEF x, o
    <3> QED
      BY <1>1, <2>1, <2>6 DEF OnStack
  <2> QED
    BY <1>1, <2>1, <2>2, <2>7
<1> QED
  BY <1>1, <1>2, <1>3 DEF Holds

LEMMA PushHolds ==
    ASSUME NEW a, NEW b, Holds(a), b.live, PushCarries(Now, a, b), DOMAIN regs = Register, DoPush
    PROVE  Holds(b)' /\ wrong' = wrong
<1> DEFINE x == regs[Now.src]
<1>1. regs' = regs /\ sp' = sp - 1 /\ wrong' = wrong /\ mem' = WithWord(sp - 1, x)
  BY DEF DoPush
<1>2. InRegisters(b.regs)'
  BY <1>1 DEF InRegisters, Holds, PushCarries
<1>3. ASSUME b.framed
      PROVE  /\ sp' \in Int /\ b.depth \in Nat
             /\ \E z \in Int : regs'[rbp] = Address(z) /\ OnStack(mem', sp', z, b)
  <2>1. a.framed /\ b.depth \in Nat /\ a.depth \in Nat /\ sp \in Int /\ sp' \in Int
    BY <1>1, <1>3 DEF PushCarries, Holds
  <2>2. PICK z \in Int : regs[rbp] = Address(z) /\ OnStack(mem, sp, z, a)
    BY <2>1 DEF Holds
  <2>3. CASE b.slots = {} /\ b.stack = {}
    <3>1. OnStack(mem', sp', z, b)
      BY <2>3 DEF OnStack
    <3> QED
      BY <1>1, <2>1, <2>2, <3>1
  <2>4. CASE /\ b.depth = a.depth + 1 /\ b.slots \subseteq a.slots
             /\ \A f \in b.stack : IF f[1] = b.depth THEN <<Now.src, f[2]>> \in a.regs
                                   ELSE f \in a.stack
    <3>1. \A y : ContentOf(mem', y) = IF y = sp - 1 THEN x ELSE ContentOf(mem, y)
      BY <1>1, WordWritten
    <3>2. ASSUME NEW f \in b.stack
          PROVE  f[1] \in 1..b.depth /\ ContentOf(mem', sp' + (b.depth - f[1])) = Value(f[2])
      <4>1. CASE f[1] = b.depth
        <5>1. x = Value(f[2])
          BY <2>4, <4>1 DEF Holds, InRegisters
        <5>2. sp' + (b.depth - f[1]) = sp - 1 /\ f[1] \in 1..b.depth
          BY <1>1, <2>1, <2>4, <4>1
        <5> HIDE DEF x
        <5> QED
          BY <3>1, <5>1, <5>2
      <4>2. CASE f[1] # b.depth
        <5>1. /\ f[1] \in 1..a.depth
              /\ ContentOf(mem, sp + (a.depth - f[1])) = Value(f[2])
          BY <2>2, <2>4, <4>2 DEF OnStack
        <5>2. /\ f[1] \in 1..b.depth /\ sp' + (b.depth - f[1]) = sp + (a.depth - f[1])
              /\ sp + (a.depth - f[1]) # sp - 1
          BY <1>1, <2>1, <2>4, <5>1
        <5> HIDE DEF x
        <5> QED
          BY <3>1, <5>1, <5>2
      <4> QED
        BY <4>1, <4>2
    <3>3. ASSUME NEW f \in b.slots
          PROVE  /\ f[1] \in Int /\ z + f[1] >= sp' + b.depth
                 /\ ContentOf(mem', z + f[1]) = Value(f[2])
      <4>1. /\ f[1] \in Int /\ z + f[1] >= sp + a.depth
            /\ ContentOf(mem, z + f[1]) = Value(f[2])
        BY <2>2, <2>4 DEF OnStack
      <4>2. z + f[1] # sp - 1 /\ z + f[1] >= sp' + b.depth
        BY <1>1, <2>1, <2>4, <4>1
      <4> HIDE DEF x
      <4> QED
        BY <3>1, <4>1, <4>2
    <3>4. OnStack(mem', sp', z, b)
      BY <3>2, <3>3 DEF OnStack
    <3> QED
      BY <1>1, <2>1, <2>2, <3>4
  <2> QED
    BY <1>3, <2>3, <2>4 DEF PushCarries
<1> QED
  BY <1>1, <1>2, <1>3 DEF Holds

LEMMA PopHolds ==
    ASSUME NEW a, NEW b, Holds(a), b.live, PopCarries(Now, a, b), DOMAIN regs = Register, DoPop
    PROVE  Holds(b)' /\ wrong' = wrong
<1> DEFINE x == Word(sp)
<1>1. regs' = [regs EXCEPT ![Now.dst] = x] /\ sp' = sp + 1 /\ wrong' = wrong /\ mem' = mem
  BY DEF DoPop
<1>2. ASSUME NEW f \in b.regs PROVE f[1] \in Register /\ regs'[f[1]] = Value(f[2])
  <2>1. CASE f[1] = Now.dst
    <3>1. a.framed /\ <<a.depth, f[2]>> \in a.stack /\ f[1] \in Register
      BY <2>1 DEF PopCarries
    <3>2. PICK z \in Int : OnStack(mem, sp, z, a)
      BY <3>1 DEF Holds
    <3>3. sp \in Int /\ a.depth \in Nat
      BY <3>1 DEF Holds
    <3>4. ContentOf(mem, sp + (a.depth - a.depth)) = Value(f[2])
      BY <3>1, <3>2 DEF OnStack
    <3>5. sp + (a.depth - a.depth) = sp
      BY <3>3
    <3>6. x = Value(f[2])
      BY <3>4, <3>5, WordIs
    <3> HIDE DEF x
    <3> QED
      BY <1>1, <2>1, <3>1, <3>6
  <2>2. CASE f[1] # Now.dst
    <3>1. f \in a.regs
      BY <2>2 DEF PopCarries
    <3> HIDE DEF x
    <3> QED
      BY <1>1, <2>2, <3>1 DEF Holds, InRegisters
  <2> QED
    BY <2>1, <2>2
<1>3. ASSUME b.framed
      PROVE  /\ sp' \in Int /\ b.depth \in Nat
             /\ \E z \in Int : regs'[rbp] = Address(z) /\ OnStack(mem', sp', z, b)
  <2>1. /\ a.framed /\ b.depth \in Nat /\ a.depth \in Nat /\ sp \in Int /\ sp' = sp + 1
        /\ b.depth = a.depth - 1 /\ b.slots \subseteq a.slots /\ Now.dst # rbp
        /\ \A f \in b.stack : f \in a.stack /\ f[1] <= b.depth
    BY <1>1, <1>3 DEF PopCarries, Holds
  <2>2. PICK z \in Int : regs[rbp] = Address(z) /\ OnStack(mem, sp, z, a)
    BY <2>1 DEF Holds
  <2>3. ASSUME NEW f \in b.stack
        PROVE  f[1] \in 1..b.depth /\ ContentOf(mem, sp' + (b.depth - f[1])) = Value(f[2])
    <3>1. /\ f[1] \in 1..a.depth /\ f[1] <= b.depth
          /\ ContentOf(mem, sp + (a.depth - f[1])) = Value(f[2])
      BY <2>1, <2>2 DEF OnStack
    <3>2. f[1] \in 1..b.depth /\ sp' + (b.depth - f[1]) = sp + (a.depth - f[1])
      BY <2>1, <3>1
    <3> QED
      BY <3>1, <3>2
  <2>4. ASSUME NEW f \in b.slots
        PROVE  /\ f[1] \in Int /\ z + f[1] >= sp' + b.depth
               /\ ContentOf(mem, z + f[1]) = Value(f[2])
    <3>1. /\ f[1] \in Int /\ z + f[1] >= sp + a.depth
          /\ ContentOf(mem, z + f[1]) = Value(f[2])
      BY <2>1, <2>2 DEF OnStack
    <3> QED
      BY <2>1, <3>1
  <2>5. OnStack(mem', sp', z, b)
    BY <1>1, <2>3, <2>4 DEF OnStack
  <2>6. regs'[rbp] = regs[rbp]
    BY <1>1, <2>1
  <2> QED
    BY <2>1, <2>2, <2>5, <2>6
<1> QED
  BY <1>1, <1>2, <1>3 DEF Holds, InRegisters

LEMMA RbpIsARegister == rbp \in Register
BY ConventionAssumption DEF Register

LEMMA ComputeHolds ==
    ASSUME NEW a, NEW b, Holds(a), b.live, ComputeCarries(Now, a, b), DOMAIN regs = Register, DoCompute
    PROVE  Holds(b)' /\ wrong' = wrong
<1> DEFINE ids == {Now.value}
           w == Forget(regs, ids)
           x == IF Found(Now.reads) THEN Value(Now.value) ELSE Junk
<1>1. /\ regs' = [w EXCEPT ![Now.dst] = x] /\ sp' = sp /\ mem' = Forget(mem, ids)
      /\ wrong' = wrong
  BY DEF DoCompute
<1>2. x = Value(Now.value)
  BY FoundWhereClaimed DEF ComputeCarries
<1> HIDE DEF x, ids
<1>3. /\ DOMAIN w = Register
      /\ \A r \in Register : \A v : v # Now.value /\ regs[r] = Value(v) => w[r] = Value(v)
      /\ \A z : regs[rbp] = Address(z) => w[rbp] = Address(z)
  <2>1. \A v : v # Now.value => v \notin ids
    BY DEF ids
  <2> QED
    BY <2>1, RegisterKept, RbpIsARegister
<1> HIDE DEF w
<1>4. ASSUME NEW f \in b.regs PROVE f[1] \in Register /\ regs'[f[1]] = Value(f[2])
  <2>1. CASE f[1] = Now.dst
    BY <1>1, <1>2, <1>3, <2>1 DEF ComputeCarries
  <2>2. CASE f[1] # Now.dst
    <3>1. f \in a.regs /\ f[2] # Now.value
      BY <2>2 DEF ComputeCarries
    <3>2. f[1] \in Register /\ regs[f[1]] = Value(f[2])
      BY <3>1 DEF Holds, InRegisters
    <3>3. w[f[1]] = Value(f[2])
      BY <1>3, <3>1, <3>2
    <3> QED
      BY <1>1, <1>3, <2>2, <3>2, <3>3
  <2> QED
    BY <2>1, <2>2
<1>5. ASSUME b.framed
      PROVE  /\ sp' \in Int /\ b.depth \in Nat
             /\ \E z \in Int : regs'[rbp] = Address(z) /\ OnStack(mem', sp', z, b)
  <2>1. BelowWithout(a, b, ids) /\ Now.dst # rbp
    BY DEF ComputeCarries, ids
  <2>2. a.framed /\ b.depth = a.depth /\ a.depth \in Nat /\ sp \in Int
    BY <1>5, <2>1 DEF BelowWithout, Holds
  <2>3. PICK z \in Int : regs[rbp] = Address(z) /\ OnStack(mem, sp, z, a)
    BY <2>2 DEF Holds
  <2> HIDE DEF ids
  <2>4. OnStack(Forget(mem, ids), sp, z, b)
    BY <1>5, <2>1, <2>3, StackWithout
  <2>5. regs'[rbp] = Address(z)
    BY <1>1, <1>3, <2>1, <2>3
  <2> QED
    BY <1>1, <2>2, <2>4, <2>5
<1> QED
  BY <1>1, <1>4, <1>5 DEF Holds, InRegisters

LEMMA CallHolds ==
    ASSUME NEW a, NEW b, Holds(a), b.live, CallCarries(Now, a, b), DOMAIN regs = Register, DoCall,
           wrong = FALSE
    PROVE  Holds(b)' /\ wrong' = FALSE
<1> DEFINE ids == {Now.value}
           w == Forget(regs, ids)
           kept == [y \in {u \in DOMAIN mem : u >= sp - CallWords} |-> mem[y]]
<1>1. /\ regs' = [r \in Register |->
                  IF r = rax THEN Value(Now.value)
                  ELSE IF r \in CALLEE_SAVED THEN w[r] ELSE Junk]
      /\ sp' = sp /\ mem' = Forget(kept, ids)
      /\ wrong' = (wrong \/ \E k \in 1..Len(Now.args) : ~ArgFound(Now.args, k))
  BY DEF DoCall
<1>2. wrong' = FALSE
  <2> SUFFICES ASSUME NEW k \in 1..Len(Now.args) PROVE ArgFound(Now.args, k)
    BY <1>1
  <2>1. k <= Len(ARG_REGISTERS) /\ <<ARG_REGISTERS[k], Now.args[k]>> \in a.regs
    BY DEF CallCarries, Passes
  <2> QED
    BY <2>1 DEF Holds, InRegisters, ArgFound
<1>3. /\ DOMAIN w = Register
      /\ \A r \in Register : \A v : v # Now.value /\ regs[r] = Value(v) => w[r] = Value(v)
      /\ \A z : regs[rbp] = Address(z) => w[rbp] = Address(z)
  BY RegisterKept, RbpIsARegister
<1> HIDE DEF w
<1>4. ASSUME NEW f \in b.regs PROVE f[1] \in Register /\ regs'[f[1]] = Value(f[2])
  <2>1. CASE f[1] = rax
    <3>1. rax \in Register /\ f[2] = Now.value
      BY <2>1 DEF Register, CallCarries
    <3> QED
      BY <1>1, <2>1, <3>1
  <2>2. CASE f[1] # rax
    <3>1. f[1] \in CALLEE_SAVED /\ f \in a.regs /\ f[2] # Now.value
      BY <2>2 DEF CallCarries
    <3>2. f[1] \in Register /\ regs[f[1]] = Value(f[2])
      BY <3>1 DEF Holds, InRegisters
    <3>3. w[f[1]] = Value(f[2])
      BY <1>3, <3>1, <3>2
    <3> QED
      BY <1>1, <2>2, <3>1, <3>2, <3>3
  <2> QED
    BY <2>1, <2>2
<1>5. ASSUME b.framed
      PROVE  /\ sp' \in Int /\ b.depth \in Nat
             /\ \E z \in Int : regs'[rbp] = Address(z) /\ OnStack(mem', sp', z, b)
  <2>1. BelowWithout(a, b, ids) /\ rbp \in CALLEE_SAVED /\ rbp # rax /\ rbp \in Register
    BY ConventionAssumption, RbpIsARegister DEF CallCarries
  <2>2. a.framed /\ b.depth = a.depth /\ a.depth \in Nat /\ sp \in Int
    BY <1>5, <2>1 DEF BelowWithout, Holds
  <2>3. PICK z \in Int : regs[rbp] = Address(z) /\ OnStack(mem, sp, z, a)
    BY <2>2 DEF Holds
  <2>4. \A y \in Int : y >= sp => ContentOf(kept, y) = ContentOf(mem, y)
    <3> SUFFICES ASSUME NEW y \in Int, y >= sp PROVE ContentOf(kept, y) = ContentOf(mem, y)
      OBVIOUS
    <3>1. y >= sp - CallWords
      BY <2>2 DEF CallWords
    <3>2. y \in DOMAIN kept <=> y \in DOMAIN mem
      BY <3>1
    <3>3. y \in DOMAIN kept => kept[y] = mem[y]
      OBVIOUS
    <3> HIDE DEF kept
    <3> QED
      BY <3>2, <3>3 DEF ContentOf
  <2> HIDE DEF kept, ids
  <2>5. OnStack(kept, sp, z, a)
    <3>1. ASSUME NEW f \in a.stack
          PROVE  /\ f[1] \in 1..a.depth
                 /\ ContentOf(kept, sp + (a.depth - f[1])) = Value(f[2])
      <4>1. f[1] \in 1..a.depth /\ ContentOf(mem, sp + (a.depth - f[1])) = Value(f[2])
        BY <2>3 DEF OnStack
      <4>2. sp + (a.depth - f[1]) \in Int /\ sp + (a.depth - f[1]) >= sp
        BY <2>2, <4>1
      <4> QED
        BY <2>4, <4>1, <4>2
    <3>2. ASSUME NEW f \in a.slots
          PROVE  /\ f[1] \in Int /\ z + f[1] >= sp + a.depth
                 /\ ContentOf(kept, z + f[1]) = Value(f[2])
      <4>1. /\ f[1] \in Int /\ z + f[1] >= sp + a.depth
            /\ ContentOf(mem, z + f[1]) = Value(f[2])
        BY <2>3 DEF OnStack
      <4>2. z + f[1] \in Int /\ z + f[1] >= sp
        BY <2>2, <4>1
      <4> QED
        BY <2>4, <4>1, <4>2
    <3> QED
      BY <3>1, <3>2 DEF OnStack
  <2>6. OnStack(Forget(kept, ids), sp, z, b)
    BY <1>5, <2>1, <2>5, StackWithout
  <2>7. regs'[rbp] = Address(z)
    BY <1>1, <1>3, <2>1, <2>3
  <2> QED
    BY <1>1, <2>2, <2>6, <2>7
<1> QED
  BY <1>2, <1>4, <1>5 DEF Holds, InRegisters

LEMMA EnterHolds ==
    ASSUME NEW a, NEW b, Holds(a), b.live, EnterCarries(Now, a, b), DOMAIN regs = Register, DoEnter
    PROVE  Holds(b)' /\ wrong' = wrong
<1>1. /\ regs' = [regs EXCEPT ![rbp] = Address(sp - 1)] /\ wrong' = wrong
      /\ sp' = sp - 1 - (Now.words + (Now.words % 2))
  BY DEF DoEnter
<1>2. ASSUME NEW f \in b.regs PROVE f[1] \in Register /\ regs'[f[1]] = Value(f[2])
  <2>1. f \in a.regs /\ f[1] # rbp
    BY DEF EnterCarries
  <2> QED
    BY <1>1, <2>1 DEF Holds, InRegisters
<1>3. ASSUME b.framed
      PROVE  /\ sp' \in Int /\ b.depth \in Nat
             /\ \E z \in Int : regs'[rbp] = Address(z) /\ OnStack(mem', sp', z, b)
  <2>1. /\ sp \in Int /\ b.slots = {} /\ b.stack = {} /\ b.depth \in Nat
        /\ Now.words \in Nat
    BY <1>3 DEF EnterCarries, Holds
  <2>2. sp' \in Int /\ sp - 1 \in Int
    <3>1. Now.words % 2 \in Int
      BY <2>1
    <3> QED
      BY <1>1, <2>1, <3>1
  <2>3. regs'[rbp] = Address(sp - 1)
    BY <1>1, RbpIsARegister
  <2>4. OnStack(mem', sp', sp - 1, b)
    BY <2>1 DEF OnStack
  <2> QED
    BY <2>1, <2>2, <2>3, <2>4
<1> QED
  BY <1>1, <1>2, <1>3 DEF Holds, InRegisters

LEMMA LeaveHolds ==
    ASSUME NEW a, NEW b, Holds(a), b.live, LeaveCarries(Now, a, b), DOMAIN regs = Register, DoLeave
    PROVE  Holds(b)' /\ wrong' = wrong
<1> DEFINE x == Word(regs[rbp][2])
<1>1. regs' = [regs EXCEPT ![rbp] = x] /\ wrong' = wrong /\ ~b.framed
  BY DEF DoLeave, LeaveCarries
<1> HIDE DEF x
<1>2. ASSUME NEW f \in b.regs PROVE f[1] \in Register /\ regs'[f[1]] = Value(f[2])
  <2>1. f \in a.regs /\ f[1] # rbp
    BY DEF LeaveCarries
  <2> QED
    BY <1>1, <2>1 DEF Holds, InRegisters
<1> QED
  BY <1>1, <1>2 DEF Holds, InRegisters

LEMMA RetIsRight ==
    ASSUME NEW a, Holds(a), <<rax, Now.value>> \in a.regs, DoRet, wrong = FALSE
    PROVE  wrong' = FALSE
<1>1. regs[rax] = Value(Now.value)
  BY DEF Holds, InRegisters
<1> QED
  BY <1>1 DEF DoRet

(* Both ways from a branch there is a jump, to the block it is said to be. *)
LEMMA JnzHolds ==
    ASSUME NEW a, Holds(a), Now.reads \subseteq a.regs, DoJnz, wrong = FALSE,
           Branched(code.at), Len(code.at) \in Nat
    PROVE  /\ Holds(a)' /\ wrong' = FALSE
           /\ Now.over = 1 /\ pc' \in {pc + 1, pc + 1 + Now.over}
<1>1. /\ Now.op = "jnz" /\ Now = code.at[pc] /\ pc \in 1..Len(code.at)
      /\ regs' = regs /\ sp' = sp /\ mem' = mem
  BY DEF DoJnz, At, Now
<1>2. IsBranch(code.at, pc)
  BY <1>1 DEF Branched
<1>3. ASSUME NEW q \in 1..Len(code.at), code.at[q].op = "jmp"
      PROVE  Destination(q) = code.at[q].block
  <2> DEFINE jumps == {j \in q..Len(code.at) : code.at[j].op = "jmp"}
             k == CHOOSE i \in jumps : \A j \in jumps : i <= j
  <2>1. q \in jumps /\ \A j \in jumps : q <= j /\ j \in Nat
    BY <1>3
  <2> HIDE DEF jumps
  <2>2. k \in jumps /\ \A j \in jumps : k <= j
    BY <2>1
  <2> HIDE DEF k
  <2>3. k = q
    BY <2>1, <2>2
  <2> QED
    BY <2>3 DEF Destination, k, jumps
<1>4. /\ pc + 1 \in 1..Len(code.at) /\ pc + 2 \in 1..Len(code.at) /\ Now.over = 1
      /\ pc + 1 + Now.over = pc + 2
  BY <1>1, <1>2 DEF IsBranch
<1>5. Destination(pc + 1) = Now.no /\ Destination(pc + 2) = Now.yes
  BY <1>1, <1>2, <1>3, <1>4 DEF IsBranch
<1>6. Found(Now.reads)
  BY FoundWhereClaimed
<1>7. PICK taken \in BOOLEAN :
         /\ pc' = IF taken THEN pc + 1 + Now.over ELSE pc + 1
         /\ wrong' = \/ wrong \/ ~Found(Now.reads)
                     \/ Destination(pc') # IF taken THEN Now.yes ELSE Now.no
  BY DEF DoJnz
<1>8. Destination(pc') = IF taken THEN Now.yes ELSE Now.no
  <2>1. CASE taken
    <3>1. pc' = pc + 2
      BY <1>4, <1>7, <2>1
    <3> QED
      BY <1>5, <2>1, <3>1 DEF Destination
  <2>2. CASE ~taken
    <3>1. pc' = pc + 1
      BY <1>7, <2>2
    <3> QED
      BY <1>5, <2>2, <3>1 DEF Destination
  <2> QED
    BY <2>1, <2>2
<1>9. wrong' = FALSE
  BY <1>6, <1>7, <1>8
<1>10. Holds(a)'
  BY <1>1 DEF Holds, InRegisters
<1> QED
  BY <1>4, <1>7, <1>9, <1>10

(* The parameters of the block are, at once, what was passed for them. *)
LEMMA JmpHolds ==
    ASSUME NEW entry, NEW a, Holds(a), JmpCarries(entry, Now, a), DOMAIN regs = Register, DoJmp,
           NEW b, b = entry[Now.block]
    PROVE  Holds(b)' /\ wrong' = wrong
<1>1. PICK new : b = entry[Now.block] /\ new = {Now.params[k] : k \in 1..Len(Now.params)}
  OBVIOUS
<1> DEFINE w == Forget(regs, new)
<1>2. /\ regs' = [r \in Register |->
                    IF \E k \in 1..Len(Now.args) : PassedIn(k, r)
                    THEN Value(Now.params[CHOOSE k \in 1..Len(Now.args) : PassedIn(k, r)])
                    ELSE w[r]]
      /\ sp' = sp /\ mem' = Forget(mem, new) /\ wrong' = wrong
  BY <1>1 DEF DoJmp
<1>3. /\ b.live /\ Passes(a, Now.args) /\ BelowWithout(a, b, new)
      /\ \A f \in b.regs :
           \/ \E k \in 1..Len(Now.args) : f[1] = ARG_REGISTERS[k] /\ f[2] = Now.params[k]
           \/ /\ f \in a.regs /\ f[2] \notin new
              /\ \A k \in 1..Len(Now.args) : f[1] # ARG_REGISTERS[k]
  BY <1>1 DEF JmpCarries
<1>4. /\ DOMAIN w = Register
      /\ \A r \in Register : \A v : v \notin new /\ regs[r] = Value(v) => w[r] = Value(v)
      /\ \A z : regs[rbp] = Address(z) => w[rbp] = Address(z)
  BY RegisterKept, RbpIsARegister
<1> HIDE DEF w
<1>5. ASSUME NEW k \in 1..Len(Now.args)
      PROVE  k \in 1..Len(ARG_REGISTERS) /\ ArgFound(Now.args, k)
  <2>1. k <= Len(ARG_REGISTERS) /\ <<ARG_REGISTERS[k], Now.args[k]>> \in a.regs
    BY <1>3 DEF Passes
  <2>2. k \in 1..Len(ARG_REGISTERS)
    BY <2>1, ArgumentsApart
  <2> QED
    BY <2>1, <2>2 DEF Holds, InRegisters, ArgFound
<1>6. ASSUME NEW f \in b.regs PROVE f[1] \in Register /\ regs'[f[1]] = Value(f[2])
  <2> DEFINE r == f[1]
  <2>1. CASE \E k \in 1..Len(Now.args) : r = ARG_REGISTERS[k] /\ f[2] = Now.params[k]
    <3>1. PICK k \in 1..Len(Now.args) : r = ARG_REGISTERS[k] /\ f[2] = Now.params[k]
      BY <2>1
    <3>2. PassedIn(k, r) /\ r \in Register
      BY <1>5, <3>1, ArgumentsApart DEF PassedIn
    <3> DEFINE j == CHOOSE i \in 1..Len(Now.args) : PassedIn(i, r)
    <3>3. j \in 1..Len(Now.args) /\ PassedIn(j, r)
      BY <3>2
    <3>4. regs'[r] = Value(Now.params[j])
      BY <1>2, <3>2
    <3> HIDE DEF j
    <3>5. j = k
      BY <1>5, <3>1, <3>3, ArgumentsApart DEF PassedIn
    <3> QED
      BY <3>1, <3>2, <3>4, <3>5
  <2>2. CASE /\ f \in a.regs /\ f[2] \notin new
             /\ \A k \in 1..Len(Now.args) : r # ARG_REGISTERS[k]
    <3>1. r \in Register /\ regs[r] = Value(f[2])
      BY <2>2 DEF Holds, InRegisters
    <3>2. ~\E k \in 1..Len(Now.args) : PassedIn(k, r)
      BY <2>2 DEF PassedIn
    <3>3. regs'[r] = w[r]
      BY <1>2, <3>1, <3>2
    <3> QED
      BY <1>4, <2>2, <3>1, <3>3
  <2> QED
    BY <1>3, <2>1, <2>2
<1>7. ASSUME b.framed
      PROVE  /\ sp' \in Int /\ b.depth \in Nat
             /\ \E z \in Int : regs'[rbp] = Address(z) /\ OnStack(mem', sp', z, b)
  <2>1. a.framed /\ b.depth = a.depth /\ a.depth \in Nat /\ sp \in Int
    BY <1>3, <1>7 DEF BelowWithout, Holds
  <2>2. PICK z \in Int : regs[rbp] = Address(z) /\ OnStack(mem, sp, z, a)
    BY <2>1 DEF Holds
  <2>3. OnStack(Forget(mem, new), sp, z, b)
    BY <1>3, <1>7, <2>2, StackWithout
  <2>4. ~\E k \in 1..Len(Now.args) : PassedIn(k, rbp)
    <3> SUFFICES ASSUME NEW k \in 1..Len(Now.args), PassedIn(k, rbp) PROVE FALSE
      OBVIOUS
    <3>1. k \in 1..Len(ARG_REGISTERS) /\ rbp = ARG_REGISTERS[k]
      BY <1>5 DEF PassedIn
    <3> QED
      BY <3>1, ArgumentsApart
  <2>5. regs'[rbp] = Address(z)
    BY <1>2, <1>4, <2>2, <2>4, RbpIsARegister
  <2> QED
    BY <1>2, <2>1, <2>3, <2>5
<1>8. Holds(b)'
  BY <1>3, <1>6, <1>7 DEF Holds, InRegisters
<1> QED
  BY <1>1, <1>2, <1>8

(* The claim of every place is about the instruction there. *)
LEMMA CarriesOne ==
    ASSUME NEW entry, NEW i, NEW a, NEW b, Carries(entry, i, a, b), a.live
    PROVE  /\ i.op = "mov"        => b.live /\ MovCarries(i, a, b)
           /\ i.op = "load_slot"  => b.live /\ LoadCarries(i, a, b)
           /\ i.op = "store_slot" => b.live /\ StoreCarries(i, a, b)
           /\ i.op = "push"       => b.live /\ PushCarries(i, a, b)
           /\ i.op = "pop"        => b.live /\ PopCarries(i, a, b)
           /\ i.op = "compute"    => b.live /\ ComputeCarries(i, a, b)
           /\ i.op = "clobber"    => b.live /\ ClobberCarries(i, a, b)
           /\ i.op = "store_mem"  => b.live /\ StoreMemCarries(i, a, b)
           /\ i.op = "call"       => b.live /\ CallCarries(i, a, b)
           /\ i.op = "jnz"        => b.live /\ JnzCarries(i, a, b)
           /\ i.op = "enter"      => b.live /\ EnterCarries(i, a, b)
           /\ i.op = "leave"      => b.live /\ LeaveCarries(i, a, b)
           /\ i.op = "jmp"        => JmpCarries(entry, i, a)
           /\ i.op = "ret"        => <<rax, i.value>> \in a.regs
<1>1. /\ MovCarries(i, a, b) => i.op = "mov"
      /\ LoadCarries(i, a, b) => i.op = "load_slot"
      /\ StoreCarries(i, a, b) => i.op = "store_slot"
      /\ PushCarries(i, a, b) => i.op = "push"
      /\ PopCarries(i, a, b) => i.op = "pop"
      /\ ComputeCarries(i, a, b) => i.op = "compute"
      /\ ClobberCarries(i, a, b) => i.op = "clobber"
      /\ StoreMemCarries(i, a, b) => i.op = "store_mem"
      /\ CallCarries(i, a, b) => i.op = "call"
      /\ JnzCarries(i, a, b) => i.op = "jnz"
      /\ EnterCarries(i, a, b) => i.op = "enter"
      /\ LeaveCarries(i, a, b) => i.op = "leave"
      /\ JmpCarries(entry, i, a) => i.op = "jmp"
  BY DEF MovCarries, LoadCarries, StoreCarries, PushCarries, PopCarries, ComputeCarries,
         ClobberCarries, StoreMemCarries, CallCarries, JnzCarries, EnterCarries, LeaveCarries,
         JmpCarries
<1> QED
  BY <1>1 DEF Carries

(***************************************************************************)
(* What is said of the code that runs, and that it is so where the machine *)
(* is, and all was right until now.                                        *)
(***************************************************************************)
Rightly(entry, d) ==
    /\ CodeClaimed(entry, code, d)
    /\ ~strayed => wrong = FALSE /\ (status = "running" => Holds(d[pc]))

(* On to the next instruction. *)
LEMMA HoldsNext ==
    ASSUME NEW entry, NEW d, CodeClaimed(entry, code, d), NEW b, Holds(b)', wrong' = FALSE,
           d[pc'] = b, UNCHANGED <<code, func>>
    PROVE  Rightly(entry, d)'
<1>1. CodeClaimed(entry, code, d)'
  BY DEF CodeClaimed
<1>2. Holds(d[pc])'
  BY DEF Holds, InRegisters
<1> QED
  BY <1>1, <1>2 DEF Rightly

(* Every step takes what is claimed before it to what is claimed after it. *)
LEMMA RightStep ==
    ASSUME NEW entry, NEW d, Rightly(entry, d), Step, func' = func, DOMAIN regs = Register,
           status = "running", strayed \in BOOLEAN,
           NEW x, NEW h, RunTime(x, h), x.blocks = Len(func.blocks)
    PROVE  Rightly(entry, d)'
<1>1. code' = code /\ (~strayed' => ~strayed)
  <2>1. CASE DoStoreSlot
    BY <2>1 DEF DoStoreSlot
  <2>2. CASE ~DoStoreSlot
    <3>1. code' = code /\ strayed' = strayed
      BY <2>2 DEF Step, DoMov, DoLoadSlot, DoPush, DoPop, DoCompute, DoClobber, DoStoreMem,
                  DoCall, DoJnz, DoJmp, DoEnter, DoLeave, DoRet
    <3> QED
      BY <3>1
  <2> QED
    BY <2>1, <2>2
<1>2. CodeClaimed(entry, code, d) /\ CodeClaimed(entry, code, d)'
  BY <1>1 DEF Rightly, CodeClaimed
<1>3. CASE strayed'
  BY <1>2, <1>3 DEF Rightly
<1>4. CASE ~strayed'
  <2>1. wrong = FALSE /\ Holds(d[pc])
    BY <1>1, <1>4 DEF Rightly
  <2>2. PICK a, b : a = d[pc] /\ b = d[pc + 1]
    OBVIOUS
  <2>3. /\ pc \in 1..Len(code.at) /\ Len(code.at) \in Nat /\ Now = code.at[pc] /\ pc \in Nat
        /\ Fits(x, Now, h[pc], h[pc + 1])
    BY NowFits DEF Now
  <2>4. Holds(a) /\ a.live
    BY <2>1, <2>2 DEF Holds
  <2>5. /\ Carries(entry, Now, a, b)
        /\ Now.op = "jnz" => d[pc + 1 + Now.over] = a
    BY <1>2, <2>2, <2>3, <2>4 DEF CodeClaimed, Claimed
  <2>6. strayed' = FALSE
    BY <1>1, <1>4 DEF Step, DoMov, DoLoadSlot, DoStoreSlot, DoPush, DoPop, DoCompute, DoClobber,
          DoStoreMem, DoCall, DoJnz, DoJmp, DoEnter, DoLeave, DoRet
  <2>7. ASSUME Holds(b)', wrong' = FALSE, pc' = pc + 1 PROVE Rightly(entry, d)'
    BY <1>1, <1>2, <2>2, <2>7, HoldsNext
  <2>8. CASE DoMov
    <3>1. Now.op = "mov" /\ pc' = pc + 1
      BY <2>8 DEF DoMov, At, Now, Go
    <3>2. b.live /\ MovCarries(Now, a, b)
      BY <2>4, <2>5, <3>1, CarriesOne
    <3> QED
      BY <2>1, <2>4, <2>7, <2>8, <3>1, <3>2, MovHolds
  <2>9. CASE DoLoadSlot
    <3>1. Now.op = "load_slot" /\ pc' = pc + 1
      BY <2>9 DEF DoLoadSlot, At, Now, Go
    <3>2. b.live /\ LoadCarries(Now, a, b)
      BY <2>4, <2>5, <3>1, CarriesOne
    <3> QED
      BY <2>1, <2>4, <2>7, <2>9, <3>1, <3>2, LoadHolds
  <2>10. CASE DoStoreSlot
    <3>1. Now.op = "store_slot" /\ pc' = pc + 1
      BY <2>10 DEF DoStoreSlot, At, Now, Go
    <3>2. b.live /\ StoreCarries(Now, a, b)
      BY <2>4, <2>5, <3>1, CarriesOne
    <3> QED
      BY <2>1, <2>4, <2>6, <2>7, <2>10, <3>1, <3>2, StoreHolds
  <2>11. CASE DoPush
    <3>1. Now.op = "push" /\ pc' = pc + 1
      BY <2>11 DEF DoPush, At, Now, Go
    <3>2. b.live /\ PushCarries(Now, a, b)
      BY <2>4, <2>5, <3>1, CarriesOne
    <3> QED
      BY <2>1, <2>4, <2>7, <2>11, <3>1, <3>2, PushHolds
  <2>12. CASE DoPop
    <3>1. Now.op = "pop" /\ pc' = pc + 1
      BY <2>12 DEF DoPop, At, Now, Go
    <3>2. b.live /\ PopCarries(Now, a, b)
      BY <2>4, <2>5, <3>1, CarriesOne
    <3> QED
      BY <2>1, <2>4, <2>7, <2>12, <3>1, <3>2, PopHolds
  <2>13. CASE DoCompute
    <3>1. Now.op = "compute" /\ pc' = pc + 1
      BY <2>13 DEF DoCompute, At, Now, Go
    <3>2. b.live /\ ComputeCarries(Now, a, b)
      BY <2>4, <2>5, <3>1, CarriesOne
    <3> QED
      BY <2>1, <2>4, <2>7, <2>13, <3>1, <3>2, ComputeHolds
  <2>14. CASE DoClobber
    <3>1. Now.op = "clobber" /\ pc' = pc + 1
      BY <2>14 DEF DoClobber, At, Now, Go
    <3>2. b.live /\ ClobberCarries(Now, a, b)
      BY <2>4, <2>5, <3>1, CarriesOne
    <3> QED
      BY <2>1, <2>4, <2>7, <2>14, <3>1, <3>2, ClobberHolds
  <2>15. CASE DoStoreMem
    <3>1. Now.op = "store_mem" /\ pc' = pc + 1
      BY <2>15 DEF DoStoreMem, At, Now, Go
    <3>2. b.live /\ StoreMemCarries(Now, a, b)
      BY <2>4, <2>5, <3>1, CarriesOne
    <3> QED
      BY <2>1, <2>4, <2>7, <2>15, <3>1, <3>2, StoreMemHolds
  <2>16. CASE DoCall
    <3>1. Now.op = "call" /\ pc' = pc + 1
      BY <2>16 DEF DoCall, At, Now, Go
    <3>2. b.live /\ CallCarries(Now, a, b)
      BY <2>4, <2>5, <3>1, CarriesOne
    <3> QED
      BY <2>1, <2>4, <2>7, <2>16, <3>1, <3>2, CallHolds
  <2>17. CASE DoJnz
    <3>1. Now.op = "jnz"
      BY <2>17 DEF DoJnz, At, Now
    <3>2. Now.reads \subseteq a.regs /\ b = a
      <4>1. JnzCarries(Now, a, b)
        BY <2>4, <2>5, <3>1, CarriesOne
      <4> QED
        BY <4>1 DEF JnzCarries
    <3>3. Branched(code.at)
      BY <1>2 DEF CodeClaimed
    <3>4. Holds(a)' /\ wrong' = FALSE /\ pc' \in {pc + 1, pc + 1 + Now.over}
      BY <2>1, <2>3, <2>4, <2>17, <3>2, <3>3, JnzHolds
    <3>5. d[pc'] = a
      BY <2>2, <2>5, <3>1, <3>2, <3>4
    <3> QED
      BY <1>1, <1>2, <3>4, <3>5, HoldsNext
  <2>18. CASE DoJmp
    <3>1. Now.op = "jmp" /\ wrong' = FALSE
      BY <2>1, <2>18 DEF DoJmp, At, Now
    <3>2. JmpCarries(entry, Now, a)
      BY <2>4, <2>5, <3>1, CarriesOne
    <3>3. PICK k, c : k = Now.block /\ c = entry[k]
      OBVIOUS
    <3>4. Holds(c)'
      BY <2>4, <2>18, <3>2, <3>3, JmpHolds
    <3>5. k \in Blocks(func)
      BY <2>3, <3>1, <3>3 DEF Fits, PlainFits, PushFits, PopFits, Blocks
    <3>6. pc' = code.block[k]
      BY <2>18, <3>3 DEF DoJmp
    <3>7. d[pc'] = c
      BY <1>2, <3>3, <3>5, <3>6 DEF CodeClaimed
    <3> QED
      BY <1>1, <1>2, <3>1, <3>4, <3>7, HoldsNext
  <2>19. CASE DoEnter
    <3>1. Now.op = "enter" /\ pc' = pc + 1
      BY <2>19 DEF DoEnter, At, Now, Go
    <3>2. b.live /\ EnterCarries(Now, a, b)
      BY <2>4, <2>5, <3>1, CarriesOne
    <3> QED
      BY <2>1, <2>4, <2>7, <2>19, <3>1, <3>2, EnterHolds
  <2>20. CASE DoLeave
    <3>1. Now.op = "leave" /\ pc' = pc + 1
      BY <2>20 DEF DoLeave, At, Now, Go
    <3>2. b.live /\ LeaveCarries(Now, a, b)
      BY <2>4, <2>5, <3>1, CarriesOne
    <3> QED
      BY <2>1, <2>4, <2>7, <2>20, <3>1, <3>2, LeaveHolds
  <2>21. CASE DoRet
    <3>1. Now.op = "ret" /\ status' # "running"
      BY <2>21 DEF DoRet, At, Now
    <3>2. <<rax, Now.value>> \in a.regs
      BY <2>4, <2>5, <3>1, CarriesOne
    <3>3. wrong' = FALSE
      BY <2>1, <2>4, <2>21, <3>2, RetIsRight
    <3> QED
      BY <1>2, <3>1, <3>3 DEF Rightly
  <2> QED
    BY <2>8, <2>9, <2>10, <2>11, <2>12, <2>13, <2>14, <2>15, <2>16, <2>17, <2>18, <2>19, <2>20,
       <2>21 DEF Step
<1> QED
  BY <1>3, <1>4

-----------------------------------------------------------------------------
(* The call *)

(* A caller passes the arguments in their registers. *)
LEMMA StartHolds ==
    ASSUME Start(func.args), FewParams, IsSequence(func.args), NEW a, a = Called
    PROVE  Holds(a)'
<1>1. /\ a.live /\ a.framed /\ a.regs = Arriving(func.args, 1) /\ a.depth = 0
      /\ a.slots = {} /\ a.stack = {}
  <2>1. /\ a.live /\ a.framed /\ a.regs = RegFacts({}) \cup Arriving(func.args, 1) /\ a.depth = 0
        /\ a.stack = PushedFacts(<<>>, 0) /\ a.slots = SlotFacts({})
    BY BusyIs DEF Known, Called
  <2>2. RegFacts({}) = {} /\ SlotFacts({}) = {} /\ PushedFacts(<<>>, 0) = {}
    BY KnownIs DEF RegFacts, SlotFacts
  <2> QED
    BY <2>1, <2>2
<1>2. PICK args : args = func.args
  OBVIOUS
<1>3. sp' = 0 /\ rbp \in Register /\ regs'[rbp] = Address(CallerFrame)
  BY RbpIsARegister DEF Start
<1>4. ASSUME NEW f \in Arriving(args, 1) PROVE f[1] \in Register /\ regs'[f[1]] = Value(f[2])
  <2>1. PICK j \in 1..Len(args) : f = <<ARG_REGISTERS[j], args[j]>>
    BY DEF Arriving
  <2>2. Len(args) \in Nat /\ j \in 1..Len(ARG_REGISTERS)
        /\ \A k \in 1..Len(args) : k \in 1..Len(ARG_REGISTERS)
    BY <1>2, SequenceElements, ArgumentsApart DEF FewParams
  <2> DEFINE r == ARG_REGISTERS[j]
             k == CHOOSE k \in 1..Len(args) : r = ARG_REGISTERS[k]
  <2>3. r \in Register /\ r # rbp /\ r \notin CALLEE_SAVED
    BY <2>2, ArgumentsApart, ArgumentRegisters
  <2>4. k \in 1..Len(args) /\ r = ARG_REGISTERS[k]
    OBVIOUS
  <2>5. k = j
    <3> HIDE DEF k
    <3> QED
      BY <2>2, <2>4, ArgumentsApart
  <2>6. regs'[r] = Value(args[k])
    <3>1. /\ regs' = [x \in Register |->
                  CASE x = rbp -> Address(CallerFrame)
                    [] x \in CALLEE_SAVED \ {rbp} -> Saved(x)
                    [] OTHER ->
                         IF \E i \in 1..Len(args) : x = ARG_REGISTERS[i]
                         THEN Value(args[CHOOSE i \in 1..Len(args) : x = ARG_REGISTERS[i]])
                         ELSE Junk]
      BY <1>2 DEF Start
    <3> QED
      BY <2>3, <3>1
  <2> QED
    BY <2>1, <2>3, <2>5, <2>6
<1>5. InRegisters(a.regs)'
  BY <1>1, <1>2, <1>4 DEF InRegisters
<1>6. CallerFrame \in Int /\ OnStack(mem', sp', CallerFrame, a)
  BY <1>1 DEF OnStack, CallerFrame
<1> QED
  BY <1>1, <1>3, <1>5, <1>6 DEF Holds

-----------------------------------------------------------------------------
(* The functions of the builder *)

(* No function has more arguments, and no block more parameters, than the bounds allow. *)
WithinBounds ==
    /\ Len(func.args) <= MaxArgs
    /\ \A b \in Blocks(func) : Len(Params(func, b)) <= MaxParams

LEMMA BoundsSuffice ==
    ASSUME IRInv, WithinBounds
    PROVE  FewParams
<1>1. WellFormed(func) /\ MaxArgs \in Nat /\ MaxParams \in Nat /\ Len(ARG_REGISTERS) \in Nat
  BY BoundAssumption, ArgumentsApart DEF IRInv, FuncInv
<1>2. Len(func.args) \in Nat /\ \A b \in Blocks(func) : Len(Params(func, b)) \in Nat
  BY <1>1, Sizes
<1> QED
  BY <1>1, <1>2, ParamAssumption DEF WithinBounds, FewParams

LEMMA InitBounds == Init => WithinBounds
<1> SUFFICES ASSUME Init PROVE WithinBounds
  OBVIOUS
<1>1. MaxArgs \in Nat /\ MaxParams \in Nat
  BY BoundAssumption
<1>2. ASSUME NEW n \in 0..MaxArgs, func = CreateFunction(n) PROVE WithinBounds
  <2>1. n \in Nat /\ Len(Ids(0, n)) = n /\ n <= MaxArgs
    BY <1>1, <1>2, IdsOf
  <2>2. func.args = Ids(0, n) /\ Blocks(func) = {1} /\ Params(func, 1) = <<>>
    BY <1>2 DEF CreateFunction, Function, Block, Blocks, Params
  <2> QED
    BY <1>1, <2>1, <2>2 DEF WithinBounds
<1>3. ASSUME func = BareFunction PROVE WithinBounds
  <2>1. func.args = <<>> /\ Blocks(func) = {}
    BY <1>3 DEF BareFunction, Function, Blocks
  <2> QED
    BY <1>1, <2>1 DEF WithinBounds
<1> QED
  BY <1>2, <1>3 DEF Init

LEMMA NextBounds == IRInv /\ WithinBounds /\ Next => WithinBounds'
<1> SUFFICES ASSUME IRInv, WithinBounds, Next PROVE WithinBounds'
  OBVIOUS
<1>1. WellFormed(func) /\ func.types \in Nat
  BY DEF IRInv, FuncInv, WellFormed
<1>2. CASE CreateBlock
  <2>1. PICK n \in 0..MaxParams : func' = Widened(func, Ids(func.types, n), func.types + n)
    BY <1>1, <1>2, BlockAppended
  <2>2. n \in Nat /\ n <= MaxParams /\ MaxParams \in Nat /\ func.types + n \in Nat
    BY <1>1, BoundAssumption
  <2>3. IsSequence(Ids(func.types, n)) /\ Len(Ids(func.types, n)) = n
    BY <1>1, <2>2, IdsOf
  <2>5. /\ func'.args = func.args /\ Blocks(func') = Blocks(func) \cup {Len(func.blocks) + 1}
        /\ \A b \in Blocks(func) : Params(func', b) = Params(func, b)
        /\ Params(func', Len(func.blocks) + 1) = Ids(func.types, n)
    BY <1>1, <2>1, <2>2, <2>3, WidenedIs
  <2> QED
    BY <2>2, <2>3, <2>5 DEF WithinBounds
<1>3. ASSUME func.blocks # <<>>,
             NEW inst, NEW t \in Nat, func' = Grown(func, inst, t)
      PROVE  WithinBounds'
  <2>1. /\ func'.args = func.args /\ Blocks(func') = Blocks(func)
        /\ \A b \in Blocks(func) : Params(func', b) = Params(func, b)
    BY <1>1, <1>3, GrownIs
  <2> QED
    BY <2>1 DEF WithinBounds
<1>4. CASE Emit \/ Load
  <2>1. PICK op, operands, callee : AppendResult(op, operands, callee)
    BY <1>4 DEF Emit, Load
  <2>2. func.blocks # <<>>
    BY <1>4 DEF Emit, Load, CanAppend
  <2>3. func' = Grown(func, Inst(op, func.types, operands, <<>>, callee), func.types + 1)
    BY <1>1, <2>1, <2>2, AppendInstIs DEF AppendResult
  <2> QED
    BY <1>1, <1>3, <2>2, <2>3
<1>5. CASE Store \/ EmitTerm
  <2>1. PICK inst : func' = AppendInst(func, inst)
    BY <1>5 DEF Store, EmitTerm
  <2>2. func.blocks # <<>>
    BY <1>5 DEF Store, EmitTerm, CanAppend
  <2>3. func' = Grown(func, inst, func.types)
    BY <1>1, <2>1, <2>2, AppendInstIs
  <2> QED
    BY <1>1, <1>3, <2>2, <2>3
<1> QED
  BY <1>2, <1>4, <1>5 DEF Next
-----------------------------------------------------------------------------
(* The allocator's answer *)

FromPool == AllocP!HomesFromPool

LEMMA PoolKeeps ==
    /\ Alloc!Init => FromPool
    /\ AllocInv /\ FromPool /\ (Alloc!Run \/ Alloc!Expire \/ Alloc!Place \/ Alloc!Return) => FromPool'
    /\ AllocInv /\ FromPool /\ UNCHANGED allocator => FromPool'
<1>1. Alloc!Init => FromPool
  BY AllocInit, AllocAssumptions, AllocP!InitFromPool DEF FromPool
<1>2. AllocInv /\ FromPool /\ [AllocP!Next]_(AllocP!vars) => FromPool'
  BY AllocAssumptions, AllocP!StepFromPool DEF AllocInv, FromPool
<1>3. Alloc!Run \/ Alloc!Expire \/ Alloc!Place \/ Alloc!Return => AllocP!Next
  BY AllocRun, AllocPlace, AllocReturn DEF AllocP!Next
<1>4. UNCHANGED allocator => UNCHANGED AllocP!vars
  BY DEF allocator, AllocP!vars
<1> QED
  BY <1>1, <1>2, <1>3, <1>4

LEMMA WordOfSlot == \A k \in Int : (-8 * k) \div 8 = -k
OBVIOUS

(* When every value has been placed, each has one home. *)
LEMMA PlacedAreHoused ==
    ASSUME AllocInv, FromPool, next = N + 1
    PROVE  Housed
<1>1. /\ N \in Nat /\ AllocP!Value = 1..N
      /\ \A v \in ValueIds : v + 1 \in AllocP!Value
      /\ \A v, w \in ValueIds : v # w => v + 1 # w + 1
  BY ValuesAssumption DEF AllocP!Value, ValueIds
<1>2. AllocP!IInv /\ AllocP!TypeOK /\ AllocP!OneHomeEach
  BY DEF AllocInv, AllocP!IInv
<1>3. AllocP!Placed = AllocP!Value
  BY <1>1 DEF AllocP!Placed
<1>4. \A u \in AllocP!Value : spills[u] # 0 <=> assignments[u] = NoReg
  BY <1>2, <1>3 DEF AllocP!OneHomeEach, AllocP!Spilled, AllocP!NoSlot
<1>5. \A u \in AllocP!Value : assignments[u] # NoReg => assignments[u] \in ToSet(GENERAL_PURPOSE)
  <2>1. AllocP!ToSet(GENERAL_PURPOSE) = ToSet(GENERAL_PURPOSE)
    BY DEF AllocP!ToSet, ToSet
  <2> QED
    BY <2>1 DEF FromPool, AllocP!HomesFromPool
<1>6. \A r \in ToSet(GENERAL_PURPOSE) : r \in CALLEE_SAVED /\ r \notin Reserved
  BY PoolAssumption DEF Reserved
<1>7. ASSUME NEW u \in AllocP!Value, spills[u] # 0
      PROVE  \E k \in Int : spills[u] = -8 * k
  <2> DEFINE c == AllocP!Cardinality(AllocP!Spilled)
  <2>1. u \in AllocP!Spilled
    BY <1>7 DEF AllocP!Spilled, AllocP!NoSlot
  <2>2. {spills[v] : v \in AllocP!Spilled} = {-8 * k : k \in 1..c}
    BY <1>2 DEF AllocP!OneHomeEach, AllocP!PTR_SIZE
  <2>3. c \in Nat
    <3>1. IsFiniteSet(1..N) /\ AllocP!Spilled \subseteq 1..N
      BY <1>1, FS_Interval DEF AllocP!Spilled
    <3> QED
      BY <3>1, SameCardinality, FS_Subset, FS_CardinalityType
  <2> HIDE DEF c
  <2>4. PICK k \in 1..c : spills[u] = -8 * k
    BY <2>1, <2>2
  <2> QED
    BY <2>3, <2>4
<1>8. ASSUME NEW u \in AllocP!Value, spills[u] # 0, NEW w \in AllocP!Value, spills[w] # 0, u # w
      PROVE  spills[u] # spills[w]
  <2>1. u \in AllocP!Spilled /\ w \in AllocP!Spilled
    BY <1>8 DEF AllocP!Spilled, AllocP!NoSlot
  <2> QED
    BY <1>2, <1>8, <2>1, AllocAssumptions, AllocP!SlotsAreDistinct
<1>9. ASSUME NEW v \in ValueIds PROVE SlotOf(v) \div 8 \in Int
  <2>1. CASE SlotOf(v) = 0
    BY <2>1
  <2>2. CASE SlotOf(v) # 0
    <3>1. PICK k \in Int : SlotOf(v) = -8 * k
      BY <1>1, <1>7, <2>2 DEF SlotOf
    <3> QED
      BY <3>1, WordOfSlot
  <2> QED
    BY <2>1, <2>2
<1>10. ASSUME NEW v \in ValueIds, NEW w \in ValueIds, v # w, RegOf(v) = NoReg, RegOf(w) = NoReg
       PROVE  SlotOf(v) \div 8 # SlotOf(w) \div 8
  <2>1. SlotOf(v) # 0 /\ SlotOf(w) # 0
    BY <1>1, <1>4, <1>10 DEF RegOf, SlotOf
  <2>2. SlotOf(v) # SlotOf(w)
    BY <1>1, <1>8, <1>10, <2>1 DEF SlotOf
  <2>3. PICK i \in Int : SlotOf(v) = -8 * i
    BY <1>1, <1>7, <2>1 DEF SlotOf
  <2>4. PICK j \in Int : SlotOf(w) = -8 * j
    BY <1>1, <1>7, <2>1 DEF SlotOf
  <2>5. SlotOf(v) \div 8 = -i /\ SlotOf(w) \div 8 = -j /\ i # j
    BY <2>2, <2>3, <2>4, WordOfSlot
  <2> QED
    BY <2>5
<1> QED
  BY <1>1, <1>4, <1>5, <1>6, <1>9, <1>10 DEF Housed, RegOf, SlotOf

LEMMA ServedInTurn ==
    ASSUME CompilerInv, running, Regular
    PROVE  InTurn
BY NotBothNeeded DEF InTurn
-----------------------------------------------------------------------------
(* The whole *)

LEMMA RegularStays ==
    ASSUME func' = func
    PROVE  Regular' <=> Regular
<1>1. Line' = Line /\ (Accepted' <=> Accepted) /\ Entries' = Entries
  BY DEF Line, Accepted, Entries
<1>2. Successors' = Successors
  BY <1>1 DEF Successors
<1>3. LiveBefore' = LiveBefore
  BY <1>1, <1>2 DEF LiveBefore
<1>4. \A live : ClosedLoops(live)' <=> ClosedLoops(live)
  BY <1>1 DEF ClosedLoops
<1>5. PICK live : live = LiveBefore
  OBVIOUS
<1>6. ClosedLoops(LiveBefore)' <=> ClosedLoops(LiveBefore)
  BY <1>3, <1>4, <1>5 DEF ClosedLoops
<1>7. (Checked' <=> Checked) /\ (PlainBranches' <=> PlainBranches) /\ (EntryOnce' <=> EntryOnce)
  BY <1>1 DEF Checked, PlainBranches, EntryOnce
<1> QED
  BY <1>3, <1>6, <1>7 DEF Regular

(* Of the functions that are regular the claims are right while they run. *)
ContentsInv ==
    /\ CompilerInv /\ WithinBounds /\ FromPool
    /\ status = "idle" => wrong = FALSE
    /\ status # "idle" /\ Regular => \E entry, d : Rightly(entry, d)

LEMMA InitContents == CompilerInit => ContentsInv
<1> SUFFICES ASSUME CompilerInit PROVE ContentsInv
  OBVIOUS
<1>1. CompilerInv /\ WithinBounds /\ FromPool
  BY CompilerInitInv, InitBounds, PoolKeeps DEF CompilerInit
<1> QED
  BY <1>1 DEF CompilerInit, ContentsInv

(* Until the code is there. *)
LEMMA IdleContents ==
    ASSUME ContentsInv, Build \/ Compile \/ Allocate
    PROVE  ContentsInv'
<1>1. CompilerInv /\ WithinBounds /\ FromPool /\ IRInv /\ AllocInv
  BY DEF ContentsInv, CompilerInv
<1>2. CompilerInv'
  BY <1>1, BuildKeeps, CompileKeeps, AllocateKeeps
<1>3. status = "idle"
  <2>1. CASE Build
    BY <1>1, <2>1 DEF Build, CompilerInv
  <2>2. CASE Compile
    <3>1. runs < 1
      BY <2>2 DEF Compile, Alloc!Run
    <3> QED
      BY <1>1, <3>1 DEF CompilerInv
  <2>3. CASE Allocate
    <3>1. running
      BY <2>3 DEF Allocate, Alloc!Expire, Alloc!Place, Alloc!TakeHint, Alloc!TakeFree,
                  Alloc!StealFromLast, Alloc!SpillCurrent, Alloc!AtInterval
    <3> QED
      BY <1>1, <3>1 DEF CompilerInv
  <2> QED
    BY <2>1, <2>2, <2>3
<1>4. status' = "idle" /\ wrong' = wrong
  BY <1>3 DEF Build, Compile, Allocate, machine
<1>5. WithinBounds' /\ FromPool'
  <2>1. CASE Build
    BY <1>1, <2>1, NextBounds, PoolKeeps DEF Build
  <2>2. CASE Compile \/ Allocate
    <3>1. func' = func /\ (Alloc!Run \/ Alloc!Expire \/ Alloc!Place)
      BY <2>2 DEF Compile, Allocate
    <3>2. WithinBounds'
      BY <1>1, <3>1 DEF WithinBounds
    <3> QED
      BY <1>1, <3>1, <3>2, PoolKeeps
  <2> QED
    BY <2>1, <2>2
<1> QED
  BY <1>2, <1>3, <1>4, <1>5 DEF ContentsInv

(* The code is there: what is claimed of it is so where it is entered. *)
LEMMA EmitContents ==
    ASSUME ContentsInv, EmitAndCall
    PROVE  ContentsInv'
<1>1. CompilerInv /\ WithinBounds /\ FromPool
  BY DEF ContentsInv
<1>2. Alloc!Return /\ code' \in compile_function /\ Start(func.args) /\ func' = func
  BY DEF EmitAndCall
<1>3. running /\ next = N + 1
  BY <1>2 DEF Alloc!Return
<1>4. IRInv /\ AllocInv /\ Compiled /\ Homed
  BY <1>1, <1>3, CallsOfTheAllocator DEF CompilerInv
<1>5. CompilerInv' /\ FromPool' /\ WithinBounds'
  <2>1. WithinBounds'
    BY <1>1, <1>2 DEF WithinBounds
  <2> QED
    BY <1>1, <1>2, <1>4, <2>1, EmitAndCallKeeps, PoolKeeps
<1>6. status' = "running" /\ pc' = 1 /\ wrong' = FALSE
  BY <1>2 DEF Start
<1>7. ASSUME Regular PROVE \E entry, d : Rightly(entry, d)'
  <2>1. Settled /\ FewParams
    BY <1>1, <1>3, <1>4, <1>7, BoundsSuffice, PlacedAreHoused, ServedInTurn DEF Settled
  <2>2. PICK saved \in UsedCalleeRegs : code' = CodeOf(saved)
    BY <1>2 DEF compile_function
  <2>3. PICK entry, a : entry = EntryNotes /\ a = Called
    OBVIOUS
  <2>4. PICK c, d : c = CodeOf(saved) /\ CodeClaimed(entry, c, d) /\ d[1] = a
    BY <1>4, <2>1, <2>3, CodeIsClaimed
  <2>5. IsSequence(func.args)
    BY <1>4 DEF IRInv, FuncInv, WellFormed
  <2>6. Holds(a)'
    BY <1>2, <2>1, <2>3, <2>5, StartHolds
  <2>7. CodeClaimed(entry, code, d)'
    BY <1>2, <2>2, <2>4 DEF CodeClaimed
  <2>8. Holds(d[pc])'
    BY <1>6, <2>4, <2>6 DEF Holds, InRegisters
  <2> QED
    BY <1>6, <2>7, <2>8 DEF Rightly
<1> QED
  BY <1>2, <1>5, <1>6, <1>7, RegularStays DEF ContentsInv

(* The machine steps. *)
LEMMA StepContents ==
    ASSUME ContentsInv, Execute
    PROVE  ContentsInv'
<1>1. CompilerInv /\ WithinBounds /\ FromPool /\ AllocInv
  BY DEF ContentsInv, CompilerInv
<1>2. Step /\ func' = func /\ UNCHANGED allocator
  BY DEF Execute
<1>3. status = "running"
  BY <1>2 DEF Step, DoMov, DoLoadSlot, DoStoreSlot, DoPush, DoPop, DoCompute, DoClobber, DoStoreMem,
         DoCall, DoJnz, DoJmp, DoEnter, DoLeave, DoRet, At
<1>4. DOMAIN regs = Register /\ strayed \in BOOLEAN /\ wrong \in BOOLEAN
  BY <1>1, <1>3 DEF CompilerInv
<1>5. PICK x, h : RunTime(x, h) /\ x.blocks = Len(func.blocks)
  BY <1>1, <1>3 DEF CompilerInv
<1>6. CompilerInv' /\ WithinBounds' /\ FromPool'
  <2>1. WithinBounds'
    BY <1>1, <1>2 DEF WithinBounds
  <2> QED
    BY <1>1, <1>2, <2>1, ExecuteKeeps, PoolKeeps
<1>7. status' # "idle"
  <2>1. status' \in {"running", "returned", "lost"}
    BY <1>2, <1>3, <1>4, StepTypes
  <2> QED
    BY <2>1
<1>8. ASSUME Regular PROVE \E entry, d : Rightly(entry, d)'
  <2>1. PICK entry, d : Rightly(entry, d)
    BY <1>3, <1>8 DEF ContentsInv
  <2> QED
    BY <1>2, <1>3, <1>4, <1>5, <2>1, RightStep
<1> QED
  BY <1>2, <1>6, <1>7, <1>8, RegularStays DEF ContentsInv

LEMMA StutterContents ==
    ASSUME ContentsInv, UNCHANGED vars
    PROVE  ContentsInv'
<1>1. CompilerInv /\ WithinBounds /\ FromPool /\ AllocInv
  BY DEF ContentsInv, CompilerInv
<1>2. /\ func' = func /\ UNCHANGED allocator
      /\ code' = code /\ pc' = pc /\ regs' = regs /\ sp' = sp /\ mem' = mem
      /\ wrong' = wrong /\ strayed' = strayed /\ status' = status
  BY DEF vars, machine
<1>3. CompilerInv' /\ WithinBounds' /\ FromPool'
  <2>1. WithinBounds'
    BY <1>1, <1>2 DEF WithinBounds
  <2> QED
    BY <1>1, <1>2, <2>1, IdleKeeps, PoolKeeps
<1>4. ASSUME NEW entry, NEW d, Rightly(entry, d) PROVE Rightly(entry, d)'
  <2>1. CodeClaimed(entry, code, d)'
    BY <1>2, <1>4 DEF Rightly, CodeClaimed
  <2>2. Holds(d[pc])' <=> Holds(d[pc])
    BY <1>2 DEF Holds, InRegisters
  <2> QED
    BY <1>2, <1>4, <2>1, <2>2 DEF Rightly
<1>5. status # "idle" /\ Regular => \E entry, d : Rightly(entry, d)'
  BY <1>4 DEF ContentsInv
<1> QED
  BY <1>2, <1>3, <1>5, RegularStays DEF ContentsInv

LEMMA ContentsKept == ContentsInv /\ [CompilerNext]_vars => ContentsInv'
BY IdleContents, EmitContents, StepContents, StutterContents DEF CompilerNext

(***************************************************************************)
(* The code of every function whose ranges cover liveness computes what    *)
(* the IR says, whatever is spilled and whatever calls clobber: whichever  *)
(* path it takes, it stores, passes, branches on and returns the values    *)
(* that the IR names, unless it has written a slot outside of its frame.   *)
(***************************************************************************)
THEOREM CompiledCodeComputesTheIR == CompilerSpec => []ComputesTheIR
<1>1. ASSUME ContentsInv PROVE ComputesTheIR
  <2> SUFFICES ASSUME wrong, ~strayed, Regular PROVE FALSE
    BY DEF ComputesTheIR
  <2>1. CASE status = "idle"
    BY <1>1, <2>1 DEF ContentsInv
  <2>2. CASE status # "idle"
    <3>1. PICK entry, d : Rightly(entry, d)
      BY <1>1, <2>2 DEF ContentsInv
    <3> QED
      BY <3>1 DEF Rightly
  <2> QED
    BY <2>1, <2>2
<1> QED
  BY <1>1, InitContents, ContentsKept, PTL DEF CompilerSpec
=============================================================================
