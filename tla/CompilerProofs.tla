---------------------------- MODULE CompilerProofs ----------------------------
(***************************************************************************)
(* What is proved of the compiler and of the compiled code, for functions  *)
(* of any size, any pool of registers and any calling convention.          *)
(*                                                                         *)
(* The code of a function can be read without running it: at every place   *)
(* the stack has a height that does not depend on the path that leads      *)
(* there.  The lowerings leave the height as they find it, and so all      *)
(* blocks begin and all edges leave at the height of the body.  The        *)
(* machine is then always at the height of the place it is at, and what    *)
(* the prologue has saved is where the epilogue looks for it.              *)
(***************************************************************************)
EXTENDS Compiler, IRPassesProofs

-----------------------------------------------------------------------------
(* Code that keeps the height of the stack                                 *)
(*                                                                         *)
(* x says of the code of a function which registers it saves, the height   *)
(* of its body, whether it is bare, without a frame and a slot, and how    *)
(* many blocks it has.                                                     *)

IsContext(x) ==
    /\ IsSequence(x.saved) /\ x.base \in Nat /\ x.base >= Len(x.saved)
    /\ x.bare \in BOOLEAN /\ (x.bare => x.base = Len(x.saved))
    /\ x.blocks \in Nat

(* A register whose content is not the caller's, when the saved are saved. *)
Spare(x, r) == r \notin CALLEE_SAVED \/ r \in ToSet(x.saved)

PlainFits(x, i) ==
    /\ i.op \in {"mov", "load_slot", "store_slot", "compute", "clobber", "store_mem"}
    /\ x.bare => /\ i.op \notin {"load_slot", "store_slot"}
                 /\ i.op \in {"mov", "compute", "clobber"} => Spare(x, i.dst)

(* Below the height of the saved registers, a push saves the next one ... *)
PushFits(x, i, h) ==
    i.op = "push" /\ (x.bare /\ h < Len(x.saved) => i.src = x.saved[h + 1])

(* ... and a pop restores the last. *)
PopFits(x, i, h) ==
    /\ i.op = "pop"
    /\ x.bare => IF h <= Len(x.saved) THEN h >= 1 /\ i.dst = x.saved[h]
                 ELSE i.dst \notin CALLEE_SAVED

(* The instruction i may stand where the height is h, and makes it k. *)
Fits(x, i, h, k) ==
    \/ PlainFits(x, i) /\ k = h /\ h >= Len(x.saved)
    \/ PushFits(x, i, h) /\ k = h + 1
    \/ PopFits(x, i, h) /\ k = h - 1
    \/ i.op = "call" /\ k = h /\ h = x.base
    \/ i.op = "jnz" /\ k = h
    \/ i.op = "jmp" /\ h = x.base /\ i.block \in 1..x.blocks
    \/ i.op = "enter" /\ i.words \in Nat /\ k = h + 1 + (i.words + (i.words % 2)) /\ ~x.bare
    \/ i.op = "leave" /\ ~x.bare
    \/ i.op = "ret" /\ (x.bare => h = 0)

Heights == [Nat -> Int]

(* d has the height at each place of the code c. *)
Flow(x, c, d) ==
    \A p \in 1..Len(c) :
      /\ Fits(x, c[p], d[p], d[p + 1])
      /\ c[p].op = "jnz" => /\ c[p].over \in Nat /\ p + 1 + c[p].over <= Len(c)
                            /\ d[p + 1 + c[p].over] = d[p]
      /\ c[p].op = "leave" => p + 1 <= Len(c) /\ c[p + 1].op = "ret"

(* Code that is entered at height a and left at height b. *)
Runs(x, c, a, b) ==
    /\ IsSequence(c)
    /\ \E d \in Heights : Flow(x, c, d) /\ d[1] = a /\ d[Len(c) + 1] = b

LEMMA RunsNone ==
    ASSUME NEW x, NEW a \in Int
    PROVE  Runs(x, <<>>, a, a)
<1> DEFINE d == [p \in Nat |-> a]
<1>1. d \in Heights /\ d[1] = a /\ d[0 + 1] = a
  BY DEF Heights
<1>2. Flow(x, <<>>, d)
  BY EmptySequence DEF Flow
<1> HIDE DEF d
<1> QED
  BY <1>1, <1>2, EmptySequence DEF Runs

(* The heights of one code and then of another. *)
Then(d, e, n) == [p \in Nat |-> IF p <= n THEN d[p] ELSE e[p - n]]

LEMMA ThenIs ==
    ASSUME NEW d \in Heights, NEW e \in Heights, NEW n \in Nat, d[n + 1] = e[1]
    PROVE  /\ Then(d, e, n) \in Heights
           /\ \A p \in 1..(n + 1) : Then(d, e, n)[p] = d[p]
           /\ \A p \in Nat \ {0} : Then(d, e, n)[n + p] = e[p]
<1>1. \A p \in Nat : Then(d, e, n)[p] = IF p <= n THEN d[p] ELSE e[p - n]
  BY DEF Then
<1>2. Then(d, e, n) \in Heights
  <2>1. \A p \in Nat : p > n => p - n \in Nat
    OBVIOUS
  <2> QED
    BY <2>1 DEF Then, Heights
<1>3. ASSUME NEW p \in 1..(n + 1) PROVE Then(d, e, n)[p] = d[p]
  <2>1. CASE p <= n
    BY <1>1, <2>1
  <2>2. CASE p = n + 1
    <3>1. ~(n + 1 <= n) /\ (n + 1) - n = 1
      OBVIOUS
    <3> QED
      BY <1>1, <2>2, <3>1
  <2> QED
    BY <2>1, <2>2
<1>4. ASSUME NEW p \in Nat \ {0} PROVE Then(d, e, n)[n + p] = e[p]
  <2>1. ~(n + p <= n) /\ (n + p) - n = p /\ n + p \in Nat
    OBVIOUS
  <2> QED
    BY <1>1, <2>1
<1> QED
  BY <1>2, <1>3, <1>4

LEMMA FlowTogether ==
    ASSUME NEW x, NEW s, IsSequence(s), NEW t, IsSequence(t),
           NEW d \in Heights, Flow(x, s, d), NEW e \in Heights, Flow(x, t, e),
           d[Len(s) + 1] = e[1]
    PROVE  Flow(x, s \o t, Then(d, e, Len(s)))
<1> DEFINE n == Len(s)
           m == Len(t)
           c == s \o t
           g == Then(d, e, n)
<1>1. n \in Nat /\ m \in Nat
  BY SequenceElements
<1>2. /\ Len(c) = n + m
      /\ \A i \in 1..n : c[i] = s[i]
      /\ \A i \in 1..m : c[n + i] = t[i]
  BY ConcatElements
<1>3. /\ \A p \in 1..(n + 1) : g[p] = d[p]
      /\ \A p \in Nat \ {0} : g[n + p] = e[p]
  BY <1>1, ThenIs
<1> SUFFICES ASSUME NEW p \in 1..(n + m)
             PROVE  /\ Fits(x, c[p], g[p], g[p + 1])
                    /\ c[p].op = "jnz" => /\ c[p].over \in Nat /\ p + 1 + c[p].over <= Len(c)
                                          /\ g[p + 1 + c[p].over] = g[p]
                    /\ c[p].op = "leave" => p + 1 <= Len(c) /\ c[p + 1].op = "ret"
  BY <1>2 DEF Flow
<1> HIDE DEF n, m, c, g
<1>4. CASE p <= n
  <2>1. p \in 1..n /\ p \in 1..(n + 1) /\ p + 1 \in 1..(n + 1) /\ p \in Nat
    BY <1>1, <1>4
  <2>2. /\ Fits(x, s[p], d[p], d[p + 1])
        /\ s[p].op = "jnz" => /\ s[p].over \in Nat /\ p + 1 + s[p].over <= n
                              /\ d[p + 1 + s[p].over] = d[p]
        /\ s[p].op = "leave" => p + 1 <= n /\ s[p + 1].op = "ret"
    BY <2>1 DEF Flow, n
  <2>3. c[p] = s[p] /\ g[p] = d[p] /\ g[p + 1] = d[p + 1]
    BY <1>2, <1>3, <2>1
  <2>4. ASSUME s[p].op = "jnz" PROVE /\ s[p].over \in Nat /\ p + 1 + s[p].over <= Len(c)
                                     /\ g[p + 1 + s[p].over] = g[p]
    <3> DEFINE q == p + 1 + s[p].over
    <3>1. s[p].over \in Nat /\ q <= n /\ d[q] = d[p]
      BY <2>2, <2>4
    <3>2. q \in 1..(n + 1) /\ q <= n + m
      BY <1>1, <2>1, <3>1
    <3> HIDE DEF q
    <3>3. g[q] = d[q]
      BY <1>3, <3>2
    <3> QED
      BY <1>2, <2>3, <3>1, <3>2, <3>3 DEF q
  <2>5. ASSUME s[p].op = "leave" PROVE p + 1 <= Len(c) /\ c[p + 1].op = "ret"
    <3>1. p + 1 \in 1..n /\ s[p + 1].op = "ret" /\ p + 1 <= n + m
      BY <1>1, <2>1, <2>2, <2>5
    <3> QED
      BY <1>2, <3>1
  <2> QED
    BY <2>2, <2>3, <2>4, <2>5
<1>5. CASE p > n
  <2> DEFINE j == p - n
  <2>1. j \in 1..m /\ j \in Nat \ {0} /\ j + 1 \in Nat \ {0} /\ p = n + j /\ p + 1 = n + (j + 1)
    BY <1>1, <1>5
  <2> HIDE DEF j
  <2>2. /\ Fits(x, t[j], e[j], e[j + 1])
        /\ t[j].op = "jnz" => /\ t[j].over \in Nat /\ j + 1 + t[j].over <= m
                              /\ e[j + 1 + t[j].over] = e[j]
        /\ t[j].op = "leave" => j + 1 <= m /\ t[j + 1].op = "ret"
    BY <2>1 DEF Flow, m
  <2>3. c[p] = t[j] /\ g[p] = e[j] /\ g[p + 1] = e[j + 1]
    BY <1>2, <1>3, <2>1
  <2>4. ASSUME t[j].op = "jnz" PROVE /\ t[j].over \in Nat /\ p + 1 + t[j].over <= Len(c)
                                     /\ g[p + 1 + t[j].over] = g[p]
    <3> DEFINE o == t[j].over
    <3>1. o \in Nat /\ j + 1 + o <= m /\ e[j + 1 + o] = e[j]
      BY <2>2, <2>4
    <3> HIDE DEF o
    <3>2. j + 1 + o \in Nat \ {0} /\ p + 1 + o = n + (j + 1 + o) /\ p + 1 + o <= n + m
      BY <1>1, <2>1, <3>1
    <3>3. g[p + 1 + o] = e[j + 1 + o]
      BY <1>3, <3>2
    <3> QED
      BY <1>2, <2>3, <3>1, <3>2, <3>3 DEF o
  <2>5. ASSUME t[j].op = "leave" PROVE p + 1 <= Len(c) /\ c[p + 1].op = "ret"
    <3>1. j + 1 \in 1..m /\ t[j + 1].op = "ret" /\ p + 1 <= n + m
      BY <1>1, <2>1, <2>2, <2>5
    <3> QED
      BY <1>2, <2>1, <3>1
  <2> QED
    BY <2>2, <2>3, <2>4, <2>5
<1> QED
  BY <1>1, <1>4, <1>5

LEMMA RunsTogether ==
    ASSUME NEW x, NEW s, NEW t, NEW a, NEW b, NEW c, Runs(x, s, a, b), Runs(x, t, b, c)
    PROVE  Runs(x, s \o t, a, c)
<1>1. IsSequence(s) /\ IsSequence(t) /\ Len(s) \in Nat /\ Len(t) \in Nat
  BY SequenceElements DEF Runs
<1>2. PICK d \in Heights : Flow(x, s, d) /\ d[1] = a /\ d[Len(s) + 1] = b
  BY DEF Runs
<1>3. PICK e \in Heights : Flow(x, t, e) /\ e[1] = b /\ e[Len(t) + 1] = c
  BY DEF Runs
<1> DEFINE g == Then(d, e, Len(s))
<1>4. Flow(x, s \o t, g)
  BY <1>1, <1>2, <1>3, FlowTogether
<1>5. /\ g \in Heights
      /\ \A p \in 1..(Len(s) + 1) : g[p] = d[p]
      /\ \A p \in Nat \ {0} : g[Len(s) + p] = e[p]
  <2>1. d[Len(s) + 1] = e[1]
    BY <1>2, <1>3
  <2> QED
    BY <1>1, <2>1, ThenIs
<1> HIDE DEF g
<1>6. g[1] = a
  <2>1. 1 \in 1..(Len(s) + 1)
    BY <1>1
  <2> QED
    BY <1>2, <1>5, <2>1
<1>7. g[Len(s \o t) + 1] = c
  <2>1. Len(s \o t) + 1 = Len(s) + (Len(t) + 1) /\ Len(t) + 1 \in Nat \ {0}
    BY <1>1, ConcatLengths
  <2> QED
    BY <1>3, <1>5, <2>1
<1>8. IsSequence(s \o t)
  BY <1>1, ConcatLengths
<1> QED
  BY <1>4, <1>5, <1>6, <1>7, <1>8 DEF Runs

(* Instructions that do not look at what comes after them. *)
LEMMA RunsEach ==
    ASSUME NEW x, NEW c, IsSequence(c), NEW d \in Heights,
           \A p \in 1..Len(c) : /\ Fits(x, c[p], d[p], d[p + 1])
                                /\ c[p].op \notin {"jnz", "leave"}
    PROVE  Runs(x, c, d[1], d[Len(c) + 1])
BY DEF Runs, Flow

LEMMA RunsOne ==
    ASSUME NEW x, NEW i, NEW a \in Int, NEW b \in Int, Fits(x, i, a, b),
           i.op \notin {"jnz", "leave"}
    PROVE  Runs(x, <<i>>, a, b)
<1> DEFINE d == [p \in Nat |-> IF p = 1 THEN a ELSE b]
           c == <<i>>
<1>1. IsSequence(c) /\ Len(c) = 1 /\ c[1] = i
  BY EmptySequence, AppendIsConcatenation
<1>2. d \in Heights /\ d[1] = a /\ d[1 + 1] = b
  BY DEF Heights
<1>3. \A p \in 1..1 : p = 1
  OBVIOUS
<1> HIDE DEF d, c
<1>4. Runs(x, c, d[1], d[Len(c) + 1])
  BY <1>1, <1>2, <1>3, RunsEach
<1> QED
  BY <1>1, <1>2, <1>4 DEF c

(* Code of plain instructions only. *)
AllPlain(x, c) == IsSequence(c) /\ \A i \in ToSet(c) : PlainFits(x, i)

LEMMA PlainRuns ==
    ASSUME NEW x, IsContext(x), NEW c, AllPlain(x, c), NEW h \in Int, h >= Len(x.saved)
    PROVE  Runs(x, c, h, h)
<1> DEFINE d == [p \in Nat |-> h]
<1>1. IsSequence(c) /\ Len(c) \in Nat /\ \A p \in 1..Len(c) : c[p] \in ToSet(c)
  BY SequenceElements DEF AllPlain
<1>2. d \in Heights /\ \A p \in Nat : d[p] = h
  BY DEF Heights
<1> HIDE DEF d
<1>3. ASSUME NEW p \in 1..Len(c)
      PROVE  Fits(x, c[p], d[p], d[p + 1]) /\ c[p].op \notin {"jnz", "leave"}
  <2>1. PlainFits(x, c[p])
    BY <1>1 DEF AllPlain
  <2>2. d[p] = h /\ d[p + 1] = h
    BY <1>2
  <2> QED
    BY <2>1, <2>2 DEF Fits, PlainFits
<1>4. Runs(x, c, d[1], d[Len(c) + 1])
  BY <1>1, <1>2, <1>3, RunsEach
<1>5. d[1] = h /\ d[Len(c) + 1] = h
  BY <1>1, <1>2
<1> QED
  BY <1>4, <1>5

LEMMA PlainTogether ==
    ASSUME NEW x, NEW s, AllPlain(x, s), NEW t, AllPlain(x, t)
    PROVE  AllPlain(x, s \o t)
<1>1. IsSequence(s) /\ IsSequence(t)
  BY DEF AllPlain
<1>2. IsSequence(s \o t) /\ ToSet(s \o t) = ToSet(s) \cup ToSet(t)
  BY <1>1, ConcatElements
<1> QED
  BY <1>2 DEF AllPlain

LEMMA PlainOne ==
    ASSUME NEW x, NEW i, PlainFits(x, i)
    PROVE  AllPlain(x, <<i>>)
<1>1. IsSequence(<<i>>) /\ ToSet(<<i>>) = {i}
  BY EmptySequence, AppendIsConcatenation DEF ToSet
<1> QED
  BY <1>1 DEF AllPlain

LEMMA PlainNone == ASSUME NEW x PROVE AllPlain(x, <<>>)
BY EmptySequence DEF AllPlain, ToSet

LEMMA PlainFlat ==
    ASSUME NEW x, NEW ss, IsSequence(ss), \A k \in 1..Len(ss) : AllPlain(x, ss[k])
    PROVE  AllPlain(x, FlattenSeq(ss))
<1>1. Parts(ss)
  BY DEF Parts, AllPlain
<1>2. /\ IsSequence(FlattenSeq(ss))
      /\ ToSet(FlattenSeq(ss)) = UNION {ToSet(ss[k]) : k \in 1..Len(ss)}
  BY <1>1, FlattenElements
<1> QED
  BY <1>2 DEF AllPlain

-----------------------------------------------------------------------------
(* Code in pieces *)

(* The pieces of ss are entered at the heights of g, one after the other. *)
Entered(x, ss, g, d) ==
    /\ Flow(x, FlattenSeq(ss), d)
    /\ \A k \in 0..Len(ss) : d[Offset(ss, k) + 1] = g[k + 1]

LEMMA RowsFlow ==
    ASSUME NEW x, NEW ss, IsSequence(ss), NEW g \in Heights,
           \A k \in 1..Len(ss) : Runs(x, ss[k], g[k], g[k + 1])
    PROVE  /\ Parts(ss) /\ Len(ss) \in Nat
           /\ \E d \in Heights : Entered(x, ss, g, d)
<1> DEFINE n == Len(ss)
           Good(k) == \E d \in Heights : /\ Flow(x, Joined(ss, k), d)
                                         /\ \A j \in 0..k : d[Offset(ss, j) + 1] = g[j + 1]
           S == {k \in Nat : k <= n => Good(k)}
<1>1. Parts(ss) /\ n \in Nat
  BY SequenceElements DEF Parts, Runs
<1>2. /\ Joined(ss, 0) = <<>> /\ Offset(ss, 0) = 0
      /\ Joined(ss, n) = FlattenSeq(ss)
  BY JoinedNone, EmptySequence DEF Offset
<1> HIDE DEF n
<1>3. 0 \in S
  <2>1. Runs(x, <<>>, g[0 + 1], g[0 + 1])
    BY RunsNone DEF Heights
  <2>2. PICK d \in Heights : Flow(x, <<>>, d) /\ d[0 + 1] = g[0 + 1]
    BY <2>1 DEF Runs
  <2>3. \A j \in 0..0 : j = 0
    OBVIOUS
  <2> QED
    BY <1>2, <2>2, <2>3
<1>4. ASSUME NEW k \in S PROVE k + 1 \in S
  <2> SUFFICES ASSUME k + 1 <= n PROVE Good(k + 1)
    OBVIOUS
  <2>1. k \in Nat /\ k + 1 \in 1..n /\ k \in 0..n /\ k + 1 \in 0..n /\ (k + 1) - 1 = k /\ Good(k)
    BY <1>1
  <2>2. PICK d \in Heights : /\ Flow(x, Joined(ss, k), d)
                             /\ \A j \in 0..k : d[Offset(ss, j) + 1] = g[j + 1]
    BY <2>1
  <2>3. Runs(x, ss[k + 1], g[k + 1], g[(k + 1) + 1])
    BY <2>1 DEF n
  <2>4. PICK e \in Heights : /\ Flow(x, ss[k + 1], e) /\ e[1] = g[k + 1]
                             /\ e[Len(ss[k + 1]) + 1] = g[(k + 1) + 1]
    BY <2>3 DEF Runs
  <2>5. /\ \A j \in 0..n : IsSequence(Joined(ss, j)) /\ Offset(ss, j) \in Nat
        /\ Joined(ss, k + 1) = Joined(ss, k) \o ss[k + 1]
        /\ Offset(ss, k + 1) = Offset(ss, k) + Len(ss[k + 1])
        /\ IsSequence(ss[k + 1])
    <3>1. \A j \in 0..n : JoinedWell(ss, j)
      BY <1>1, JoinedParts DEF n
    <3>2. JoinedWell(ss, k + 1) /\ k + 1 > 0
      BY <2>1, <3>1
    <3>3. IsSequence(ss[k + 1])
      BY <1>1, <2>1 DEF Parts, n
    <3> QED
      BY <2>1, <3>1, <3>2, <3>3 DEF JoinedWell
  <2>6. \A j \in 0..k : Offset(ss, j) <= Offset(ss, k)
    BY <1>1, <2>1, JoinedPlaces DEF Increasing, n
  <2> DEFINE o == Offset(ss, k)
             f == Then(d, e, o)
  <2>7. o \in Nat /\ o = Len(Joined(ss, k)) /\ d[o + 1] = e[1]
    BY <2>1, <2>2, <2>4, <2>5 DEF Offset
  <2>8. /\ f \in Heights
        /\ \A p \in 1..(o + 1) : f[p] = d[p]
        /\ \A p \in Nat \ {0} : f[o + p] = e[p]
    BY <2>7, ThenIs
  <2>9. Flow(x, Joined(ss, k + 1), f)
    <3>1. Flow(x, Joined(ss, k) \o ss[k + 1], Then(d, e, Len(Joined(ss, k))))
      BY <2>1, <2>2, <2>4, <2>5, <2>7, FlowTogether
    <3> QED
      BY <2>5, <2>7, <3>1
  <2> HIDE DEF o, f
  <2>10. ASSUME NEW j \in 0..(k + 1) PROVE f[Offset(ss, j) + 1] = g[j + 1]
    <3>1. CASE j <= k
      <4>1. j \in 0..k /\ Offset(ss, j) \in Nat /\ Offset(ss, j) <= o
        BY <1>1, <2>1, <2>5, <2>6, <3>1 DEF o
      <4>2. Offset(ss, j) + 1 \in 1..(o + 1)
        BY <2>7, <4>1
      <4> QED
        BY <2>2, <2>8, <4>1, <4>2
    <3>2. CASE j = k + 1
      <4> DEFINE l == Len(ss[k + 1])
      <4>1. l \in Nat
        BY <2>5, SequenceElements
      <4> HIDE DEF l
      <4>2. l + 1 \in Nat \ {0} /\ Offset(ss, j) + 1 = o + (l + 1)
        BY <2>5, <2>7, <3>2, <4>1 DEF o, l
      <4> QED
        BY <2>4, <2>8, <3>2, <4>2 DEF l
    <3> QED
      BY <2>1, <3>1, <3>2
  <2> QED
    BY <2>8, <2>9, <2>10
<1>5. S \in SUBSET Nat
  OBVIOUS
<1> HIDE DEF S
<1>6. S = Nat
  BY <1>3, <1>4, <1>5, Induction
<1>7. Good(n)
  BY <1>1, <1>6 DEF S
<1> QED
  BY <1>1, <1>2, <1>7 DEF n, Entered

LEMMA RowsRun ==
    ASSUME NEW x, NEW ss, IsSequence(ss), NEW g \in Heights,
           \A k \in 1..Len(ss) : Runs(x, ss[k], g[k], g[k + 1])
    PROVE  Runs(x, FlattenSeq(ss), g[1], g[Len(ss) + 1])
<1>1. Parts(ss) /\ Len(ss) \in Nat
  BY RowsFlow
<1>2. PICK d \in Heights : Entered(x, ss, g, d)
  BY RowsFlow
<1>3. IsSequence(FlattenSeq(ss)) /\ Len(FlattenSeq(ss)) = Offset(ss, Len(ss))
  BY <1>1, FlattenJoins
<1>4. Offset(ss, 0) = 0
  BY JoinedNone, EmptySequence DEF Offset
<1>5. 0 \in 0..Len(ss) /\ Len(ss) \in 0..Len(ss)
  BY <1>1
<1>6. d[0 + 1] = g[0 + 1] /\ d[Len(FlattenSeq(ss)) + 1] = g[Len(ss) + 1]
  BY <1>2, <1>3, <1>4, <1>5 DEF Entered
<1> QED
  BY <1>2, <1>3, <1>6 DEF Runs, Entered

(* Code does not run on behind a jump or a ret. *)
Closed(c) == IsSequence(c) /\ Len(c) # 0 /\ c[Len(c)].op \in {"jmp", "ret"}

LEMMA ClosedOne ==
    ASSUME NEW i, i.op \in {"jmp", "ret"}
    PROVE  Closed(<<i>>)
BY EmptySequence, AppendIsConcatenation DEF Closed

LEMMA ClosedAfter ==
    ASSUME NEW s, IsSequence(s), NEW t, Closed(t)
    PROVE  Closed(s \o t)
<1> DEFINE n == Len(s)
           m == Len(t)
           c == s \o t
<1>1. IsSequence(t) /\ n \in Nat /\ m \in Nat /\ m \in 1..m
  BY SequenceElements DEF Closed
<1>2. IsSequence(c) /\ Len(c) = n + m /\ c[n + m] = t[m]
  BY <1>1, ConcatElements
<1> HIDE DEF n, m, c
<1> QED
  BY <1>1, <1>2 DEF Closed, c, m

LEMMA ClosedFlat ==
    ASSUME NEW ss, Parts(ss), NEW n \in Nat \ {0}, n = Len(ss), Closed(ss[n])
    PROVE  Closed(FlattenSeq(ss))
<1>1. n \in 0..n /\ n - 1 \in 0..n /\ n > 0
  OBVIOUS
<1>2. IsSequence(Joined(ss, n - 1)) /\ Joined(ss, n) = Joined(ss, n - 1) \o ss[n]
  BY <1>1, JoinedParts DEF JoinedWell
<1>3. FlattenSeq(ss) = Joined(ss, n)
  BY JoinedNone DEF Parts
<1> QED
  BY <1>2, <1>3, ClosedAfter

(* A jump over the code of one edge, which is closed, to that of the other. *)
LEMMA BranchRuns ==
    ASSUME NEW x, NEW i, i.op = "jnz", NEW h \in Int,
           NEW s, Runs(x, s, h, h), i.over = Len(s), NEW t, Runs(x, t, h, h), Len(t) # 0
    PROVE  Runs(x, <<i>> \o (s \o t), h, h)
<1> DEFINE n == Len(s)
           m == Len(t)
           u == s \o t
           one == <<i>>
           c == one \o u
           first == [p \in Nat |-> h]
<1>1. IsSequence(s) /\ IsSequence(t) /\ n \in Nat /\ m \in Nat \ {0}
  BY SequenceElements DEF Runs
<1>2. PICK d \in Heights : Flow(x, s, d) /\ d[1] = h /\ d[n + 1] = h
  BY DEF Runs
<1>3. PICK e \in Heights : Flow(x, t, e) /\ e[1] = h /\ e[m + 1] = h
  BY DEF Runs
<1> DEFINE g == Then(d, e, n)
           f == Then(first, g, 1)
<1>4. Flow(x, u, g)
  BY <1>1, <1>2, <1>3, FlowTogether
<1>5. /\ g \in Heights
      /\ \A p \in 1..(n + 1) : g[p] = d[p]
      /\ \A p \in Nat \ {0} : g[n + p] = e[p]
  <2>1. d[n + 1] = e[1]
    BY <1>2, <1>3
  <2> QED
    BY <1>1, <2>1, ThenIs
<1>6. IsSequence(u) /\ Len(u) = n + m
  BY <1>1, ConcatLengths
<1>7. /\ IsSequence(one) /\ Len(one) = 1 /\ one[1] = i
  BY EmptySequence, AppendIsConcatenation
<1> HIDE DEF u, one
<1>8. /\ IsSequence(c) /\ Len(c) = 1 + (n + m)
      /\ \A p \in 1..1 : c[p] = one[p]
      /\ \A p \in 1..(n + m) : c[1 + p] = u[p]
  <2>1. /\ IsSequence(c) /\ Len(c) = Len(one) + Len(u)
        /\ \A p \in 1..Len(one) : c[p] = one[p]
        /\ \A p \in 1..Len(u) : c[Len(one) + p] = u[p]
    <3>1. IsSequence(one) /\ IsSequence(u)
      BY <1>6, <1>7
    <3> QED
      BY <3>1, ConcatElements
  <2> QED
    BY <1>6, <1>7, <2>1
<1> HIDE DEF c, g
<1>9. first \in Heights /\ first[1] = h /\ first[1 + 1] = h
  BY DEF Heights
<1>10. g[1] = h /\ g[n + 1] = h /\ g[n + (m + 1)] = h
  <2>1. 1 \in 1..(n + 1) /\ n + 1 \in 1..(n + 1) /\ m + 1 \in Nat \ {0}
    BY <1>1
  <2> QED
    BY <1>2, <1>3, <1>5, <2>1
<1>11. /\ f \in Heights
       /\ \A p \in 1..(1 + 1) : f[p] = first[p]
       /\ \A p \in Nat \ {0} : f[1 + p] = g[p]
  <2>1. first[1 + 1] = g[1]
    BY <1>9, <1>10
  <2> HIDE DEF first
  <2> QED
    BY <1>5, <1>9, <2>1, ThenIs
<1> HIDE DEF f, first
<1>12. f[1] = h /\ f[2] = h /\ f[1 + (n + 1)] = h /\ f[1 + (n + (m + 1))] = h
  <2>1. /\ 1 \in 1..(1 + 1) /\ 2 \in 1..(1 + 1) /\ 1 + 1 = 2
        /\ n + 1 \in Nat \ {0} /\ n + (m + 1) \in Nat \ {0}
    BY <1>1
  <2>2. f[1] = first[1] /\ f[2] = first[2]
    BY <1>11, <2>1
  <2>3. f[1 + (n + 1)] = g[n + 1] /\ f[1 + (n + (m + 1))] = g[n + (m + 1)]
    BY <1>11, <2>1
  <2> QED
    BY <1>9, <1>10, <2>1, <2>2, <2>3
<1>13. ASSUME NEW p \in 1..(1 + (n + m))
       PROVE  /\ Fits(x, c[p], f[p], f[p + 1])
              /\ c[p].op = "jnz" => /\ c[p].over \in Nat /\ p + 1 + c[p].over <= 1 + (n + m)
                                    /\ f[p + 1 + c[p].over] = f[p]
              /\ c[p].op = "leave" => p + 1 <= 1 + (n + m) /\ c[p + 1].op = "ret"
  <2>1. CASE p = 1
    <3>1. c[1] = i /\ 1 + 1 = 2
      BY <1>7, <1>8
    <3>2. Fits(x, i, h, h)
      BY DEF Fits
    <3>3. i.over = n /\ 1 + 1 + n <= 1 + (n + m) /\ 1 + 1 + n = 1 + (n + 1)
      BY <1>1
    <3>4. "jnz" # "leave"
      OBVIOUS
    <3>5. f[1 + 1 + n] = h
      BY <1>12, <3>3
    <3> HIDE DEF n
    <3> QED
      BY <1>1, <1>12, <2>1, <3>1, <3>2, <3>3, <3>4, <3>5
  <2>2. CASE p # 1
    <3> DEFINE q == p - 1
    <3>1. q \in 1..(n + m) /\ q \in Nat \ {0} /\ q + 1 \in Nat \ {0} /\ p = 1 + q /\ p + 1 = 1 + (q + 1)
      BY <1>1, <2>2
    <3> HIDE DEF q
    <3>2. /\ Fits(x, u[q], g[q], g[q + 1])
          /\ u[q].op = "jnz" => /\ u[q].over \in Nat /\ q + 1 + u[q].over <= n + m
                                /\ g[q + 1 + u[q].over] = g[q]
          /\ u[q].op = "leave" => q + 1 <= n + m /\ u[q + 1].op = "ret"
      BY <1>4, <1>6, <3>1 DEF Flow
    <3>3. c[p] = u[q] /\ f[p] = g[q] /\ f[p + 1] = g[q + 1]
      BY <1>8, <1>11, <3>1
    <3>4. ASSUME u[q].op = "jnz"
          PROVE  /\ u[q].over \in Nat /\ p + 1 + u[q].over <= 1 + (n + m)
                 /\ f[p + 1 + u[q].over] = f[p]
      <4> DEFINE o == u[q].over
      <4>1. o \in Nat /\ q + 1 + o <= n + m /\ g[q + 1 + o] = g[q]
        BY <3>2, <3>4
      <4> HIDE DEF o
      <4>2. q + 1 + o \in Nat \ {0} /\ p + 1 + o = 1 + (q + 1 + o) /\ p + 1 + o <= 1 + (n + m)
        BY <1>1, <3>1, <4>1
      <4>3. f[1 + (q + 1 + o)] = g[q + 1 + o]
        BY <1>11, <4>2
      <4> QED
        BY <3>3, <4>1, <4>2, <4>3 DEF o
    <3>5. ASSUME u[q].op = "leave" PROVE p + 1 <= 1 + (n + m) /\ c[p + 1].op = "ret"
      <4>1. q + 1 \in 1..(n + m) /\ u[q + 1].op = "ret" /\ p + 1 <= 1 + (n + m)
        BY <1>1, <3>1, <3>2, <3>5
      <4> QED
        BY <1>8, <3>1, <4>1
    <3> QED
      BY <3>2, <3>3, <3>4, <3>5
  <2> QED
    BY <2>1, <2>2
<1>14. Flow(x, c, f)
  BY <1>8, <1>13 DEF Flow
<1>15. f[Len(c) + 1] = h
  <2>1. Len(c) + 1 = 1 + (n + (m + 1))
    BY <1>1, <1>8
  <2> QED
    BY <1>12, <2>1
<1> QED
  BY <1>8, <1>11, <1>12, <1>14, <1>15 DEF Runs, c, one, u

-----------------------------------------------------------------------------
(* The lowerings *)

ValueIds == 0..(N - 1)

(* The allocator's answer suits x: it borrows what is saved only. *)
Homes(x) ==
    /\ IsContext(x)
    /\ \A v \in ValueIds : RegOf(v) # NoReg => Spare(x, RegOf(v))
    /\ x.bare => \A v \in ValueIds : RegOf(v) # NoReg /\ SlotOf(v) = 0

(* What the height of the body is made of. *)
Framed(x, words) ==
    /\ words \in Nat /\ (words > 0 => ~x.bare)
    /\ x.base = Len(x.saved) + (IF words > 0 THEN 1 + (words + (words % 2)) ELSE 0)

AllIds(args) == IsSequence(args) /\ \A k \in 1..Len(args) : args[k] \in ValueIds

Ready(x, inst) ==
    /\ Shaped(inst) /\ AllIds(inst.operands)
    /\ inst.result # NoResult => inst.result \in ValueIds
    /\ \A e \in ToSet(inst.edges) : e.block \in 1..x.blocks /\ AllIds(e.args)

LEMMA ScratchSpare ==
    ASSUME NEW x
    PROVE  \A r \in ArgRegisters \cup {rax, rcx, rdx, r10, r11} : Spare(x, r) /\ r \notin CALLEE_SAVED
BY ConventionAssumption DEF Spare

LEMMA MovFits ==
    ASSUME NEW x, NEW dst, Spare(x, dst), NEW src
    PROVE  PlainFits(x, Mov(dst, src))
BY DEF PlainFits, Mov

LEMMA ComputeFits ==
    ASSUME NEW x, NEW dst, Spare(x, dst), NEW reads, NEW v
    PROVE  PlainFits(x, Compute(dst, reads, v))
BY DEF PlainFits, Compute

LEMMA ClobberFits ==
    ASSUME NEW x, NEW dst, Spare(x, dst)
    PROVE  PlainFits(x, Clobber(dst))
BY DEF PlainFits, Clobber

LEMMA StoreMemFits ==
    ASSUME NEW x, NEW reads
    PROVE  PlainFits(x, StoreMem(reads))
BY DEF PlainFits, StoreMem

LEMMA PlainTwo ==
    ASSUME NEW x, NEW i, PlainFits(x, i), NEW j, PlainFits(x, j)
    PROVE  AllPlain(x, <<i, j>>)
<1>1. ToSet(<<i, j>>) = {i, j} /\ <<i, j>> \in Seq({i, j})
  BY DEF ToSet
<1> QED
  BY <1>1 DEF AllPlain, IsSequence

LEMMA PlainMore ==
    ASSUME NEW x, NEW i, PlainFits(x, i), NEW j, PlainFits(x, j), NEW k, PlainFits(x, k),
           NEW l, PlainFits(x, l), NEW m, PlainFits(x, m)
    PROVE  AllPlain(x, <<i, j, k>>) /\ AllPlain(x, <<i, j, k, l, m>>)
<1>1. ToSet(<<i, j, k>>) = {i, j, k} /\ <<i, j, k>> \in Seq({i, j, k})
  BY DEF ToSet
<1>2. ToSet(<<i, j, k, l, m>>) = {i, j, k, l, m} /\ <<i, j, k, l, m>> \in Seq({i, j, k, l, m})
  BY DEF ToSet
<1> QED
  BY <1>1, <1>2 DEF AllPlain, IsSequence

LEMMA FetchPlain ==
    ASSUME NEW x, Homes(x), NEW v \in ValueIds, NEW scratch
    PROVE  AllPlain(x, Fetch(v, scratch))
<1>1. CASE RegOf(v) # NoReg
  BY <1>1, PlainNone DEF Fetch
<1>2. CASE RegOf(v) = NoReg
  <2>1. PlainFits(x, LoadSlot(scratch, SlotOf(v)))
    BY <1>2 DEF PlainFits, LoadSlot, Homes, IsContext
  <2> QED
    BY <1>2, <2>1, PlainOne DEF Fetch
<1> QED
  BY <1>1, <1>2

LEMMA DestSpare ==
    ASSUME NEW x, Homes(x), NEW v \in ValueIds
    PROVE  Spare(x, dest_register(v))
BY ScratchSpare DEF dest_register, Homes

LEMMA StorePlain ==
    ASSUME NEW x, Homes(x), NEW v \in ValueIds, NEW reg
    PROVE  AllPlain(x, store_if_spilled(v, reg))
<1>1. CASE SlotOf(v) = 0
  BY <1>1, PlainNone DEF store_if_spilled
<1>2. CASE SlotOf(v) # 0
  <2>1. PlainFits(x, StoreSlot(SlotOf(v), reg))
    BY <1>2 DEF PlainFits, StoreSlot, Homes, IsContext
  <2> QED
    BY <1>2, <2>1, PlainOne DEF store_if_spilled
<1> QED
  BY <1>1, <1>2

LEMMA KeepPlain ==
    ASSUME NEW x, Homes(x), NEW inst, Ready(x, inst)
    PROVE  AllPlain(x, Keep(inst))
BY StorePlain, PlainNone DEF Keep, Ready

(* The lowerings that keep to registers and slots. *)
LEMMA PlainLowered ==
    ASSUME NEW x, Homes(x), NEW inst, Ready(x, inst), NEW saved, NEW words,
           inst.op \notin Terminators \cup {"call"}
    PROVE  AllPlain(x, Lower(inst, saved, words))
<1> DEFINE reg == dest_register(inst.result)
           a == inst.operands[1]
           b == inst.operands[2]
<1>1. inst.op \in {"const", "binary", "shift", "divide", "compare", "unary", "convert",
                   "load", "store"}
  BY DEF Ready, Shaped, Emitted, Terminators
<1>2. inst.op # "store" => Spare(x, reg)
  BY <1>1, DestSpare DEF Ready, Shaped, Emitted
<1>3. inst.op # "const" => a \in ValueIds
  BY <1>1 DEF Ready, Shaped, AllIds, OneOperand
<1>4. inst.op \in {"binary", "shift", "divide", "compare", "store"} => b \in ValueIds
  BY DEF Ready, Shaped, AllIds
<1>5. Spare(x, rax) /\ Spare(x, rcx) /\ Spare(x, rdx) /\ Spare(x, r10) /\ Spare(x, r11)
  BY ScratchSpare
<1>6. inst.op # "const" => \A r : AllPlain(x, Fetch(a, r))
  BY <1>3, FetchPlain
<1>7. ASSUME inst.op \in {"binary", "shift", "divide", "compare", "store"}
      PROVE  \A r : AllPlain(x, Fetch(b, r))
  BY <1>4, <1>7, FetchPlain
<1>8. /\ \A r, s : Spare(x, r) => PlainFits(x, Mov(r, s))
      /\ \A r, s, v : Spare(x, r) => PlainFits(x, Compute(r, s, v))
      /\ PlainFits(x, Clobber(rdx))
      /\ \A s : PlainFits(x, StoreMem(s))
  BY <1>5, MovFits, ComputeFits, ClobberFits, StoreMemFits
<1>10. ASSUME inst.op = "const" PROVE AllPlain(x, Lower(inst, saved, words))
  <2>1. Lower(inst, saved, words) = <<Compute(reg, {}, inst.result)>>
    BY <1>10 DEF Lower
  <2> QED
    BY <1>2, <1>8, <1>10, <2>1, PlainOne
<1>11. ASSUME inst.op = "binary" PROVE AllPlain(x, Lower(inst, saved, words))
  <2> DEFINE c == <<Mov(reg, In(a, r10)),
                    Compute(reg, {<<reg, a>>, <<In(b, r11), b>>}, inst.result)>>
  <2>1. Lower(inst, saved, words) = (Fetch(a, r10) \o Fetch(b, r11)) \o c
    BY <1>11 DEF Lower, Binary
  <2>2. AllPlain(x, c)
    BY <1>2, <1>8, <1>11, PlainTwo
  <2> HIDE DEF c
  <2> QED
    BY <1>6, <1>7, <1>11, <2>1, <2>2, PlainTogether
<1>12. ASSUME inst.op = "shift" PROVE AllPlain(x, Lower(inst, saved, words))
  <2> DEFINE c == <<Mov(rcx, In(b, r11)), Mov(reg, In(a, r10)),
                    Compute(reg, {<<reg, a>>, <<rcx, b>>}, inst.result)>>
  <2>1. Lower(inst, saved, words) = (Fetch(a, r10) \o Fetch(b, r11)) \o c
    BY <1>12 DEF Lower, Shift
  <2>2. AllPlain(x, c)
    BY <1>2, <1>5, <1>8, <1>12, PlainMore
  <2> HIDE DEF c
  <2> QED
    BY <1>6, <1>7, <1>12, <2>1, <2>2, PlainTogether
<1>13. ASSUME inst.op = "divide" PROVE AllPlain(x, Lower(inst, saved, words))
  <2> DEFINE c == <<Mov(rax, In(a, r10)), Mov(r11, In(b, r11)), Clobber(rdx),
                    Compute(rax, {<<rax, a>>, <<r11, b>>}, inst.result),
                    Mov(reg, rax)>>
  <2>1. Lower(inst, saved, words) = (Fetch(a, r10) \o Fetch(b, r11)) \o c
    BY <1>13 DEF Lower, Divide
  <2>2. AllPlain(x, c)
    BY <1>2, <1>5, <1>8, <1>13, PlainMore
  <2> HIDE DEF c
  <2> QED
    BY <1>6, <1>7, <1>13, <2>1, <2>2, PlainTogether
<1>14. ASSUME inst.op = "compare" PROVE AllPlain(x, Lower(inst, saved, words))
  <2> DEFINE c == <<Compute(rax, {<<In(a, r10), a>>, <<In(b, r11), b>>}, inst.result),
                    Mov(reg, rax)>>
  <2>1. Lower(inst, saved, words) = (Fetch(a, r10) \o Fetch(b, r11)) \o c
    BY <1>14 DEF Lower, Compare
  <2>2. AllPlain(x, c)
    BY <1>2, <1>5, <1>8, <1>14, PlainTwo
  <2> HIDE DEF c
  <2> QED
    BY <1>6, <1>7, <1>14, <2>1, <2>2, PlainTogether
<1>15. ASSUME inst.op = "unary" PROVE AllPlain(x, Lower(inst, saved, words))
  <2> DEFINE c == <<Mov(reg, In(a, r10)), Compute(reg, {<<reg, a>>}, inst.result)>>
  <2>1. Lower(inst, saved, words) = Fetch(a, r10) \o c
    BY <1>15 DEF Lower, Unary
  <2>2. AllPlain(x, c)
    BY <1>2, <1>8, <1>15, PlainTwo
  <2> HIDE DEF c
  <2> QED
    BY <1>6, <1>15, <2>1, <2>2, PlainTogether
<1>16. ASSUME inst.op = "convert" PROVE AllPlain(x, Lower(inst, saved, words))
  <2> DEFINE c == <<Compute(reg, {<<In(a, r10), a>>}, inst.result)>>
  <2>1. Lower(inst, saved, words) = Fetch(a, r10) \o c
    BY <1>16 DEF Lower, Convert
  <2>2. AllPlain(x, c)
    BY <1>2, <1>8, <1>16, PlainOne
  <2> HIDE DEF c
  <2> QED
    BY <1>6, <1>16, <2>1, <2>2, PlainTogether
<1>17. ASSUME inst.op = "load" PROVE AllPlain(x, Lower(inst, saved, words))
  <2> DEFINE c == <<Compute(reg, {<<In(a, rax), a>>}, inst.result)>>
  <2>1. Lower(inst, saved, words) = Fetch(a, rax) \o c
    BY <1>17 DEF Lower, LowerLoad
  <2>2. AllPlain(x, c)
    BY <1>2, <1>8, <1>17, PlainOne
  <2> HIDE DEF c
  <2> QED
    BY <1>6, <1>17, <2>1, <2>2, PlainTogether
<1>18. ASSUME inst.op = "store" PROVE AllPlain(x, Lower(inst, saved, words))
  <2> DEFINE c == <<StoreMem({<<In(b, r10), b>>, <<In(a, r11), a>>})>>
  <2>1. Lower(inst, saved, words) = (Fetch(b, r10) \o Fetch(a, r11)) \o c
    BY <1>18 DEF Lower, LowerStore
  <2>2. AllPlain(x, c)
    BY <1>8, <1>18, PlainOne
  <2> HIDE DEF c
  <2> QED
    BY <1>6, <1>7, <1>18, <2>1, <2>2, PlainTogether
<1> QED
  BY <1>1, <1>10, <1>11, <1>12, <1>13, <1>14, <1>15, <1>16, <1>17, <1>18

-----------------------------------------------------------------------------
(* The lowerings that use the stack *)

LEMMA ArgumentRegisters ==
    /\ Len(ARG_REGISTERS) \in Nat
    /\ \A k \in 1..Len(ARG_REGISTERS) :
         ARG_REGISTERS[k] \in ArgRegisters /\ ARG_REGISTERS[k] \notin CALLEE_SAVED
<1>1. Len(ARG_REGISTERS) \in Nat
  BY RegistersAssumption
<1> QED
  BY <1>1, ConventionAssumption DEF ArgRegisters

LEMMA PairAppends ==
    \A i, j : IsSequence(<<i>>) /\ IsSequence(<<i, j>>) /\ Append(<<i>>, j) = <<i, j>>
<1> SUFFICES ASSUME NEW i, NEW j
             PROVE  IsSequence(<<i>>) /\ IsSequence(<<i, j>>) /\ Append(<<i>>, j) = <<i, j>>
  OBVIOUS
<1>1. ToSet(<<i, j>>) = {i, j} /\ <<i, j>> \in Seq({i, j})
  BY DEF ToSet
<1>2. IsSequence(<<i>>)
  BY EmptySequence, AppendIsConcatenation
<1>3. Append(<<i>>, j) = <<i, j>>
  <2> DEFINE s == <<i>>
             t == <<i, j>>
  <2>1. IsSequence(s) /\ Len(s) = 1 /\ s[1] = i
    BY <1>2
  <2>2. Len(t) = 2 /\ t[1] = i /\ t[2] = j /\ IsSequence(t)
    BY <1>1 DEF IsSequence
  <2> HIDE DEF s, t
  <2>3. /\ IsSequence(Append(s, j)) /\ Len(Append(s, j)) = 1 + 1
        /\ \A k \in 1..1 : Append(s, j)[k] = s[k]
        /\ Append(s, j)[1 + 1] = j
    <3>1. /\ IsSequence(Append(s, j)) /\ Len(Append(s, j)) = Len(s) + 1
          /\ \A k \in 1..Len(s) : Append(s, j)[k] = s[k]
          /\ Append(s, j)[Len(s) + 1] = j
      BY <2>1, AppendedElements
    <3> QED
      BY <2>1, <3>1
  <2>4. \A k \in 1..2 : k = 1 \/ k = 1 + 1
    OBVIOUS
  <2>5. 1 \in 1..1 /\ 1 + 1 = 2
    OBVIOUS
  <2>6. \A k \in 1..2 : Append(s, j)[k] = t[k]
    BY <2>1, <2>2, <2>3, <2>4, <2>5
  <2> QED
    BY <2>2, <2>3, <2>5, <2>6, SameElements DEF s, t
<1> QED
  BY <1>1, <1>2, <1>3 DEF IsSequence

(* What bind_call_args pushes it pops, into registers that are not saved. *)
LEMMA BindRuns ==
    ASSUME NEW x, Homes(x), NEW args, AllIds(args)
    PROVE  Runs(x, bind_call_args(args), x.base, x.base)
<1> DEFINE n == Least(Len(args), Len(ARG_REGISTERS))
           rows == [a \in 1..n |-> Append(Fetch(args[a], r10), Push(In(args[a], r10)))]
           pops == [a \in 1..n |-> Pop(ARG_REGISTERS[n + 1 - a])]
           h == x.base
           g == [k \in Nat |-> h + k - 1]
           d == [p \in Nat |-> h + n + 1 - p]
<1>1. /\ n \in Nat /\ n <= Len(args) /\ n <= Len(ARG_REGISTERS)
      /\ h \in Nat /\ h >= Len(x.saved) /\ Len(x.saved) \in Nat
  BY SequenceElements, ArgumentRegisters DEF Least, AllIds, Homes, IsContext
<1>2. bind_call_args(args) = FlattenSeq(rows) \o pops
  BY DEF bind_call_args
<1>3. /\ IsSequence(rows) /\ Len(rows) = n
      /\ \A a \in 1..n : rows[a] = Append(Fetch(args[a], r10), Push(In(args[a], r10)))
  BY <1>1, FunctionIsSequence
<1>4. IsSequence(pops) /\ Len(pops) = n /\ \A a \in 1..n : pops[a] = Pop(ARG_REGISTERS[n + 1 - a])
  BY <1>1, FunctionIsSequence
<1>5. /\ g \in Heights /\ d \in Heights
      /\ \A k \in Nat : g[k] = h + k - 1
      /\ \A k \in Nat : d[k] = h + n + 1 - k
  BY <1>1 DEF Heights
<1> HIDE DEF n, rows, pops, h, g, d
<1>6. ASSUME NEW k \in 1..n PROVE Runs(x, rows[k], g[k], g[k + 1])
  <2> DEFINE s == Fetch(args[k], r10)
             i == Push(In(args[k], r10))
             l == g[k]
  <2>1. l = h + k - 1 /\ l \in Int /\ l >= Len(x.saved) /\ g[k + 1] = l + 1
    <3>1. k \in Nat /\ k + 1 \in Nat /\ k >= 1
      BY <1>1
    <3>2. g[k] = h + k - 1 /\ g[k + 1] = h + (k + 1) - 1
      BY <1>5, <3>1
    <3> QED
      BY <1>1, <3>1, <3>2
  <2>2. args[k] \in ValueIds
    BY <1>1 DEF AllIds
  <2> HIDE DEF l
  <2>3. AllPlain(x, s) /\ IsContext(x)
    BY <2>2, FetchPlain DEF Homes
  <2>4. Runs(x, s, l, l) /\ IsSequence(s)
    BY <2>1, <2>3, PlainRuns DEF Runs
  <2>5. Fits(x, i, l, l + 1) /\ i.op = "push"
    BY <1>1, <2>1 DEF Fits, PushFits, Push
  <2>6. Runs(x, <<i>>, l, l + 1)
    BY <2>1, <2>5, RunsOne
  <2>7. rows[k] = s \o <<i>>
    BY <1>3, <2>4, AppendIsConcatenation
  <2> HIDE DEF s, i
  <2> QED
    BY <2>1, <2>4, <2>6, <2>7, RunsTogether DEF l
<1>7. Runs(x, FlattenSeq(rows), h, h + n)
  <2>1. g[1] = h /\ g[n + 1] = h + n
    <3> DEFINE k == n + 1
    <3>1. 1 \in Nat /\ k \in Nat
      BY <1>1
    <3> HIDE DEF k
    <3>2. g[1] = h + 1 - 1 /\ g[k] = h + k - 1
      BY <1>5, <3>1
    <3> QED
      BY <1>1, <3>1, <3>2 DEF k
  <2>2. Runs(x, FlattenSeq(rows), g[1], g[Len(rows) + 1])
    BY <1>3, <1>5, <1>6, RowsRun
  <2> QED
    BY <1>3, <2>1, <2>2
<1>8. Runs(x, pops, h + n, h)
  <2>1. ASSUME NEW p \in 1..n
        PROVE  Fits(x, pops[p], d[p], d[p + 1]) /\ pops[p].op \notin {"jnz", "leave"}
    <3>1. n + 1 - p \in 1..Len(ARG_REGISTERS)
      BY <1>1, ArgumentRegisters
    <3> DEFINE r == ARG_REGISTERS[n + 1 - p]
    <3>2. r \notin CALLEE_SAVED
      BY <3>1, ArgumentRegisters
    <3>3. d[p + 1] = d[p] - 1 /\ d[p] > Len(x.saved) /\ d[p] \in Int
      <4>1. p \in Nat /\ p + 1 \in Nat /\ p <= n
        BY <1>1
      <4>2. d[p] = h + n + 1 - p /\ d[p + 1] = h + n + 1 - (p + 1)
        BY <1>5, <4>1
      <4> QED
        BY <1>1, <4>1, <4>2
    <3>4. pops[p] = Pop(r)
      BY <1>4
    <3> HIDE DEF r
    <3> QED
      BY <1>1, <3>2, <3>3, <3>4 DEF Fits, PopFits, Pop
  <2>2. Runs(x, pops, d[1], d[Len(pops) + 1])
    BY <1>4, <1>5, <2>1, RunsEach
  <2>3. d[1] = h + n /\ d[n + 1] = h
    <3>1. 1 \in Nat /\ n + 1 \in Nat /\ n \in Nat /\ h \in Nat
      BY <1>1
    <3>2. d[1] = h + n + 1 - 1 /\ d[n + 1] = h + n + 1 - (n + 1)
      BY <1>5, <3>1
    <3> QED
      BY <3>1, <3>2
  <2> QED
    BY <1>4, <2>2, <2>3
<1> QED
  BY <1>2, <1>7, <1>8, RunsTogether DEF h

LEMMA CallRuns ==
    ASSUME NEW x, Homes(x), NEW inst, Ready(x, inst), inst.op = "call"
    PROVE  Runs(x, Call(inst), x.base, x.base)
<1> DEFINE s == bind_call_args(inst.operands)
           i == CallFn(inst.operands, inst.result)
           j == Mov(dest_register(inst.result), rax)
<1>1. IsContext(x) /\ x.base \in Int /\ x.base >= Len(x.saved)
  BY DEF Homes, IsContext
<1>2. Runs(x, s, x.base, x.base)
  BY BindRuns DEF Ready
<1>3. Runs(x, <<i>>, x.base, x.base)
  <2>1. Fits(x, i, x.base, x.base) /\ i.op = "call"
    BY DEF Fits, CallFn
  <2> QED
    BY <1>1, <2>1, RunsOne
<1>4. Runs(x, <<j>>, x.base, x.base)
  <2>1. inst.result \in ValueIds
    BY DEF Ready, Shaped, Emitted
  <2>2. PlainFits(x, j)
    BY <2>1, DestSpare, MovFits
  <2> QED
    BY <1>1, <2>2, PlainOne, PlainRuns
<1>5. Call(inst) = s \o <<i, j>> /\ <<i, j>> = <<i>> \o <<j>>
  <2>1. IsSequence(<<i>>) /\ Append(<<i>>, j) = <<i, j>>
    BY PairAppends
  <2>2. <<i, j>> = <<i>> \o <<j>>
    BY <2>1, AppendIsConcatenation
  <2> QED
    BY <2>2 DEF Call
<1> HIDE DEF s, i, j
<1> QED
  BY <1>2, <1>3, <1>4, <1>5, RunsTogether

(* The code of an edge comes to its jump at the height of the body. *)
LEMMA FollowRuns ==
    ASSUME NEW x, Homes(x), NEW edge, edge.block \in 1..x.blocks, AllIds(edge.args)
    PROVE  Runs(x, Follow(edge), x.base, x.base) /\ Closed(Follow(edge))
<1> DEFINE s == bind_call_args(edge.args)
           i == Jmp(edge.block, Params(func, edge.block), edge.args)
<1>1. Runs(x, s, x.base, x.base) /\ IsSequence(s) /\ x.base \in Int
  BY BindRuns DEF Runs, Homes, IsContext
<1>2. i.op = "jmp" /\ i.block \in 1..x.blocks
  BY DEF Jmp
<1>3. Follow(edge) = s \o <<i>>
  BY <1>1, AppendIsConcatenation DEF Follow
<1> HIDE DEF s, i
<1>4. Runs(x, <<i>>, x.base, x.base)
  <2>1. Fits(x, i, x.base, x.base)
    BY <1>2 DEF Fits
  <2> QED
    BY <1>1, <1>2, <2>1, RunsOne
<1> QED
  BY <1>1, <1>2, <1>3, <1>4, RunsTogether, ClosedOne, ClosedAfter

LEMMA BrifRuns ==
    ASSUME NEW x, Homes(x), NEW inst, Ready(x, inst), inst.op = "brif"
    PROVE  Runs(x, Brif(inst), x.base, x.base) /\ Closed(Brif(inst))
<1> DEFINE v == inst.operands[1]
           s == Follow(inst.edges[2])
           t == Follow(inst.edges[1])
           f == Fetch(v, r10)
           i == Jnz({<<In(v, r10), v>>}, Len(s), inst.edges[1].block, inst.edges[2].block)
           one == <<i>>
<1>1. IsContext(x) /\ x.base \in Int /\ x.base >= Len(x.saved)
  BY DEF Homes, IsContext
<1>2. v \in ValueIds
  BY DEF Ready, Shaped, AllIds, OneOperand
<1>3. inst.edges[1] \in ToSet(inst.edges) /\ inst.edges[2] \in ToSet(inst.edges)
  BY DEF Ready, Shaped, ToSet, IsSequence
<1>4. /\ Runs(x, s, x.base, x.base) /\ Closed(s) /\ Runs(x, t, x.base, x.base) /\ Closed(t)
  BY <1>3, FollowRuns DEF Ready
<1>5. Runs(x, f, x.base, x.base) /\ IsSequence(f)
  BY <1>1, <1>2, FetchPlain, PlainRuns DEF AllPlain
<1>6. i.op = "jnz" /\ i.over = Len(s)
  BY DEF Jnz
<1>7. Brif(inst) = ((f \o one) \o s) \o t
  BY DEF Brif
<1>8. IsSequence(one)
  BY EmptySequence, AppendIsConcatenation
<1>9. IsSequence(s) /\ IsSequence(t) /\ Len(t) # 0
  BY <1>4 DEF Closed
<1> HIDE DEF s, t, f, i
<1>10. Runs(x, one \o (s \o t), x.base, x.base)
  BY <1>1, <1>4, <1>6, <1>9, BranchRuns
<1> HIDE DEF one
<1>11. ((f \o one) \o s) \o t = f \o (one \o (s \o t))
  <2>1. IsSequence(f \o one) /\ IsSequence(s \o t)
    BY <1>5, <1>8, <1>9, ConcatLengths
  <2>2. ((f \o one) \o s) \o t = (f \o one) \o (s \o t)
    BY <2>1, <1>9, ConcatAssociates
  <2>3. (f \o one) \o (s \o t) = f \o (one \o (s \o t))
    BY <2>1, <1>5, <1>8, ConcatAssociates
  <2> QED
    BY <2>2, <2>3
<1>12. Closed(((f \o one) \o s) \o t)
  <2>1. IsSequence((f \o one) \o s)
    BY <1>5, <1>8, <1>9, ConcatLengths
  <2> QED
    BY <1>4, <2>1, ClosedAfter
<1> QED
  BY <1>5, <1>7, <1>10, <1>11, <1>12, RunsTogether

(* A return gives the saved registers back, the last first. *)
LEMMA ReturnRuns ==
    ASSUME NEW x, Homes(x), NEW inst, Ready(x, inst), inst.op = "ret",
           NEW words, Framed(x, words)
    PROVE  /\ Runs(x, Return(inst, x.saved, words), x.base, x.base)
           /\ Closed(Return(inst, x.saved, words))
<1> DEFINE v == inst.operands[1]
           l == Len(x.saved)
           h == x.base
           s == Fetch(v, r10)
           i == Mov(rax, In(v, r10))
           pops == [k \in 1..l |-> Pop(x.saved[l + 1 - k])]
           out == IF words > 0 THEN <<Leave>> ELSE <<>>
           r == Ret(v)
           d == [p \in Nat |-> h + 1 - p]
<1>1. IsContext(x) /\ h \in Nat /\ h >= l /\ l \in Nat
  BY SequenceElements DEF Homes, IsContext
<1>2. v \in ValueIds
  BY DEF Ready, Shaped, AllIds, OneOperand
<1>3. Return(inst, x.saved, words) = (((s \o <<i>>) \o pops) \o out) \o <<r>>
  BY DEF Return
<1>4. IsSequence(pops) /\ Len(pops) = l /\ \A k \in 1..l : pops[k] = Pop(x.saved[l + 1 - k])
  BY <1>1, FunctionIsSequence
<1>5. d \in Heights /\ \A p \in Nat : d[p] = h + 1 - p
  BY <1>1 DEF Heights
<1>6. AllPlain(x, s \o <<i>>)
  <2>1. PlainFits(x, i)
    BY ScratchSpare, MovFits
  <2> QED
    BY <1>2, <2>1, FetchPlain, PlainOne, PlainTogether
<1>7. r.op = "ret" /\ (words > 0 => ~x.bare) /\ (x.bare => h = l)
  BY DEF Ret, Framed, Homes, IsContext
<1> DEFINE fetched == s \o <<i>>
<1> HIDE DEF s, i, v, pops, d, r, l, h, fetched
<1>8. Runs(x, fetched, h, h) /\ IsSequence(fetched)
  BY <1>1, <1>6, PlainRuns DEF fetched, AllPlain, l
<1>9. Runs(x, pops, h, h - l)
  <2>1. ASSUME NEW p \in 1..l
        PROVE  Fits(x, pops[p], d[p], d[p + 1]) /\ pops[p].op \notin {"jnz", "leave"}
    <3> DEFINE q == l + 1 - p
    <3>1. d[p + 1] = d[p] - 1 /\ d[p] \in Int /\ q >= 1 /\ q <= l /\ (x.bare => d[p] = q)
      BY <1>1, <1>5, <1>7
    <3>2. pops[p] = Pop(x.saved[q])
      BY <1>4
    <3> HIDE DEF q
    <3>3. PopFits(x, pops[p], d[p])
      BY <3>1, <3>2 DEF PopFits, Pop, l
    <3> QED
      BY <3>1, <3>2, <3>3 DEF Fits, Pop
  <2>2. Runs(x, pops, d[1], d[Len(pops) + 1])
    BY <1>4, <1>5, <2>1, RunsEach
  <2>3. d[1] = h /\ d[l + 1] = h - l
    BY <1>1, <1>5
  <2> QED
    BY <1>4, <2>2, <2>3
<1>10. Runs(x, out \o <<r>>, h - l, h) /\ IsSequence(out) /\ IsSequence(<<r>>)
  <2> DEFINE e == [p \in Nat |-> IF p = 1 THEN h - l ELSE h]
  <2>1. IsSequence(<<r>>) /\ Len(<<r>>) = 1 /\ <<r>>[1] = r /\ h - l \in Int /\ h \in Int
    BY <1>1, EmptySequence, AppendIsConcatenation
  <2>2. CASE words > 0
    <3> DEFINE c == <<Leave, r>>
    <3>1. out = <<Leave>> /\ IsSequence(out) /\ Append(out, r) = c
      BY <2>2, PairAppends
    <3>2. out \o <<r>> = c /\ IsSequence(c) /\ Len(c) = 2 /\ c[1] = Leave /\ c[2] = r
      <4>1. out \o <<r>> = c /\ IsSequence(c)
        BY <3>1, AppendIsConcatenation, PairAppends
      <4> QED
        BY <4>1
    <3>3. e \in Heights /\ e[1] = h - l /\ e[2] = h /\ e[2 + 1] = h
      BY <2>1 DEF Heights
    <3> HIDE DEF e, c
    <3>4. Fits(x, Leave, e[1], e[2]) /\ Leave.op = "leave" /\ Fits(x, r, e[2], e[2 + 1])
      BY <1>7, <2>2 DEF Fits, Leave
    <3>5. ASSUME NEW p \in 1..2
          PROVE  /\ Fits(x, c[p], e[p], e[p + 1])
                 /\ c[p].op # "jnz"
                 /\ c[p].op = "leave" => p + 1 <= 2 /\ c[p + 1].op = "ret"
      <4>1. (p = 1 /\ p + 1 = 2) \/ p = 2
        OBVIOUS
      <4> QED
        BY <1>7, <3>2, <3>4, <4>1
    <3>6. Flow(x, c, e)
      BY <3>2, <3>5 DEF Flow
    <3> QED
      BY <2>1, <3>1, <3>2, <3>3, <3>6 DEF Runs
  <2>3. CASE ~(words > 0)
    <3>1. out = <<>> /\ IsSequence(out)
      BY <2>3, EmptySequence
    <3>2. out \o <<r>> = <<r>>
      BY <2>1, <3>1, ConcatNothing
    <3>3. Fits(x, r, h - l, h)
      BY <1>1, <1>7 DEF Fits
    <3>4. Runs(x, <<r>>, h - l, h)
      BY <1>7, <2>1, <3>3, RunsOne
    <3> QED
      BY <2>1, <3>1, <3>2, <3>4
  <2> QED
    BY <2>2, <2>3
<1> DEFINE last == <<r>>
<1>11. Closed(last)
  BY <1>7, ClosedOne
<1>12. IsSequence(fetched \o pops) /\ IsSequence((fetched \o pops) \o out)
  BY <1>4, <1>8, <1>10, ConcatLengths
<1>13. IsSequence(last) /\ Runs(x, out \o last, h - l, h)
  BY <1>10
<1> HIDE DEF out, last
<1>14. ((fetched \o pops) \o out) \o last = (fetched \o pops) \o (out \o last)
  BY <1>10, <1>12, <1>13, ConcatAssociates
<1>15. Runs(x, ((fetched \o pops) \o out) \o last, h, h)
  BY <1>8, <1>9, <1>13, <1>14, RunsTogether
<1>16. Closed(((fetched \o pops) \o out) \o last)
  BY <1>11, <1>12, ClosedAfter
<1> QED
  BY <1>3, <1>15, <1>16 DEF h, last, fetched

-----------------------------------------------------------------------------
(* The code of a block *)

LEMMA LoweredRuns ==
    ASSUME NEW x, Homes(x), NEW inst, Ready(x, inst), NEW words, Framed(x, words)
    PROVE  /\ Runs(x, Lower(inst, x.saved, words) \o Keep(inst), x.base, x.base)
           /\ inst.op \in Terminators => Closed(Lower(inst, x.saved, words) \o Keep(inst))
<1> DEFINE s == Lower(inst, x.saved, words)
           t == Keep(inst)
<1>1. IsContext(x) /\ x.base \in Int /\ x.base >= Len(x.saved)
  BY DEF Homes, IsContext
<1>2. Runs(x, t, x.base, x.base)
  BY <1>1, KeepPlain, PlainRuns
<1>3. Runs(x, s, x.base, x.base) /\ (inst.op \in Terminators => Closed(s))
  <2>1. CASE inst.op \notin Terminators \cup {"call"}
    BY <1>1, <2>1, PlainLowered, PlainRuns
  <2>2. CASE inst.op = "call"
    <3>1. s = Call(inst)
      BY <2>2 DEF Lower
    <3> QED
      BY <2>2, <3>1, CallRuns DEF Terminators
  <2>3. CASE inst.op = "brif"
    <3>1. s = Brif(inst)
      BY <2>3 DEF Lower
    <3> QED
      BY <2>3, <3>1, BrifRuns
  <2>4. CASE inst.op = "jmp"
    <3>1. s = Follow(inst.edges[1])
      BY <2>4 DEF Lower
    <3>2. inst.edges[1] \in ToSet(inst.edges)
      BY <2>4 DEF Ready, Shaped, ToSet, IsSequence
    <3> QED
      BY <2>4, <3>1, <3>2, FollowRuns DEF Ready
  <2>5. CASE inst.op = "ret"
    <3>1. s = Return(inst, x.saved, words)
      BY <2>5 DEF Lower
    <3> QED
      BY <2>5, <3>1, ReturnRuns
  <2> QED
    BY <2>1, <2>2, <2>3, <2>4, <2>5 DEF Terminators
<1>4. ASSUME inst.op \in Terminators PROVE t = <<>>
  BY <1>4 DEF Keep, Ready, Shaped
<1>5. IsSequence(s)
  BY <1>3 DEF Runs
<1> HIDE DEF s, t
<1>6. inst.op \in Terminators => s \o t = s
  BY <1>4, <1>5, ConcatNothing
<1> QED
  BY <1>2, <1>3, <1>6, RunsTogether DEF s, t

LEMMA ReceivePlain ==
    ASSUME NEW x, Homes(x), NEW params, AllIds(params)
    PROVE  AllPlain(x, Receive(params))
<1> DEFINE n == Least(Len(params), Len(ARG_REGISTERS))
           dest(k) == dest_register(params[k])
           head(k) == IF dest(k) # ARG_REGISTERS[k] THEN <<Mov(dest(k), ARG_REGISTERS[k])>> ELSE <<>>
           ss == [k \in 1..n |-> head(k) \o store_if_spilled(params[k], dest(k))]
<1>1. n \in Nat /\ n <= Len(params)
  BY SequenceElements, ArgumentRegisters DEF Least, AllIds
<1>2. IsSequence(ss) /\ Len(ss) = n
  BY <1>1, FunctionIsSequence
<1>3. ASSUME NEW k \in 1..n PROVE AllPlain(x, head(k) \o store_if_spilled(params[k], dest(k)))
  <2>1. params[k] \in ValueIds
    BY <1>1 DEF AllIds
  <2>2. AllPlain(x, <<Mov(dest(k), ARG_REGISTERS[k])>>)
    <3>1. PlainFits(x, Mov(dest(k), ARG_REGISTERS[k]))
      BY <2>1, DestSpare, MovFits
    <3> QED
      BY <3>1, PlainOne
  <2>3. AllPlain(x, head(k))
    BY <2>2, PlainNone
  <2>4. AllPlain(x, store_if_spilled(params[k], dest(k)))
    BY <2>1, StorePlain
  <2> QED
    BY <2>3, <2>4, PlainTogether
<1>4. Receive(params) = FlattenSeq(ss)
  BY DEF Receive
<1>5. \A k \in 1..n : AllPlain(x, ss[k])
  BY <1>3
<1> HIDE DEF ss
<1> QED
  BY <1>2, <1>4, <1>5, PlainFlat

(* A function that is compiled: its ids are those of the allocator's values. *)
Compiled == IRInv /\ Accepted /\ Analysable(func) /\ func.types = N /\ func.blocks # <<>>

LEMMA ArgsAreIds ==
    ASSUME NEW args \in Seq(Nat), ToSet(args) \subseteq Values(func), Compiled
    PROVE  AllIds(args)
<1>1. Values(func) = ValueIds
  BY LineFacts DEF Compiled, ValueIds
<1>2. Len(args) \in Nat /\ \A k \in 1..Len(args) : args[k] \in ToSet(args)
  BY LenProperties DEF ToSet
<1>3. args \in Seq(ToSet(args))
  BY <1>2, LenProperties
<1> QED
  BY <1>1, <1>2, <1>3 DEF AllIds, IsSequence

(* What the verifier has seen defined is a value. *)
LEMMA DefinedIsAValue ==
    ASSUME IRInv, NEW b \in Blocks(func), NEW i \in 1..Len(Instructions(func, b))
    PROVE  DefinedBefore(func, b, i) \subseteq Values(func)
<1> SUFFICES ASSUME NEW v \in DefinedBefore(func, b, i) PROVE v \in Values(func)
  OBVIOUS
<1>1. WellFormed(func)
  BY LineFacts
<1>2. v # NoResult
  <2>1. NoResult \notin ToSet(func.args) /\ \A c \in Blocks(func) : NoResult \notin ToSet(Params(func, c))
    BY NumbersOnly DEF IRInv, FuncInv, WellTyped
  <2>2. \A c \in 1..b : c \in Blocks(func)
    BY DEF Blocks
  <2>3. \A insts : NoResult \notin ResultsOf(insts)
    BY DEF ResultsOf
  <2> QED
    BY <2>1, <2>2, <2>3 DEF DefinedBefore
<1>3. \E q \in 1..Len(Layout(func)) : Layout(func)[q].result = v
  BY <1>1, DefinedEarlier
<1> QED
  BY <1>1, <1>2, <1>3, ValuesOfLine

LEMMA InstructionsReady ==
    ASSUME Compiled, NEW x, x.blocks = Len(func.blocks),
           NEW b \in Blocks(func), NEW i \in 1..Len(Instructions(func, b))
    PROVE  Ready(x, Instructions(func, b)[i])
<1> DEFINE inst == Instructions(func, b)[i]
<1>1. IRInv /\ WellFormed(func) /\ WellTyped(func)
  BY DEF Compiled, IRInv, FuncInv
<1>2. inst \in ToSet(Instructions(func, b))
  BY <1>1, SequenceElements DEF WellFormed
<1>3. Typed(inst)
  BY <1>1, <1>2 DEF WellTyped
<1>4. /\ Required(inst) \subseteq Values(func)
      /\ \A e \in ToSet(inst.edges) : EdgeFits(func, e)
  BY <1>1, DefinedIsAValue DEF Compiled, Accepted, Verified
<1>5. ToSet(inst.operands) \subseteq Values(func)
  <2>1. CASE inst.op = "convert"
    <3>1. inst \in ToSet(Layout(func))
      BY <1>1, <1>2, LineItems
    <3>2. Counted(inst) \subseteq Values(func)
      BY <3>1 DEF Compiled, Analysable
    <3>3. Counted(inst) = Reads(inst)
      BY <2>1 DEF Counted
    <3> QED
      BY <3>2, <3>3 DEF Reads
  <2>2. CASE inst.op # "convert"
    BY <1>4, <2>2 DEF Required, Reads
  <2> QED
    BY <2>1, <2>2
<1>6. ASSUME NEW e \in ToSet(inst.edges)
      PROVE  e.block \in 1..x.blocks /\ e.args \in Seq(Nat) /\ ToSet(e.args) \subseteq Values(func)
  <2>1. ToSet(e.args) \subseteq Reads(inst)
    BY DEF Reads, PassedOn
  <2>2. Reads(inst) \subseteq Values(func)
    <3>1. CASE inst.op = "convert"
      <4>1. inst \in ToSet(Layout(func))
        BY <1>1, <1>2, LineItems
      <4>2. Counted(inst) \subseteq Values(func)
        BY <4>1 DEF Compiled, Analysable
      <4> QED
        BY <3>1, <4>2 DEF Counted
    <3>2. CASE inst.op # "convert"
      BY <1>4, <3>2 DEF Required
    <3> QED
      BY <3>1, <3>2
  <2> QED
    BY <1>3, <1>4, <2>1, <2>2 DEF Typed, EdgeFits, Blocks
<1>7. ASSUME inst.result # NoResult PROVE inst.result \in ValueIds
  <2>1. inst.result \in ResultsOf(Instructions(func, b))
    BY <1>2, <1>7 DEF ResultsOf
  <2>2. inst.result \in Values(func)
    BY <2>1 DEF Values
  <2> QED
    BY <1>1, <2>2, LineFacts DEF Compiled, ValueIds
<1>8. AllIds(inst.operands)
  BY <1>3, <1>5, ArgsAreIds DEF Typed
<1>9. \A e \in ToSet(inst.edges) : e.block \in 1..x.blocks /\ AllIds(e.args)
  BY <1>6, ArgsAreIds
<1>10. Shaped(inst)
  BY <1>3 DEF Typed
<1> QED
  BY <1>7, <1>8, <1>9, <1>10 DEF Ready

(* A block is entered and left at the height of the body. *)
LEMMA BlockRuns ==
    ASSUME Compiled, NEW x, Homes(x), x.blocks = Len(func.blocks),
           NEW words, Framed(x, words), NEW b \in Blocks(func)
    PROVE  /\ Runs(x, BlockCode(b, x.saved, words), x.base, x.base)
           /\ Closed(BlockCode(b, x.saved, words))
<1> DEFINE params == IF b = 1 THEN func.args ELSE Params(func, b)
           insts == Instructions(func, b)
           code_of(i) == Lower(insts[i], x.saved, words) \o Keep(insts[i])
           n == Len(insts)
           ss == [i \in 1..n |-> code_of(i)]
           h == x.base
           g == [k \in Nat |-> h]
<1>1. IRInv /\ WellFormed(func) /\ WellTyped(func) /\ IsSequence(insts)
  BY DEF Compiled, IRInv, FuncInv, WellFormed
<1>2. IsContext(x) /\ h \in Int /\ h >= Len(x.saved)
  BY DEF Homes, IsContext
<1>3. AllIds(params)
  <2>1. params \in Seq(Nat)
    BY <1>1 DEF WellTyped
  <2>2. ToSet(params) \subseteq Values(func)
    BY DEF Values
  <2> QED
    BY <2>1, <2>2, ArgsAreIds
<1>4. Runs(x, Receive(params), h, h)
  BY <1>2, <1>3, ReceivePlain, PlainRuns
<1>5. /\ n \in Nat \ {0}
      /\ \A i \in 1..n : insts[i].op \in Terminators <=> i = n
  <2>1. Terminated(insts)
    BY DEF Compiled, Accepted, Verified
  <2> QED
    BY <1>1, <2>1, TerminatorIsLast
<1>6. IsSequence(ss) /\ Len(ss) = n /\ \A i \in 1..n : ss[i] = code_of(i)
  BY <1>5, FunctionIsSequence
<1>7. ASSUME NEW i \in 1..n
      PROVE  Runs(x, code_of(i), h, h) /\ (insts[i].op \in Terminators => Closed(code_of(i)))
  <2>1. Ready(x, insts[i])
    BY InstructionsReady
  <2> QED
    BY <2>1, LoweredRuns
<1>8. g \in Heights /\ \A k \in Nat : g[k] = h
  BY <1>2 DEF Heights
<1>9. BlockCode(b, x.saved, words) = Receive(params) \o FlattenSeq(ss)
  BY DEF BlockCode
<1>10. n \in 1..n
  BY <1>5
<1>11. (\A i \in 1..n : Runs(x, ss[i], h, h)) /\ Closed(ss[n])
  BY <1>5, <1>6, <1>7, <1>10
<1> HIDE DEF ss, g, n
<1>12. Runs(x, FlattenSeq(ss), h, h)
  <2>1. \A k \in 1..Len(ss) : Runs(x, ss[k], g[k], g[k + 1])
    <3> SUFFICES ASSUME NEW k \in 1..n PROVE Runs(x, ss[k], g[k], g[k + 1])
      BY <1>6
    <3>1. k \in Nat /\ k + 1 \in Nat
      BY <1>5
    <3>2. g[k] = h /\ g[k + 1] = h
      BY <1>8, <3>1
    <3> QED
      BY <1>11, <3>2
  <2>2. Runs(x, FlattenSeq(ss), g[1], g[Len(ss) + 1])
    BY <1>6, <1>8, <2>1, RowsRun
  <2>3. g[1] = h /\ g[n + 1] = h
    BY <1>5, <1>8
  <2> QED
    BY <1>6, <2>2, <2>3
<1>13. Closed(FlattenSeq(ss))
  <2>1. Parts(ss)
    BY <1>6, <1>11 DEF Parts, Runs
  <2> QED
    BY <1>5, <1>6, <1>11, <2>1, ClosedFlat
<1> HIDE DEF h, params
<1>14. IsSequence(Receive(params))
  BY <1>4 DEF Runs
<1> QED
  BY <1>4, <1>9, <1>12, <1>13, <1>14, RunsTogether, ClosedAfter DEF h

-----------------------------------------------------------------------------
(* The code of a function *)

Homed == assignments \in [1..N -> Register \cup {NoReg}]

(* A frame is there only if it has a slot, and a slot only in a frame. *)
Bare == FrameWords = 0 /\ \A v \in ValueIds : RegOf(v) # NoReg /\ SlotOf(v) = 0

ContextOf(saved) ==
    [saved  |-> saved,
     base   |-> Len(saved) + (IF FrameWords > 0 THEN 1 + (FrameWords + (FrameWords % 2)) ELSE 0),
     bare   |-> Bare,
     blocks |-> Len(func.blocks)]

LEMMA WordsAreANumber == IRInv => FrameWords \in Nat
<1> SUFFICES ASSUME IRInv PROVE FrameWords \in Nat
  OBVIOUS
<1>1. compute_max_live(compute_live_ranges(func)) \in Nat
  BY PeakOfRanges DEF Ranges
<1>2. Len(GENERAL_PURPOSE) \in Nat
  BY RegistersAssumption
<1> QED
  BY <1>1, <1>2 DEF FrameWords

(* Every register that is used is saved, and none of them twice. *)
LEMMA SavedAreUsed ==
    ASSUME Homed, NEW saved \in UsedCalleeRegs
    PROVE  /\ IsSequence(saved) /\ Len(saved) \in Nat /\ IsInjective(saved)
           /\ ToSet(saved) \subseteq CALLEE_SAVED
           /\ \A k \in 1..N : assignments[k] \in CALLEE_SAVED => assignments[k] \in ToSet(saved)
<1> DEFINE D == 1..N
           all == {assignments[k] : k \in DOMAIN assignments}
           used == all \cap CALLEE_SAVED
           c == Cardinality(used)
<1>1. DOMAIN assignments = D /\ all = {assignments[k] : k \in D}
  BY DEF Homed
<1>2. IsFiniteSet(D)
  BY ValuesAssumption, FS_Interval
<1> HIDE DEF D
<1>3. assignments \in Surjection(D, all)
  <2>1. assignments \in [D -> all]
    BY <1>1 DEF Homed
  <2> QED
    BY <1>1, <2>1 DEF Surjection
<1>4. IsFiniteSet(all)
  <2> HIDE DEF all
  <2> QED
    BY <1>2, <1>3, FS_Surjection
<1>5. IsFiniteSet(used) /\ c \in Nat
  <2> HIDE DEF all
  <2>1. IsFiniteSet(used)
    BY <1>4, FS_Intersection
  <2> QED
    BY <2>1, FS_CardinalityType
<1>6. saved \in [1..c -> used] /\ IsInjective(saved)
  BY DEF UsedCalleeRegs
<1> HIDE DEF used, c
<1>7. saved \in Injection(1..c, used)
  BY <1>6 DEF Injection, IsInjective
<1>8. Cardinality(1..c) = Cardinality(used)
  <2>1. Cardinality(1..c) = IF 1 > c THEN 0 ELSE c - 1 + 1
    BY <1>5, FS_Interval
  <2>2. (IF 1 > c THEN 0 ELSE c - 1 + 1) = c
    BY <1>5
  <2> QED
    BY <2>1, <2>2 DEF c
<1>9. saved \in Surjection(1..c, used)
  BY <1>5, <1>7, <1>8, FS_Injection
<1>10. \A r \in used : \E k \in 1..c : saved[k] = r
  BY <1>9 DEF Surjection
<1>11. IsSequence(saved) /\ Len(saved) = c /\ ToSet(saved) = used
  <2>1. saved = [k \in 1..c |-> saved[k]] /\ DOMAIN saved = 1..c
    BY <1>6
  <2>2. ToSet(saved) = used
    BY <1>6, <1>10, <2>1 DEF ToSet
  <2>3. IsSequence(saved)
    BY <1>5, <2>1, FunctionIsSequence
  <2> QED
    BY <1>5, <2>1, <2>2, <2>3
<1>12. \A k \in 1..N : assignments[k] \in CALLEE_SAVED => assignments[k] \in used
  BY <1>1 DEF used, D
<1> QED
  BY <1>5, <1>6, <1>11, <1>12 DEF used

LEMMA ContextIs ==
    ASSUME IRInv, func.types = N, Homed, NEW saved \in UsedCalleeRegs
    PROVE  /\ Homes(ContextOf(saved)) /\ Framed(ContextOf(saved), FrameWords)
           /\ ContextOf(saved).saved = saved
           /\ ContextOf(saved).blocks = Len(func.blocks)
           /\ ContextOf(saved).bare = Bare
<1> DEFINE x == ContextOf(saved)
           w == FrameWords
           l == Len(saved)
           f == IF w > 0 THEN 1 + (w + (w % 2)) ELSE 0
<1>1. /\ x.saved = saved /\ x.base = l + f /\ x.bare = Bare /\ x.blocks = Len(func.blocks)
  BY DEF ContextOf
<1>2. IsSequence(saved) /\ l \in Nat /\ w \in Nat /\ Len(func.blocks) \in Nat
  <2>1. IsSequence(func.blocks)
    BY LineFacts DEF WellFormed
  <2> QED
    BY <2>1, SavedAreUsed, WordsAreANumber, SequenceElements
<1>3. Bare \in BOOLEAN /\ (Bare => w = 0)
  BY DEF Bare
<1> HIDE DEF w, l
<1>4. f \in Nat /\ l + f \in Nat /\ l + f >= l /\ (w = 0 => f = 0) /\ (w > 0 => w # 0)
  <2>1. w % 2 \in Nat
    BY <1>2
  <2> QED
    BY <1>2, <2>1
<1> HIDE DEF f, x
<1>5. IsContext(x)
  BY <1>1, <1>2, <1>3, <1>4 DEF IsContext, l
<1>6. \A v \in ValueIds : RegOf(v) # NoReg => Spare(x, RegOf(v))
  <2> SUFFICES ASSUME NEW v \in ValueIds PROVE Spare(x, RegOf(v))
    OBVIOUS
  <2>1. v + 1 \in 1..N
    BY ValuesAssumption DEF ValueIds
  <2>2. RegOf(v) \in CALLEE_SAVED => RegOf(v) \in ToSet(saved)
    BY <2>1, SavedAreUsed DEF RegOf
  <2> QED
    BY <1>1, <2>2 DEF Spare
<1>7. Homes(x)
  BY <1>1, <1>5, <1>6 DEF Homes, Bare
<1>8. Framed(x, w)
  BY <1>1, <1>2, <1>3, <1>4 DEF Framed, f, l
<1> QED
  BY <1>1, <1>7, <1>8 DEF x, w

Prologue(saved, words) ==
    [k \in 1..Len(saved) |-> Push(saved[k])] \o (IF words > 0 THEN <<Enter(words)>> ELSE <<>>)

LEMMA PrologueRuns ==
    ASSUME NEW x, IsContext(x), NEW words, Framed(x, words)
    PROVE  /\ Runs(x, Prologue(x.saved, words), 0, x.base)
           /\ Len(Prologue(x.saved, words)) = Len(x.saved) + IF words > 0 THEN 1 ELSE 0
<1> DEFINE l == Len(x.saved)
           s == [k \in 1..l |-> Push(x.saved[k])]
           i == Enter(words)
           t == IF words > 0 THEN <<i>> ELSE <<>>
           d == [p \in Nat |-> p - 1]
<1>1. l \in Nat /\ x.base \in Nat
  BY SequenceElements DEF IsContext
<1>2. IsSequence(s) /\ Len(s) = l /\ \A k \in 1..l : s[k] = Push(x.saved[k])
  BY <1>1, FunctionIsSequence
<1>3. d \in Heights /\ \A p \in Nat : d[p] = p - 1
  BY DEF Heights
<1> HIDE DEF s, d, l
<1>4. Runs(x, s, 0, l)
  <2>1. ASSUME NEW p \in 1..l
        PROVE  Fits(x, s[p], d[p], d[p + 1]) /\ s[p].op \notin {"jnz", "leave"}
    <3>1. d[p] = p - 1 /\ d[p + 1] = (p - 1) + 1 /\ (p - 1) + 1 = p
      <4>1. p \in Nat /\ p + 1 \in Nat
        BY <1>1
      <4>2. d[p] = p - 1 /\ d[p + 1] = (p + 1) - 1
        BY <1>3, <4>1
      <4> QED
        BY <4>1, <4>2
    <3> QED
      BY <1>2, <3>1 DEF Fits, PushFits, Push
  <2>2. Runs(x, s, d[1], d[Len(s) + 1])
    BY <1>2, <1>3, <2>1, RunsEach
  <2>3. d[1] = 0 /\ d[l + 1] = l
    <3> DEFINE k == l + 1
    <3>1. 1 \in Nat /\ k \in Nat /\ k - 1 = l
      BY <1>1
    <3> HIDE DEF k
    <3>2. d[1] = 1 - 1 /\ d[k] = k - 1
      BY <1>3, <3>1
    <3> QED
      BY <3>1, <3>2 DEF k
  <2> QED
    BY <1>2, <2>2, <2>3
<1>5. Runs(x, t, l, x.base) /\ IsSequence(t) /\ Len(t) = IF words > 0 THEN 1 ELSE 0
  <2>1. CASE words > 0
    <3>1. i.op = "enter" /\ i.words = words
      BY DEF Enter
    <3>2. Fits(x, i, l, x.base)
      <4>1. x.base = l + (1 + (words + (words % 2))) /\ ~x.bare /\ words \in Nat
        BY <2>1 DEF Framed, l
      <4>2. words % 2 \in Nat
        BY <4>1
      <4>3. x.base = l + 1 + (words + (words % 2))
        BY <1>1, <4>1, <4>2
      <4> QED
        BY <3>1, <4>1, <4>3 DEF Fits
    <3> HIDE DEF i
    <3>3. Runs(x, <<i>>, l, x.base)
      BY <1>1, <3>1, <3>2, RunsOne
    <3>4. IsSequence(<<i>>) /\ Len(<<i>>) = 1
      BY EmptySequence, AppendIsConcatenation
    <3> QED
      BY <2>1, <3>3, <3>4
  <2>2. CASE ~(words > 0)
    <3>1. x.base = l
      BY <1>1, <2>2 DEF Framed, l
    <3>2. Runs(x, <<>>, l, l)
      BY <1>1, RunsNone
    <3> QED
      BY <2>2, <3>1, <3>2, EmptySequence
  <2> QED
    BY <2>1, <2>2
<1>6. Prologue(x.saved, words) = s \o t
  BY DEF Prologue, s, l
<1>7. IsSequence(s)
  BY <1>2
<1> HIDE DEF t
<1>8. Len(s \o t) = Len(s) + Len(t)
  BY <1>5, <1>7, ConcatLengths
<1> QED
  BY <1>2, <1>4, <1>5, <1>6, <1>8, RunsTogether DEF l

(* Where code has been laid out, at the heights d. *)
WellBuilt(x, c, d) ==
    /\ IsContext(x) /\ IsInjective(x.saved) /\ ToSet(x.saved) \subseteq CALLEE_SAVED
    /\ d \in Heights /\ Flow(x, c.at, d) /\ Closed(c.at) /\ d[1] = 0
    /\ \A b \in 1..x.blocks : c.block[b] \in 1..Len(c.at) /\ d[c.block[b]] = x.base
    /\ x.base % 2 = 0 <=> (c.block[1] - 1) % 2 = 0

LEMMA CodeIsWellBuilt ==
    ASSUME Compiled, Homed, NEW saved \in UsedCalleeRegs
    PROVE  \E d \in Heights : WellBuilt(ContextOf(saved), CodeOf(saved), d)
<1> DEFINE x == ContextOf(saved)
           words == FrameWords
           m == Len(func.blocks)
           P == Prologue(saved, words)
           l == Len(P)
           ss == [b \in Blocks(func) |-> BlockCode(b, saved, words)]
           rest == FlattenSeq(ss)
           h == x.base
           g == [k \in Nat |-> h]
           c == CodeOf(saved)
<1>1. /\ Homes(x) /\ Framed(x, words) /\ x.saved = saved /\ x.blocks = m
      /\ IsContext(x) /\ h \in Nat
  BY ContextIs DEF Compiled, Homes, IsContext
<1>2. m \in Nat \ {0} /\ Blocks(func) = 1..m
  BY LineFacts, SequenceElements, EmptySequence, SameElements DEF Compiled, WellFormed, Blocks
<1>3. IsSequence(ss) /\ Len(ss) = m /\ \A b \in 1..m : ss[b] = BlockCode(b, saved, words)
  BY <1>2, FunctionIsSequence
<1>4. ASSUME NEW b \in 1..m PROVE Runs(x, ss[b], h, h) /\ Closed(ss[b])
  BY <1>1, <1>2, <1>3, BlockRuns
<1>5. /\ c.at = P \o rest
      /\ \A b \in 1..m : c.block[b] = 1 + l + Offset(ss, b - 1)
  BY <1>2 DEF CodeOf, Prologue, Offset, Joined
<1>6. Runs(x, P, 0, h) /\ l = Len(saved) + IF words > 0 THEN 1 ELSE 0
  BY <1>1, PrologueRuns
<1>7. g \in Heights /\ \A k \in Nat : g[k] = h
  BY <1>1 DEF Heights
<1> HIDE DEF x, words, m, P, l, ss, rest, h, g, c
<1>8. \A k \in 1..Len(ss) : Runs(x, ss[k], g[k], g[k + 1])
  <2> SUFFICES ASSUME NEW k \in 1..m PROVE Runs(x, ss[k], g[k], g[k + 1])
    BY <1>3
  <2>1. k \in Nat /\ k + 1 \in Nat
    BY <1>2
  <2>2. g[k] = h /\ g[k + 1] = h
    BY <1>7, <2>1
  <2> QED
    BY <1>4, <2>2
<1>9. Parts(ss)
  BY <1>3, <1>7, <1>8, RowsFlow
<1>10. PICK e \in Heights : Entered(x, ss, g, e)
  BY <1>3, <1>7, <1>8, RowsFlow
<1>11. Flow(x, rest, e) /\ \A k \in 0..m : e[Offset(ss, k) + 1] = h
  <2>1. Flow(x, rest, e) /\ \A k \in 0..m : e[Offset(ss, k) + 1] = g[k + 1]
    BY <1>3, <1>10 DEF Entered, rest
  <2>2. \A k \in 0..m : k + 1 \in Nat
    BY <1>2
  <2> QED
    BY <1>7, <2>1, <2>2
<1>12. IsSequence(rest) /\ Len(rest) = Offset(ss, m) /\ Offset(ss, 0) = 0 /\ Closed(rest)
  <2>1. Offset(ss, 0) = 0
    BY <1>3, JoinedNone, EmptySequence DEF Offset
  <2>2. Closed(rest)
    <3>1. m \in 1..m
      BY <1>2
    <3> QED
      BY <1>2, <1>3, <1>4, <1>9, <3>1, ClosedFlat DEF rest
  <2> QED
    BY <1>3, <1>9, <2>1, <2>2, FlattenJoins DEF rest
<1>13. PICK p \in Heights : Flow(x, P, p) /\ p[1] = 0 /\ p[l + 1] = h
  BY <1>6 DEF Runs, l
<1>14. IsSequence(P) /\ l \in Nat
  BY <1>6, SequenceElements DEF Runs, l
<1>15. e[1] = h
  <2>1. 0 \in 0..m /\ 0 + 1 = 1
    BY <1>2
  <2> QED
    BY <1>11, <1>12, <2>1
<1> DEFINE d == Then(p, e, l)
<1>16. Flow(x, c.at, d)
  <2>1. p[Len(P) + 1] = e[1]
    BY <1>13, <1>15 DEF l
  <2>2. Flow(x, P \o rest, Then(p, e, Len(P)))
    BY <1>11, <1>12, <1>13, <1>14, <2>1, FlowTogether
  <2> QED
    BY <1>5, <2>2 DEF l
<1>17. /\ d \in Heights
       /\ \A q \in 1..(l + 1) : d[q] = p[q]
       /\ \A q \in Nat \ {0} : d[l + q] = e[q]
  <2>1. p[l + 1] = e[1]
    BY <1>13, <1>15
  <2> QED
    BY <1>14, <2>1, ThenIs
<1> HIDE DEF d
<1>18. d[1] = 0
  <2>1. 1 \in 1..(l + 1)
    BY <1>14
  <2> QED
    BY <1>13, <1>17, <2>1
<1>19. Closed(c.at) /\ Len(c.at) = l + Offset(ss, m)
  <2>1. Closed(P \o rest)
    BY <1>12, <1>14, ClosedAfter
  <2>2. Len(P \o rest) = Len(P) + Len(rest)
    BY <1>12, <1>14, ConcatLengths
  <2> QED
    BY <1>5, <1>12, <2>1, <2>2 DEF l
<1>20. ASSUME NEW b \in 1..m
       PROVE  c.block[b] \in 1..Len(c.at) /\ d[c.block[b]] = h
  <2> DEFINE o == Offset(ss, b - 1)
             k == b - 1
             z == Offset(ss, m)
  <2>1. k \in 0..m /\ b \in 0..m /\ m \in 0..m
    BY <1>2
  <2>2. 1 \in 1..Len(ss[b])
    <3>1. Len(ss[b]) \in Nat /\ Len(ss[b]) # 0
      BY <1>4, SequenceElements DEF Closed
    <3> QED
      BY <3>1
  <2>3. o \in Nat /\ z \in Nat
    <3>1. JoinedWell(ss, k) /\ JoinedWell(ss, m)
      <4> HIDE DEF k
      <4> QED
        BY <1>3, <1>9, <2>1, JoinedParts
    <3> QED
      BY <3>1 DEF JoinedWell
  <2>4. o + 1 \in 1..z
    <3>1. EachPlaced(ss, m)
      BY <1>3, <1>9, <2>1, JoinedPlaces
    <3> QED
      BY <2>2, <3>1 DEF EachPlaced
  <2>5. e[o + 1] = h
    <3>1. e[Offset(ss, k) + 1] = h
      <4> HIDE DEF k, o
      <4> QED
        BY <1>11, <2>1
    <3> QED
      BY <3>1
  <2>6. c.block[b] = 1 + l + o
    BY <1>5
  <2> HIDE DEF o, k, z
  <2>7. 1 + l + o = l + (o + 1) /\ o + 1 \in Nat \ {0} /\ 1 + l + o \in 1..(l + z)
    BY <1>14, <2>3, <2>4
  <2> QED
    BY <1>17, <1>19, <2>5, <2>6, <2>7 DEF z
<1>21. h % 2 = 0 <=> (c.block[1] - 1) % 2 = 0
  <2>1. c.block[1] - 1 = l
    <3>1. 1 \in 1..m
      BY <1>2
    <3>2. c.block[1] = 1 + l + Offset(ss, 1 - 1) /\ 1 - 1 = 0
      BY <1>5, <3>1
    <3> QED
      BY <1>12, <1>14, <3>2
  <2> DEFINE a == Len(saved)
  <2>2. a \in Nat /\ words \in Nat
    BY <1>1, SequenceElements DEF IsContext, Framed
  <2>3. h = a + (IF words > 0 THEN 1 + (words + (words % 2)) ELSE 0)
    BY <1>1 DEF Framed, h
  <2>4. l = a + IF words > 0 THEN 1 ELSE 0
    BY <1>6
  <2> HIDE DEF a
  <2>5. (words + (words % 2)) % 2 = 0 /\ words % 2 \in Nat
    BY <2>2
  <2>6. h % 2 = l % 2
    BY <2>2, <2>3, <2>4, <2>5
  <2> QED
    BY <2>1, <2>6
<1>22. IsInjective(x.saved) /\ ToSet(x.saved) \subseteq CALLEE_SAVED
  BY <1>1, SavedAreUsed
<1> QED
  BY <1>1, <1>16, <1>17, <1>18, <1>19, <1>20, <1>21, <1>22 DEF WellBuilt, x, h, c

-----------------------------------------------------------------------------
(* The code at run time *)

(* What the caller had in the registers it wants back. *)
Original(r) == IF r = rbp THEN Address(CallerFrame) ELSE Saved(r)

(* The words of the stack above the height h that the return relies on. *)
StackKept(x, h) ==
    /\ 0 \in DOMAIN mem /\ mem[0] = ReturnAddress
    /\ \A k \in 1..Least(h, Len(x.saved)) : -k \in DOMAIN mem /\ mem[-k] = Original(x.saved[k])

(* A register that is to be given back is as it was, or on the stack. *)
RegistersKept(x, h) ==
    \A r \in CALLEE_SAVED : \/ regs[r] = Original(r)
                            \/ \E k \in 1..Least(h, Len(x.saved)) : x.saved[k] = r

(* Where the machine is in the code, and how high its stack. *)
Underway(x, d) ==
    /\ pc \in 1..Len(code.at)
    /\ sp = -d[pc] \/ (code.at[pc].op = "ret" /\ ~x.bare)
    /\ x.bare => d[pc] >= 0 /\ StackKept(x, d[pc]) /\ RegistersKept(x, d[pc]) /\ strayed = FALSE

RunTime(x, d) ==
    /\ WellBuilt(x, code, d)
    /\ status = "running" => Underway(x, d)
    /\ status \in {"returned", "lost"} /\ x.bare => CallerAsItWas

LEMMA OriginalIsNoValue ==
    /\ \A r, v : Original(r) # Value(v)
    /\ \A v : ReturnAddress # Value(v)
<1>1. "address" # "value" /\ "saved" # "value" /\ "return" # "value"
  OBVIOUS
<1> QED
  BY <1>1 DEF Original, Address, Saved, Value, ReturnAddress

LEMMA NowFits ==
    ASSUME NEW x, NEW d, RunTime(x, d), status = "running"
    PROVE  /\ IsContext(x) /\ Len(x.saved) \in Nat /\ x.base \in Nat /\ x.base >= Len(x.saved)
           /\ pc \in Nat /\ pc \in 1..Len(code.at) /\ Len(code.at) \in Nat
           /\ d[pc] \in Int /\ d[pc + 1] \in Int
           /\ Fits(x, Now, d[pc], d[pc + 1])
           /\ Now.op \notin {"jmp", "ret"} => pc + 1 \in 1..Len(code.at)
           /\ Now.op = "jnz" => /\ pc + 1 + Now.over \in 1..Len(code.at)
                                /\ d[pc + 1 + Now.over] = d[pc]
           /\ Now.op = "leave" => code.at[pc + 1].op = "ret"
<1>1. /\ IsContext(x) /\ d \in Heights /\ Flow(x, code.at, d) /\ Closed(code.at)
      /\ pc \in 1..Len(code.at)
  BY DEF RunTime, WellBuilt, Underway
<1>2. Len(code.at) \in Nat /\ code.at[Len(code.at)].op \in {"jmp", "ret"}
  BY <1>1, SequenceElements DEF Closed
<1>3. pc \in Nat /\ pc + 1 \in Nat /\ pc >= 1
  BY <1>1, <1>2
<1>4. d[pc] \in Int /\ d[pc + 1] \in Int
  BY <1>1, <1>3 DEF Heights
<1>5. Len(x.saved) \in Nat /\ x.base \in Nat /\ x.base >= Len(x.saved)
  BY <1>1, SequenceElements DEF IsContext
<1>6. /\ Fits(x, Now, d[pc], d[pc + 1])
      /\ Now.op = "jnz" => /\ Now.over \in Nat /\ pc + 1 + Now.over <= Len(code.at)
                           /\ d[pc + 1 + Now.over] = d[pc]
      /\ Now.op = "leave" => code.at[pc + 1].op = "ret"
  BY <1>1 DEF Flow, Now
<1>7. ASSUME Now.op \notin {"jmp", "ret"} PROVE pc + 1 \in 1..Len(code.at)
  <2>1. pc # Len(code.at)
    BY <1>2, <1>7 DEF Now
  <2> QED
    BY <1>1, <1>2, <1>3, <2>1
<1>8. ASSUME Now.op = "jnz"
      PROVE  pc + 1 + Now.over \in 1..Len(code.at) /\ d[pc + 1 + Now.over] = d[pc]
  <2> DEFINE o == Now.over
  <2>1. o \in Nat /\ pc + 1 + o <= Len(code.at)
    BY <1>6, <1>8
  <2> HIDE DEF o
  <2>2. pc + 1 + o \in 1..Len(code.at)
    BY <1>2, <1>3, <2>1
  <2> QED
    BY <1>6, <1>8, <2>2 DEF o
<1> QED
  BY <1>1, <1>2, <1>3, <1>4, <1>5, <1>6, <1>7, <1>8

(* The registers that are not the caller's may be written in the body. *)
LEMMA SpareWrite ==
    ASSUME NEW x, IsContext(x), NEW h \in Int, h >= Len(x.saved),
           NEW dst, Spare(x, dst), RegistersKept(x, h),
           \A r \in CALLEE_SAVED : r # dst /\ regs[r] = Original(r) => regs'[r] = regs[r]
    PROVE  RegistersKept(x, h)'
<1>1. Len(x.saved) \in Nat
  BY SequenceElements DEF IsContext
<1>2. Least(h, Len(x.saved)) = Len(x.saved)
  BY <1>1 DEF Least
<1>3. dst \in CALLEE_SAVED => \E k \in 1..Len(x.saved) : x.saved[k] = dst
  BY SequenceElements DEF Spare, IsContext
<1>4. ASSUME NEW r \in CALLEE_SAVED
      PROVE  regs'[r] = Original(r) \/ \E k \in 1..Least(h, Len(x.saved)) : x.saved[k] = r
  BY <1>2, <1>3 DEF RegistersKept
<1> QED
  BY <1>4 DEF RegistersKept

(* Words that do not change where it matters are kept. *)
LEMMA SameStack ==
    ASSUME NEW x, NEW h, StackKept(x, h),
           \A a \in DOMAIN mem :
             /\ a = 0 \/ \E k \in 1..Least(h, Len(x.saved)) : a = -k
             /\ \A v : mem[a] # Value(v)
             => a \in DOMAIN mem' /\ mem'[a] = mem[a]
    PROVE  StackKept(x, h)'
<1>1. 0 \in DOMAIN mem' /\ mem'[0] = ReturnAddress
  BY OriginalIsNoValue DEF StackKept
<1>2. ASSUME NEW k \in 1..Least(h, Len(x.saved))
      PROVE  -k \in DOMAIN mem' /\ mem'[-k] = Original(x.saved[k])
  <2>1. -k \in DOMAIN mem /\ mem[-k] = Original(x.saved[k])
    BY DEF StackKept
  <2> QED
    BY <2>1, OriginalIsNoValue
<1> QED
  BY <1>1, <1>2 DEF StackKept

(* Forgetting values leaves what is not a value. *)
LEMMA ForgetKeeps ==
    ASSUME NEW w, NEW ids, NEW a \in DOMAIN w, \A v : w[a] # Value(v)
    PROVE  Forget(w, ids)[a] = w[a] /\ DOMAIN Forget(w, ids) = DOMAIN w
BY DEF Forget

(* One step on, at the height k that the code says. *)
LEMMA GoesOn ==
    ASSUME NEW x, NEW d, RunTime(x, d), status = "running",
           NEW k \in Int, d[pc + 1] = k,
           pc' = pc + 1, code' = code, status' = status, Now.op \notin {"jmp", "ret"},
           sp' = -k \/ (code.at[pc + 1].op = "ret" /\ ~x.bare),
           x.bare => k >= 0 /\ StackKept(x, k)' /\ RegistersKept(x, k)' /\ strayed' = FALSE
    PROVE  RunTime(x, d)'
<1>1. pc' \in 1..Len(code'.at)
  BY NowFits
<1>2. d[pc'] = k /\ (sp' = -d[pc'] \/ (code'.at[pc'].op = "ret" /\ ~x.bare))
  OBVIOUS
<1>3. x.bare => d[pc'] >= 0 /\ StackKept(x, d[pc])' /\ RegistersKept(x, d[pc])' /\ strayed' = FALSE
  BY <1>2 DEF StackKept, RegistersKept
<1>4. Underway(x, d)'
  BY <1>1, <1>2, <1>3 DEF Underway
<1>5. WellBuilt(x, code, d)'
  BY DEF RunTime, WellBuilt
<1> QED
  BY <1>4, <1>5 DEF RunTime

(* What an instruction that only writes a register, or nothing, leaves alone. *)
LEMMA PlainKeeps ==
    ASSUME NEW x, NEW d, RunTime(x, d), status = "running",
           NEW h, h = d[pc], PlainFits(x, Now), d[pc + 1] = h, h >= Len(x.saved),
           pc' = pc + 1, code' = code, status' = status, sp' = sp,
           x.bare => strayed' = strayed /\ StackKept(x, h)' /\ RegistersKept(x, h)'
    PROVE  RunTime(x, d)'
<1>1. h \in Int /\ Now.op \notin {"jmp", "ret"} /\ Now = code.at[pc]
  BY NowFits DEF PlainFits, Now
<1>2. sp = -h /\ (x.bare => h >= 0 /\ strayed = FALSE)
  BY <1>1 DEF RunTime, Underway
<1> QED
  BY <1>1, <1>2, GoesOn

LEMMA PlainStep ==
    ASSUME NEW x, NEW d, RunTime(x, d), status = "running", DOMAIN regs = Register,
           DoMov \/ DoLoadSlot \/ DoStoreSlot \/ DoCompute \/ DoClobber \/ DoStoreMem
    PROVE  RunTime(x, d)'
<1>1. PICK h : h = d[pc]
  OBVIOUS
<1>2. /\ IsContext(x) /\ h \in Int /\ Len(x.saved) \in Nat
      /\ Fits(x, Now, h, d[pc + 1])
  BY <1>1, NowFits
<1>3. /\ Now.op \in {"mov", "load_slot", "store_slot", "compute", "clobber", "store_mem"}
      /\ pc' = pc + 1 /\ code' = code /\ status' = status /\ sp' = sp
  BY DEF DoMov, DoLoadSlot, DoStoreSlot, DoCompute, DoClobber, DoStoreMem, At, Go, Now
<1>4. PlainFits(x, Now) /\ d[pc + 1] = h /\ h >= Len(x.saved)
  BY <1>2, <1>3 DEF Fits, PushFits, PopFits
<1>5. ASSUME x.bare PROVE strayed' = strayed /\ StackKept(x, h)' /\ RegistersKept(x, h)'
  <2>1. /\ Now.op \notin {"load_slot", "store_slot"}
        /\ Now.op \in {"mov", "compute", "clobber"} => Spare(x, Now.dst)
    BY <1>4, <1>5 DEF PlainFits
  <2>2. StackKept(x, h) /\ RegistersKept(x, h)
    BY <1>1, <1>5 DEF RunTime, Underway
  <2>3. CASE DoMov \/ DoClobber
    <3>1. /\ strayed' = strayed /\ mem' = mem
          /\ \A r \in Register : r # Now.dst => regs'[r] = regs[r]
          /\ Spare(x, Now.dst)
      BY <2>1, <2>3 DEF DoMov, DoClobber, At, Now
    <3>2. StackKept(x, h)'
      BY <2>2, <3>1 DEF StackKept
    <3>3. CALLEE_SAVED \subseteq Register
      BY DEF Register
    <3>4. PICK dst : dst = Now.dst
      OBVIOUS
    <3>5. \A r \in CALLEE_SAVED : r # dst /\ regs[r] = Original(r) => regs'[r] = regs[r]
      BY <3>1, <3>3, <3>4
    <3>6. RegistersKept(x, h)'
      BY <1>2, <1>4, <2>2, <3>1, <3>4, <3>5, SpareWrite
    <3> QED
      BY <3>1, <3>2, <3>6
  <2>4. CASE DoCompute
    <3>1. /\ strayed' = strayed /\ mem' = Forget(mem, {Now.value})
          /\ \A r \in Register : r # Now.dst => regs'[r] = Forget(regs, {Now.value})[r]
          /\ Spare(x, Now.dst)
      <4>1. DOMAIN Forget(regs, {Now.value}) = Register
        BY DEF Forget
      <4> QED
        BY <2>1, <2>4, <4>1 DEF DoCompute, At, Now
    <3>2. StackKept(x, h)'
      BY <2>2, <3>1, SameStack, ForgetKeeps
    <3>3. CALLEE_SAVED \subseteq Register
      BY DEF Register
    <3>4. PICK dst : dst = Now.dst
      OBVIOUS
    <3>5. ASSUME NEW r \in CALLEE_SAVED, r # dst, regs[r] = Original(r) PROVE regs'[r] = regs[r]
      <4>1. Forget(regs, {Now.value})[r] = regs[r]
        BY <3>3, <3>5, OriginalIsNoValue, ForgetKeeps
      <4> QED
        BY <3>1, <3>3, <3>4, <3>5, <4>1
    <3>6. RegistersKept(x, h)'
      BY <1>2, <1>4, <2>2, <3>1, <3>4, <3>5, SpareWrite
    <3> QED
      BY <3>1, <3>2, <3>6
  <2>5. CASE DoStoreMem
    <3>1. strayed' = strayed /\ mem' = mem /\ regs' = regs
      BY <2>5 DEF DoStoreMem
    <3> QED
      BY <2>2, <3>1 DEF StackKept, RegistersKept
  <2>6. CASE DoLoadSlot \/ DoStoreSlot
    BY <2>1, <2>6 DEF DoLoadSlot, DoStoreSlot, At, Now
  <2> QED
    BY <2>3, <2>4, <2>5, <2>6
<1> QED
  BY <1>1, <1>3, <1>4, <1>5, PlainKeeps

LEMMA PushStep ==
    ASSUME NEW x, NEW d, RunTime(x, d), status = "running", DoPush
    PROVE  RunTime(x, d)'
<1>1. PICK h : h = d[pc]
  OBVIOUS
<1>2. /\ IsContext(x) /\ h \in Int /\ Len(x.saved) \in Nat
      /\ Fits(x, Now, h, d[pc + 1]) /\ Now = code.at[pc]
  BY <1>1, NowFits DEF Now
<1>3. /\ Now.op = "push" /\ pc' = pc + 1 /\ code' = code /\ status' = status
      /\ sp' = sp - 1 /\ mem' = WithWord(sp - 1, regs[Now.src]) /\ regs' = regs /\ strayed' = strayed
  BY DEF DoPush, At, Go, Now
<1>4. PushFits(x, Now, h) /\ d[pc + 1] = h + 1
  BY <1>2, <1>3 DEF Fits, PlainFits, PopFits
<1>5. sp = -h /\ sp' = -(h + 1)
  <2>1. sp = -h
    BY <1>1, <1>2, <1>3 DEF RunTime, Underway
  <2> QED
    BY <1>2, <1>3, <2>1
<1>6. ASSUME x.bare
      PROVE  h + 1 >= 0 /\ StackKept(x, h + 1)' /\ RegistersKept(x, h + 1)' /\ strayed' = FALSE
  <2> DEFINE l == Len(x.saved)
             a == sp - 1
             n == Least(h, l)
             m == Least(h + 1, l)
  <2>1. h >= 0 /\ StackKept(x, h) /\ RegistersKept(x, h) /\ strayed = FALSE
    BY <1>1, <1>6 DEF RunTime, Underway
  <2>2. a = -(h + 1) /\ a \in Int
    BY <1>2, <1>5
  <2>3. /\ n \in Nat /\ m \in Nat /\ n <= h /\ n <= m /\ m <= l
        /\ \A k \in 1..m : k \in 1..n \/ (k = h + 1 /\ h < l /\ n = h)
    BY <1>2, <2>1 DEF Least
  <2>4. \A b \in DOMAIN mem : b # a => b \in DOMAIN mem' /\ mem'[b] = mem[b]
    BY <1>3 DEF WithWord
  <2>5. a \in DOMAIN mem' /\ mem'[a] = regs[Now.src]
    BY <1>3 DEF WithWord
  <2>6. 0 \in DOMAIN mem' /\ mem'[0] = ReturnAddress
    <3>1. 0 # a
      BY <1>2, <2>1, <2>2
    <3> QED
      BY <2>1, <2>4, <3>1 DEF StackKept
  <2>7. ASSUME NEW k \in 1..m PROVE -k \in DOMAIN mem' /\ mem'[-k] = Original(x.saved[k])
    <3>1. CASE k \in 1..n
      <4>1. -k # a
        BY <1>2, <2>2, <2>3, <3>1
      <4>2. -k \in DOMAIN mem /\ mem[-k] = Original(x.saved[k])
        BY <2>1, <3>1 DEF StackKept
      <4> QED
        BY <2>4, <4>1, <4>2
    <3>2. CASE k = h + 1 /\ h < l /\ n = h
      <4>1. Now.src = x.saved[k]
        BY <1>4, <1>6, <3>2 DEF PushFits
      <4>2. k \in 1..l /\ IsInjective(x.saved) /\ DOMAIN x.saved = 1..l
        BY <1>2, <2>1, <3>2, SequenceElements DEF RunTime, WellBuilt, IsContext
      <4>3. x.saved[k] \in CALLEE_SAVED
        BY <1>2, <4>2, SequenceElements DEF RunTime, WellBuilt, IsContext
      <4>4. \A j \in 1..n : x.saved[j] # x.saved[k]
        <5>1. \A j \in 1..n : j # k /\ j \in 1..l
          BY <1>2, <2>1, <3>2, <4>2
        <5> QED
          BY <4>2, <5>1 DEF IsInjective
      <4>5. regs[x.saved[k]] = Original(x.saved[k])
        BY <2>1, <4>3, <4>4 DEF RegistersKept
      <4>6. -k = a
        BY <2>2, <3>2
      <4> QED
        BY <2>5, <4>1, <4>5, <4>6
    <3> QED
      BY <2>3, <3>1, <3>2
  <2>8. RegistersKept(x, h + 1)'
    <3>1. \A k \in 1..n : k \in 1..m
      BY <2>3
    <3> QED
      BY <1>3, <2>1, <3>1 DEF RegistersKept
  <2> QED
    BY <1>2, <1>3, <2>1, <2>6, <2>7, <2>8 DEF StackKept
<1>7. h + 1 \in Int
  BY <1>2
<1> QED
  BY <1>3, <1>4, <1>5, <1>6, <1>7, GoesOn

LEMMA PopStep ==
    ASSUME NEW x, NEW d, RunTime(x, d), status = "running", DOMAIN regs = Register, DoPop
    PROVE  RunTime(x, d)'
<1>1. PICK h : h = d[pc]
  OBVIOUS
<1>2. /\ IsContext(x) /\ h \in Int /\ Len(x.saved) \in Nat
      /\ Fits(x, Now, h, d[pc + 1]) /\ Now = code.at[pc]
  BY <1>1, NowFits DEF Now
<1>3. /\ Now.op = "pop" /\ pc' = pc + 1 /\ code' = code /\ status' = status
      /\ sp' = sp + 1 /\ regs' = [regs EXCEPT ![Now.dst] = Word(sp)] /\ mem' = mem /\ strayed' = strayed
  BY DEF DoPop, At, Go, Now
<1>4. PopFits(x, Now, h) /\ d[pc + 1] = h - 1
  BY <1>2, <1>3 DEF Fits, PlainFits, PushFits
<1>5. sp = -h /\ sp' = -(h - 1)
  <2>1. sp = -h
    BY <1>1, <1>2, <1>3 DEF RunTime, Underway
  <2> QED
    BY <1>2, <1>3, <2>1
<1>6. ASSUME x.bare
      PROVE  h - 1 >= 0 /\ StackKept(x, h - 1)' /\ RegistersKept(x, h - 1)' /\ strayed' = FALSE
  <2> DEFINE l == Len(x.saved)
             n == Least(h, l)
             m == Least(h - 1, l)
             dst == Now.dst
  <2>1. h >= 0 /\ StackKept(x, h) /\ RegistersKept(x, h) /\ strayed = FALSE
    BY <1>1, <1>6 DEF RunTime, Underway
  <2>2. /\ h <= l => h >= 1 /\ dst = x.saved[h]
        /\ ~(h <= l) => dst \notin CALLEE_SAVED
    BY <1>4, <1>6 DEF PopFits
  <2>3. h - 1 >= 0
    BY <1>2, <2>2
  <2>4. /\ \A k \in 1..m : k \in 1..n
        /\ \A k \in 1..n : k \in 1..m \/ (h <= l /\ k = h)
        /\ h <= l => h \in 1..n
    BY <1>2, <2>3 DEF Least
  <2> HIDE DEF n, m, l, dst
  <2>5. StackKept(x, h - 1)'
    <3>1. 0 \in DOMAIN mem /\ mem[0] = ReturnAddress
          /\ \A k \in 1..n : -k \in DOMAIN mem /\ mem[-k] = Original(x.saved[k])
      BY <2>1 DEF StackKept, n, l
    <3> QED
      BY <1>3, <2>4, <3>1 DEF StackKept, m, l
  <2>6. ASSUME NEW r \in CALLEE_SAVED
        PROVE  regs'[r] = Original(r) \/ \E k \in 1..m : x.saved[k] = r
    <3>1. r \in Register
      BY DEF Register
    <3>2. regs[r] = Original(r) \/ \E k \in 1..n : x.saved[k] = r
      BY <2>1 DEF RegistersKept, n, l
    <3>3. CASE r = dst
      <4>1. h <= l /\ dst = x.saved[h] /\ h \in 1..n
        BY <2>2, <2>4, <3>3
      <4>2. regs'[r] = Word(-h)
        BY <1>3, <1>5, <3>1, <3>3 DEF dst
      <4>3. -h \in DOMAIN mem /\ mem[-h] = Original(x.saved[h])
        BY <2>1, <4>1 DEF StackKept, n, l
      <4> QED
        BY <3>3, <4>1, <4>2, <4>3 DEF Word
    <3>4. CASE r # dst
      <4>1. regs'[r] = regs[r]
        BY <1>3, <3>1, <3>4 DEF dst
      <4> QED
        BY <2>2, <2>4, <3>2, <3>4, <4>1
    <3> QED
      BY <3>3, <3>4
  <2>7. RegistersKept(x, h - 1)'
    BY <2>6 DEF RegistersKept, m, l
  <2> QED
    BY <1>3, <2>1, <2>3, <2>5, <2>7
<1>7. h - 1 \in Int
  BY <1>2
<1> QED
  BY <1>3, <1>4, <1>5, <1>6, <1>7, GoesOn


(* A callee gives its registers back too, and leaves what lies above. *)
LEMMA CallStep ==
    ASSUME NEW x, NEW d, RunTime(x, d), status = "running", DOMAIN regs = Register, DoCall
    PROVE  RunTime(x, d)'
<1>1. PICK h : h = d[pc]
  OBVIOUS
<1>2. /\ IsContext(x) /\ h \in Int /\ Len(x.saved) \in Nat
      /\ Fits(x, Now, h, d[pc + 1]) /\ Now = code.at[pc] /\ x.base >= Len(x.saved)
  BY <1>1, NowFits DEF Now
<1>3. PICK v : v = Now.value
  OBVIOUS
<1>4. /\ Now.op = "call" /\ pc' = pc + 1 /\ code' = code /\ status' = status
      /\ sp' = sp /\ strayed' = strayed
      /\ regs' = [r \in Register |->
                    IF r = rax THEN Value(v)
                    ELSE IF r \in CALLEE_SAVED THEN Forget(regs, {v})[r] ELSE Junk]
      /\ mem' = Forget([a \in {b \in DOMAIN mem : b >= sp - CallWords} |-> mem[a]], {v})
  BY <1>3 DEF DoCall, At, Go, Now
<1>5. d[pc + 1] = h /\ h >= 0
  <2>1. d[pc + 1] = h /\ h = x.base
    BY <1>2, <1>4 DEF Fits, PlainFits, PushFits, PopFits
  <2> QED
    BY <1>2, <2>1 DEF IsContext
<1>6. sp = -h
  BY <1>1, <1>2, <1>4 DEF RunTime, Underway
<1>7. ASSUME x.bare PROVE StackKept(x, h)' /\ RegistersKept(x, h)' /\ strayed' = FALSE
  <2> DEFINE n == Least(h, Len(x.saved))
             kept == [a \in {b \in DOMAIN mem : b >= sp - CallWords} |-> mem[a]]
  <2>1. StackKept(x, h) /\ RegistersKept(x, h) /\ strayed = FALSE
    BY <1>1, <1>7 DEF RunTime, Underway
  <2>2. n \in Nat /\ n <= h
    BY <1>2, <1>5 DEF Least
  <2>3. 0 >= sp - CallWords /\ \A k \in 1..n : -k >= sp - CallWords
    <3> HIDE DEF n
    <3> QED
      BY <1>2, <1>5, <1>6, <2>2 DEF CallWords
  <2>4. \A a \in DOMAIN mem : a >= sp - CallWords => a \in DOMAIN kept /\ kept[a] = mem[a]
    OBVIOUS
  <2>5. mem' = Forget(kept, {v})
    BY <1>4
  <2> HIDE DEF kept
  <2>6. ASSUME NEW a \in DOMAIN mem, a = 0 \/ \E k \in 1..n : a = -k, \A u : mem[a] # Value(u)
        PROVE  a \in DOMAIN mem' /\ mem'[a] = mem[a]
    <3>1. a \in DOMAIN kept /\ kept[a] = mem[a]
      BY <2>3, <2>4, <2>6
    <3>2. Forget(kept, {v})[a] = kept[a] /\ DOMAIN Forget(kept, {v}) = DOMAIN kept
      BY <2>6, <3>1, ForgetKeeps
    <3> QED
      BY <2>5, <3>1, <3>2
  <2>7. StackKept(x, h)'
    BY <2>1, <2>6, SameStack
  <2>8. ASSUME NEW r \in CALLEE_SAVED, regs[r] = Original(r) PROVE regs'[r] = regs[r]
    <3>1. r \in DOMAIN regs /\ r \in Register /\ r # rax
      BY ConventionAssumption DEF Register
    <3>2. Forget(regs, {v})[r] = regs[r]
      BY <2>8, <3>1, OriginalIsNoValue, ForgetKeeps
    <3> QED
      BY <1>4, <3>1, <3>2
  <2>9. RegistersKept(x, h)'
    BY <2>1, <2>8 DEF RegistersKept
  <2> QED
    BY <1>4, <2>1, <2>7, <2>9
<1> QED
  BY <1>2, <1>4, <1>5, <1>6, <1>7, GoesOn

(* Another place, at the same height, and nothing else. *)
LEMMA JnzStep ==
    ASSUME NEW x, NEW d, RunTime(x, d), status = "running", DoJnz
    PROVE  RunTime(x, d)'
<1>1. PICK h : h = d[pc]
  OBVIOUS
<1>2. /\ Now.op = "jnz" /\ Now = code.at[pc]
      /\ pc' \in {pc + 1, pc + 1 + Now.over}
      /\ code' = code /\ regs' = regs /\ sp' = sp /\ mem' = mem
      /\ strayed' = strayed /\ status' = status
  BY DEF DoJnz, At, Now
<1>3. Fits(x, Now, h, d[pc + 1])
  BY <1>1, NowFits
<1>4. d[pc + 1] = h
  BY <1>2, <1>3 DEF Fits, PlainFits, PushFits, PopFits
<1>5. pc + 1 \in 1..Len(code.at) /\ pc + 1 + Now.over \in 1..Len(code.at) /\ d[pc + 1 + Now.over] = h
  BY <1>1, <1>2, NowFits
<1>6. pc' \in 1..Len(code'.at) /\ d[pc'] = h
  BY <1>2, <1>4, <1>5
<1>7. /\ sp = -h
      /\ x.bare => h >= 0 /\ StackKept(x, h) /\ RegistersKept(x, h) /\ strayed = FALSE
  BY <1>1, <1>2 DEF RunTime, Underway
<1>8. x.bare => StackKept(x, h)' /\ RegistersKept(x, h)'
  BY <1>2, <1>7 DEF StackKept, RegistersKept
<1>9. Underway(x, d)'
  <2>1. x.bare => d[pc'] >= 0 /\ StackKept(x, d[pc])' /\ RegistersKept(x, d[pc])' /\ strayed' = FALSE
    BY <1>2, <1>6, <1>7, <1>8 DEF StackKept, RegistersKept
  <2> QED
    BY <1>2, <1>6, <1>7, <2>1 DEF Underway
<1>10. WellBuilt(x, code, d)'
  BY <1>2 DEF RunTime, WellBuilt
<1> QED
  BY <1>2, <1>9, <1>10 DEF RunTime

(* To the beginning of a block; parameters come in registers that are not saved. *)
LEMMA JmpStep ==
    ASSUME NEW x, NEW d, RunTime(x, d), status = "running", DOMAIN regs = Register, DoJmp
    PROVE  RunTime(x, d)'
<1>1. PICK h : h = d[pc]
  OBVIOUS
<1>2. PICK b : b = Now.block
  OBVIOUS
<1>3. PICK new : new = {Now.params[k] : k \in 1..Len(Now.params)}
  OBVIOUS
<1>4. /\ Now.op = "jmp" /\ Now = code.at[pc] /\ pc' = code.block[b] /\ code' = code
      /\ sp' = sp /\ strayed' = strayed /\ status' = status
      /\ mem' = Forget(mem, new)
  BY <1>2, <1>3 DEF DoJmp, At, Now
<1>5. /\ IsContext(x) /\ h = x.base /\ b \in 1..x.blocks
  <2>1. Fits(x, Now, h, d[pc + 1]) /\ IsContext(x)
    BY <1>1, NowFits
  <2> QED
    BY <1>2, <1>4, <2>1 DEF Fits, PlainFits, PushFits, PopFits
<1>6. code.block[b] \in 1..Len(code.at) /\ d[code.block[b]] = h
  BY <1>5 DEF RunTime, WellBuilt
<1>7. /\ sp = -h
      /\ x.bare => h >= 0 /\ StackKept(x, h) /\ RegistersKept(x, h) /\ strayed = FALSE
  BY <1>1, <1>4 DEF RunTime, Underway
<1>8. ASSUME x.bare PROVE StackKept(x, h)' /\ RegistersKept(x, h)'
  <2>1. StackKept(x, h)'
    BY <1>4, <1>7, <1>8, SameStack, ForgetKeeps
  <2>2. ASSUME NEW r \in CALLEE_SAVED, regs[r] = Original(r) PROVE regs'[r] = regs[r]
    <3>1. r \in DOMAIN regs /\ r \in Register /\ r \notin ArgRegisters
      BY ConventionAssumption DEF Register
    <3>2. ~\E k \in 1..Len(Now.args) : PassedIn(k, r)
      <4> SUFFICES ASSUME NEW k \in 1..Len(Now.args), PassedIn(k, r) PROVE FALSE
        OBVIOUS
      <4>1. k <= Len(ARG_REGISTERS) /\ r = ARG_REGISTERS[k]
        BY DEF PassedIn, ArgFound
      <4>2. k \in 1..Len(ARG_REGISTERS)
        BY <4>1, ArgumentRegisters
      <4> QED
        BY <3>1, <4>1, <4>2 DEF ArgRegisters
    <3>3. regs'[r] = Forget(regs, new)[r]
      BY <1>3, <3>1, <3>2 DEF DoJmp
    <3> QED
      BY <2>2, <3>1, <3>3, OriginalIsNoValue, ForgetKeeps
  <2>3. RegistersKept(x, h)'
    BY <1>7, <1>8, <2>2 DEF RegistersKept
  <2> QED
    BY <2>1, <2>3
<1>9. Underway(x, d)'
  <2>1. pc' \in 1..Len(code'.at) /\ d[pc'] = h
    BY <1>4, <1>6
  <2>2. x.bare => d[pc'] >= 0 /\ StackKept(x, d[pc])' /\ RegistersKept(x, d[pc])' /\ strayed' = FALSE
    BY <1>4, <1>7, <1>8, <2>1 DEF StackKept, RegistersKept
  <2> QED
    BY <1>4, <1>7, <2>1, <2>2 DEF Underway
<1>10. WellBuilt(x, code, d)'
  BY <1>4 DEF RunTime, WellBuilt
<1> QED
  BY <1>4, <1>9, <1>10 DEF RunTime

(* The frame: code that is bare has none. *)
LEMMA EnterStep ==
    ASSUME NEW x, NEW d, RunTime(x, d), status = "running", DoEnter
    PROVE  RunTime(x, d)'
<1>1. PICK h : h = d[pc]
  OBVIOUS
<1>2. PICK w : w = Now.words
  OBVIOUS
<1>3. /\ Now.op = "enter" /\ Now = code.at[pc] /\ pc' = pc + 1 /\ code' = code
      /\ status' = status /\ sp' = sp - 1 - (w + (w % 2))
  BY <1>2 DEF DoEnter, At, Go, Now
<1>4. Fits(x, Now, h, d[pc + 1]) /\ h \in Int /\ d[pc + 1] \in Int
  BY <1>1, NowFits
<1>5. ~x.bare /\ w \in Nat /\ d[pc + 1] = h + 1 + (w + (w % 2))
  BY <1>2, <1>3, <1>4 DEF Fits, PlainFits, PushFits, PopFits
<1>6. sp = -h
  BY <1>1, <1>3 DEF RunTime, Underway
<1>7. PICK k : k = d[pc + 1]
  OBVIOUS
<1>8. sp' = -k /\ k \in Int
  <2>1. w % 2 \in Nat
    BY <1>5
  <2>2. -h - 1 - (w + (w % 2)) = -(h + 1 + (w + (w % 2)))
    BY <1>4, <1>5, <2>1
  <2> QED
    BY <1>3, <1>4, <1>5, <1>6, <1>7, <2>2
<1> QED
  BY <1>3, <1>5, <1>7, <1>8, GoesOn

LEMMA LeaveStep ==
    ASSUME NEW x, NEW d, RunTime(x, d), status = "running", DoLeave
    PROVE  RunTime(x, d)'
<1>1. /\ Now.op = "leave" /\ Now = code.at[pc] /\ pc' = pc + 1 /\ code' = code
      /\ status' = status
  BY DEF DoLeave, At, Go, Now
<1>2. PICK k : k = d[pc + 1]
  OBVIOUS
<1>3. Fits(x, Now, d[pc], k) /\ k \in Int /\ code.at[pc + 1].op = "ret"
  BY <1>1, <1>2, NowFits
<1>4. ~x.bare
  BY <1>1, <1>3 DEF Fits, PlainFits, PushFits, PopFits
<1> QED
  BY <1>1, <1>2, <1>3, <1>4, GoesOn

(* Back at the height 0, nothing is on the stack: all is where it was. *)
LEMMA RetStep ==
    ASSUME NEW x, NEW d, RunTime(x, d), status = "running", DoRet
    PROVE  RunTime(x, d)'
<1>1. PICK h : h = d[pc]
  OBVIOUS
<1>2. /\ Now.op = "ret" /\ Now = code.at[pc] /\ code' = code
      /\ status' = (IF Word(sp) = ReturnAddress THEN "returned" ELSE "lost")
      /\ sp' = sp + 1 /\ regs' = regs /\ mem' = mem /\ strayed' = strayed
  BY DEF DoRet, At, Now
<1>3. Fits(x, Now, h, d[pc + 1]) /\ Len(x.saved) \in Nat
  BY <1>1, NowFits
<1>4. x.bare => h = 0
  BY <1>2, <1>3 DEF Fits, PlainFits, PushFits, PopFits
<1>5. ASSUME x.bare PROVE CallerAsItWas'
  <2>1. sp = -h /\ StackKept(x, h) /\ RegistersKept(x, h) /\ strayed = FALSE
    BY <1>1, <1>2, <1>5 DEF RunTime, Underway
  <2>2. h = 0 /\ sp = 0 /\ sp' = 1
    <3>1. h = 0
      BY <1>4, <1>5
    <3>2. sp + h = 0 /\ sp \in Int
      BY <1>1, <2>1, NowFits
    <3>3. sp = 0
      BY <3>1, <3>2
    <3> QED
      BY <1>2, <3>1, <3>3
  <2>3. Word(sp) = ReturnAddress
    BY <2>1, <2>2 DEF StackKept, Word
  <2>4. Least(h, Len(x.saved)) = 0
    BY <1>3, <2>2 DEF Least
  <2>5. \A r \in CALLEE_SAVED : regs[r] = Original(r)
    <3>1. \A k \in 1..0 : FALSE
      OBVIOUS
    <3> QED
      BY <2>1, <2>4, <3>1 DEF RegistersKept
  <2> QED
    BY <1>2, <2>1, <2>2, <2>3, <2>5 DEF CallerAsItWas, Original
<1>6. WellBuilt(x, code, d)'
  BY <1>2 DEF RunTime, WellBuilt
<1>7. status' # "running"
  BY <1>2
<1> QED
  BY <1>5, <1>6, <1>7 DEF RunTime

(* Whatever it does next, the machine is where the code says it is. *)
LEMMA StepKeeps ==
    ASSUME NEW x, NEW d, RunTime(x, d), DOMAIN regs = Register, Step
    PROVE  RunTime(x, d)'
<1>1. status = "running"
  BY DEF Step, DoMov, DoLoadSlot, DoStoreSlot, DoPush, DoPop, DoCompute, DoClobber, DoStoreMem,
         DoCall, DoJnz, DoJmp, DoEnter, DoLeave, DoRet, At
<1> QED
  BY <1>1, PlainStep, PushStep, PopStep, CallStep, JnzStep, JmpStep, EnterStep, LeaveStep, RetStep
     DEF Step

(* What a step leaves alone, or in its type. *)
LEMMA StepTypes ==
    ASSUME Step, DOMAIN regs = Register, wrong \in BOOLEAN, strayed \in BOOLEAN
    PROVE  /\ status = "running" /\ status' \in {"running", "returned", "lost"}
           /\ DOMAIN regs' = Register
           /\ wrong' \in BOOLEAN /\ strayed' \in BOOLEAN /\ code' = code
<1>1. \A ids : DOMAIN Forget(regs, ids) = Register
  BY DEF Forget
<1>2. CASE DoMov \/ DoLoadSlot \/ DoPop \/ DoClobber \/ DoLeave \/ DoEnter \/ DoPush
  BY <1>2 DEF DoMov, DoLoadSlot, DoPop, DoClobber, DoLeave, DoEnter, DoPush, At
<1>3. CASE DoCompute
  BY <1>1, <1>3 DEF DoCompute, At
<1>4. CASE DoStoreSlot \/ DoStoreMem
  BY <1>4 DEF DoStoreSlot, DoStoreMem, At
<1>5. CASE DoCall
  BY <1>5 DEF DoCall, At
<1>6. CASE DoJmp
  BY <1>6 DEF DoJmp, At
<1>7. CASE DoJnz
  BY <1>7 DEF DoJnz, At
<1>8. CASE DoRet
  BY <1>8 DEF DoRet, At
<1> QED
  BY <1>2, <1>3, <1>4, <1>5, <1>6, <1>7, <1>8 DEF Step

-----------------------------------------------------------------------------
(* The allocator, called once with the ranges of the function *)

AllocP == INSTANCE LinearScanProofs WITH
             Index <- Nat, Reg <- Register,
             Hint <- ArgRegisters, Pool <- GENERAL_PURPOSE, MaxRuns <- 1

LEMMA AllocAssumptions ==
    AllocP!NAssumption /\ AllocP!IndexAssumption /\ AllocP!RegAssumption
    /\ AllocP!PoolAssumption /\ AllocP!RunsAssumption
BY ValuesAssumption, RegistersAssumption
   DEF AllocP!NAssumption, AllocP!IndexAssumption, AllocP!RegAssumption,
       AllocP!PoolAssumption, AllocP!RunsAssumption, AllocP!IsInjective, Register, IsInjective

LEMMA SameCardinality == \A S : AllocP!Cardinality(S) = Cardinality(S)
BY DEF AllocP!Cardinality, Cardinality

LEMMA AllocInit == Alloc!Init => AllocP!Init
BY DEF Alloc!Init, AllocP!Init, Alloc!NoAssignments, AllocP!NoAssignments,
       Alloc!NoSpills, AllocP!NoSpills, Alloc!NoSlot, AllocP!NoSlot,
       Alloc!PTR_SIZE, AllocP!PTR_SIZE, Alloc!Value, AllocP!Value

LEMMA AllocRun == Alloc!Run => AllocP!Run
<1>1. Alloc!Input = AllocP!Input
  BY DEF Alloc!Input, AllocP!Input, Alloc!LiveRange, AllocP!LiveRange, Alloc!Value, AllocP!Value,
         Alloc!Sorted, AllocP!Sorted, Alloc!UsedIfTied, AllocP!UsedIfTied
<1> QED
  BY <1>1 DEF Alloc!Run, AllocP!Run

LEMMA AllocReturn == Alloc!Return => AllocP!Return
BY DEF Alloc!Return, AllocP!Return, Alloc!NoAssignments, AllocP!NoAssignments,
       Alloc!NoSpills, AllocP!NoSpills, Alloc!NoSlot, AllocP!NoSlot,
       Alloc!PTR_SIZE, AllocP!PTR_SIZE, Alloc!Value, AllocP!Value

LEMMA AllocPlace == Alloc!Expire \/ Alloc!Place => AllocP!Expire \/ AllocP!Place
<1>1. /\ Alloc!AtInterval = AllocP!AtInterval
      /\ Alloc!Expirable = AllocP!Expirable
      /\ Alloc!HintFree = AllocP!HintFree
      /\ Alloc!CandidateEndsLater = AllocP!CandidateEndsLater
  BY DEF Alloc!AtInterval, AllocP!AtInterval, Alloc!Value, AllocP!Value,
         Alloc!Expirable, AllocP!Expirable, Alloc!End, AllocP!End, Alloc!Start, AllocP!Start,
         Alloc!HintFree, AllocP!HintFree, Alloc!CandidateEndsLater, AllocP!CandidateEndsLater,
         Alloc!Last, AllocP!Last
<1>2. \A s, v, t : Alloc!InsertedByEnd(s, v, t) <=> AllocP!InsertedByEnd(s, v, t)
  BY DEF Alloc!InsertedByEnd, AllocP!InsertedByEnd, Alloc!UpperBound, AllocP!UpperBound,
         Alloc!End, AllocP!End, Alloc!InsertAt, AllocP!InsertAt
<1>3. \A s : Alloc!Last(s) = AllocP!Last(s) /\ Alloc!Front(s) = AllocP!Front(s)
  BY DEF Alloc!Last, AllocP!Last, Alloc!Front, AllocP!Front
<1>4. \A v : Alloc!Spill(v) <=> AllocP!Spill(v)
  BY DEF Alloc!Spill, AllocP!Spill, Alloc!PTR_SIZE, AllocP!PTR_SIZE
<1>5. \A r, a, h : Alloc!Assign(r, a, h) <=> AllocP!Assign(r, a, h)
  BY <1>2 DEF Alloc!Assign, AllocP!Assign
<1>6. Alloc!Expire => AllocP!Expire
  BY <1>1 DEF Alloc!Expire, AllocP!Expire
<1>7. Alloc!TakeHint => AllocP!TakeHint
  BY <1>1, <1>5 DEF Alloc!TakeHint, AllocP!TakeHint, Alloc!RemoveAt, AllocP!RemoveAt
<1>8. Alloc!TakeFree => AllocP!TakeFree
  BY <1>1, <1>3, <1>5 DEF Alloc!TakeFree, AllocP!TakeFree
<1>9. Alloc!StealFromLast => AllocP!StealFromLast
  BY <1>1, <1>3, <1>4, <1>5 DEF Alloc!StealFromLast, AllocP!StealFromLast
<1>10. Alloc!SpillCurrent => AllocP!SpillCurrent
  BY <1>1, <1>4 DEF Alloc!SpillCurrent, AllocP!SpillCurrent
<1> QED
  BY <1>6, <1>7, <1>8, <1>9, <1>10 DEF Alloc!Place, AllocP!Place

(* What the allocator keeps, it keeps here. *)
AllocInv == AllocP!IInv /\ AllocP!SpillsOnlyUnderPressure

LEMMA AllocKeeps ==
    /\ Alloc!Init => AllocInv
    /\ AllocInv /\ (Alloc!Run \/ Alloc!Expire \/ Alloc!Place \/ Alloc!Return) => AllocInv'
    /\ AllocInv /\ UNCHANGED allocator => AllocInv'
<1>1. ASSUME Alloc!Init PROVE AllocInv
  <2>1. AllocP!Init
    BY <1>1, AllocInit
  <2>2. AllocP!IInv
    BY <2>1, AllocAssumptions, AllocP!InitIInv
  <2>3. AllocP!SpillsOnlyUnderPressure
    BY <2>1 DEF AllocP!Init, AllocP!SpillsOnlyUnderPressure
  <2> QED
    BY <2>2, <2>3 DEF AllocInv
<1>2. AllocInv /\ [AllocP!Next]_(AllocP!vars) => AllocInv'
  BY AllocAssumptions, AllocP!StepIInv, AllocP!StepPressure DEF AllocInv
<1>3. Alloc!Run \/ Alloc!Expire \/ Alloc!Place \/ Alloc!Return => AllocP!Next
  BY AllocRun, AllocPlace, AllocReturn DEF AllocP!Next
<1>4. UNCHANGED allocator => UNCHANGED AllocP!vars
  BY DEF allocator, AllocP!vars
<1> QED
  BY <1>1, <1>2, <1>3, <1>4

-----------------------------------------------------------------------------
(* The whole *)

(* The allocator has the ranges of the function, in the order of the ids. *)
RangesAreLive ==
    \A k \in 1..N : ranges[k].start = Ranges[k - 1].start /\ ranges[k].end = Ranges[k - 1].end

(* Where no more ranges than registers hold any index, nothing is spilled. *)
LEMMA UnpressedIsBare ==
    ASSUME Compiled, AllocInv, RangesAreLive, running, runs = 1, next = N + 1, Unpressed
    PROVE  Bare
<1> DEFINE R == Ranges
           n == Len(GENERAL_PURPOSE)
           peak == compute_max_live(R)
<1>1. IRInv /\ func.types = N /\ N \in Nat /\ Values(func) = 0..(N - 1) /\ DOMAIN R = Values(func)
  BY ValuesAssumption, LineFacts, RangesOfValues DEF Compiled
<1>2. /\ peak \in Nat /\ n \in Nat /\ peak <= n
      /\ \A p \in Positions(Line) : Cardinality(LiveAt(R, p)) <= peak
  <2>1. peak <= n /\ n \in Nat
    BY RegistersAssumption DEF Unpressed, Ranges
  <2> QED
    BY <1>1, <2>1, PeakOfRanges
<1>3. \A v \in Values(func) : /\ R[v].start \in Nat /\ R[v].end \in Nat
                              /\ R[v].start \in Positions(Line) /\ R[v].end >= R[v].start
  <2>1. \A v \in Values(func) : R[v].end >= R[v].start
    BY <1>1 DEF Unpressed, Ranges
  <2>2. \A v \in Values(func) : R[v].start \in Positions(Line) /\ R[v].end \in Nat
    BY <1>1, RangeFacts
  <2>3. \A p \in Positions(Line) : p \in Nat
    BY <1>1, LineFacts
  <2> QED
    BY <2>1, <2>2, <2>3
<1> HIDE DEF R, n, peak
<1>4. \A k \in 1..N : /\ k - 1 \in Values(func) /\ k - 1 \in Nat
                      /\ ranges[k].start = R[k - 1].start /\ ranges[k].end = R[k - 1].end
  BY <1>1 DEF RangesAreLive, R
<1>5. ASSUME NEW v \in 1..N
      PROVE  Cardinality(AllocP!NeedAHomeAt(AllocP!Start(v))) <= n
  <2> DEFINE p == AllocP!Start(v)
             H == AllocP!NeedAHomeAt(p)
             L == LiveAt(R, p)
             f == [k \in H |-> k - 1]
  <2>1. p = R[v - 1].start /\ p \in Positions(Line) /\ p \in Nat
    BY <1>3, <1>4 DEF AllocP!Start
  <2> HIDE DEF p
  <2>2. L = {u \in Values(func) : R[u].start <= p /\ p <= R[u].end}
    BY <1>1 DEF LiveAt
  <2>3. H = {k \in 1..N : R[k - 1].start <= p /\ p <= R[k - 1].end}
    <3>1. \A k \in 1..N : AllocP!LastPoint(ranges[k]) = R[k - 1].end /\ AllocP!Start(k) = R[k - 1].start
      <4> SUFFICES ASSUME NEW k \in 1..N
                   PROVE  AllocP!LastPoint(ranges[k]) = R[k - 1].end /\ AllocP!Start(k) = R[k - 1].start
        OBVIOUS
      <4> DEFINE u == k - 1
      <4>1. u \in Values(func) /\ ranges[k].start = R[u].start /\ ranges[k].end = R[u].end
        BY <1>4
      <4> HIDE DEF u
      <4>2. R[u].start \in Nat /\ R[u].end \in Nat /\ R[u].end >= R[u].start
        BY <1>3, <4>1
      <4>3. ~(R[u].end < R[u].start)
        BY <4>2
      <4>4. AllocP!LastPoint(ranges[k]) = R[u].end /\ AllocP!Start(k) = R[u].start
        BY <4>1, <4>3 DEF AllocP!LastPoint, AllocP!Start
      <4> QED
        BY <4>4 DEF u
    <3> QED
      BY <3>1 DEF AllocP!NeedAHomeAt, AllocP!Value
  <2> HIDE DEF H, L
  <2>4. IsFiniteSet(H)
    <3>1. IsFiniteSet(1..N) /\ H \in SUBSET (1..N)
      BY <1>1, <2>3, FS_Interval
    <3> QED
      BY <3>1, FS_Subset
  <2>5. f \in Bijection(H, L)
    <3>1. \A k \in H : k - 1 \in L /\ k \in Int
      BY <1>4, <2>2, <2>3
    <3>2. \A u \in L : u + 1 \in H /\ (u + 1) - 1 = u
      <4> SUFFICES ASSUME NEW u \in L PROVE u + 1 \in H /\ (u + 1) - 1 = u
        OBVIOUS
      <4>1. u \in 0..(N - 1) /\ R[u].start <= p /\ p <= R[u].end
        BY <1>1, <2>2
      <4>2. u + 1 \in 1..N /\ (u + 1) - 1 = u
        BY <1>1, <4>1
      <4> QED
        BY <2>3, <4>1, <4>2
    <3>3. f \in [H -> L] /\ \A j, k \in H : f[j] = f[k] => j = k
      BY <3>1
    <3>4. \A u \in L : \E k \in H : f[k] = u
      BY <3>2
    <3> HIDE DEF f
    <3> QED
      BY <3>3, <3>4 DEF Bijection, Injection, Surjection, IsInjective
  <2>6. Cardinality(L) = Cardinality(H)
    <3>1. ExistsBijection(H, L)
      BY <2>5 DEF ExistsBijection
    <3> QED
      BY <2>4, <3>1, FS_Bijection
  <2>7. Cardinality(L) <= peak /\ Cardinality(H) \in Nat
    BY <1>2, <2>1, <2>4, FS_CardinalityType DEF L
  <2> QED
    BY <1>2, <2>6, <2>7 DEF H, p
<1>6. AllocP!Spilled = {}
  <2> SUFFICES ASSUME AllocP!Spilled # {} PROVE FALSE
    OBVIOUS
  <2>1. PICK v \in AllocP!Placed : Cardinality(AllocP!NeedAHomeAt(AllocP!Start(v))) > n
    BY SameCardinality DEF AllocInv, AllocP!SpillsOnlyUnderPressure, n
  <2>2. v \in 1..N
    BY DEF AllocP!Placed, AllocP!Value
  <2>3. Cardinality(AllocP!NeedAHomeAt(AllocP!Start(v))) \in Nat
    <3> DEFINE H == AllocP!NeedAHomeAt(AllocP!Start(v))
    <3>1. H \in SUBSET (1..N) /\ IsFiniteSet(1..N)
      BY <1>1, FS_Interval DEF AllocP!NeedAHomeAt, AllocP!Value
    <3> HIDE DEF H
    <3>2. IsFiniteSet(H)
      BY <3>1, FS_Subset
    <3>3. Cardinality(H) \in Nat
      BY <3>2, FS_CardinalityType
    <3> QED
      BY <3>3 DEF H
  <2> QED
    BY <1>2, <1>5, <2>1, <2>2, <2>3
<1>7. \A k \in 1..N : assignments[k] # NoReg /\ spills[k] = 0
  <2>1. \A k \in 1..N : k \in AllocP!Placed /\ k \in AllocP!Value
    BY <1>1 DEF AllocP!Placed, AllocP!Value
  <2>2. \A v \in AllocP!Placed : v \in AllocP!Spilled <=> assignments[v] = NoReg
    BY DEF AllocInv, AllocP!IInv, AllocP!OneHomeEach
  <2>3. \A v \in AllocP!Value : v \notin AllocP!Spilled => spills[v] = 0
    BY DEF AllocP!Spilled, AllocP!NoSlot
  <2> QED
    BY <1>6, <2>1, <2>2, <2>3
<1>8. \A v \in ValueIds : RegOf(v) # NoReg /\ SlotOf(v) = 0
  <2> SUFFICES ASSUME NEW v \in ValueIds PROVE RegOf(v) # NoReg /\ SlotOf(v) = 0
    OBVIOUS
  <2>1. v + 1 \in 1..N
    BY <1>1 DEF ValueIds
  <2> QED
    BY <1>7, <2>1 DEF RegOf, SlotOf
<1>9. FrameWords = 0
  <2>1. ~(peak > n)
    BY <1>2
  <2> QED
    BY <2>1 DEF FrameWords, peak, R, Ranges, n
<1> QED
  BY <1>8, <1>9 DEF Bare

(***************************************************************************)
(* The invariant.  Once the code runs, there are a context and heights     *)
(* that describe it, and the machine is where they say.                    *)
(***************************************************************************)
CompilerInv ==
    /\ IRInv /\ AllocInv
    /\ wrong \in BOOLEAN /\ strayed \in BOOLEAN
    /\ status \in {"idle", "running", "returned", "lost"}
    /\ runs \in {0, 1} /\ (runs = 0 => status = "idle")
    /\ running => status = "idle" /\ Compiled /\ RangesAreLive
    /\ status # "idle" => /\ DOMAIN regs = Register
                          /\ \E x, d : /\ RunTime(x, d) /\ (Unpressed => x.bare)
                                       /\ x.blocks = Len(func.blocks)

LEMMA CallsOfTheAllocator ==
    ASSUME AllocInv
    PROVE  /\ runs \in Nat /\ (runs = 0 => ~running) /\ Homed
           /\ running \in BOOLEAN
           /\ Alloc!TypeOK
<1>1. AllocP!TypeOK /\ AllocP!BetweenCalls
  BY DEF AllocInv, AllocP!IInv
<1>2. Alloc!Input = AllocP!Input /\ Alloc!Value = AllocP!Value /\ AllocP!Value = 1..N
  BY DEF Alloc!Input, AllocP!Input, Alloc!LiveRange, AllocP!LiveRange, Alloc!Value, AllocP!Value,
         Alloc!Sorted, AllocP!Sorted, Alloc!UsedIfTied, AllocP!UsedIfTied
<1>3. Alloc!TypeOK
  BY <1>1, <1>2 DEF Alloc!TypeOK, AllocP!TypeOK
<1>4. runs \in Nat /\ running \in BOOLEAN /\ Homed
  BY <1>1, <1>2 DEF AllocP!TypeOK, Homed
<1>5. runs = 0 => ~running
  BY <1>1 DEF AllocP!BetweenCalls
<1> QED
  BY <1>3, <1>4, <1>5

LEMMA Opposite == \A a, b \in Int : a + b = 0 => a = -b
OBVIOUS

LEMMA CompilerInitInv == CompilerInit => CompilerInv
<1> SUFFICES ASSUME CompilerInit PROVE CompilerInv
  OBVIOUS
<1>1. IRInv /\ AllocInv
  BY InitEstablishes, AllocKeeps DEF CompilerInit
<1>2. ~running /\ runs = 0
  BY DEF CompilerInit, Alloc!Init
<1> QED
  BY <1>1, <1>2 DEF CompilerInit, CompilerInv

LEMMA BuildKeeps == CompilerInv /\ Build => CompilerInv'
<1> SUFFICES ASSUME CompilerInv, Build PROVE CompilerInv'
  OBVIOUS
<1>1. runs = 0 /\ status = "idle" /\ ~running
  BY CallsOfTheAllocator DEF Build, CompilerInv
<1>2. UNCHANGED <<allocator, code, machine>> /\ Next
  BY DEF Build
<1>3. IRInv' /\ AllocInv'
  BY <1>2, NextKeeps, AllocKeeps DEF CompilerInv
<1>4. wrong' = wrong /\ strayed' = strayed /\ status' = status /\ running' = running /\ runs' = runs
  BY <1>2 DEF allocator, machine
<1> QED
  BY <1>1, <1>3, <1>4 DEF CompilerInv

LEMMA CompileKeeps == CompilerInv /\ Compile => CompilerInv'
<1> SUFFICES ASSUME CompilerInv, Compile PROVE CompilerInv'
  OBVIOUS
<1>1. Alloc!Run /\ UNCHANGED <<func, code, machine>>
  BY DEF Compile
<1>2. runs = 0 /\ runs' = 1 /\ running' = TRUE
  <2>1. runs < 1 /\ runs' = runs + 1 /\ running' = TRUE
    BY <1>1 DEF Alloc!Run
  <2> QED
    BY <2>1, CallsOfTheAllocator DEF CompilerInv
<1>3. AllocInv'
  BY <1>1, AllocKeeps DEF CompilerInv
<1>4. func' = func /\ wrong' = wrong /\ strayed' = strayed /\ status' = status /\ status = "idle"
  BY <1>1, <1>2 DEF machine, CompilerInv
<1>5. IRInv' /\ Compiled'
  <2>1. IRInv /\ Compiled
    BY DEF CompilerInv, Compile, Compiled
  <2>2. IRInv' /\ Compiled'
    BY <1>4, <2>1 DEF IRInv, Compiled, Accepted
  <2> QED
    BY <2>2
<1>6. RangesAreLive'
  <2>1. \A k \in 1..N : /\ ranges'[k].start = compute_live_ranges(func)[k - 1].start
                        /\ ranges'[k].end = compute_live_ranges(func)[k - 1].end
    BY DEF Compile, HintedRanges
  <2>2. Ranges' = compute_live_ranges(func)
    BY <1>4 DEF Ranges
  <2> QED
    BY <2>1, <2>2 DEF RangesAreLive
<1> QED
  BY <1>2, <1>3, <1>4, <1>5, <1>6 DEF CompilerInv

LEMMA AllocateKeeps == CompilerInv /\ Allocate => CompilerInv'
<1> SUFFICES ASSUME CompilerInv, Allocate PROVE CompilerInv'
  OBVIOUS
<1>1. (Alloc!Expire \/ Alloc!Place) /\ UNCHANGED <<func, code, machine>>
  BY DEF Allocate
<1>2. running /\ running' = running /\ runs' = runs /\ ranges' = ranges
  BY <1>1 DEF Alloc!Expire, Alloc!Place, Alloc!TakeHint, Alloc!TakeFree, Alloc!StealFromLast,
              Alloc!SpillCurrent, Alloc!Assign, Alloc!AtInterval
<1>3. AllocInv'
  BY <1>1, AllocKeeps DEF CompilerInv
<1>4. func' = func /\ wrong' = wrong /\ strayed' = strayed /\ status' = status /\ status = "idle"
  BY <1>1, <1>2 DEF machine, CompilerInv
<1>5. IRInv' /\ Compiled' /\ RangesAreLive'
  <2>1. IRInv /\ Compiled /\ RangesAreLive
    BY <1>2 DEF CompilerInv
  <2>2. IRInv' /\ Compiled'
    BY <1>4, <2>1 DEF IRInv, Compiled, Accepted
  <2>3. RangesAreLive'
    BY <1>2, <1>4, <2>1 DEF RangesAreLive, Ranges
  <2> QED
    BY <2>2, <2>3
<1> QED
  BY <1>2, <1>3, <1>4, <1>5 DEF CompilerInv

(* The call finds the stack at the height 0 and its registers the caller's. *)
LEMMA EmitAndCallKeeps == CompilerInv /\ EmitAndCall => CompilerInv'
<1> SUFFICES ASSUME CompilerInv, EmitAndCall PROVE CompilerInv'
  OBVIOUS
<1>1. Alloc!Return /\ code' \in compile_function /\ Start(func.args) /\ UNCHANGED func
  BY DEF EmitAndCall
<1>2. running /\ next = N + 1 /\ running' = FALSE /\ runs' = runs
  BY <1>1 DEF Alloc!Return
<1>3. IRInv /\ AllocInv /\ Compiled /\ RangesAreLive
  BY <1>2 DEF CompilerInv
<1>4. AllocInv'
  BY <1>1, <1>3, AllocKeeps
<1>5. /\ pc' = 1 /\ sp' = 0 /\ wrong' = FALSE /\ strayed' = FALSE /\ status' = "running"
      /\ mem' = [a \in {0} |-> ReturnAddress] /\ DOMAIN regs' = Register
      /\ \A r \in CALLEE_SAVED : regs'[r] = Original(r)
  <2>1. \A r \in CALLEE_SAVED : r \in Register
    BY DEF Register
  <2> QED
    BY <1>1, <2>1 DEF Start, Original
<1>6. PICK saved \in UsedCalleeRegs : code' = CodeOf(saved)
  BY <1>1 DEF compile_function
<1>7. PICK x : x = ContextOf(saved)
  OBVIOUS
<1>8. /\ x.bare = Bare /\ runs \in Nat /\ runs # 0 /\ Homed
      /\ \E d \in Heights : WellBuilt(x, CodeOf(saved), d)
  BY <1>2, <1>3, <1>7, CodeIsWellBuilt, ContextIs, CallsOfTheAllocator DEF Compiled
<1>9. PICK d \in Heights : WellBuilt(x, CodeOf(saved), d)
  BY <1>8
<1>10. runs = 1
  BY <1>8 DEF CompilerInv
<1>11. Unpressed => x.bare
  BY <1>2, <1>3, <1>8, <1>10, UnpressedIsBare
<1>12. Unpressed' <=> Unpressed
  BY <1>1 DEF Unpressed
<1>13. WellBuilt(x, code, d)'
  BY <1>6, <1>9 DEF WellBuilt
<1>14. 0 \in Int /\ d[1] = 0 /\ Len(x.saved) \in Nat /\ Len(code'.at) \in Nat /\ Len(code'.at) # 0
  BY <1>6, <1>9, SequenceElements DEF WellBuilt, IsContext, Closed
<1>15. Least(0, Len(x.saved)) = 0
  BY <1>14 DEF Least
<1>16. StackKept(x, 0)' /\ RegistersKept(x, 0)'
  <2>1. \A k \in 1..0 : FALSE
    OBVIOUS
  <2> QED
    BY <1>5, <1>15, <2>1 DEF StackKept, RegistersKept
<1>17. Underway(x, d)'
  <2>1. pc' \in 1..Len(code'.at) /\ d[pc'] = 0 /\ sp' = -d[pc']
    <3>1. sp' \in Int /\ d[1] \in Int /\ sp' + d[1] = 0
      BY <1>5, <1>14
    <3>2. sp' = -d[1]
      BY ONLY <3>1, Opposite
    <3>3. pc' = 1 /\ pc' \in 1..Len(code'.at) /\ d[pc'] = 0
      BY <1>5, <1>14
    <3>4. sp' = -d[pc']
      BY ONLY <3>2, <3>3
    <3> QED
      BY <3>3, <3>4
  <2>2. d[pc'] >= 0 /\ StackKept(x, d[pc])' /\ RegistersKept(x, d[pc])'
    BY <1>14, <1>16, <2>1 DEF StackKept, RegistersKept
  <2> QED
    BY <1>5, <2>1, <2>2 DEF Underway
<1>18. RunTime(x, d)'
  BY <1>5, <1>13, <1>17 DEF RunTime
<1>19. IRInv'
  BY <1>1, <1>3 DEF IRInv
<1>20. \E y, e : RunTime(y, e)' /\ (Unpressed' => y.bare) /\ y.blocks = Len(func'.blocks)
  <2>1. x.blocks = Len(func'.blocks)
    BY <1>1, <1>3, <1>7, <1>8, ContextIs DEF Compiled
  <2> QED
    BY <1>11, <1>12, <1>18, <2>1
<1> QED
  BY <1>2, <1>4, <1>5, <1>8, <1>19, <1>20 DEF CompilerInv

LEMMA ExecuteKeeps == CompilerInv /\ Execute => CompilerInv'
<1> SUFFICES ASSUME CompilerInv, Execute PROVE CompilerInv'
  OBVIOUS
<1>1. Step /\ func' = func /\ UNCHANGED allocator
  BY DEF Execute
<1>2. status = "running"
  BY <1>1 DEF Step, DoMov, DoLoadSlot, DoStoreSlot, DoPush, DoPop, DoCompute, DoClobber, DoStoreMem,
         DoCall, DoJnz, DoJmp, DoEnter, DoLeave, DoRet, At
<1>3. DOMAIN regs = Register /\ ~running /\ runs # 0
  BY <1>2 DEF CompilerInv
<1>4. PICK x, d : RunTime(x, d) /\ (Unpressed => x.bare) /\ x.blocks = Len(func.blocks)
  BY <1>2 DEF CompilerInv
<1>5. RunTime(x, d)'
  BY <1>1, <1>3, <1>4, StepKeeps
<1>6. /\ status' \in {"running", "returned", "lost"} /\ DOMAIN regs' = Register
      /\ wrong' \in BOOLEAN /\ strayed' \in BOOLEAN
  BY <1>1, <1>3, StepTypes DEF CompilerInv
<1>7. Unpressed' <=> Unpressed
  BY <1>1 DEF Unpressed
<1>8. IRInv' /\ AllocInv' /\ running' = running /\ runs' = runs
  BY <1>1, AllocKeeps DEF CompilerInv, IRInv, allocator
<1>9. \E y, e : RunTime(y, e)' /\ (Unpressed' => y.bare) /\ y.blocks = Len(func'.blocks)
  BY <1>1, <1>4, <1>5, <1>7
<1> QED
  BY <1>3, <1>6, <1>8, <1>9 DEF CompilerInv

LEMMA IdleKeeps == CompilerInv /\ UNCHANGED vars => CompilerInv'
<1> SUFFICES ASSUME CompilerInv, UNCHANGED vars PROVE CompilerInv'
  OBVIOUS
<1>1. /\ func' = func /\ UNCHANGED allocator /\ running' = running /\ runs' = runs /\ ranges' = ranges
      /\ code' = code /\ pc' = pc /\ regs' = regs /\ sp' = sp /\ mem' = mem
      /\ wrong' = wrong /\ strayed' = strayed /\ status' = status
  BY DEF vars, allocator, machine
<1>2. IRInv' /\ AllocInv'
  BY <1>1, AllocKeeps DEF CompilerInv, IRInv
<1>3. ASSUME running PROVE Compiled' /\ RangesAreLive'
  <2>1. Compiled /\ RangesAreLive
    BY <1>3 DEF CompilerInv
  <2> QED
    BY <1>1, <2>1 DEF Compiled, IRInv, Accepted, RangesAreLive, Ranges
<1>4. ASSUME status # "idle"
      PROVE  \E y, e : RunTime(y, e)' /\ (Unpressed' => y.bare) /\ y.blocks = Len(func'.blocks)
  <2>1. PICK x, d : RunTime(x, d) /\ (Unpressed => x.bare) /\ x.blocks = Len(func.blocks)
    BY <1>4 DEF CompilerInv
  <2>2. Unpressed' <=> Unpressed
    BY <1>1 DEF Unpressed
  <2>3. RunTime(x, d)'
    BY <1>1, <2>1 DEF RunTime, WellBuilt, Underway, StackKept, RegistersKept, CallerAsItWas
  <2> QED
    BY <1>1, <2>1, <2>2, <2>3
<1> QED
  BY <1>1, <1>2, <1>3, <1>4 DEF CompilerInv

LEMMA StepKeepsAll == CompilerInv /\ [CompilerNext]_vars => CompilerInv'
BY BuildKeeps, CompileKeeps, AllocateKeeps, EmitAndCallKeeps, ExecuteKeeps, IdleKeeps DEF CompilerNext

(***************************************************************************)
(* The invariant of the compiler, from the first call of the builder to    *)
(* the return of the compiled code: at any time the code that runs has one *)
(* height of the stack at each of its places, and the machine is there.    *)
(***************************************************************************)
THEOREM CompilerHolds == CompilerSpec => []CompilerInv
BY CompilerInitInv, StepKeepsAll, PTL DEF CompilerSpec

(***************************************************************************)
(* Types, and control that does not leave the code: where the machine runs *)
(* there is an instruction, whatever jumps it has taken.                   *)
(***************************************************************************)
THEOREM CompilerTypes == CompilerSpec => []CompilerTypeOK
<1>1. ASSUME CompilerInv PROVE CompilerTypeOK
  <2>1. Alloc!TypeOK
    BY <1>1, CallsOfTheAllocator DEF CompilerInv
  <2>2. ASSUME status = "running" PROVE pc \in 1..Len(code.at)
    <3>1. PICK x, d : RunTime(x, d)
      BY <1>1, <2>2 DEF CompilerInv
    <3> QED
      BY <2>2, <3>1 DEF RunTime, Underway
  <2> QED
    BY <1>1, <2>1, <2>2 DEF CompilerInv, CompilerTypeOK
<1> QED
  BY <1>1, CompilerHolds, PTL

(***************************************************************************)
(* Every call finds the stack as the prologue has left it, on whichever    *)
(* path it is come to, and so aligned if the prologue pushes an even       *)
(* number of words: all that is pushed for a call is popped before it.     *)
(***************************************************************************)
THEOREM CallsKeepTheAlignment == CompilerSpec => []CallsAreAligned
<1>1. ASSUME CompilerInv, At("call") PROVE IsAligned <=> Pushed % 2 = 0
  <2>1. status = "running" /\ Now.op = "call" /\ Now = code.at[pc]
    BY <1>1 DEF At, Now
  <2>2. PICK x, d : RunTime(x, d)
    BY <1>1, <2>1 DEF CompilerInv
  <2>3. x.base \in Nat /\ d[pc] = x.base /\ sp = -d[pc]
    <3>1. x.base \in Nat /\ Fits(x, Now, d[pc], d[pc + 1])
      BY <2>1, <2>2, NowFits
    <3> QED
      BY <2>1, <2>2, <3>1 DEF Fits, PlainFits, PushFits, PopFits, RunTime, Underway
  <2>4. x.base % 2 = 0 <=> Pushed % 2 = 0
    BY <2>2 DEF RunTime, WellBuilt, Pushed
  <2>5. IsAligned <=> x.base % 2 = 0
    <3>1. \A b \in Nat : (-b - 5) % 2 = 1 <=> b % 2 = 0
      OBVIOUS
    <3> QED
      BY <2>3, <3>1 DEF IsAligned, CallWords
  <2> QED
    BY <2>4, <2>5
<1>2. CompilerInv => CallsAreAligned
  BY <1>1 DEF CallsAreAligned
<1> QED
  BY <1>2, CompilerHolds, PTL

(***************************************************************************)
(* Code that needs no slots goes back to its caller, with the stack and    *)
(* the saved registers as they were, from whichever ret it leaves by:      *)
(* nothing but a push of the prologue comes before it in the words that    *)
(* the pops of the epilogue read.                                          *)
(***************************************************************************)
THEOREM RegistersAreGivenBack == CompilerSpec => []GivesBackItsRegisters
<1>1. ASSUME CompilerInv, status \in {"returned", "lost"}, Unpressed PROVE CallerAsItWas
  <2>1. PICK x, d : RunTime(x, d) /\ (Unpressed => x.bare)
    BY <1>1 DEF CompilerInv
  <2> QED
    BY <1>1, <2>1 DEF RunTime
<1>2. CompilerInv => GivesBackItsRegisters
  BY <1>1 DEF GivesBackItsRegisters
<1> QED
  BY <1>2, CompilerHolds, PTL

(***************************************************************************)
(* In the compiler the allocator is the allocator: it is called once, and  *)
(* nothing but its own steps touches what it keeps.                        *)
(***************************************************************************)
THEOREM TheAllocatorRuns == CompilerSpec => AllocP!Init /\ [][AllocP!Next]_(AllocP!vars)
<1>1. CompilerInit => AllocP!Init
  BY AllocInit DEF CompilerInit
<1>2. [CompilerNext]_vars => [AllocP!Next]_(AllocP!vars)
  <2> SUFFICES ASSUME [CompilerNext]_vars PROVE AllocP!Next \/ UNCHANGED AllocP!vars
    OBVIOUS
  <2>1. CASE Build \/ Execute \/ UNCHANGED vars
    BY <2>1 DEF Build, Execute, vars, allocator, AllocP!vars
  <2>2. CASE Compile
    BY <2>2, AllocRun DEF Compile, AllocP!Next
  <2>3. CASE Allocate
    BY <2>3, AllocPlace DEF Allocate, AllocP!Next
  <2>4. CASE EmitAndCall
    BY <2>4, AllocReturn DEF EmitAndCall, AllocP!Next
  <2> QED
    BY <2>1, <2>2, <2>3, <2>4 DEF CompilerNext
<1> QED
  BY <1>1, <1>2, PTL DEF CompilerSpec

(***************************************************************************)
(* Every function that the verifier accepts, with ids that the ranges are  *)
(* found for, gets its registers: its ranges are a vector that the         *)
(* allocator takes, and so Compile is not held up by it.                   *)
(***************************************************************************)
AllocatorTakesThem == Analysable(func) /\ func.types = N => HintedRanges \in Alloc!Input

THEOREM EveryFunctionIsAllocated == CompilerSpec => []AllocatorTakesThem
<1>1. ASSUME CompilerInv, func.types = N PROVE HintedRanges \in Alloc!Input
  <2>1. IRInv /\ N \in Nat /\ Values(func) = 0..(N - 1)
    BY <1>1, ValuesAssumption, LineFacts DEF CompilerInv
  <2>2. \A v : HintOf(v) \in ArgRegisters \cup {NoReg}
    BY DEF HintOf, ArgRegisters
  <2>3. Alloc!Value = 1..N /\ Alloc!LiveRange = [start : Nat, end : Nat, hint : ArgRegisters \cup {NoReg}]
    BY DEF Alloc!Value, Alloc!LiveRange
  <2>4. ASSUME NEW k \in 1..N
        PROVE  HintedRanges[k] \in Alloc!LiveRange /\ HintedRanges[k].start = Ranges[k - 1].start
    <3> DEFINE v == k - 1
    <3>1. v \in Values(func)
      BY <2>1
    <3>2. HintedRanges[k] = [start |-> Ranges[v].start, end |-> Ranges[v].end, hint |-> HintOf(v)]
      BY DEF HintedRanges, Ranges
    <3> HIDE DEF v
    <3>3. Ranges[v].start \in Nat /\ Ranges[v].end \in Nat
      BY <2>1, <3>1, RangeFacts, LineFacts
    <3>4. HintedRanges[k] \in Alloc!LiveRange /\ HintedRanges[k].start = Ranges[v].start
      BY <2>2, <2>3, <3>2, <3>3
    <3> QED
      BY <3>4 DEF v
  <2>5. HintedRanges \in [1..N -> Alloc!LiveRange]
    <3>1. HintedRanges = [k \in 1..N |-> HintedRanges[k]]
      BY DEF HintedRanges
    <3> QED
      BY <2>4, <3>1
  <2>6. ASSUME NEW i \in 1..N, NEW k \in 1..N, i < k
        PROVE  /\ HintedRanges[i].start \in Nat /\ HintedRanges[k].start \in Nat
               /\ HintedRanges[i].start < HintedRanges[k].start
    <3>1. i - 1 \in Values(func) /\ k - 1 \in Values(func) /\ i - 1 < k - 1
      BY <2>1, <2>6
    <3>2. Ranges[i - 1].start < Ranges[k - 1].start
      BY <2>1, <3>1, RangesInOrder
    <3>3. HintedRanges[i].start \in Nat /\ HintedRanges[k].start \in Nat
      BY <2>3, <2>4
    <3> QED
      BY <2>4, <3>2, <3>3
  <2>7. Alloc!Sorted(HintedRanges)
    <3>1. ASSUME NEW i \in 1..N, NEW k \in 1..N, i < k
          PROVE  HintedRanges[i].start <= HintedRanges[k].start
      BY <2>6, <3>1
    <3> QED
      BY <2>3, <3>1 DEF Alloc!Sorted
  <2>8. Alloc!UsedIfTied(HintedRanges)
    <3> SUFFICES ASSUME NEW i \in 1..N, NEW k \in 1..N, i # k,
                        HintedRanges[i].start = HintedRanges[k].start
                 PROVE  FALSE
      BY <2>3 DEF Alloc!UsedIfTied
    <3>1. i < k \/ k < i
      BY <2>1
    <3> QED
      BY <2>6, <3>1
  <2> QED
    BY <2>3, <2>5, <2>7, <2>8 DEF Alloc!Input
<1>2. CompilerInv => AllocatorTakesThem
  BY <1>1 DEF AllocatorTakesThem
<1> QED
  BY <1>2, CompilerHolds, PTL

(* No place needs two values that have one register. *)
LEMMA NotBothNeeded ==
    ASSUME CompilerInv, running, Regular,
           NEW v \in Values(func), NEW w \in Values(func), v # w,
           RegOf(v) # NoReg, RegOf(v) = RegOf(w),
           NEW p \in Positions(Line), NeededAt(LiveBefore, v, p), NeededAt(LiveBefore, w, p)
    PROVE  FALSE
<1>1. IRInv /\ AllocInv /\ RangesAreLive /\ func.types = N
  BY DEF CompilerInv, Compiled
<1>2. N \in Nat /\ Values(func) = 0..(N - 1) /\ p \in Nat
  BY <1>1, ValuesAssumption, LineFacts
<1>3. RangesCover(LiveBefore)
  BY <1>1, RangesCoverIt DEF RangesCoverLiveness, Regular
<1>4. ASSUME NEW u \in Values(func), NeededAt(LiveBefore, u, p)
      PROVE  /\ u + 1 \in 1..N
             /\ ranges[u + 1].start \in Nat /\ AllocP!LastPoint(ranges[u + 1]) \in Nat
             /\ ranges[u + 1].start <= p /\ p <= AllocP!LastPoint(ranges[u + 1])
  <2> DEFINE k == u + 1
  <2>1. k \in 1..N /\ k - 1 = u
    BY <1>2
  <2>2. ranges[k].start = Ranges[u].start /\ ranges[k].end = Ranges[u].end
    BY <1>1, <2>1 DEF RangesAreLive
  <2> HIDE DEF k
  <2>3. Ranges[u].start \in Nat /\ Ranges[u].end \in Nat
    BY <1>1, RangeFacts, LineFacts
  <2>4. Ranges[u].start = p \/ (Ranges[u].start < p /\ p <= Ranges[u].end)
    BY <1>2, <1>3, <1>4, <2>3 DEF NeededAt, RangesCover
  <2>5. /\ ranges[k].start \in Nat /\ AllocP!LastPoint(ranges[k]) \in Nat
        /\ ranges[k].start <= p /\ p <= AllocP!LastPoint(ranges[k])
    BY <1>2, <2>2, <2>3, <2>4 DEF AllocP!LastPoint
  <2> QED
    BY <2>1, <2>5 DEF k
<1> DEFINE i == v + 1
           j == w + 1
<1>5. i \in AllocP!Value /\ j \in AllocP!Value /\ i # j
  BY <1>2, <1>4 DEF AllocP!Value
<1>6. assignments[i] # NoReg /\ assignments[i] = assignments[j]
  BY DEF RegOf
<1>7. ~AllocP!Overlap(ranges[i], ranges[j])
  <2> HIDE DEF i, j
  <2> QED
    BY <1>1, <1>5, <1>6 DEF AllocInv, AllocP!IInv, AllocP!NoInterference
<1>8. /\ ranges[i].start \in Nat /\ AllocP!LastPoint(ranges[i]) \in Nat
      /\ ranges[i].start <= p /\ p <= AllocP!LastPoint(ranges[i])
      /\ ranges[j].start \in Nat /\ AllocP!LastPoint(ranges[j]) \in Nat
      /\ ranges[j].start <= p /\ p <= AllocP!LastPoint(ranges[j])
  BY <1>4
<1> HIDE DEF i, j
<1> QED
  BY <1>2, <1>7, <1>8 DEF AllocP!Overlap

(***************************************************************************)
(* Two values that have one register are nowhere both needed: the ranges   *)
(* last for as long as their values are needed (IRPassesProofs), and the   *)
(* allocator gives one register to no two ranges that overlap              *)
(* (LinearScanProofs), with the last index of each counted in.             *)
(***************************************************************************)
THEOREM NoRegisterIsNeededTwice == CompilerSpec => []RegistersServeInTurn
<1>1. CompilerInv => RegistersServeInTurn
  BY NotBothNeeded DEF RegistersServeInTurn
<1> QED
  BY <1>1, CompilerHolds, PTL
=============================================================================
