--------------------------- MODULE LinearScanProofs ---------------------------
(***************************************************************************)
(* What is proved of LinearScan: for every set of registers and every      *)
(* pool, for every number of ranges and of calls.                          *)
(***************************************************************************)
EXTENDS LinearScan, SequenceLemmas, FiniteSetTheorems

-----------------------------------------------------------------------------
(* The inductive invariant *)

(* Between calls the object has nothing but its pool. *)
BetweenCalls ==
    /\ ~running => /\ next = 1 /\ active = <<>> /\ stack_offset = -PTR_SIZE
                   /\ assignments = NoAssignments /\ spills = NoSpills
    /\ runs = 0 => m_free = Pool /\ ~running

(* active is in order of end, and holds values the loop has passed. *)
ActiveSorted ==
    /\ ToSet(active) \subseteq Placed
    /\ \A i, j \in 1..Len(active) : i < j => End(active[i]) <= End(active[j])

(***************************************************************************)
(* Why a register that was given back may be given out again: its former   *)
(* owner ended before every interval still to come.                        *)
(***************************************************************************)
ExpiredAreOver ==
    \A v \in Placed \ ToSet(active) :
        assignments[v] # NoReg =>
            \A w \in Value \ Placed : LastPoint(ranges[v]) < Start(w)

(* stack_offset counts the spilled values. *)
SlotsCounted == stack_offset = -PTR_SIZE * (Cardinality(Spilled) + 1)

IInv ==
    /\ TypeOK
    /\ BetweenCalls
    /\ OneHomeEach
    /\ SlotsCounted
    /\ RegistersConserved
    /\ ActiveSorted
    /\ ExpiredAreOver
    /\ NoInterference

-----------------------------------------------------------------------------
(* Lemmas *)

(* What the members of Input are. *)
LEMMA InputFacts ==
    ASSUME ranges \in Input
    PROVE  /\ \A v \in Value : /\ ranges[v] \in LiveRange
                               /\ Start(v) \in Nat /\ End(v) \in Nat
                               /\ LastPoint(ranges[v]) \in Nat
                               /\ LastPoint(ranges[v]) >= End(v)
                               /\ LastPoint(ranges[v]) >= Start(v)
                               /\ ranges[v].hint \in Reg \cup {NoReg}
           /\ \A v, w \in Value : v <= w => Start(v) <= Start(w)
<1>1. ranges \in [Value -> LiveRange] /\ Sorted(ranges)
  BY DEF Input
<1>2. ASSUME NEW v \in Value
      PROVE  /\ ranges[v] \in LiveRange
             /\ Start(v) \in Nat /\ End(v) \in Nat
             /\ LastPoint(ranges[v]) \in Nat
             /\ LastPoint(ranges[v]) >= End(v)
             /\ LastPoint(ranges[v]) >= Start(v)
             /\ ranges[v].hint \in Reg \cup {NoReg}
  <2>1. ranges[v] \in LiveRange
    BY <1>1
  <2>2. ranges[v].start \in Nat /\ ranges[v].end \in Nat
    BY <2>1, IndexAssumption DEF LiveRange
  <2>3. ranges[v].hint \in Reg \cup {NoReg}
    BY <2>1, RegAssumption DEF LiveRange
  <2> QED
    BY <2>1, <2>2, <2>3 DEF LastPoint, Start, End
<1>3. ASSUME NEW v \in Value, NEW w \in Value, v <= w PROVE Start(v) <= Start(w)
  <2>1. v \in Int /\ w \in Int
    BY NAssumption DEF Value
  <2>2. CASE v = w
    BY <2>2, <1>2
  <2>3. CASE v < w
    BY <2>3, <1>1 DEF Sorted, Start
  <2> QED
    BY <2>1, <2>2, <2>3, <1>3
<1> QED
  BY <1>2, <1>3

(* The locals of run() before its first iteration. *)
LEMMA FreshFacts ==
    /\ 1 \in 1..(N + 1)
    /\ <<>> \in Seq(Value)
    /\ NoAssignments \in [Value -> Reg \cup {NoReg}]
    /\ NoSpills \in [Value -> Int]
    /\ -PTR_SIZE \in Int
<1>1. 1 \in 1..(N + 1)
  BY NAssumption
<1>2. NoSpills \in [Value -> Int]
  BY DEF NoSpills, NoSlot
<1>3. NoAssignments \in [Value -> Reg \cup {NoReg}]
  BY DEF NoAssignments
<1> QED
  BY <1>1, <1>2, <1>3 DEF PTR_SIZE

(* The members of a sequence by index and by set. *)
LEMMA Members ==
    ASSUME NEW S, NEW s \in Seq(S)
    PROVE  /\ Len(s) \in Nat /\ DOMAIN s = 1..Len(s)
           /\ ToSet(s) \subseteq S
           /\ \A i \in 1..Len(s) : s[i] \in S /\ s[i] \in ToSet(s)
           /\ \A x \in ToSet(s) : \E i \in 1..Len(s) : x = s[i]
<1>1. Len(s) \in Nat /\ DOMAIN s = 1..Len(s)
  BY LenProperties
<1>2. \A i \in 1..Len(s) : s[i] \in S
  BY ElementOfSeq
<1> QED
  BY <1>1, <1>2 DEF ToSet

(* insert_sorted_by_end keeps the vector in order and adds one value. *)
LEMMA InsertedByEndFacts ==
    ASSUME ranges \in Input,
           NEW s \in Seq(Value), IsInjective(s),
           \A i, j \in 1..Len(s) : i < j => End(s[i]) <= End(s[j]),
           NEW v \in Value, v \notin ToSet(s),
           NEW t, InsertedByEnd(s, v, t)
    PROVE  /\ t \in Seq(Value) /\ IsInjective(t) /\ ToSet(t) = ToSet(s) \cup {v}
           /\ \A i, j \in 1..Len(t) : i < j => End(t[i]) <= End(t[j])
<1> DEFINE n == Len(s)
<1>0. /\ n \in Nat /\ \A i \in 1..n : s[i] \in Value
  BY Members
<1>1. PICK k \in 0..n : UpperBound(s, v, k) /\ t = InsertAt(s, k + 1, v)
  BY DEF InsertedByEnd
<1>2. k + 1 \in 1..(n + 1)
  BY <1>0
<1>3. t \in Seq(Value) /\ IsInjective(t) /\ ToSet(t) = ToSet(s) \cup {v}
  BY <1>1, <1>2, Insert
<1>4. /\ Len(t) = n + 1
      /\ \A j \in 1..(n + 1) :
           t[j] = IF j < k + 1 THEN s[j] ELSE IF j = k + 1 THEN v ELSE s[j - 1]
  <2>1. /\ Len(InsertAt(s, k + 1, v)) = Len(s) + 1
        /\ \A j \in 1..(Len(s) + 1) :
             InsertAt(s, k + 1, v)[j] = IF j < k + 1 THEN s[j]
                                        ELSE IF j = k + 1 THEN v ELSE s[j - 1]
    <3> DEFINE i == k + 1
    <3>1. i \in 1..(Len(s) + 1)
      BY <1>2
    <3> HIDE DEF i
    <3>2. /\ Len(InsertAt(s, i, v)) = Len(s) + 1
          /\ \A j \in 1..(Len(s) + 1) :
               InsertAt(s, i, v)[j] = IF j < i THEN s[j]
                                      ELSE IF j = i THEN v ELSE s[j - 1]
      BY <3>1, InsertAtElements
    <3> QED
      BY <3>2 DEF i
  <2> QED
    BY <2>1, <1>1
<1>5. /\ End(v) \in Nat
      /\ \A i \in 1..n : End(s[i]) \in Nat /\ (i <= k <=> End(s[i]) <= End(v))
  BY <1>0, <1>1, InputFacts DEF UpperBound
<1> HIDE DEF n
<1>6. ASSUME NEW i \in 1..(n + 1), NEW j \in 1..(n + 1), i < j
      PROVE  End(t[i]) <= End(t[j])
  <2>1. CASE i < k + 1 /\ j < k + 1
    <3>1. i \in 1..n /\ j \in 1..n /\ t[i] = s[i] /\ t[j] = s[j]
      BY <2>1, <1>0, <1>1, <1>4
    <3> QED
      BY <3>1, <1>6 DEF n
  <2>2. CASE i < k + 1 /\ j = k + 1
    <3>1. i \in 1..n /\ i <= k /\ t[i] = s[i] /\ t[j] = v
      BY <2>2, <1>0, <1>1, <1>4
    <3> QED
      BY <3>1, <1>5
  <2>3. CASE i < k + 1 /\ j > k + 1
    <3>1. i \in 1..n /\ j - 1 \in 1..n /\ i < j - 1 /\ t[i] = s[i] /\ t[j] = s[j - 1]
      BY <2>3, <1>0, <1>1, <1>4
    <3> QED
      BY <3>1 DEF n
  <2>4. CASE i = k + 1
    <3>1. j - 1 \in 1..n /\ ~(j - 1 <= k) /\ t[i] = v /\ t[j] = s[j - 1]
      BY <2>4, <1>0, <1>1, <1>4, <1>6
    <3> QED
      BY <3>1, <1>5
  <2>5. CASE i > k + 1
    <3>1. /\ i - 1 \in 1..n /\ j - 1 \in 1..n /\ i - 1 < j - 1
          /\ t[i] = s[i - 1] /\ t[j] = s[j - 1]
      BY <2>5, <1>0, <1>1, <1>4, <1>6
    <3> QED
      BY <3>1 DEF n
  <2>6. i \in Int /\ j \in Int /\ k \in Int
    BY <1>0, <1>1
  <2> QED
    BY <2>1, <2>2, <2>3, <2>4, <2>5, <2>6, <1>6
<1> QED
  BY <1>3, <1>4, <1>6

(***************************************************************************)
(* At an interval nothing more expires for, every value that keeps a       *)
(* register reaches it, and every other assigned value is over.            *)
(***************************************************************************)
LEMMA ActiveReach ==
    ASSUME IInv, AtInterval, ~Expirable
    PROVE  \A v \in ToSet(active) : End(v) >= Start(next)
<1> USE DEF IInv
<1>1. active \in Seq(Value) /\ ranges \in Input /\ next \in Value
  BY DEF TypeOK, AtInterval
<1>2. SUFFICES ASSUME NEW i \in 1..Len(active) PROVE End(active[i]) >= Start(next)
  BY <1>1, Members
<1>3. Len(active) \in Nat /\ 1 \in 1..Len(active) /\ active[1] \in Value /\ active[i] \in Value
  BY <1>1, Members
<1>4. active # <<>> /\ Head(active) = active[1]
  BY <1>1, <1>3
<1>5. End(active[1]) >= Start(next)
  BY <1>1, <1>3, <1>4, InputFacts DEF Expirable
<1>6. End(active[1]) <= End(active[i])
  <2>1. CASE i = 1
    BY <2>1, <1>1, <1>3, InputFacts
  <2>2. CASE i # 1
    BY <2>2, <1>3 DEF ActiveSorted
  <2> QED
    BY <2>1, <2>2
<1> QED
  BY <1>1, <1>3, <1>5, <1>6, InputFacts

-----------------------------------------------------------------------------
(* Each action keeps the invariant *)

(* A new allocator satisfies the invariant. *)
LEMMA InitIInv == Init => IInv
<1> SUFFICES ASSUME Init PROVE IInv
  OBVIOUS
<1> USE DEF Init
<1>1. TypeOK
  BY FreshFacts, PoolAssumption DEF TypeOK
<1>2. BetweenCalls
  BY DEF BetweenCalls
<1>3. Placed = {} /\ Spilled = {} /\ ToSet(active) = {} /\ DOMAIN active = {}
  BY NAssumption DEF Placed, Spilled, Value, NoSpills, ToSet
<1>4. OneHomeEach /\ SlotsCounted
  <2>1. Cardinality(Spilled) = 0
    BY <1>3, FS_EmptySet
  <2>2. {spills[v] : v \in Spilled} = {} /\ 1..0 = {}
    BY <1>3
  <2> QED
    BY <1>3, <2>1, <2>2 DEF OneHomeEach, SlotsCounted, NoAssignments, PTR_SIZE
<1>5. RegistersConserved
  BY <1>3, PoolAssumption DEF RegistersConserved, IsInjective
<1>6. ActiveSorted /\ ExpiredAreOver
  BY <1>3 DEF ActiveSorted, ExpiredAreOver
<1>7. NoInterference
  BY DEF NoInterference, NoAssignments
<1> QED
  BY <1>1, <1>2, <1>4, <1>5, <1>6, <1>7 DEF IInv

(* A call starts with nothing placed. *)
LEMMA RunIInv == IInv /\ Run => IInv'
<1> SUFFICES ASSUME IInv, Run PROVE IInv'
  OBVIOUS
<1> USE DEF IInv, Run
<1>1. TypeOK'
  BY DEF TypeOK
<1>2. BetweenCalls'
  BY DEF BetweenCalls, TypeOK
<1>3. Placed = {} /\ ToSet(active) = {} /\ assignments = NoAssignments
  BY NAssumption DEF BetweenCalls, Placed, Value, ToSet
<1>4. Placed' = Placed /\ Spilled' = Spilled
  BY DEF Placed, Spilled
<1>5. OneHomeEach' /\ SlotsCounted'
  BY <1>4 DEF OneHomeEach, SlotsCounted
<1>6. RegistersConserved'
  <2>1. runs' = 1 => m_free = Pool
    BY DEF BetweenCalls, TypeOK
  <2> QED
    BY <1>3, <2>1 DEF RegistersConserved
<1>7. ActiveSorted' /\ ExpiredAreOver'
  <2>1. active = <<>>
    BY DEF BetweenCalls
  <2> QED
    BY <1>3, <1>4, <2>1 DEF ActiveSorted, ExpiredAreOver
<1>8. NoInterference'
  BY <1>3 DEF NoInterference, NoAssignments
<1> QED
  BY <1>1, <1>2, <1>5, <1>6, <1>7, <1>8

(* The end of a call leaves the pool only. *)
LEMMA ReturnIInv == IInv /\ Return => IInv'
<1> SUFFICES ASSUME IInv, Return PROVE IInv'
  OBVIOUS
<1> USE DEF IInv, Return
<1>1. TypeOK'
  BY FreshFacts DEF TypeOK
<1>2. BetweenCalls'
  BY DEF BetweenCalls
<1>3. Placed' = {} /\ Spilled' = {} /\ ToSet(active') = {} /\ DOMAIN active' = {}
  BY NAssumption DEF Placed, Spilled, Value, NoSpills, ToSet
<1>4. OneHomeEach' /\ SlotsCounted'
  <2>1. Cardinality(Spilled') = 0
    BY <1>3, FS_EmptySet
  <2>2. {spills'[v] : v \in Spilled'} = {} /\ 1..0 = {}
    BY <1>3
  <2> QED
    BY <1>3, <2>1, <2>2 DEF OneHomeEach, SlotsCounted, NoAssignments, PTR_SIZE
<1>5. RegistersConserved'
  BY <1>3 DEF RegistersConserved, IsInjective
<1>6. ActiveSorted' /\ ExpiredAreOver'
  BY <1>3 DEF ActiveSorted, ExpiredAreOver
<1>7. NoInterference'
  BY DEF NoInterference, NoAssignments
<1> QED
  BY <1>1, <1>2, <1>4, <1>5, <1>6, <1>7

(* An expired value ended before every interval still to come. *)
LEMMA ExpireIInv == IInv /\ Expire => IInv'
<1> SUFFICES ASSUME IInv, Expire PROVE IInv'
  OBVIOUS
<1> USE DEF IInv, Expire, AtInterval
<1> DEFINE h == Head(active)
           r == assignments[h]
<1>0. /\ active \in Seq(Value) /\ IsInjective(active) /\ active # <<>>
      /\ m_free \in Seq(Reg) /\ IsInjective(m_free)
      /\ ranges \in Input /\ next \in Value
  BY DEF TypeOK, RegistersConserved, Expirable
<1>1. /\ active' \in Seq(Value) /\ IsInjective(active')
      /\ h = active[1] /\ h \in ToSet(active) /\ h \in Value
      /\ ToSet(active') = ToSet(active) \ {h}
      /\ Len(active') = Len(active) - 1 /\ Len(active) \in Nat \ {0}
      /\ \A i \in 1..Len(active') : active'[i] = active[i + 1]
  BY <1>0, PopFront, Members
<1>2. r \in Reg /\ r \notin ToSet(m_free)
  BY <1>1 DEF RegistersConserved
<1>3. m_free' \in Seq(Reg) /\ IsInjective(m_free') /\ ToSet(m_free') = ToSet(m_free) \cup {r}
  BY <1>0, <1>2, PushBack
<1>4. Placed' = Placed /\ Spilled' = Spilled
  BY DEF Placed, Spilled
<1>5. TypeOK' /\ BetweenCalls'
  BY <1>1, <1>3 DEF TypeOK, BetweenCalls
<1>6. OneHomeEach' /\ SlotsCounted' /\ NoInterference'
  BY <1>4 DEF OneHomeEach, SlotsCounted, NoInterference
<1>7. RegistersConserved'
  <2>1. \A v \in ToSet(active') : assignments[v] \in Reg \ ToSet(m_free')
    BY <1>1, <1>3 DEF RegistersConserved
  <2>2. {assignments[v] : v \in ToSet(active)} = {assignments[v] : v \in ToSet(active')} \cup {r}
    BY <1>1
  <2> QED
    BY <1>1, <1>3, <2>1, <2>2 DEF RegistersConserved
<1>8. ActiveSorted'
  <2>1. ToSet(active') \subseteq Placed'
    BY <1>1, <1>4 DEF ActiveSorted
  <2>2. ASSUME NEW i \in 1..Len(active'), NEW j \in 1..Len(active'), i < j
        PROVE  End(active'[i]) <= End(active'[j])
    <3>1. i + 1 \in 1..Len(active) /\ j + 1 \in 1..Len(active) /\ i + 1 < j + 1
      BY <1>1, <2>2
    <3>2. End(active[i + 1]) <= End(active[j + 1])
      BY <3>1 DEF ActiveSorted
    <3> QED
      BY <3>2, <1>1
  <2> QED
    BY <2>1, <2>2 DEF ActiveSorted, End
<1>9. ExpiredAreOver'
  <2>1. \A w \in Value \ Placed : LastPoint(ranges[h]) < Start(w)
    <3> SUFFICES ASSUME NEW w \in Value \ Placed PROVE LastPoint(ranges[h]) < Start(w)
      OBVIOUS
    <3>1. next <= w /\ h < next /\ h \in Int /\ next \in Int /\ w \in Int
      BY <1>0, <1>1, NAssumption DEF Placed, Value, ActiveSorted
    <3>2. Start(next) <= Start(w) /\ Start(h) <= Start(next) /\ End(h) < Start(next)
      BY <1>0, <1>1, <3>1, InputFacts DEF Expirable
    <3>3. Start(h) = Start(next) => Start(h) <= End(h)
      BY <1>0, <1>1, <3>1 DEF Input, UsedIfTied, Start, End
    <3>4. LastPoint(ranges[h]) = IF End(h) < Start(h) THEN Start(h) ELSE End(h)
      BY DEF LastPoint, Start, End
    <3>5. Start(h) \in Nat /\ End(h) \in Nat /\ Start(next) \in Nat /\ Start(w) \in Nat
      BY <1>0, <1>1, InputFacts
    <3> QED
      BY <3>2, <3>3, <3>4, <3>5
  <2>2. ranges' = ranges /\ assignments' = assignments
    OBVIOUS
  <2> HIDE DEF h
  <2> QED
    BY <2>1, <2>2, <1>1, <1>4 DEF ExpiredAreOver, Start
<1> QED
  BY <1>5, <1>6, <1>7, <1>8, <1>9

(* The loop passes an interval. *)
LEMMA NextPlaced ==
    ASSUME IInv, AtInterval, next' = next + 1
    PROVE  /\ next \in Value /\ next \notin Placed /\ next \notin ToSet(active)
           /\ Placed' = Placed \cup {next} /\ next' \in 1..(N + 1)
           /\ assignments[next] = NoReg /\ next \notin Spilled
<1>1. next \in 1..N /\ N \in Nat
  BY NAssumption DEF AtInterval, Value
<1>2. Placed' = Placed \cup {next} /\ next \notin Placed /\ next' \in 1..(N + 1)
  BY <1>1 DEF Placed, Value
<1> QED
  BY <1>1, <1>2 DEF IInv, ActiveSorted, OneHomeEach, Value

(* A spilled value gets the next of the slots -8, -16, ... *)
LEMMA SpillFacts ==
    ASSUME IInv, NEW v \in Value, v \notin Spilled, Spill(v)
    PROVE  /\ spills' \in [Value -> Int] /\ stack_offset' \in Int
           /\ Spilled' = Spilled \cup {v}
           /\ {spills'[w] : w \in Spilled'} = {-PTR_SIZE * k : k \in 1..Cardinality(Spilled')}
           /\ SlotsCounted'
<1> DEFINE c == Cardinality(Spilled)
<1>1. IsFiniteSet(Value) /\ Spilled \subseteq Value
  BY NAssumption, FS_Interval DEF Value, Spilled
<1>2. c \in Nat /\ IsFiniteSet(Spilled)
  BY <1>1, FS_Subset, FS_CardinalityType
<1>3. stack_offset = -8 * (c + 1) /\ {spills[w] : w \in Spilled} = {-8 * k : k \in 1..c}
  BY DEF IInv, SlotsCounted, OneHomeEach, PTR_SIZE
<1>4. /\ spills \in [Value -> Int] /\ spills' = [spills EXCEPT ![v] = stack_offset]
      /\ stack_offset' = stack_offset - 8
  BY DEF IInv, TypeOK, Spill, PTR_SIZE
<1>5. Cardinality(Spilled \cup {v}) = c + 1
  BY <1>2, FS_AddElement
<1> HIDE DEF c
<1>6. stack_offset \in Int /\ stack_offset # 0
  BY <1>2, <1>3
<1>7. Spilled' = Spilled \cup {v}
  BY <1>4, <1>6 DEF Spilled, NoSlot
<1>8. Cardinality(Spilled') = c + 1
  BY <1>5, <1>7
<1>9. {spills'[w] : w \in Spilled'} = {spills[w] : w \in Spilled} \cup {stack_offset}
  <2>1. spills'[v] = stack_offset /\ \A w \in Spilled : spills'[w] = spills[w]
    BY <1>1, <1>4
  <2> QED
    BY <2>1, <1>7
<1>10. {-8 * k : k \in 1..(c + 1)} = {-8 * k : k \in 1..c} \cup {-8 * (c + 1)}
  <2>1. 1..(c + 1) = (1..c) \cup {c + 1}
    BY <1>2
  <2> QED
    BY <2>1
<1>11. {spills'[w] : w \in Spilled'} = {-PTR_SIZE * k : k \in 1..Cardinality(Spilled')}
  BY <1>3, <1>8, <1>9, <1>10 DEF PTR_SIZE
<1>12. SlotsCounted'
  <2>1. stack_offset' = -8 * ((c + 1) + 1)
    BY <1>2, <1>3, <1>4
  <2> QED
    BY <2>1, <1>8 DEF SlotsCounted, PTR_SIZE
<1>13. spills' \in [Value -> Int] /\ stack_offset' \in Int
  BY <1>4, <1>6
<1> QED
  BY <1>7, <1>11, <1>12, <1>13

(***************************************************************************)
(* An assigned value that no longer holds its register is over before the  *)
(* current interval starts: the two may share the register.                *)
(***************************************************************************)
LEMMA ReuseIsSafe ==
    ASSUME IInv, AtInterval, NEW w \in Value,
           assignments[w] # NoReg, w \notin ToSet(active)
    PROVE  /\ ~Overlap(ranges[next], ranges[w])
           /\ ~Overlap(ranges[w], ranges[next])
<1>1. ranges \in Input /\ next \in Value /\ w \in Placed
  BY DEF IInv, TypeOK, AtInterval, OneHomeEach
<1>2. next \notin Placed
  BY NAssumption, <1>1 DEF Placed, Value
<1>3. LastPoint(ranges[w]) < ranges[next].start
  BY <1>1, <1>2 DEF IInv, ExpiredAreOver, Start
<1>4. LastPoint(ranges[w]) \in Nat /\ ranges[next].start \in Nat
  BY <1>1, InputFacts DEF Start
<1>5. ~(ranges[next].start <= LastPoint(ranges[w]))
  BY <1>3, <1>4
<1> QED
  BY <1>5 DEF Overlap

(* Giving the current interval a register that is in the pool. *)
LEMMA TakeRegisterIInv ==
    ASSUME IInv, AtInterval, ~Expirable,
           NEW r \in ToSet(m_free),
           m_free' \in Seq(Reg), IsInjective(m_free'),
           ToSet(m_free') = ToSet(m_free) \ {r},
           Assign(r, assignments, active),
           UNCHANGED <<spills, stack_offset>>
    PROVE  IInv'
<1> USE DEF IInv, Assign
<1>1. /\ active \in Seq(Value) /\ IsInjective(active)
      /\ m_free \in Seq(Reg) /\ ranges \in Input /\ running
      /\ assignments \in [Value -> Reg \cup {NoReg}]
  BY DEF TypeOK, RegistersConserved, AtInterval
<1>2. /\ next \in Value /\ next \notin Placed /\ next \notin ToSet(active)
      /\ Placed' = Placed \cup {next} /\ next' \in 1..(N + 1)
      /\ assignments[next] = NoReg /\ next \notin Spilled
  BY NextPlaced
<1>3. /\ active' \in Seq(Value) /\ IsInjective(active')
      /\ ToSet(active') = ToSet(active) \cup {next}
      /\ \A i, j \in 1..Len(active') : i < j => End(active'[i]) <= End(active'[j])
  BY <1>1, <1>2, InsertedByEndFacts DEF ActiveSorted
<1>4. r \in Reg /\ r # NoReg
  BY <1>1, RegAssumption, Members
<1>5. /\ assignments' = [assignments EXCEPT ![next] = r]
      /\ assignments'[next] = r
      /\ \A v \in Value : v # next => assignments'[v] = assignments[v]
  BY <1>1, <1>2
<1>6. ToSet(active) \subseteq Value
  BY <1>1, Members
<1>7. Spilled' = Spilled
  BY DEF Spilled
<1>8. TypeOK' /\ BetweenCalls'
  BY <1>1, <1>2, <1>3, <1>4, <1>5 DEF TypeOK, BetweenCalls
<1>9. OneHomeEach' /\ SlotsCounted'
  <2>1. \A v \in Placed' : (v \in Spilled') <=> (assignments'[v] = NoReg)
    BY <1>2, <1>4, <1>5, <1>7 DEF OneHomeEach, Placed
  <2>2. \A v \in Value \ Placed' : v \notin Spilled' /\ assignments'[v] = NoReg
    BY <1>2, <1>5, <1>7 DEF OneHomeEach
  <2> QED
    BY <2>1, <2>2, <1>7 DEF OneHomeEach, SlotsCounted
<1>10. RegistersConserved'
  <2>1. \A v \in ToSet(active') : assignments'[v] \in Reg \ ToSet(m_free')
    BY <1>2, <1>3, <1>4, <1>5, <1>6 DEF RegistersConserved
  <2>2. \A v, w \in ToSet(active') : assignments'[v] = assignments'[w] => v = w
    BY <1>2, <1>3, <1>5, <1>6 DEF RegistersConserved
  <2>3. {assignments'[v] : v \in ToSet(active')} = {assignments[v] : v \in ToSet(active)} \cup {r}
    BY <1>2, <1>3, <1>5, <1>6
  <2> QED
    BY <1>3, <2>1, <2>2, <2>3 DEF RegistersConserved
<1>11. ActiveSorted'
  BY <1>2, <1>3 DEF ActiveSorted, End
<1>12. ExpiredAreOver'
  BY <1>2, <1>3, <1>5 DEF ExpiredAreOver, Start, Placed
<1>13. NoInterference'
  <2> SUFFICES ASSUME NEW v \in Value, NEW w \in Value, v # w,
                      assignments'[v] # NoReg, assignments'[v] = assignments'[w]
               PROVE  ~Overlap(ranges[v], ranges[w])
    BY DEF NoInterference
  <2>1. ASSUME NEW x \in Value, x # next, assignments[x] = r
        PROVE  ~Overlap(ranges[next], ranges[x]) /\ ~Overlap(ranges[x], ranges[next])
    <3>1. x \notin ToSet(active)
      BY <2>1 DEF RegistersConserved
    <3> QED
      BY <2>1, <3>1, <1>4, ReuseIsSafe
  <2>2. CASE v = next
    BY <2>1, <2>2, <1>5
  <2>3. CASE w = next
    BY <2>1, <2>3, <1>5
  <2>4. CASE v # next /\ w # next
    BY <2>4, <1>5 DEF NoInterference
  <2> QED
    BY <2>2, <2>3, <2>4
<1> QED
  BY <1>8, <1>9, <1>10, <1>11, <1>12, <1>13

(* The hinted register is in the pool. *)
LEMMA TakeHintIInv == IInv /\ TakeHint => IInv'
<1> SUFFICES ASSUME IInv, TakeHint PROVE IInv'
  OBVIOUS
<1>1. PICK i \in 1..Len(m_free) :
        m_free[i] = ranges[next].hint /\ m_free' = RemoveAt(m_free, i)
  BY DEF TakeHint
<1>2. m_free \in Seq(Reg) /\ IsInjective(m_free)
  BY DEF IInv, TypeOK, RegistersConserved
<1> DEFINE r == ranges[next].hint
<1>3. /\ r \in ToSet(m_free) /\ m_free' \in Seq(Reg) /\ IsInjective(m_free')
      /\ ToSet(m_free') = ToSet(m_free) \ {r}
  BY <1>1, <1>2, Erase
<1>4. /\ AtInterval /\ ~Expirable /\ Assign(r, assignments, active)
      /\ UNCHANGED <<spills, stack_offset>>
  BY DEF TakeHint
<1> HIDE DEF r
<1> QED
  BY <1>3, <1>4, TakeRegisterIInv

(* The last register of the pool is in the pool. *)
LEMMA TakeFreeIInv == IInv /\ TakeFree => IInv'
<1> SUFFICES ASSUME IInv, TakeFree PROVE IInv'
  OBVIOUS
<1>1. m_free \in Seq(Reg) /\ IsInjective(m_free) /\ m_free # <<>>
  BY DEF IInv, TypeOK, RegistersConserved, TakeFree
<1> DEFINE r == Last(m_free)
<1>2. /\ r \in ToSet(m_free) /\ m_free' \in Seq(Reg) /\ IsInjective(m_free')
      /\ ToSet(m_free') = ToSet(m_free) \ {r}
  BY <1>1, PopBack DEF TakeFree
<1>3. /\ AtInterval /\ ~Expirable /\ Assign(r, assignments, active)
      /\ UNCHANGED <<spills, stack_offset>>
  BY DEF TakeFree
<1> HIDE DEF r
<1> QED
  BY <1>2, <1>3, TakeRegisterIInv

(* Giving the current interval a slot. *)
LEMMA SpillCurrentIInv == IInv /\ SpillCurrent => IInv'
<1> SUFFICES ASSUME IInv, SpillCurrent PROVE IInv'
  OBVIOUS
<1> USE DEF IInv, SpillCurrent
<1>1. /\ next \in Value /\ next \notin Placed /\ next \notin ToSet(active)
      /\ Placed' = Placed \cup {next} /\ next' \in 1..(N + 1)
      /\ assignments[next] = NoReg /\ next \notin Spilled
  BY NextPlaced
<1>2. /\ spills' \in [Value -> Int] /\ stack_offset' \in Int
      /\ Spilled' = Spilled \cup {next}
      /\ {spills'[w] : w \in Spilled'} = {-PTR_SIZE * k : k \in 1..Cardinality(Spilled')}
      /\ SlotsCounted'
  BY <1>1, SpillFacts
<1>3. /\ running' = running /\ runs' = runs /\ m_free' = m_free /\ ranges' = ranges
      /\ active' = active /\ assignments' = assignments /\ running
  BY DEF AtInterval
<1>4. TypeOK' /\ BetweenCalls'
  BY <1>1, <1>2, <1>3 DEF TypeOK, BetweenCalls
<1>5. OneHomeEach'
  <2>1. \A v \in Placed' : (v \in Spilled') <=> (assignments'[v] = NoReg)
    BY <1>1, <1>2, <1>3 DEF OneHomeEach, Placed
  <2>2. \A v \in Value \ Placed' : v \notin Spilled' /\ assignments'[v] = NoReg
    BY <1>1, <1>2, <1>3 DEF OneHomeEach
  <2> QED
    BY <2>1, <2>2, <1>2 DEF OneHomeEach
<1>6. RegistersConserved'
  BY <1>3 DEF RegistersConserved
<1>7. ActiveSorted' /\ ExpiredAreOver'
  BY <1>1, <1>3 DEF ActiveSorted, ExpiredAreOver, Start, End
<1>8. NoInterference'
  BY <1>3 DEF NoInterference
<1> QED
  BY <1>2, <1>4, <1>5, <1>6, <1>7, <1>8

(* A theft gives the value that ends last a slot, and its register away. *)
LEMMA StealFromLastIInv == IInv /\ StealFromLast => IInv'
<1> SUFFICES ASSUME IInv, StealFromLast PROVE IInv'
  OBVIOUS
<1> USE DEF IInv
<1> DEFINE c == Last(active)
           r == assignments[c]
           held == Front(active)
<1>1. /\ active \in Seq(Value) /\ IsInjective(active) /\ active # <<>>
      /\ ranges \in Input /\ running
      /\ assignments \in [Value -> Reg \cup {NoReg}]
  BY DEF TypeOK, RegistersConserved, AtInterval, StealFromLast, CandidateEndsLater
<1>2. /\ next \in Value /\ next \notin Placed /\ next \notin ToSet(active)
      /\ Placed' = Placed \cup {next} /\ next' \in 1..(N + 1)
      /\ assignments[next] = NoReg /\ next \notin Spilled
  BY NextPlaced DEF StealFromLast, Assign
<1>3. /\ held \in Seq(Value) /\ IsInjective(held)
      /\ c \in ToSet(active) /\ c \in Value
      /\ ToSet(held) = ToSet(active) \ {c}
  BY <1>1, PopBack, Members
<1>4. \A i, j \in 1..Len(held) : i < j => End(held[i]) <= End(held[j])
  <2>1. /\ Len(held) = Len(active) - 1 /\ Len(active) \in Nat \ {0}
        /\ \A i \in 1..(Len(active) - 1) : held[i] = active[i]
    BY <1>1, FrontElements
  <2> HIDE DEF held
  <2>2. \A i \in 1..Len(held) : i \in 1..Len(active) /\ held[i] = active[i]
    BY <2>1
  <2> QED
    BY <2>2 DEF ActiveSorted
<1>5. /\ InsertedByEnd(held, next, active')
      /\ assignments' = [[assignments EXCEPT ![c] = NoReg] EXCEPT ![next] = r]
      /\ next' = next + 1
      /\ running' = running /\ runs' = runs /\ ranges' = ranges /\ m_free' = m_free
      /\ m_free = <<>>
      /\ Spill(c)
  BY DEF StealFromLast, Assign
<1>6. /\ r \in Reg /\ r # NoReg /\ c # next /\ c \in Placed /\ c \notin Spilled
  BY <1>1, <1>2, <1>3, RegAssumption DEF RegistersConserved, ActiveSorted, OneHomeEach
<1>7. /\ assignments'[next] = r /\ assignments'[c] = NoReg
      /\ \A v \in Value : v # next /\ v # c => assignments'[v] = assignments[v]
      /\ assignments' \in [Value -> Reg \cup {NoReg}]
  BY <1>1, <1>2, <1>3, <1>5, <1>6
<1>8. /\ spills' \in [Value -> Int] /\ stack_offset' \in Int
      /\ Spilled' = Spilled \cup {c}
      /\ {spills'[w] : w \in Spilled'} = {-PTR_SIZE * k : k \in 1..Cardinality(Spilled')}
      /\ SlotsCounted'
  BY <1>3, <1>5, <1>6, SpillFacts
<1>9. /\ active' \in Seq(Value) /\ IsInjective(active')
      /\ ToSet(active') = ToSet(held) \cup {next}
      /\ \A i, j \in 1..Len(active') : i < j => End(active'[i]) <= End(active'[j])
  BY <1>1, <1>2, <1>3, <1>4, <1>5, InsertedByEndFacts
<1>10. ToSet(active) \subseteq Value
  BY <1>1, Members
<1> HIDE DEF c, r, held
<1>11. TypeOK' /\ BetweenCalls'
  BY <1>1, <1>2, <1>5, <1>7, <1>8, <1>9 DEF TypeOK, BetweenCalls
<1>12. OneHomeEach'
  <2>1. \A v \in Placed' : (v \in Spilled') <=> (assignments'[v] = NoReg)
    BY <1>2, <1>6, <1>7, <1>8 DEF OneHomeEach, Placed
  <2>2. \A v \in Value \ Placed' : v \notin Spilled' /\ assignments'[v] = NoReg
    BY <1>2, <1>6, <1>7, <1>8 DEF OneHomeEach
  <2> QED
    BY <2>1, <2>2, <1>8 DEF OneHomeEach
<1>13. RegistersConserved'
  <2>1. r = assignments[c]
    BY DEF r
  <2>2. \A v \in ToSet(active') : assignments'[v] \in Reg \ ToSet(m_free')
    BY <1>2, <1>3, <1>5, <1>6, <1>7, <1>9, <1>10, <2>1 DEF RegistersConserved
  <2>3. \A v, w \in ToSet(active') : assignments'[v] = assignments'[w] => v = w
    BY <1>2, <1>3, <1>6, <1>7, <1>9, <1>10, <2>1 DEF RegistersConserved
  <2>4. {assignments'[v] : v \in ToSet(active')} = {assignments[v] : v \in ToSet(active)}
    <3>1. \A v \in ToSet(held) : assignments'[v] = assignments[v]
      BY <1>2, <1>3, <1>7, <1>10
    <3>2. ToSet(active) = ToSet(held) \cup {c}
      BY <1>3
    <3> QED
      BY <3>1, <3>2, <1>7, <1>9, <2>1
  <2> QED
    BY <1>5, <1>9, <2>2, <2>3, <2>4 DEF RegistersConserved
<1>14. ActiveSorted'
  BY <1>2, <1>3, <1>5, <1>9 DEF ActiveSorted, End
<1>15. ExpiredAreOver'
  BY <1>2, <1>3, <1>5, <1>7, <1>9 DEF ExpiredAreOver, Start, Placed
<1>16. NoInterference'
  <2> SUFFICES ASSUME NEW v \in Value, NEW w \in Value, v # w,
                      assignments'[v] # NoReg, assignments'[v] = assignments'[w]
               PROVE  ~Overlap(ranges[v], ranges[w])
    BY <1>5 DEF NoInterference
  <2>0. v # c /\ w # c
    BY <1>7
  <2>1. ASSUME NEW x \in Value, x # next, x # c, assignments[x] = r
        PROVE  ~Overlap(ranges[next], ranges[x]) /\ ~Overlap(ranges[x], ranges[next])
    <3>1. x \notin ToSet(active)
      BY <2>1, <1>3 DEF RegistersConserved, r
    <3> QED
      BY <2>1, <3>1, <1>6, ReuseIsSafe DEF StealFromLast
  <2>2. CASE v = next
    BY <2>0, <2>1, <2>2, <1>7
  <2>3. CASE w = next
    BY <2>0, <2>1, <2>3, <1>7
  <2>4. CASE v # next /\ w # next
    BY <2>0, <2>4, <1>7 DEF NoInterference
  <2> QED
    BY <2>2, <2>3, <2>4
<1> QED
  BY <1>8, <1>11, <1>12, <1>13, <1>14, <1>15, <1>16

-----------------------------------------------------------------------------
(* The theorems *)

(* No step of the allocator leaves the inductive invariant. *)
LEMMA StepIInv == IInv /\ [Next]_vars => IInv'
<1> SUFFICES ASSUME IInv, [Next]_vars PROVE IInv'
  OBVIOUS
<1>1. CASE Run
  BY <1>1, RunIInv
<1>2. CASE Expire
  BY <1>2, ExpireIInv
<1>3. CASE TakeHint
  BY <1>3, TakeHintIInv
<1>4. CASE TakeFree
  BY <1>4, TakeFreeIInv
<1>5. CASE StealFromLast
  BY <1>5, StealFromLastIInv
<1>6. CASE SpillCurrent
  BY <1>6, SpillCurrentIInv
<1>7. CASE Return
  BY <1>7, ReturnIInv
<1>8. CASE UNCHANGED vars
  <2>1. /\ running' = running /\ runs' = runs /\ m_free' = m_free /\ ranges' = ranges
        /\ next' = next /\ active' = active /\ assignments' = assignments
        /\ spills' = spills /\ stack_offset' = stack_offset
    BY <1>8 DEF vars
  <2>2. Placed' = Placed /\ Spilled' = Spilled
    BY <2>1 DEF Placed, Spilled
  <2>3. TypeOK' /\ BetweenCalls'
    BY <2>1 DEF IInv, TypeOK, BetweenCalls
  <2>4. OneHomeEach' /\ SlotsCounted' /\ NoInterference'
    BY <2>1, <2>2 DEF IInv, OneHomeEach, SlotsCounted, NoInterference
  <2>5. RegistersConserved'
    BY <2>1 DEF IInv, RegistersConserved
  <2>6. ActiveSorted' /\ ExpiredAreOver'
    BY <2>1, <2>2 DEF IInv, ActiveSorted, ExpiredAreOver, Start, End
  <2> QED
    BY <2>3, <2>4, <2>5, <2>6 DEF IInv
<1> QED
  BY <1>1, <1>2, <1>3, <1>4, <1>5, <1>6, <1>7, <1>8 DEF Next, Place

(* The inductive invariant holds throughout: every property below is read off it. *)
THEOREM Invariance == Spec => []IInv
<1>1. Init => IInv
  BY InitIInv
<1>2. IInv /\ [Next]_vars => IInv'
  BY StepIInv
<1> QED
  BY <1>1, <1>2, PTL DEF Spec

(* The variables keep their types: run() never indexes a map it has no entry in. *)
THEOREM TypeCorrect == Spec => []TypeOK
<1>1. IInv => TypeOK
  BY DEF IInv
<1> QED
  BY <1>1, Invariance, PTL

(***************************************************************************)
(* Two values that need a home at one index never share a register, for    *)
(* any pool, any ranges and any number of calls on one allocator.          *)
(***************************************************************************)
THEOREM RegistersAreNotShared == Spec => []NoInterference
<1>1. IInv => NoInterference
  BY DEF IInv
<1> QED
  BY <1>1, Invariance, PTL

(* Every value the loop has passed has one home, and slots are -8, -16, ... *)
THEOREM HomesAreUnique == Spec => []OneHomeEach
<1>1. IInv => OneHomeEach
  BY DEF IInv
<1> QED
  BY <1>1, Invariance, PTL

(* No register is lost or held twice while a call runs. *)
THEOREM RegistersAreConserved == Spec => []RegistersConserved
<1>1. IInv => RegistersConserved
  BY DEF IInv
<1> QED
  BY <1>1, Invariance, PTL

(* After expiry, active is exactly the assigned values that reach the interval. *)
THEOREM ActiveIsExact == Spec => []HoldersAreLive
<1>1. IInv => HoldersAreLive
  <2> SUFFICES ASSUME IInv, AtInterval, ~Expirable
               PROVE  ToSet(active) =
                        {v \in Placed : assignments[v] # NoReg /\ End(v) >= Start(next)}
    BY DEF HoldersAreLive
  <2>1. ranges \in Input /\ next \in Value /\ next \notin Placed
    BY NAssumption DEF IInv, TypeOK, AtInterval, Placed, Value
  <2>2. ASSUME NEW v \in ToSet(active)
        PROVE  v \in Placed /\ assignments[v] # NoReg /\ End(v) >= Start(next)
    BY <2>2, ActiveReach, RegAssumption DEF IInv, ActiveSorted, RegistersConserved
  <2>3. ASSUME NEW v \in Placed, assignments[v] # NoReg, End(v) >= Start(next)
        PROVE  v \in ToSet(active)
    <3>1. SUFFICES ASSUME v \notin ToSet(active) PROVE FALSE
      OBVIOUS
    <3>2. v \in Value
      BY DEF Placed
    <3>3. LastPoint(ranges[v]) < Start(next)
      BY <2>1, <2>3, <3>1 DEF IInv, ExpiredAreOver
    <3> QED
      BY <2>1, <2>3, <3>2, <3>3, InputFacts
  <2> QED
    BY <2>2, <2>3
<1> QED
  BY <1>1, Invariance, PTL

(***************************************************************************)
(* The spilled value is one that ends last of those that want a register.  *)
(***************************************************************************)
THEOREM FurthestEndIsSpilled == Spec => SpillsFurthestEnd
<1> DEFINE A == \A v \in Spilled' \ Spilled : \A w \in ToSet(active') : End(w) <= End(v)
<1>1. IInv /\ [Next]_vars => [A]_vars
  <2> SUFFICES ASSUME IInv, Next PROVE A
    OBVIOUS
  <2>1. CASE spills' = spills \/ Run \/ Return
    BY <2>1 DEF Spilled, Run, Return, NoSpills
  <2>2. CASE SpillCurrent
    <3>1. /\ active \in Seq(Value) /\ ranges \in Input /\ next \in Value
          /\ active' = active /\ ~CandidateEndsLater
          /\ Spilled' = Spilled \cup {next}
      BY <2>2, NextPlaced, SpillFacts DEF SpillCurrent, AtInterval, IInv, TypeOK
    <3>2. SUFFICES ASSUME NEW i \in 1..Len(active) PROVE End(active[i]) <= End(next)
      BY <3>1, Members
    <3> DEFINE n == Len(active)
    <3>3. n \in Nat /\ active[i] \in Value /\ active # <<>> /\ n \in 1..n /\ active[n] \in Value
      BY <3>1, <3>2, Members
    <3>4. End(active[n]) <= End(next)
      BY <3>1, <3>3, InputFacts DEF CandidateEndsLater, Last
    <3>5. End(active[i]) <= End(active[n])
      <4>1. CASE i = n
        BY <4>1, <3>1, <3>3, InputFacts
      <4>2. CASE i # n
        BY <4>2, <3>3 DEF IInv, ActiveSorted
      <4> QED
        BY <4>1, <4>2
    <3> QED
      BY <3>1, <3>3, <3>4, <3>5, InputFacts
  <2>3. CASE StealFromLast
    <3> DEFINE c == Last(active)
               n == Len(active)
    <3>1. /\ active \in Seq(Value) /\ IsInjective(active) /\ ranges \in Input
          /\ next \in Value /\ active # <<>> /\ End(c) > End(next)
          /\ InsertedByEnd(Front(active), next, active')
      BY <2>3 DEF StealFromLast, CandidateEndsLater, Assign, AtInterval, IInv, TypeOK,
                  RegistersConserved
    <3>2. c \in Value /\ c = active[n] /\ c \in ToSet(active) /\ n \in Nat \ {0}
      BY <3>1, PopBack, FrontElements, Members
    <3>3. c \notin Spilled
      BY <3>2, RegAssumption DEF IInv, OneHomeEach, ActiveSorted, RegistersConserved
    <3>4. Spilled' = Spilled \cup {c}
      BY <2>3, <3>2, <3>3, SpillFacts DEF StealFromLast
    <3>5. ToSet(active') \subseteq ToSet(active) \cup {next}
      <4>1. PICK k \in 0..Len(Front(active)) :
              active' = InsertAt(Front(active), k + 1, next)
        BY <3>1 DEF InsertedByEnd
      <4>2. /\ Front(active) \in Seq(Value) /\ IsInjective(Front(active))
            /\ ToSet(Front(active)) = ToSet(active) \ {c}
        BY <3>1, PopBack
      <4>3. next \notin ToSet(Front(active))
        BY <2>3, <4>2, NextPlaced DEF StealFromLast, Assign
      <4>4. k + 1 \in 1..(Len(Front(active)) + 1)
        BY <4>2, LenProperties
      <4> QED
        BY <4>1, <4>2, <4>3, <4>4, <3>1, Insert
    <3>6. \A i \in 1..n : End(active[i]) <= End(active[n])
      <4> TAKE i \in 1..n
      <4>1. CASE i = n
        BY <4>1, <3>1, <3>2, InputFacts
      <4>2. CASE i # n
        BY <4>2, <3>2 DEF IInv, ActiveSorted
      <4> QED
        BY <4>1, <4>2
    <3>7. \A w \in ToSet(active) : End(w) <= End(c)
      BY <3>1, <3>2, <3>6, Members
    <3>8. End(next) <= End(c)
      BY <3>1, <3>2, InputFacts
    <3> HIDE DEF c
    <3> QED
      BY <3>4, <3>5, <3>7, <3>8
  <2> QED
    BY <2>1, <2>2, <2>3
       DEF Next, Place, Expire, TakeHint, TakeFree
<1> QED
  BY <1>1, Invariance, PTL DEF Spec, SpillsFurthestEnd

-----------------------------------------------------------------------------
(* Why the allocator spills *)

(***************************************************************************)
(* In a first call with no register free, every register of the pool is    *)
(* held by a value that reaches the current interval: these values and the *)
(* current one need more homes there than the pool has registers.          *)
(***************************************************************************)
LEMMA Pressure ==
    ASSUME IInv, AtInterval, ~Expirable, m_free = <<>>, runs = 1
    PROVE  Cardinality(NeedAHomeAt(Start(next))) > Len(Pool)
<1> DEFINE A == ToSet(active)
           L == Len(Pool)
           H == NeedAHomeAt(Start(next))
           g == [i \in 1..L |-> CHOOSE v \in A : assignments[v] = Pool[i]]
<1>1. /\ L \in Nat /\ \A i \in 1..L : Pool[i] \in ToSet(Pool)
      /\ \A i, j \in 1..L : Pool[i] = Pool[j] => i = j
  <2>1. Pool \in Seq(Reg) /\ IsInjective(Pool)
    BY PoolAssumption
  <2> QED
    BY <2>1, Members DEF IsInjective
<1>2. {assignments[v] : v \in A} = ToSet(Pool)
  <2>1. ToSet(m_free) = {}
    BY DEF ToSet
  <2> QED
    BY <2>1 DEF IInv, RegistersConserved, AtInterval
<1>3. /\ active \in Seq(Value) /\ A \subseteq Value
      /\ ranges \in Input /\ next \in Value
  BY Members DEF IInv, TypeOK, AtInterval
<1>4. IsFiniteSet(Value) /\ IsFiniteSet(A) /\ next \notin A
  <2>1. IsFiniteSet(Value)
    BY NAssumption, FS_Interval DEF Value
  <2>2. next \notin A
    BY NAssumption DEF IInv, ActiveSorted, Placed, Value, AtInterval
  <2> QED
    BY <1>3, <2>1, <2>2, FS_Subset
<1>5. L <= Cardinality(A)
  <2>1. \A i \in 1..L : \E v \in A : assignments[v] = Pool[i]
    BY <1>1, <1>2
  <2> HIDE DEF A, L
  <2>2. \A i \in 1..L : g[i] \in A /\ assignments[g[i]] = Pool[i]
    BY <2>1
  <2>3. g \in [1..L -> A]
    BY <2>2
  <2> HIDE DEF g
  <2>4. \A i, j \in 1..L : g[i] = g[j] => i = j
    BY <2>2, <1>1
  <2>5. g \in Injection(1..L, A)
    BY <2>3, <2>4 DEF Injection, IsInjective
  <2>6. Cardinality(1..L) <= Cardinality(A)
    BY <2>5, <1>4, FS_Injection
  <2>7. Cardinality(1..L) = L
    BY <1>1, FS_Interval
  <2> QED
    BY <2>6, <2>7
<1>6. A \cup {next} \subseteq H
  <2>1. ASSUME NEW v \in A PROVE v \in H
    <3>1. End(v) >= Start(next)
      BY ActiveReach
    <3>2. v \in Value /\ v <= next
      BY <1>3, NAssumption DEF IInv, ActiveSorted, Placed, Value
    <3>3. Start(v) <= Start(next)
      BY <1>3, <3>2, InputFacts
    <3>4. LastPoint(ranges[v]) >= Start(next)
      BY <1>3, <3>1, <3>2, InputFacts
    <3> QED
      BY <1>3, <3>2, <3>3, <3>4, InputFacts DEF NeedAHomeAt
  <2>2. next \in H
    <3>1. Start(next) <= Start(next) /\ Start(next) <= LastPoint(ranges[next])
      BY <1>3, InputFacts
    <3> QED
      BY <1>3, <3>1 DEF NeedAHomeAt
  <2> QED
    BY <2>1, <2>2
<1>7. IsFiniteSet(H) /\ Cardinality(H) \in Nat
  <2>1. H \in SUBSET Value
    BY DEF NeedAHomeAt
  <2> HIDE DEF H
  <2> QED
    BY <1>4, <2>1, FS_Subset, FS_CardinalityType
<1>8. Cardinality(A) \in Nat /\ Cardinality(A \cup {next}) = Cardinality(A) + 1
  BY <1>4, FS_AddElement, FS_CardinalityType
<1>9. Cardinality(A \cup {next}) <= Cardinality(H)
  <2> HIDE DEF A, H
  <2> QED
    BY <1>6, <1>7, FS_Subset
<1> HIDE DEF A, L, H
<1>10. Cardinality(H) > L
  BY <1>1, <1>5, <1>7, <1>8, <1>9
<1> QED
  BY <1>10 DEF L, H

(* The pressure that made a value spill stays where it was. *)
LEMMA StepPressure ==
    IInv /\ SpillsOnlyUnderPressure /\ [Next]_vars => SpillsOnlyUnderPressure'
<1> SUFFICES ASSUME IInv, SpillsOnlyUnderPressure, [Next]_vars,
                    runs' = 1, Spilled' # {}
             PROVE  \E v \in Placed' : Cardinality(NeedAHomeAt(Start(v))') > Len(Pool)
  BY DEF SpillsOnlyUnderPressure
<1>1. CASE Run \/ Return
  <2>1. spills' = NoSpills
    BY <1>1 DEF Run, Return, IInv, BetweenCalls
  <2> QED
    BY <2>1 DEF Spilled, NoSpills
<1>2. CASE Expire \/ UNCHANGED vars \/ TakeHint \/ TakeFree
  <2>1. runs = 1 /\ Spilled # {} /\ ranges' = ranges
    BY <1>2 DEF Expire, vars, TakeHint, TakeFree, Assign, Spilled
  <2>2. PICK v \in Placed : Cardinality(NeedAHomeAt(Start(v))) > Len(Pool)
    BY <2>1 DEF SpillsOnlyUnderPressure
  <2>3. next' = next \/ (AtInterval /\ next' = next + 1)
    BY <1>2 DEF Expire, vars, TakeHint, TakeFree, Assign
  <2>4. v \in Placed'
    BY <2>3, NextPlaced DEF Placed
  <2>5. NeedAHomeAt(Start(v))' = NeedAHomeAt(Start(v))
    BY <2>1 DEF NeedAHomeAt, Start
  <2> QED
    BY <2>2, <2>4, <2>5
<1>3. CASE StealFromLast \/ SpillCurrent
  <2>1. /\ AtInterval /\ ~Expirable /\ m_free = <<>> /\ runs = 1
        /\ ranges' = ranges /\ next' = next + 1
    BY <1>3 DEF StealFromLast, SpillCurrent, Assign
  <2>2. Cardinality(NeedAHomeAt(Start(next))) > Len(Pool)
    BY <2>1, Pressure
  <2>3. next \in Placed'
    BY <2>1, NextPlaced
  <2>4. \A v : NeedAHomeAt(Start(v))' = NeedAHomeAt(Start(v))
    BY <2>1 DEF NeedAHomeAt, Start
  <2> QED
    BY <2>2, <2>3, <2>4
<1> QED
  BY <1>1, <1>2, <1>3 DEF Next, Place

(***************************************************************************)
(* The allocator spills only under pressure: a spilled value of a first    *)
(* call comes with an index at which more ranges need a home than the pool *)
(* has registers, for every pool and every vector of ranges.               *)
(***************************************************************************)
THEOREM SpillsNeedPressure == Spec => []SpillsOnlyUnderPressure
<1>1. Init => SpillsOnlyUnderPressure
  BY DEF Init, SpillsOnlyUnderPressure
<1> QED
  BY <1>1, StepPressure, Invariance, PTL DEF Spec

-----------------------------------------------------------------------------
(* Where the registers come from *)

(* Nothing is given out, or kept for later, that is not a register of the pool. *)
HomesFromPool ==
    /\ m_free \in Seq(ToSet(Pool))
    /\ assignments \in [Value -> ToSet(Pool) \cup {NoReg}]

LEMMA InitFromPool == Init => HomesFromPool
<1>1. Pool \in Seq(ToSet(Pool))
  <2>1. Len(Pool) \in Nat /\ Pool \in [1..Len(Pool) -> Reg]
    BY PoolAssumption, LenProperties
  <2>2. Pool \in [1..Len(Pool) -> ToSet(Pool)]
    BY <2>1 DEF ToSet
  <2>3. \A S, n, s : n \in Nat /\ s \in [1..n -> S] => s \in Seq(S)
    OBVIOUS
  <2> QED
    BY <2>1, <2>2, <2>3
<1> QED
  BY <1>1 DEF Init, HomesFromPool, NoAssignments

LEMMA StepFromPool == IInv /\ HomesFromPool /\ [Next]_vars => HomesFromPool'
<1> DEFINE S == ToSet(Pool)
<1> SUFFICES ASSUME IInv, m_free \in Seq(S), assignments \in [Value -> S \cup {NoReg}], [Next]_vars
             PROVE  m_free' \in Seq(S) /\ assignments' \in [Value -> S \cup {NoReg}]
  BY DEF HomesFromPool
<1>1. TypeOK /\ RegistersConserved
  BY DEF IInv
<1>2. ASSUME NEW v \in ToSet(active) PROVE v \in Value /\ assignments[v] \in S
  <2>1. v \in Value
    BY <1>1 DEF TypeOK, ToSet
  <2>2. assignments[v] \in Reg
    BY <1>1 DEF RegistersConserved
  <2> QED
    BY <2>1, <2>2, RegAssumption
<1> HIDE DEF S
<1>3. active # <<>> => Head(active) \in ToSet(active) /\ Last(active) \in ToSet(active)
  <2> SUFFICES ASSUME active # <<>> PROVE Head(active) \in ToSet(active) /\ Last(active) \in ToSet(active)
    OBVIOUS
  <2>1. active \in Seq(Value)
    BY <1>1 DEF TypeOK
  <2>2. Len(active) \in Nat \ {0} /\ Last(active) = active[Len(active)]
    BY <2>1, FrontElements
  <2>3. Head(active) = active[1]
    BY <2>1, <2>2
  <2>4. 1 \in DOMAIN active /\ Len(active) \in DOMAIN active
    BY <2>1, <2>2
  <2> QED
    BY <2>2, <2>3, <2>4 DEF ToSet
<1>4. ASSUME NEW r \in S, NEW assigned \in [Value -> S \cup {NoReg}], NEW held, Assign(r, assigned, held)
      PROVE  assignments' \in [Value -> S \cup {NoReg}]
  BY <1>4 DEF Assign
<1>5. CASE Run \/ Return \/ SpillCurrent \/ UNCHANGED vars
  BY <1>5 DEF Run, Return, SpillCurrent, vars, NoAssignments
<1>6. CASE Expire
  <2>1. active # <<>> /\ m_free' = Append(m_free, assignments[Head(active)]) /\ assignments' = assignments
    BY <1>6 DEF Expire, Expirable
  <2> QED
    BY <1>2, <1>3, <2>1
<1>7. CASE TakeHint
  <2>1. PICK i \in 1..Len(m_free) : m_free[i] = ranges[next].hint /\ m_free' = RemoveAt(m_free, i)
    BY <1>7 DEF TakeHint
  <2>2. m_free' \in Seq(S) /\ m_free[i] \in S
    BY <2>1, RemoveAtElements
  <2> QED
    BY <1>4, <1>7, <2>1, <2>2 DEF TakeHint
<1>8. CASE TakeFree
  <2>1. m_free # <<>> /\ m_free' = Front(m_free) /\ Assign(Last(m_free), assignments, active)
    BY <1>8 DEF TakeFree
  <2>2. Front(m_free) \in Seq(S) /\ Last(m_free) = m_free[Len(m_free)] /\ Len(m_free) \in Nat \ {0}
    BY <2>1, FrontElements
  <2>3. Last(m_free) \in S
    BY <2>2
  <2> QED
    BY <1>4, <2>1, <2>2, <2>3
<1>9. CASE StealFromLast
  <2> DEFINE assigned == [assignments EXCEPT ![Last(active)] = NoReg]
  <2>1. /\ m_free' = m_free /\ active # <<>>
        /\ Assign(assignments[Last(active)], assigned, Front(active))
    BY <1>9 DEF StealFromLast, CandidateEndsLater
  <2>2. assignments[Last(active)] \in S
    BY <1>2, <1>3, <2>1
  <2>3. assigned \in [Value -> S \cup {NoReg}]
    OBVIOUS
  <2> HIDE DEF assigned
  <2> QED
    BY <1>4, <2>1, <2>2, <2>3
<1> QED
  BY <1>5, <1>6, <1>7, <1>8, <1>9 DEF Next, Place

-----------------------------------------------------------------------------
(* run() implements a register allocator *)

(* The vocabulary of RegAlloc, in that of LinearScan. *)
LEMMA AbstractVocabulary ==
    /\ Abstract!Value = Value /\ Abstract!Input = Input
    /\ Abstract!NoAssignments = NoAssignments /\ Abstract!NoSpills = NoSpills
    /\ Abstract!InSlot = Spilled
    /\ Abstract!InRegister = {v \in Value : assignments[v] # NoReg}
    /\ \A r, s : Abstract!Overlap(r, s) <=> Overlap(r, s)
<1>1. Abstract!Value = Value
  BY DEF Abstract!Value, Value
<1>2. Abstract!Input = Input
  BY DEF Abstract!Input, Abstract!Value, Abstract!LiveRange, Abstract!Sorted, Abstract!UsedIfTied,
         Input, Value, LiveRange, Sorted, UsedIfTied
<1>3. Abstract!NoAssignments = NoAssignments /\ Abstract!NoSpills = NoSpills
  BY <1>1 DEF Abstract!NoAssignments, Abstract!NoSpills, Abstract!NoSlot,
              NoAssignments, NoSpills, NoSlot
<1>4. Abstract!InSlot = Spilled
  BY <1>1 DEF Abstract!InSlot, Spilled, Abstract!NoSlot, NoSlot
<1>5. Abstract!InRegister = {v \in Value : assignments[v] # NoReg}
  BY <1>1 DEF Abstract!InRegister
<1>6. \A r, s : Abstract!Overlap(r, s) <=> Overlap(r, s)
  BY DEF Abstract!Overlap, Overlap, Abstract!LastPoint, LastPoint
<1> QED
  BY <1>1, <1>2, <1>3, <1>4, <1>5, <1>6

(* The values RegAlloc calls placed are those the loop has passed. *)
LEMMA AbstractPlaced ==
    ASSUME OneHomeEach
    PROVE  Abstract!Placed = Placed
<1>1. Abstract!Placed = {v \in Value : assignments[v] # NoReg} \cup Spilled
  BY AbstractVocabulary DEF Abstract!Placed
<1>2. Placed \subseteq Value /\ Spilled \subseteq Value
  BY DEF Placed, Spilled
<1> QED
  BY <1>1, <1>2 DEF OneHomeEach

(* RegAlloc's words for the homes mean the same in the next state. *)
LEMMA AbstractPlacedPrimed ==
    ASSUME OneHomeEach'
    PROVE  (Abstract!Placed = Placed)'
BY AbstractPlaced, PTL

(* No two spilled values share a slot: n values use the n slots up to -8 * n. *)
LEMMA SlotsAreDistinct ==
    ASSUME IInv
    PROVE  \A v, w \in Spilled : v # w => spills[v] # spills[w]
<1> DEFINE c == Cardinality(Spilled)
           S == {-8 * k : k \in 1..c}
<1>1. IsFiniteSet(Spilled) /\ c \in Nat
  <2>1. IsFiniteSet(Value) /\ Spilled \subseteq Value
    BY NAssumption, FS_Interval DEF Value, Spilled
  <2> QED
    BY <2>1, FS_Subset, FS_CardinalityType
<1>2. {spills[v] : v \in Spilled} = S
  BY DEF IInv, OneHomeEach, PTR_SIZE
<1> HIDE DEF c
<1>3. IsFiniteSet(1..c) /\ Cardinality(1..c) = c
  BY <1>1, FS_Interval
<1>4. IsFiniteSet(S) /\ Cardinality(S) = c
  <2> DEFINE f == [k \in 1..c |-> -8 * k]
  <2>1. f \in Bijection(1..c, S)
    <3>1. f \in [1..c -> S]
      OBVIOUS
    <3>2. \A a, b \in 1..c : f[a] = f[b] => a = b
      BY <1>1
    <3>3. \A x \in S : \E k \in 1..c : f[k] = x
      OBVIOUS
    <3> HIDE DEF f, S
    <3> QED
      BY <3>1, <3>2, <3>3 DEF Bijection, Injection, Surjection, IsInjective
  <2> HIDE DEF f, S
  <2> QED
    BY <1>3, <2>1, FS_Bijection DEF ExistsBijection
<1> HIDE DEF S
<1>5. \A v, w \in Spilled : spills[v] = spills[w] => v = w
  <2> DEFINE g == [v \in Spilled |-> spills[v]]
  <2>1. g \in Surjection(Spilled, S)
    <3>1. g \in [Spilled -> S]
      BY <1>2
    <3>2. \A x \in S : \E v \in Spilled : g[v] = x
      BY <1>2
    <3> HIDE DEF g
    <3> QED
      BY <3>1, <3>2 DEF Surjection
  <2> HIDE DEF g
  <2>2. Cardinality(Spilled) = Cardinality(S)
    BY <1>4 DEF c
  <2>3. g \in Injection(Spilled, S)
    BY <1>1, <2>1, <2>2, FS_SurjSameCardinalityImpliesInj
  <2> QED
    BY <2>3 DEF g, Injection, IsInjective
<1> QED
  BY <1>5

(* The maps form a valid allocation in every state of a call. *)
LEMMA AbstractValid ==
    ASSUME IInv
    PROVE  Abstract!Valid
<1>1. Abstract!InRegister \cap Abstract!InSlot = {}
  <2>1. ASSUME NEW v \in Spilled PROVE assignments[v] = NoReg
    BY DEF IInv, OneHomeEach, Placed, Spilled
  <2> QED
    BY <2>1, AbstractVocabulary
<1>2. \A v, w \in Abstract!InRegister :
        v # w /\ assignments[v] = assignments[w] => ~Abstract!Overlap(ranges[v], ranges[w])
  BY AbstractVocabulary DEF IInv, NoInterference
<1>3. \A v, w \in Abstract!InSlot : v # w => spills[v] # spills[w]
  BY AbstractVocabulary, SlotsAreDistinct
<1> QED
  BY <1>1, <1>2, <1>3 DEF Abstract!Valid

(* The allocation after a step is valid as RegAlloc has it. *)
LEMMA AbstractValidPrimed ==
    ASSUME IInv'
    PROVE  Abstract!Valid'
BY AbstractValid, PTL

(* Every step of run() is a step of RegAlloc or leaves its variables alone. *)
LEMMA StepRefines == IInv /\ IInv' /\ [Next]_vars => [Abstract!Next]_(Abstract!vars)
<1> SUFFICES ASSUME IInv, IInv', [Next]_vars PROVE [Abstract!Next]_(Abstract!vars)
  OBVIOUS
<1>1. CASE Run
  <2>1. assignments = NoAssignments /\ spills = NoSpills
    BY <1>1 DEF Run, IInv, BetweenCalls
  <2>2. Abstract!Begin
    BY <1>1, <2>1, AbstractVocabulary DEF Run, Abstract!Begin
  <2> QED
    BY <2>2 DEF Abstract!Next
<1>2. CASE Expire \/ UNCHANGED vars
  BY <1>2 DEF Expire, vars, Abstract!vars
<1>3. CASE Return
  <2>1. Placed = Value
    BY <1>3, NAssumption DEF Return, Placed, Value
  <2>2. Abstract!Finish
    BY <1>3, <2>1, AbstractVocabulary, AbstractPlaced DEF Return, Abstract!Finish, IInv
  <2> QED
    BY <2>2 DEF Abstract!Next
<1>4. CASE Place
  <2>1. AtInterval /\ next' = next + 1 /\ ranges' = ranges
    BY <1>4 DEF Place, TakeHint, TakeFree, StealFromLast, SpillCurrent, Assign
  <2>2. next \in Value \ Placed /\ Placed' = Placed \cup {next}
    BY <2>1, NextPlaced
  <2>3. /\ assignments' \in [Value -> Reg \cup {NoReg}] /\ spills' \in [Value -> Int]
        /\ assignments \in [Value -> Reg \cup {NoReg}] /\ spills \in [Value -> Int]
    BY DEF IInv, TypeOK
  <2>4. Abstract!Placed = Placed /\ Abstract!Placed' = Placed'
    <3>1. OneHomeEach /\ OneHomeEach'
      BY DEF IInv
    <3>2. (Abstract!Placed = Placed)'
      BY <3>1, AbstractPlacedPrimed
    <3> QED
      BY <3>1, <3>2, AbstractPlaced
  <2>5. \A v \in Spilled : spills'[v] = spills[v]
    <3>1. CASE TakeHint \/ TakeFree
      BY <3>1 DEF TakeHint, TakeFree
    <3>2. CASE SpillCurrent
      BY <3>2, <2>1, <2>3, NextPlaced DEF SpillCurrent, Spill, Spilled
    <3>3. CASE StealFromLast
      <4>1. Last(active) \in ToSet(active)
        BY <3>3, PopBack DEF StealFromLast, CandidateEndsLater, IInv, TypeOK, RegistersConserved
      <4>2. Last(active) \notin Spilled
        BY <4>1, RegAssumption DEF IInv, OneHomeEach, ActiveSorted, RegistersConserved
      <4> QED
        BY <3>3, <4>2, <2>3 DEF StealFromLast, Spill, Spilled
    <3> QED
      BY <1>4, <3>1, <3>2, <3>3 DEF Place
  <2>6. \A v \in Value : assignments[v] # NoReg => assignments'[v] \in {assignments[v], NoReg}
    <3>1. assignments[next] = NoReg
      BY <2>1, NextPlaced
    <3>2. CASE TakeHint \/ TakeFree
      <4>1. \E r : assignments' = [assignments EXCEPT ![next] = r]
        BY <3>2 DEF TakeHint, TakeFree, Assign
      <4> QED
        BY <3>1, <4>1, <2>3
    <3>3. CASE SpillCurrent
      BY <3>3 DEF SpillCurrent
    <3>4. CASE StealFromLast
      <4> DEFINE a == [assignments EXCEPT ![Last(active)] = NoReg]
      <4>1. \A v \in Value : a[v] \in {assignments[v], NoReg}
        BY <2>3
      <4>2. a \in [Value -> Reg \cup {NoReg}]
        BY <2>3
      <4>3. \E r : assignments' = [a EXCEPT ![next] = r]
        BY <3>4 DEF StealFromLast, Assign
      <4> HIDE DEF a
      <4> QED
        BY <3>1, <4>1, <4>2, <4>3
    <3> QED
      BY <1>4, <3>2, <3>3, <3>4 DEF Place
  <2>7. Abstract!Valid'
    BY AbstractValidPrimed
  <2>8. Abstract!PlaceOne
    BY <2>1, <2>2, <2>3, <2>4, <2>5, <2>6, <2>7, AbstractVocabulary DEF Abstract!PlaceOne
  <2> QED
    BY <2>8 DEF Abstract!Next
<1> QED
  BY <1>1, <1>2, <1>3, <1>4 DEF Next

(***************************************************************************)
(* The linear scan implements a register allocator: homes are given one    *)
(* value at a time, the allocation is valid throughout, no slot is taken   *)
(* back, and the maps are handed over only when every value has a home.    *)
(***************************************************************************)
THEOREM ImplementsRegAlloc == Spec => IsRegisterAllocator
<1>1. Init => Abstract!Init
  BY AbstractVocabulary DEF Init, Abstract!Init
<1>2. IInv /\ IInv' /\ [Next]_vars => [Abstract!Next]_(Abstract!vars)
  BY StepRefines
<1> QED
  BY <1>1, <1>2, Invariance, PTL DEF Spec, Abstract!Spec, IsRegisterAllocator
=============================================================================
