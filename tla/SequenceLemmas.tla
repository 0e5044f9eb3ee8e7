---------------------------- MODULE SequenceLemmas ----------------------------
(***************************************************************************)
(* What the std::vector operations the code uses do to the elements of a   *)
(* sequence: erase, insert, push_back and pop_back, written with the       *)
(* operators of SequencesExt.                                              *)
(***************************************************************************)
EXTENDS Integers, SequencesExt, SequenceTheorems, FiniteSetTheorems, TLAPS

(* The elements of a sequence with e inserted at i (std::vector::insert). *)
LEMMA InsertAtElements ==
    ASSUME NEW S, NEW s \in Seq(S), NEW i \in 1..(Len(s) + 1), NEW e \in S
    PROVE  /\ InsertAt(s, i, e) \in Seq(S)
           /\ Len(InsertAt(s, i, e)) = Len(s) + 1
           /\ \A j \in 1..(Len(s) + 1) :
                InsertAt(s, i, e)[j] = IF j < i THEN s[j]
                                       ELSE IF j = i THEN e ELSE s[j - 1]
<1> DEFINE a == SubSeq(s, 1, i - 1)
           b == SubSeq(s, i, Len(s))
           m == a \o <<e>>
<1>0. Len(s) \in Nat
  BY LenProperties
<1>1. /\ a \in Seq(S) /\ Len(a) = i - 1
      /\ \A j \in 1..(i - 1) : a[j] = s[j]
  <2>1. \A j \in 1..(i - 1) : s[j] \in S
    BY <1>0, ElementOfSeq
  <2> QED
    BY <2>1, <1>0, SubSeqProperties
<1>2. /\ b \in Seq(S) /\ Len(b) = Len(s) - i + 1
      /\ \A j \in 1..(Len(s) - i + 1) : b[j] = s[i + j - 1]
  <2>1. \A j \in i..Len(s) : s[j] \in S
    BY <1>0, ElementOfSeq
  <2>2. i <= Len(s) \/ i = Len(s) + 1
    BY <1>0
  <2> QED
    BY <2>1, <2>2, <1>0, SubSeqProperties
<1>3. <<e>> \in Seq(S) /\ Len(<<e>>) = 1 /\ <<e>>[1] = e
  OBVIOUS
<1> HIDE DEF a, b
<1>4. /\ m \in Seq(S) /\ Len(m) = i
      /\ \A j \in 1..i : m[j] = IF j < i THEN s[j] ELSE e
  <2>1. m \in Seq(S) /\ Len(m) = Len(a) + 1
    BY <1>1, <1>3, ConcatProperties
  <2>2. \A j \in 1..(Len(a) + 1) : m[j] = IF j <= Len(a) THEN a[j] ELSE <<e>>[j - Len(a)]
    BY <1>1, <1>3, ConcatProperties
  <2> QED
    BY <2>1, <2>2, <1>0, <1>1, <1>3
<1> HIDE DEF m
<1>5. /\ m \o b \in Seq(S) /\ Len(m \o b) = Len(m) + Len(b)
      /\ \A j \in 1..(Len(m) + Len(b)) :
           (m \o b)[j] = IF j <= Len(m) THEN m[j] ELSE b[j - Len(m)]
  BY <1>2, <1>4, ConcatProperties
<1>6. InsertAt(s, i, e) = m \o b
  BY DEF InsertAt, a, b, m
<1> QED
  BY <1>0, <1>2, <1>4, <1>5, <1>6

(* The elements of a sequence with the i-th erased (std::vector::erase). *)
LEMMA RemoveAtElements ==
    ASSUME NEW S, NEW s \in Seq(S), NEW i \in 1..Len(s)
    PROVE  /\ RemoveAt(s, i) \in Seq(S)
           /\ Len(RemoveAt(s, i)) = Len(s) - 1
           /\ \A j \in 1..(Len(s) - 1) :
                RemoveAt(s, i)[j] = IF j < i THEN s[j] ELSE s[j + 1]
<1> DEFINE a == SubSeq(s, 1, i - 1)
           b == SubSeq(s, i + 1, Len(s))
<1>0. Len(s) \in Nat
  BY LenProperties
<1>1. /\ a \in Seq(S) /\ Len(a) = i - 1
      /\ \A j \in 1..(i - 1) : a[j] = s[j]
  <2>1. \A j \in 1..(i - 1) : s[j] \in S
    BY <1>0, ElementOfSeq
  <2> QED
    BY <2>1, <1>0, SubSeqProperties
<1>2. /\ b \in Seq(S) /\ Len(b) = Len(s) - i
      /\ \A j \in 1..(Len(s) - i) : b[j] = s[i + j]
  <2>1. \A j \in (i + 1)..Len(s) : s[j] \in S
    BY <1>0, ElementOfSeq
  <2>2. i + 1 <= Len(s) \/ i = Len(s)
    BY <1>0
  <2> QED
    BY <2>1, <2>2, <1>0, SubSeqProperties
<1> HIDE DEF a, b
<1>3. /\ a \o b \in Seq(S) /\ Len(a \o b) = Len(a) + Len(b)
      /\ \A j \in 1..(Len(a) + Len(b)) :
           (a \o b)[j] = IF j <= Len(a) THEN a[j] ELSE b[j - Len(a)]
  BY <1>1, <1>2, ConcatProperties
<1>4. RemoveAt(s, i) = a \o b
  BY DEF RemoveAt, a, b
<1>5. Len(a \o b) = Len(s) - 1
  BY <1>0, <1>1, <1>2, <1>3
<1>6. ASSUME NEW j \in 1..(Len(s) - 1)
      PROVE  (a \o b)[j] = IF j < i THEN s[j] ELSE s[j + 1]
  <2>1. j \in 1..(Len(a) + Len(b)) /\ j \in Int
    BY <1>0, <1>1, <1>2
  <2>2. CASE j < i
    BY <2>1, <2>2, <1>0, <1>1, <1>3
  <2>3. CASE ~(j < i)
    <3>1. /\ j - Len(a) \in 1..(Len(s) - i)
          /\ ~(j <= Len(a))
          /\ i + (j - Len(a)) = j + 1
      BY <2>1, <2>3, <1>0, <1>1
    <3> QED
      BY <3>1, <2>1, <2>3, <1>2, <1>3
  <2> QED
    BY <2>2, <2>3
<1> QED
  BY <1>3, <1>4, <1>5, <1>6

(* The elements of a sequence with the last one popped (pop_back). *)
LEMMA FrontElements ==
    ASSUME NEW S, NEW s \in Seq(S), s # <<>>
    PROVE  /\ Front(s) \in Seq(S)
           /\ Len(Front(s)) = Len(s) - 1
           /\ \A j \in 1..(Len(s) - 1) : Front(s)[j] = s[j]
           /\ Last(s) = s[Len(s)]
           /\ Len(s) \in Nat \ {0}
<1>1. Len(s) \in Nat \ {0}
  BY EmptySeq, LenProperties
<1> DEFINE n == Len(s) - 1
<1>2. n \in Nat /\ \A j \in 1..n : s[j] \in S
  BY <1>1, ElementOfSeq
<1>3. /\ SubSeq(s, 1, n) \in Seq(S)
      /\ Len(SubSeq(s, 1, n)) = n
      /\ \A j \in 1..n : SubSeq(s, 1, n)[j] = s[j]
  <2> HIDE DEF n
  <2>1. 1 <= n \/ n = 0
    BY <1>2
  <2> QED
    BY <1>2, <2>1, SubSeqProperties
<1> QED
  BY <1>1, <1>3 DEF Front, Last

(* The image of a function one argument of which is dropped. *)
LEMMA ImageWithout ==
    ASSUME NEW D, NEW E, NEW s, NEW t, NEW i \in D,
           \A j \in E : \E k \in D : k # i /\ t[j] = s[k],
           \A j \in D : j = i \/ \E k \in E : t[k] = s[j],
           \A j, k \in D : s[j] = s[k] => j = k
    PROVE  {t[j] : j \in E} = {s[j] : j \in D} \ {s[i]}
<1>1. ASSUME NEW x \in {t[j] : j \in E} PROVE x \in {s[j] : j \in D} \ {s[i]}
  <2>1. PICK j \in E : x = t[j]
    OBVIOUS
  <2>2. PICK k \in D : k # i /\ t[j] = s[k]
    OBVIOUS
  <2> QED
    BY <2>1, <2>2
<1>2. ASSUME NEW x \in {s[j] : j \in D} \ {s[i]} PROVE x \in {t[j] : j \in E}
  <2>1. PICK j \in D : x = s[j]
    OBVIOUS
  <2>2. PICK k \in E : t[k] = s[j]
    BY <2>1
  <2> QED
    BY <2>1, <2>2
<1> QED
  BY <1>1, <1>2

(* push_back *)
LEMMA PushBack ==
    ASSUME NEW S, NEW s \in Seq(S), IsInjective(s), NEW e \in S, e \notin ToSet(s)
    PROVE  /\ Append(s, e) \in Seq(S)
           /\ IsInjective(Append(s, e))
           /\ ToSet(Append(s, e)) = ToSet(s) \cup {e}
<1>1. Len(s) \in Nat /\ DOMAIN s = 1..Len(s)
  BY LenProperties
<1>2. /\ Append(s, e) \in Seq(S)
      /\ DOMAIN Append(s, e) = 1..(Len(s) + 1)
      /\ \A i \in 1..Len(s) : Append(s, e)[i] = s[i]
      /\ Append(s, e)[Len(s) + 1] = e
  BY AppendProperties, LenProperties
<1>3. \A i \in 1..(Len(s) + 1) : i \in 1..Len(s) \/ i = Len(s) + 1
  BY <1>1
<1>4. IsInjective(Append(s, e))
  BY <1>1, <1>2, <1>3 DEF IsInjective, ToSet
<1>5. ToSet(Append(s, e)) = ToSet(s) \cup {e}
  BY <1>1, <1>2, <1>3 DEF ToSet
<1> QED
  BY <1>2, <1>4, <1>5

(* erase( begin( ) ) *)
LEMMA PopFront ==
    ASSUME NEW S, NEW s \in Seq(S), IsInjective(s), s # <<>>
    PROVE  /\ Tail(s) \in Seq(S)
           /\ IsInjective(Tail(s))
           /\ Head(s) = s[1] /\ Head(s) \in ToSet(s)
           /\ ToSet(Tail(s)) = ToSet(s) \ {Head(s)}
           /\ Len(Tail(s)) = Len(s) - 1
           /\ \A i \in 1..(Len(s) - 1) : Tail(s)[i] = s[i + 1]
           /\ Len(s) \in Nat \ {0}
<1>1. Len(s) \in Nat \ {0} /\ DOMAIN s = 1..Len(s)
  BY EmptySeq, LenProperties
<1>2. /\ Tail(s) \in Seq(S)
      /\ Len(Tail(s)) = Len(s) - 1
      /\ DOMAIN Tail(s) = 1..(Len(s) - 1)
      /\ \A i \in 1..(Len(s) - 1) : Tail(s)[i] = s[i + 1]
  BY HeadTailProperties, LenProperties
<1>3. Head(s) = s[1]
  OBVIOUS
<1>4. IsInjective(Tail(s))
  BY <1>1, <1>2 DEF IsInjective
<1>5. ToSet(Tail(s)) = ToSet(s) \ {Head(s)}
  <2> DEFINE n == Len(s)
             t == Tail(s)
  <2>0. n \in Nat \ {0}
    BY <1>1
  <2>1. \A i \in 1..n : i = 1 \/ (i - 1 \in 1..(n - 1) /\ s[i] = t[i - 1])
    <3> HIDE DEF n, t
    <3>1. \A i \in 1..(n - 1) : t[i] = s[i + 1]
      BY <1>2 DEF n, t
    <3> QED
      BY <2>0, <3>1
  <2>2. \A i \in 1..(n - 1) : \E k \in 1..n : k # 1 /\ t[i] = s[k]
    <3> HIDE DEF n, t
    <3>1. \A i \in 1..(n - 1) : t[i] = s[i + 1]
      BY <1>2 DEF n, t
    <3>2. \A i \in 1..(n - 1) : i + 1 \in 1..n /\ i + 1 # 1
      BY <2>0
    <3> QED
      BY <3>1, <3>2
  <2>3. DOMAIN s = 1..n /\ DOMAIN t = 1..(n - 1) /\ 1 \in 1..n
    BY <1>1, <1>2
  <2>4. \A i, j \in 1..n : s[i] = s[j] => i = j
    BY <1>1 DEF IsInjective
  <2> HIDE DEF n, t
  <2>5. {t[i] : i \in 1..(n - 1)} = {s[i] : i \in 1..n} \ {s[1]}
    BY <2>1, <2>2, <2>3, <2>4, ImageWithout
  <2> QED
    BY <2>3, <2>5, <1>3 DEF ToSet, t
<1>6. Head(s) \in ToSet(s)
  BY <1>1, <1>3 DEF ToSet
<1> QED
  BY <1>1, <1>2, <1>3, <1>4, <1>5, <1>6

(* pop_back *)
LEMMA PopBack ==
    ASSUME NEW S, NEW s \in Seq(S), IsInjective(s), s # <<>>
    PROVE  /\ Front(s) \in Seq(S)
           /\ IsInjective(Front(s))
           /\ Last(s) = s[Len(s)] /\ Last(s) \in ToSet(s)
           /\ ToSet(Front(s)) = ToSet(s) \ {Last(s)}
<1>1. Len(s) \in Nat \ {0} /\ DOMAIN s = 1..Len(s)
  BY EmptySeq, LenProperties
<1>2. /\ Front(s) \in Seq(S)
      /\ DOMAIN Front(s) = 1..(Len(s) - 1)
      /\ \A i \in 1..(Len(s) - 1) : Front(s)[i] = s[i]
      /\ Last(s) = s[Len(s)]
  BY FrontElements, LenProperties
<1> DEFINE n == Len(s)
           t == Front(s)
<1>3. /\ n \in Nat \ {0}
      /\ DOMAIN s = 1..n /\ DOMAIN t = 1..(n - 1)
      /\ \A i \in 1..(n - 1) : t[i] = s[i]
      /\ \A i, j \in 1..n : s[i] = s[j] => i = j
  BY <1>1, <1>2 DEF IsInjective
<1> HIDE DEF n, t
<1>4. \A i \in 1..n : i = n \/ i \in 1..(n - 1)
  BY <1>3
<1>5. n \in 1..n /\ \A i \in 1..(n - 1) : i \in 1..n /\ i # n
  BY <1>3
<1>6. IsInjective(t)
  BY <1>3, <1>5 DEF IsInjective
<1>7. {t[i] : i \in 1..(n - 1)} = {s[i] : i \in 1..n} \ {s[n]}
  <2>1. \A i \in 1..n : i = n \/ \E k \in 1..(n - 1) : t[k] = s[i]
    BY <1>3, <1>4
  <2>2. \A i \in 1..(n - 1) : \E k \in 1..n : k # n /\ t[i] = s[k]
    BY <1>3, <1>5
  <2> QED
    BY <1>3, <1>5, <2>1, <2>2, ImageWithout
<1> QED
  BY <1>2, <1>3, <1>5, <1>6, <1>7 DEF ToSet, n, t

(* erase( iter ) *)
LEMMA Erase ==
    ASSUME NEW S, NEW s \in Seq(S), IsInjective(s), NEW i \in 1..Len(s)
    PROVE  /\ RemoveAt(s, i) \in Seq(S)
           /\ IsInjective(RemoveAt(s, i))
           /\ s[i] \in ToSet(s)
           /\ ToSet(RemoveAt(s, i)) = ToSet(s) \ {s[i]}
<1>1. Len(s) \in Nat /\ DOMAIN s = 1..Len(s)
  BY LenProperties
<1> DEFINE n == Len(s)
           t == RemoveAt(s, i)
<1>2. t \in Seq(S)
  BY RemoveAtElements
<1>3. /\ n \in Nat /\ i \in 1..n
      /\ DOMAIN s = 1..n /\ DOMAIN t = 1..(n - 1)
      /\ \A j \in 1..(n - 1) : t[j] = IF j < i THEN s[j] ELSE s[j + 1]
      /\ \A j, k \in 1..n : s[j] = s[k] => j = k
  <2>1. /\ t \in Seq(S) /\ Len(t) = n - 1
        /\ \A j \in 1..(n - 1) : t[j] = IF j < i THEN s[j] ELSE s[j + 1]
    BY RemoveAtElements
  <2>2. DOMAIN t = 1..(n - 1)
    BY <2>1, LenProperties
  <2>3. \A j, k \in 1..n : s[j] = s[k] => j = k
    BY <1>1 DEF IsInjective
  <2> HIDE DEF t
  <2> QED
    BY <1>1, <2>1, <2>2, <2>3
<1> HIDE DEF n, t
<1>4. \A j \in 1..n :
        \/ j = i
        \/ \E k \in 1..(n - 1) : t[k] = s[j]
  <2> TAKE j \in 1..n
  <2>1. CASE j < i
    <3>1. j \in 1..(n - 1) /\ t[j] = s[j]
      BY <2>1, <1>3
    <3> QED
      BY <3>1
  <2>2. CASE j > i
    <3>1. j - 1 \in 1..(n - 1) /\ ~(j - 1 < i) /\ (j - 1) + 1 = j
      BY <2>2, <1>3
    <3>2. t[j - 1] = s[j]
      BY <3>1, <1>3
    <3> QED
      BY <3>1, <3>2
  <2> QED
    BY <2>1, <2>2, <1>3
<1>5. \A j \in 1..(n - 1) :
        \E k \in 1..n : k # i /\ t[j] = s[k] /\ k = IF j < i THEN j ELSE j + 1
  <2> TAKE j \in 1..(n - 1)
  <2>1. CASE j < i
    BY <2>1, <1>3
  <2>2. CASE ~(j < i)
    <3>1. j + 1 \in 1..n /\ j + 1 # i /\ t[j] = s[j + 1]
      BY <2>2, <1>3
    <3> QED
      BY <2>2, <3>1
  <2> QED
    BY <2>1, <2>2
<1>6. IsInjective(t)
  <2> SUFFICES ASSUME NEW j \in 1..(n - 1), NEW k \in 1..(n - 1), t[j] = t[k]
               PROVE  j = k
    BY <1>3 DEF IsInjective
  <2>1. PICK a \in 1..n : t[j] = s[a] /\ a = IF j < i THEN j ELSE j + 1
    BY <1>5
  <2>2. PICK b \in 1..n : t[k] = s[b] /\ b = IF k < i THEN k ELSE k + 1
    BY <1>5
  <2>3. a = b
    BY <2>1, <2>2, <1>3
  <2> QED
    BY <2>1, <2>2, <2>3, <1>3
<1>7. {t[j] : j \in 1..(n - 1)} = {s[j] : j \in 1..n} \ {s[i]}
  <2>1. \A j \in 1..(n - 1) : \E k \in 1..n : k # i /\ t[j] = s[k]
    BY <1>5
  <2> QED
    BY <2>1, <1>3, <1>4, ImageWithout
<1> QED
  BY <1>2, <1>3, <1>6, <1>7 DEF ToSet, t

(* insert( pos, interval ) *)
LEMMA Insert ==
    ASSUME NEW S, NEW s \in Seq(S), IsInjective(s), NEW i \in 1..(Len(s) + 1),
           NEW e \in S, e \notin ToSet(s)
    PROVE  /\ InsertAt(s, i, e) \in Seq(S)
           /\ IsInjective(InsertAt(s, i, e))
           /\ ToSet(InsertAt(s, i, e)) = ToSet(s) \cup {e}
<1> DEFINE n == Len(s)
           t == InsertAt(s, i, e)
<1>1. /\ n \in Nat /\ i \in 1..(n + 1) /\ DOMAIN s = 1..n
      /\ t \in Seq(S) /\ Len(t) = n + 1 /\ DOMAIN t = 1..(n + 1)
      /\ \A j \in 1..(n + 1) :
           t[j] = IF j < i THEN s[j] ELSE IF j = i THEN e ELSE s[j - 1]
  <2>1. /\ t \in Seq(S) /\ Len(t) = n + 1
        /\ \A j \in 1..(n + 1) :
             t[j] = IF j < i THEN s[j] ELSE IF j = i THEN e ELSE s[j - 1]
    BY InsertAtElements
  <2>2. DOMAIN t = 1..(n + 1) /\ n \in Nat /\ DOMAIN s = 1..n
    BY <2>1, LenProperties
  <2> HIDE DEF t
  <2> QED
    BY <2>1, <2>2
<1>2. /\ \A j, k \in 1..n : s[j] = s[k] => j = k
      /\ \A j \in 1..n : s[j] # e
  BY <1>1 DEF IsInjective, ToSet
<1>3. t \in Seq(S)
  BY <1>1
<1> HIDE DEF n, t
<1>4. \A j \in 1..(n + 1) :
        j # i => \E k \in 1..n : t[j] = s[k] /\ k = IF j < i THEN j ELSE j - 1
  <2> TAKE j \in 1..(n + 1)
  <2> HAVE j # i
  <2>1. CASE j < i
    BY <2>1, <1>1
  <2>2. CASE j > i
    <3>1. j - 1 \in 1..n /\ t[j] = s[j - 1]
      BY <2>2, <1>1
    <3> QED
      BY <3>1, <2>2
  <2> QED
    BY <2>1, <2>2, <1>1
<1>5. IsInjective(t)
  <2> SUFFICES ASSUME NEW j \in 1..(n + 1), NEW k \in 1..(n + 1), t[j] = t[k]
               PROVE  j = k
    BY <1>1 DEF IsInjective
  <2>1. t[i] = e
    BY <1>1
  <2>2. CASE j = i \/ k = i
    BY <2>1, <2>2, <1>2, <1>4
  <2>3. CASE j # i /\ k # i
    <3>1. PICK a \in 1..n : t[j] = s[a] /\ a = IF j < i THEN j ELSE j - 1
      BY <2>3, <1>4
    <3>2. PICK b \in 1..n : t[k] = s[b] /\ b = IF k < i THEN k ELSE k - 1
      BY <2>3, <1>4
    <3>3. a = b
      BY <3>1, <3>2, <1>2
    <3> QED
      BY <3>1, <3>2, <3>3, <2>3, <1>1
  <2> QED
    BY <2>2, <2>3
<1>6. \A k \in 1..n : \E j \in 1..(n + 1) : t[j] = s[k]
  <2> TAKE k \in 1..n
  <2>1. CASE k < i
    <3>1. k \in 1..(n + 1) /\ t[k] = s[k]
      BY <2>1, <1>1
    <3> QED
      BY <3>1
  <2>2. CASE ~(k < i)
    <3>1. k + 1 \in 1..(n + 1) /\ ~(k + 1 < i) /\ k + 1 # i /\ (k + 1) - 1 = k
      BY <2>2, <1>1
    <3>2. t[k + 1] = s[k]
      BY <3>1, <1>1
    <3> QED
      BY <3>1, <3>2
  <2> QED
    BY <2>1, <2>2
<1>7. {t[j] : j \in 1..(n + 1)} = {s[k] : k \in 1..n} \cup {e}
  <2>1. ASSUME NEW x \in {t[j] : j \in 1..(n + 1)} PROVE x \in {s[k] : k \in 1..n} \cup {e}
    <3>1. PICK j \in 1..(n + 1) : x = t[j]
      BY <2>1
    <3>2. j = i => x = e
      BY <3>1, <1>1
    <3> QED
      BY <3>1, <3>2, <1>4
  <2>2. ASSUME NEW x \in {s[k] : k \in 1..n} PROVE x \in {t[j] : j \in 1..(n + 1)}
    BY <2>2, <1>6
  <2>3. e = t[i] /\ i \in 1..(n + 1)
    BY <1>1
  <2> QED
    BY <2>1, <2>2, <2>3
<1> QED
  BY <1>1, <1>3, <1>5, <1>7 DEF ToSet, t
-----------------------------------------------------------------------------
(* Sequences of no particular set. *)

IsSequence(s) == s \in Seq(ToSet(s))

LEMMA SequenceElements ==
    ASSUME NEW s, IsSequence(s)
    PROVE  Len(s) \in Nat /\ DOMAIN s = 1..Len(s) /\ ToSet(s) = {s[i] : i \in 1..Len(s)}
BY DEF IsSequence, ToSet

LEMMA EmptySequence == IsSequence(<<>>) /\ Len(<<>>) = 0
BY DEF IsSequence, ToSet

(* A function on 1..n is a sequence. *)
LEMMA FunctionIsSequence ==
    ASSUME NEW n \in Nat, NEW s, s = [k \in 1..n |-> s[k]]
    PROVE  IsSequence(s)
<1>1. DOMAIN s = 1..n
  OBVIOUS
<1>2. \A k \in 1..n : s[k] \in ToSet(s)
  BY <1>1 DEF ToSet
<1>3. s \in [1..n -> ToSet(s)]
  BY <1>2
<1>4. QED
  BY <1>3 DEF IsSequence

LEMMA AppendedElements ==
    ASSUME NEW s, IsSequence(s), NEW e
    PROVE  /\ IsSequence(Append(s, e))
           /\ Len(Append(s, e)) = Len(s) + 1
           /\ \A i \in 1..Len(s) : Append(s, e)[i] = s[i]
           /\ Append(s, e)[Len(s) + 1] = e
           /\ Append(s, e) # <<>>
<1> DEFINE S == ToSet(s) \cup {e}
           a == Append(s, e)
<1>1. s \in Seq(S)
  BY DEF IsSequence, ToSet
<1>2. /\ a \in Seq(S) /\ Len(a) = Len(s) + 1
      /\ \A i \in 1..Len(s) : a[i] = s[i]
      /\ a[Len(s) + 1] = e
  BY <1>1
<1>3. Len(s) \in Nat
  BY <1>1
<1>4. a = [k \in 1..(Len(s) + 1) |-> a[k]]
  <2>1. a \in [1..Len(a) -> S]
    BY <1>2, LenProperties
  <2>2. QED
    BY <1>2, <2>1
<1>5. IsSequence(a)
  BY <1>3, <1>4, FunctionIsSequence
<1>6. a # <<>>
  BY <1>2, <1>3, EmptySequence
<1>7. QED
  BY <1>2, <1>5, <1>6

LEMMA ConcatElements ==
    ASSUME NEW s, IsSequence(s), NEW t, IsSequence(t)
    PROVE  /\ IsSequence(s \o t)
           /\ Len(s \o t) = Len(s) + Len(t)
           /\ \A i \in 1..Len(s) : (s \o t)[i] = s[i]
           /\ \A i \in 1..Len(t) : (s \o t)[Len(s) + i] = t[i]
           /\ ToSet(s \o t) = ToSet(s) \cup ToSet(t)
<1> DEFINE S == ToSet(s) \cup ToSet(t)
           u == s \o t
<1>1. s \in Seq(S) /\ t \in Seq(S) /\ Len(s) \in Nat /\ Len(t) \in Nat
  BY SequenceElements DEF IsSequence
<1>2. /\ u \in Seq(S) /\ Len(u) = Len(s) + Len(t)
      /\ \A i \in 1..(Len(s) + Len(t)) : u[i] = IF i <= Len(s) THEN s[i] ELSE t[i - Len(s)]
  BY <1>1, ConcatProperties
<1> HIDE DEF u
<1>3. \A i \in 1..Len(s) : i \in 1..(Len(s) + Len(t)) /\ u[i] = s[i]
  BY <1>1, <1>2
<1>4. ASSUME NEW i \in 1..Len(t)
      PROVE  Len(s) + i \in 1..(Len(s) + Len(t)) /\ u[Len(s) + i] = t[i]
  <2>1. /\ Len(s) + i \in 1..(Len(s) + Len(t))
        /\ ~(Len(s) + i <= Len(s)) /\ (Len(s) + i) - Len(s) = i
    BY <1>1
  <2> QED
    BY <1>2, <2>1
<1>5. ASSUME NEW i \in 1..(Len(s) + Len(t))
      PROVE  i \in 1..Len(s) \/ \E j \in 1..Len(t) : i = Len(s) + j
  <2>1. i \in 1..Len(s) \/ (i - Len(s) \in 1..Len(t) /\ i = Len(s) + (i - Len(s)))
    BY <1>1
  <2> QED
    BY <2>1
<1>6. IsSequence(u)
  <2>1. u = [k \in 1..(Len(s) + Len(t)) |-> u[k]]
    BY <1>2, LenProperties
  <2> QED
    BY <1>1, <2>1, FunctionIsSequence, SMTT(20)
<1>7. ToSet(u) = ToSet(s) \cup ToSet(t)
  <2>1. ToSet(u) = {u[i] : i \in 1..(Len(s) + Len(t))}
    BY <1>2, <1>6, SequenceElements
  <2>2. ToSet(s) = {s[i] : i \in 1..Len(s)} /\ ToSet(t) = {t[i] : i \in 1..Len(t)}
    BY SequenceElements
  <2>3. ASSUME NEW e \in ToSet(u) PROVE e \in ToSet(s) \cup ToSet(t)
    <3>1. PICK i \in 1..(Len(s) + Len(t)) : e = u[i]
      BY <2>1
    <3>2. CASE i \in 1..Len(s)
      BY <1>3, <2>2, <3>1, <3>2
    <3>3. CASE \E j \in 1..Len(t) : i = Len(s) + j
      BY <1>4, <2>2, <3>1, <3>3
    <3> QED
      BY <1>5, <3>2, <3>3
  <2>4. ASSUME NEW e \in ToSet(s) \cup ToSet(t) PROVE e \in ToSet(u)
    BY <1>3, <1>4, <2>1, <2>2
  <2> QED
    BY <2>3, <2>4
<1> QED
  BY <1>2, <1>3, <1>4, <1>6, <1>7 DEF u

LEMMA SameElements ==
    ASSUME NEW s, IsSequence(s), NEW t, IsSequence(t),
           Len(s) = Len(t), \A i \in 1..Len(s) : s[i] = t[i]
    PROVE  s = t
<1> DEFINE S == ToSet(s) \cup ToSet(t)
<1>1. s \in Seq(S) /\ t \in Seq(S)
  BY DEF IsSequence
<1> QED
  BY <1>1, SeqEqual, Zenon

LEMMA ConcatAssociates ==
    ASSUME NEW u, IsSequence(u)
    PROVE  \A s, t : IsSequence(s) /\ IsSequence(t) => (s \o t) \o u = s \o (t \o u)
<1> SUFFICES ASSUME NEW s, NEW t, IsSequence(s), IsSequence(t)
             PROVE  (s \o t) \o u = s \o (t \o u)
  OBVIOUS
<1> DEFINE S == ToSet(s) \cup ToSet(t) \cup ToSet(u)
<1>1. s \in Seq(S) /\ t \in Seq(S) /\ u \in Seq(S)
  BY DEF IsSequence
<1> HIDE DEF S
<1> QED
  BY <1>1, ConcatAssociative

LEMMA ConcatNothing == \A s : IsSequence(s) => <<>> \o s = s /\ s \o <<>> = s
BY ConcatEmptySeq DEF IsSequence

LEMMA ConcatLengths ==
    \A s, t : IsSequence(s) /\ IsSequence(t)
                => IsSequence(s \o t) /\ Len(s \o t) = Len(s) + Len(t)
<1> SUFFICES ASSUME NEW s, NEW t, IsSequence(s), IsSequence(t)
             PROVE  IsSequence(s \o t) /\ Len(s \o t) = Len(s) + Len(t)
  OBVIOUS
<1> QED
  BY ConcatElements

LEMMA AppendIsConcatenation ==
    ASSUME NEW s, IsSequence(s), NEW e
    PROVE  Append(s, e) = s \o <<e>> /\ IsSequence(<<e>>) /\ Len(<<e>>) = 1 /\ <<e>>[1] = e
<1> DEFINE S == ToSet(s) \cup {e}
<1>1. s \in Seq(S) /\ e \in S /\ <<e>> \in Seq(S)
  BY DEF IsSequence
<1>2. Append(s, e) = s \o <<e>>
  BY <1>1, AppendIsConcat
<1>3. IsSequence(<<e>>)
  BY DEF IsSequence, ToSet
<1> QED
  BY <1>2, <1>3

(* The first k elements of a sequence. *)
LEMMA PrefixElements ==
    ASSUME NEW s, IsSequence(s), NEW k \in 0..Len(s)
    PROVE  /\ IsSequence(SubSeq(s, 1, k))
           /\ Len(SubSeq(s, 1, k)) = k
           /\ \A i \in 1..k : SubSeq(s, 1, k)[i] = s[i]
<1>1. Len(s) \in Nat /\ k \in Nat /\ ToSet(s) = {s[i] : i \in 1..Len(s)}
  BY SequenceElements
<1>2. \A i \in 1..k : s[i] \in ToSet(s)
  BY <1>1
<1>3. 1 <= k \/ k = 0
  BY <1>1
<1> DEFINE p == SubSeq(s, 1, k)
<1>4. p \in Seq(ToSet(s)) /\ Len(p) = k /\ \A i \in 1..k : p[i] = s[i]
  BY <1>1, <1>2, <1>3, SubSeqProperties
<1> HIDE DEF p
<1>5. p = [i \in 1..k |-> p[i]]
  BY <1>4, LenProperties
<1>6. IsSequence(p)
  BY <1>1, <1>5, FunctionIsSequence
<1> QED
  BY <1>4, <1>6 DEF p

-----------------------------------------------------------------------------
(* Induction, and the function that FlattenSeq is defined by. *)

LEMMA LeastNumber ==
    ASSUME NEW S \in SUBSET Nat, S # {}
    PROVE  \E n \in S : \A m \in S : n <= m
<1> DEFINE R == OpToRel(<, Nat)
<1>1. IsWellFoundedOn(R, Nat)
  BY NatLessThanWellFounded
<1>2. \A x, y \in Nat : <<y, x>> \in R <=> y < x
  BY DEF OpToRel
<1> HIDE DEF R
<1>3. PICK n \in S : \A m \in S : ~(<<m, n>> \in R)
  BY <1>1, WFMin
<1>4. n \in Nat /\ \A m \in S : m \in Nat /\ ~(m < n)
  BY <1>2, <1>3
<1> QED
  BY <1>4

LEMMA Induction ==
    ASSUME NEW S \in SUBSET Nat, 0 \in S, \A n \in S : n + 1 \in S
    PROVE  S = Nat
<1> DEFINE T == Nat \ S
<1>1. SUFFICES ASSUME T # {} PROVE FALSE
  OBVIOUS
<1>2. PICK n \in T : \A m \in T : n <= m
  BY <1>1, LeastNumber
<1>3. n \in Nat /\ n # 0 /\ n - 1 \in Nat
  BY <1>2
<1>4. n - 1 \in S
  BY <1>2, <1>3
<1> QED
  BY <1>2, <1>3, <1>4

IsFlat(f, ss, n) == f = [i \in 1..n |-> IF i = 1 THEN ss[i] ELSE f[i - 1] \o ss[i]]

LEMMA FlatUnique ==
    ASSUME NEW f, NEW g, NEW ss, NEW tt, NEW n \in Nat, NEW m \in Nat, n <= m,
           IsFlat(f, ss, n), IsFlat(g, tt, m), \A i \in 1..n : ss[i] = tt[i]
    PROVE  \A i \in 1..n : f[i] = g[i]
<1> DEFINE S == {k \in Nat : k \in 1..n => f[k] = g[k]}
<1>1. \A i \in 1..n : f[i] = IF i = 1 THEN ss[i] ELSE f[i - 1] \o ss[i]
  BY Zenon DEF IsFlat
<1>2. \A i \in 1..m : g[i] = IF i = 1 THEN tt[i] ELSE g[i - 1] \o tt[i]
  BY Zenon DEF IsFlat
<1>3. \A i \in 1..n : i \in 1..m
  OBVIOUS
<1>4. ASSUME NEW k \in S PROVE k + 1 \in S
  <2>1. SUFFICES ASSUME k + 1 \in 1..n PROVE f[k + 1] = g[k + 1]
    OBVIOUS
  <2>2. CASE k = 0
    BY <1>1, <1>2, <1>3, <2>1, <2>2
  <2>3. CASE k # 0
    <3>1. k \in 1..n /\ f[k] = g[k] /\ k + 1 # 1 /\ (k + 1) - 1 = k
      BY <2>1, <2>3
    <3>2. f[k + 1] = f[k] \o ss[k + 1] /\ g[k + 1] = g[k] \o tt[k + 1]
      BY <1>1, <1>2, <1>3, <2>1, <3>1
    <3> QED
      BY <3>1, <3>2, <2>1
  <2> QED
    BY <2>2, <2>3
<1>5. S = Nat
  <2>1. 0 \in S
    OBVIOUS
  <2> HIDE DEF S
  <2>2. S \in SUBSET Nat
    BY DEF S
  <2> QED
    BY <1>4, <2>1, <2>2, Induction
<1> QED
  BY <1>5

LEMMA FlatExists ==
    ASSUME NEW ss, NEW n \in Nat
    PROVE  \E f : IsFlat(f, ss, n)
<1> DEFINE S == {k \in Nat : \E f : IsFlat(f, ss, k)}
<1>1. 0 \in S
  <2>1. IsFlat([i \in {} |-> i], ss, 0)
    BY DEF IsFlat
  <2> QED
    BY <2>1
<1>2. ASSUME NEW k \in S PROVE k + 1 \in S
  <2>1. PICK f : IsFlat(f, ss, k)
    OBVIOUS
  <2> DEFINE new == IF k = 0 THEN ss[1] ELSE f[k] \o ss[k + 1]
             g == [i \in 1..(k + 1) |-> IF i = k + 1 THEN new ELSE f[i]]
             h == [i \in 1..(k + 1) |-> IF i = 1 THEN ss[i] ELSE g[i - 1] \o ss[i]]
  <2>2. \A i \in 1..k : f[i] = IF i = 1 THEN ss[i] ELSE f[i - 1] \o ss[i]
    BY <2>1, Zenon DEF IsFlat
  <2>3. ASSUME NEW i \in 1..(k + 1) PROVE g[i] = h[i]
    <3>1. CASE i = k + 1
      BY <3>1
    <3>2. CASE i \in 1..k
      BY <2>2, <3>2
    <3> QED
      BY <3>1, <3>2
  <2>4. g = h
    <3> HIDE DEF new
    <3> QED
      BY <2>3, Zenon
  <2>5. IsFlat(g, ss, k + 1)
    <3> HIDE DEF g
    <3> QED
     BY <2>4, Zenon DEF IsFlat
  <2> QED
    BY <2>5
<1> HIDE DEF S
<1>3. S = Nat
  <2>1. S \in SUBSET Nat
    BY DEF S
  <2> QED
    BY <1>1, <1>2, <2>1, Induction
<1> QED
  BY <1>3 DEF S

LEMMA FlattenIsFlat ==
    ASSUME NEW ss, Len(ss) \in Nat \ {0}
    PROVE  \E f : IsFlat(f, ss, Len(ss)) /\ FlattenSeq(ss) = f[Len(ss)]
<1>1. \E f : IsFlat(f, ss, Len(ss))
  BY FlatExists
<1> DEFINE c == CHOOSE f : IsFlat(f, ss, Len(ss))
<1>2. IsFlat(c, ss, Len(ss))
  BY <1>1, Zenon
<1>3. FlattenSeq(ss) = c[Len(ss)]
  BY Zenon DEF FlattenSeq, IsFlat
<1> QED
  BY <1>2, <1>3, Zenon
-----------------------------------------------------------------------------
(* A sequence of sequences made one, as FlattenSeq does. *)

(* Its elements are sequences: what FlattenSeq is for. *)
Parts(ss) == IsSequence(ss) /\ \A b \in 1..Len(ss) : IsSequence(ss[b])

(* The first k parts made one. *)
Joined(ss, k) == FlattenSeq(SubSeq(ss, 1, k))

LEMMA JoinedNone ==
    ASSUME NEW ss, IsSequence(ss)
    PROVE  /\ Joined(ss, 0) = <<>>
           /\ Joined(ss, Len(ss)) = FlattenSeq(ss)
           /\ Len(ss) = 0 => FlattenSeq(ss) = <<>>
<1>1. Len(ss) \in Nat /\ 0 \in 0..Len(ss) /\ Len(ss) \in 0..Len(ss)
  BY SequenceElements
<1>2. \A s : Len(s) = 0 => FlattenSeq(s) = s
  BY Zenon DEF FlattenSeq
<1>3. IsSequence(SubSeq(ss, 1, 0)) /\ Len(SubSeq(ss, 1, 0)) = 0
  BY <1>1, PrefixElements
<1>4. \A s : IsSequence(s) /\ Len(s) = 0 => s = <<>>
  BY SameElements, EmptySequence
<1>5. SubSeq(ss, 1, Len(ss)) = ss
  BY <1>1, PrefixElements, SameElements
<1> QED
  BY <1>2, <1>3, <1>4, <1>5 DEF Joined

LEMMA PartsPrefix ==
    ASSUME NEW ss, Parts(ss), NEW k \in 0..Len(ss)
    PROVE  /\ Parts(SubSeq(ss, 1, k))
           /\ Len(SubSeq(ss, 1, k)) = k
           /\ \A i \in 1..k : SubSeq(ss, 1, k)[i] = ss[i]
<1>1. Len(ss) \in Nat
  BY SequenceElements DEF Parts
<1>2. \A i \in 1..k : i \in 1..Len(ss)
  BY <1>1
<1> QED
  BY <1>2, PrefixElements DEF Parts

LEMMA JoinedNext ==
    ASSUME NEW ss, Parts(ss), NEW k \in 1..Len(ss)
    PROVE  Joined(ss, k) = IF k = 1 THEN ss[1] ELSE Joined(ss, k - 1) \o ss[k]
<1>1. Len(ss) \in Nat /\ k \in Nat \ {0} /\ k \in 0..Len(ss)
  BY SequenceElements DEF Parts
<1> DEFINE s == SubSeq(ss, 1, k)
           t == SubSeq(ss, 1, k - 1)
<1>2. Len(s) = k /\ \A i \in 1..k : s[i] = ss[i]
  BY <1>1, PartsPrefix
<1>3. k - 1 \in 0..Len(ss) /\ Len(t) = k - 1 /\ \A i \in 1..(k - 1) : t[i] = ss[i]
  <2>1. k - 1 \in 0..Len(ss)
    BY <1>1
  <2> QED
    BY <2>1, PartsPrefix
<1> HIDE DEF s, t
<1>4. PICK f : IsFlat(f, s, k) /\ FlattenSeq(s) = f[k]
  BY <1>1, <1>2, FlattenIsFlat
<1>5. f[k] = IF k = 1 THEN s[k] ELSE f[k - 1] \o s[k]
  <2>1. k \in 1..k
    BY <1>1
  <2> QED
    BY <1>4, <2>1, Zenon DEF IsFlat
<1>6. k \in 1..k /\ s[k] = ss[k]
  BY <1>1, <1>2
<1>7. CASE k = 1
  BY <1>4, <1>5, <1>6, <1>7 DEF Joined, s
<1>8. CASE k # 1
  <2>1. k - 1 \in Nat \ {0} /\ k - 1 <= k
    BY <1>1, <1>8
  <2>2. PICK g : IsFlat(g, t, k - 1) /\ FlattenSeq(t) = g[k - 1]
    BY <1>3, <2>1, FlattenIsFlat
  <2>3. \A i \in 1..(k - 1) : t[i] = s[i]
    BY <1>1, <1>2, <1>3
  <2>4. k \in Nat /\ k - 1 \in Nat /\ k - 1 \in 1..(k - 1)
    BY <1>1, <2>1
  <2>5. \A i \in 1..(k - 1) : g[i] = f[i]
    BY <1>4, <2>1, <2>2, <2>3, <2>4, FlatUnique
  <2>6. g[k - 1] = f[k - 1]
    BY <2>4, <2>5
  <2> QED
    BY <1>4, <1>5, <1>6, <1>8, <2>2, <2>6 DEF Joined, s, t
<1> QED
  BY <1>7, <1>8

(* How many elements the first k parts have. *)
Offset(ss, k) == Len(Joined(ss, k))

(* A part more is as many elements more. *)
JoinedWell(ss, k) ==
    /\ IsSequence(Joined(ss, k)) /\ Offset(ss, k) \in Nat
    /\ k > 0 => /\ Joined(ss, k) = Joined(ss, k - 1) \o ss[k]
                /\ Offset(ss, k) = Offset(ss, k - 1) + Len(ss[k])

LEMMA JoinedParts ==
    ASSUME NEW ss, Parts(ss)
    PROVE  \A k \in 0..Len(ss) : JoinedWell(ss, k)
<1> DEFINE S == {k \in Nat : k \in 0..Len(ss) => JoinedWell(ss, k)}
<1>0. Len(ss) \in Nat
  BY SequenceElements DEF Parts
<1>1. 0 \in S
  BY JoinedNone, EmptySequence DEF Parts, JoinedWell, Offset
<1>2. ASSUME NEW k \in S PROVE k + 1 \in S
  <2>1. SUFFICES ASSUME k + 1 \in 0..Len(ss) PROVE JoinedWell(ss, k + 1)
    OBVIOUS
  <2>2. /\ k \in Nat /\ k \in 0..Len(ss) /\ k + 1 \in 1..Len(ss)
        /\ (k + 1) - 1 = k /\ k + 1 > 0 /\ (k + 1 = 1 <=> k = 0)
    BY <1>0, <2>1
  <2>3. IsSequence(Joined(ss, k)) /\ Offset(ss, k) \in Nat
    BY <2>2 DEF JoinedWell
  <2>4. IsSequence(ss[k + 1]) /\ Len(ss[k + 1]) \in Nat
    BY <2>2, SequenceElements DEF Parts
  <2>5. Joined(ss, k + 1) = IF k + 1 = 1 THEN ss[1] ELSE Joined(ss, k) \o ss[k + 1]
    BY <2>2, JoinedNext
  <2>6. Joined(ss, k + 1) = Joined(ss, k) \o ss[k + 1]
    <3>1. CASE k = 0
      <4>1. Joined(ss, k) = <<>>
        BY <3>1, JoinedNone DEF Parts
      <4>2. <<>> \o ss[k + 1] = ss[k + 1]
        BY <2>4, ConcatNothing
      <4>3. Joined(ss, k + 1) = ss[k + 1]
        BY <2>5, <3>1
      <4> QED
        BY <4>1, <4>2, <4>3
    <3> QED
      BY <2>2, <2>5, <3>1
  <2>7. /\ IsSequence(Joined(ss, k) \o ss[k + 1])
        /\ Len(Joined(ss, k) \o ss[k + 1]) = Offset(ss, k) + Len(ss[k + 1])
    BY <2>3, <2>4, ConcatElements DEF Offset
  <2>8. IsSequence(Joined(ss, k + 1)) /\ Offset(ss, k + 1) = Offset(ss, k) + Len(ss[k + 1])
    BY <2>6, <2>7 DEF Offset
  <2>9. Offset(ss, k + 1) \in Nat
    BY <2>3, <2>4, <2>8
  <2> QED
    BY <2>2, <2>6, <2>8, <2>9 DEF JoinedWell
<1>3. S = Nat
  <2> HIDE DEF S
  <2>1. S \in SUBSET Nat
    BY DEF S
  <2> QED
    BY <1>1, <1>2, <2>1, Induction
<1> QED
  BY <1>0, <1>3

(* Where the elements of the first n parts are. *)
EachPlaced(ss, n) ==
    \A b \in 1..n : \A i \in 1..Len(ss[b]) :
        /\ Offset(ss, b - 1) + i \in 1..Offset(ss, n)
        /\ Joined(ss, n)[Offset(ss, b - 1) + i] = ss[b][i]

NoneElse(ss, n) ==
    \A p \in 1..Offset(ss, n) :
        \E b \in 1..n : \E i \in 1..Len(ss[b]) : p = Offset(ss, b - 1) + i

Increasing(ss, n) == \A b \in 0..n : Offset(ss, b) <= Offset(ss, n)

LEMMA JoinedPlaces ==
    ASSUME NEW ss, Parts(ss)
    PROVE  \A n \in 0..Len(ss) : EachPlaced(ss, n) /\ NoneElse(ss, n) /\ Increasing(ss, n)
<1> DEFINE Good(n) == EachPlaced(ss, n) /\ NoneElse(ss, n) /\ Increasing(ss, n)
           S == {n \in Nat : n \in 0..Len(ss) => Good(n)}
<1>0. Len(ss) \in Nat
  BY SequenceElements DEF Parts
<1>1. 0 \in S
  <2>1. Offset(ss, 0) = 0
    BY JoinedNone, EmptySequence DEF Parts, Offset
  <2> QED
    BY <2>1 DEF EachPlaced, NoneElse, Increasing
<1>2. ASSUME NEW k \in S PROVE k + 1 \in S
  <2>1. SUFFICES ASSUME k + 1 \in 0..Len(ss) PROVE Good(k + 1)
    OBVIOUS
  <2> DEFINE s == ss[k + 1]
  <2>2. /\ k \in Nat /\ k \in 0..Len(ss) /\ k + 1 \in 1..Len(ss)
        /\ (k + 1) - 1 = k /\ k + 1 > 0
    BY <1>0, <2>1
  <2>3. EachPlaced(ss, k) /\ NoneElse(ss, k) /\ Increasing(ss, k)
    BY <2>2
  <2>4. /\ IsSequence(Joined(ss, k)) /\ Offset(ss, k) \in Nat /\ Offset(ss, k + 1) \in Nat
        /\ Joined(ss, k + 1) = Joined(ss, k) \o s
        /\ Offset(ss, k + 1) = Offset(ss, k) + Len(s)
    <3>1. JoinedWell(ss, k) /\ JoinedWell(ss, k + 1)
      BY <2>1, <2>2, JoinedParts
    <3> QED
      BY <2>2, <3>1 DEF JoinedWell
  <2>5. IsSequence(s) /\ Len(s) \in Nat
    BY <2>2, SequenceElements DEF Parts
  <2>6. /\ \A i \in 1..Offset(ss, k) : Joined(ss, k + 1)[i] = Joined(ss, k)[i]
        /\ \A i \in 1..Len(s) : Joined(ss, k + 1)[Offset(ss, k) + i] = s[i]
    <3>1. /\ \A i \in 1..Len(Joined(ss, k)) : (Joined(ss, k) \o s)[i] = Joined(ss, k)[i]
          /\ \A i \in 1..Len(s) : (Joined(ss, k) \o s)[Len(Joined(ss, k)) + i] = s[i]
      BY <2>4, <2>5, ConcatElements
    <3> QED
      BY <2>4, <3>1 DEF Offset
  <2>7. \A b \in 1..(k + 1) : b \in 1..k \/ (b = k + 1 /\ b - 1 = k)
    BY <2>2
  <2> HIDE DEF s
  <2>8. EachPlaced(ss, k + 1)
    <3> SUFFICES ASSUME NEW b \in 1..(k + 1), NEW i \in 1..Len(ss[b])
                 PROVE  /\ Offset(ss, b - 1) + i \in 1..Offset(ss, k + 1)
                        /\ Joined(ss, k + 1)[Offset(ss, b - 1) + i] = ss[b][i]
      BY DEF EachPlaced
    <3>1. CASE b \in 1..k
      <4>1. /\ Offset(ss, b - 1) + i \in 1..Offset(ss, k)
            /\ Joined(ss, k)[Offset(ss, b - 1) + i] = ss[b][i]
        BY <2>3, <3>1 DEF EachPlaced
      <4>2. Offset(ss, b - 1) + i \in 1..Offset(ss, k + 1)
        BY <2>4, <2>5, <4>1
      <4> QED
        BY <2>6, <4>1, <4>2
    <3>2. CASE b = k + 1 /\ b - 1 = k
      <4>1. i \in 1..Len(s) /\ ss[b] = s
        BY <3>2 DEF s
      <4>2. Offset(ss, k) + i \in 1..Offset(ss, k + 1)
        BY <2>4, <2>5, <4>1
      <4> QED
        BY <2>6, <3>2, <4>1, <4>2
    <3> QED
      BY <2>7, <3>1, <3>2
  <2>9. NoneElse(ss, k + 1)
    <3> SUFFICES ASSUME NEW p \in 1..Offset(ss, k + 1)
                 PROVE  \E b \in 1..(k + 1) : \E i \in 1..Len(ss[b]) : p = Offset(ss, b - 1) + i
      BY DEF NoneElse
    <3>1. CASE p \in 1..Offset(ss, k)
      <4>1. PICK b \in 1..k : \E i \in 1..Len(ss[b]) : p = Offset(ss, b - 1) + i
        BY <2>3, <3>1 DEF NoneElse
      <4>2. b \in 1..(k + 1)
        BY <2>2
      <4> QED
        BY <4>1, <4>2
    <3>2. CASE p > Offset(ss, k)
      <4>1. p - Offset(ss, k) \in 1..Len(s) /\ p = Offset(ss, k) + (p - Offset(ss, k))
        BY <2>4, <2>5, <3>2
      <4>2. k + 1 \in 1..(k + 1) /\ ss[k + 1] = s /\ Offset(ss, (k + 1) - 1) = Offset(ss, k)
        BY <2>2 DEF s
      <4> QED
        BY <4>1, <4>2
    <3> QED
      BY <2>4, <3>1, <3>2
  <2>10. Increasing(ss, k + 1)
    <3> SUFFICES ASSUME NEW b \in 0..(k + 1) PROVE Offset(ss, b) <= Offset(ss, k + 1)
      BY DEF Increasing
    <3>1. b \in 0..k \/ b = k + 1
      BY <2>2
    <3>2. CASE b \in 0..k
      <4>1. b \in 0..Len(ss)
        BY <1>0, <2>2, <3>2
      <4>2. Offset(ss, b) \in Nat /\ Offset(ss, b) <= Offset(ss, k)
        BY <2>3, <3>2, <4>1, JoinedParts DEF JoinedWell, Increasing
      <4> QED
        BY <2>4, <2>5, <4>2
    <3> QED
      BY <2>4, <3>1, <3>2
  <2> QED
    BY <2>8, <2>9, <2>10
<1>3. S = Nat
  <2> HIDE DEF S
  <2>1. S \in SUBSET Nat
    BY DEF S
  <2> QED
    BY <1>1, <1>2, <2>1, Induction
<1> QED
  BY <1>0, <1>3

(* All of it, as FlattenSeq gives it. *)
LEMMA FlattenJoins ==
    ASSUME NEW ss, Parts(ss)
    PROVE  /\ FlattenSeq(ss) = Joined(ss, Len(ss))
           /\ Len(FlattenSeq(ss)) = Offset(ss, Len(ss))
           /\ IsSequence(FlattenSeq(ss))
           /\ Len(ss) \in Nat
<1>1. Len(ss) \in Nat /\ Len(ss) \in 0..Len(ss)
  BY SequenceElements DEF Parts
<1>2. FlattenSeq(ss) = Joined(ss, Len(ss))
  BY JoinedNone DEF Parts
<1> QED
  BY <1>1, <1>2, JoinedParts DEF JoinedWell, Offset

(* The elements of the whole are those of the parts. *)
LEMMA FlattenElements ==
    ASSUME NEW ss, Parts(ss)
    PROVE  /\ IsSequence(FlattenSeq(ss))
           /\ ToSet(FlattenSeq(ss)) = UNION {ToSet(ss[b]) : b \in 1..Len(ss)}
<1> DEFINE n == Len(ss)
           J == Joined(ss, n)
<1>1. n \in Nat /\ n \in 0..n /\ FlattenSeq(ss) = J /\ IsSequence(J) /\ Len(J) = Offset(ss, n)
  BY FlattenJoins
<1>2. EachPlaced(ss, n) /\ NoneElse(ss, n)
  BY <1>1, JoinedPlaces
<1>3. \A b \in 1..n : ToSet(ss[b]) = {ss[b][i] : i \in 1..Len(ss[b])}
  BY SequenceElements DEF Parts
<1> HIDE DEF J
<1>4. ToSet(J) = {J[p] : p \in 1..Offset(ss, n)}
  BY <1>1, SequenceElements
<1>5. ASSUME NEW e \in ToSet(J) PROVE \E b \in 1..n : e \in ToSet(ss[b])
  <2>1. PICK p \in 1..Offset(ss, n) : e = J[p]
    BY <1>4
  <2>2. PICK b \in 1..n : \E i \in 1..Len(ss[b]) : p = Offset(ss, b - 1) + i
    BY <1>2 DEF NoneElse
  <2>3. PICK i \in 1..Len(ss[b]) : p = Offset(ss, b - 1) + i
    BY <2>2
  <2>4. e = ss[b][i]
    BY <1>2, <2>1, <2>3 DEF EachPlaced, J
  <2> QED
    BY <1>3, <2>4
<1>6. ASSUME NEW b \in 1..n, NEW e \in ToSet(ss[b]) PROVE e \in ToSet(J)
  <2>1. PICK i \in 1..Len(ss[b]) : e = ss[b][i]
    BY <1>3
  <2>2. Offset(ss, b - 1) + i \in 1..Offset(ss, n) /\ e = J[Offset(ss, b - 1) + i]
    BY <1>2, <2>1 DEF EachPlaced, J
  <2> QED
    BY <1>4, <2>2
<1> QED
  BY <1>1, <1>5, <1>6

(* A part more. *)
LEMMA FlattenAppend ==
    ASSUME NEW ss, Parts(ss), NEW s, IsSequence(s)
    PROVE  Parts(Append(ss, s)) /\ FlattenSeq(Append(ss, s)) = FlattenSeq(ss) \o s
<1> DEFINE n == Len(ss)
           tt == Append(ss, s)
<1>1. n \in Nat /\ IsSequence(ss)
  BY SequenceElements DEF Parts
<1>2. IsSequence(tt) /\ Len(tt) = n + 1 /\ tt[n + 1] = s /\ \A b \in 1..n : tt[b] = ss[b]
  BY <1>1, AppendedElements
<1> HIDE DEF tt
<1>3. Parts(tt)
  <2>1. \A b \in 1..(n + 1) : b \in 1..n \/ b = n + 1
    BY <1>1
  <2> QED
    BY <1>2, <2>1 DEF Parts
<1>4. FlattenSeq(tt) = Joined(tt, n + 1) /\ FlattenSeq(ss) = Joined(ss, n)
  BY <1>1, <1>2, JoinedNone
<1>5. Joined(tt, n + 1) = Joined(tt, n) \o s
  <2>1. n + 1 \in 0..Len(tt) /\ n + 1 > 0 /\ (n + 1) - 1 = n
    BY <1>1, <1>2
  <2> QED
    BY <1>2, <1>3, <2>1, JoinedParts DEF JoinedWell
<1>6. SubSeq(tt, 1, n) = SubSeq(ss, 1, n)
  <2>1. n \in 0..Len(tt) /\ n \in 0..Len(ss)
    BY <1>1, <1>2
  <2> QED
    BY <1>1, <1>2, <2>1, PrefixElements, SameElements
<1> QED
  BY <1>3, <1>4, <1>5, <1>6 DEF Joined, tt

(* The last part made longer. *)
LEMMA FlattenLonger ==
    ASSUME NEW ss, Parts(ss), NEW n \in Nat \ {0}, n = Len(ss), NEW s, IsSequence(s),
           NEW tt, IsSequence(tt), Len(tt) = n,
           \A b \in 1..(n - 1) : tt[b] = ss[b], tt[n] = ss[n] \o s
    PROVE  Parts(tt) /\ FlattenSeq(tt) = FlattenSeq(ss) \o s
<1>1. n \in 0..Len(tt) /\ n \in 0..Len(ss) /\ n - 1 \in 0..Len(tt) /\ n - 1 \in 0..Len(ss)
  OBVIOUS
<1>2. IsSequence(ss[n]) /\ IsSequence(ss[n] \o s)
  <2>1. n \in 1..n
    OBVIOUS
  <2>2. IsSequence(ss[n])
    BY <2>1 DEF Parts
  <2> QED
    BY <2>2, ConcatElements
<1>3. Parts(tt)
  <2>1. \A b \in 1..n : b \in 1..(n - 1) \/ b = n
    OBVIOUS
  <2>2. \A b \in 1..(n - 1) : b \in 1..n
    OBVIOUS
  <2> QED
    BY <1>2, <2>1, <2>2 DEF Parts
<1>4. FlattenSeq(tt) = Joined(tt, n) /\ FlattenSeq(ss) = Joined(ss, n)
  BY JoinedNone DEF Parts
<1>5. /\ Joined(tt, n) = Joined(tt, n - 1) \o tt[n]
      /\ Joined(ss, n) = Joined(ss, n - 1) \o ss[n]
      /\ IsSequence(Joined(ss, n - 1))
  <2>1. JoinedWell(tt, n) /\ JoinedWell(ss, n) /\ JoinedWell(ss, n - 1) /\ n > 0
    BY <1>1, <1>3, JoinedParts
  <2> QED
    BY <2>1 DEF JoinedWell
<1>6. SubSeq(tt, 1, n - 1) = SubSeq(ss, 1, n - 1)
  <2>1. /\ IsSequence(SubSeq(tt, 1, n - 1)) /\ Len(SubSeq(tt, 1, n - 1)) = n - 1
        /\ \A i \in 1..(n - 1) : SubSeq(tt, 1, n - 1)[i] = tt[i]
    BY <1>1, PrefixElements
  <2>2. /\ IsSequence(SubSeq(ss, 1, n - 1)) /\ Len(SubSeq(ss, 1, n - 1)) = n - 1
        /\ \A i \in 1..(n - 1) : SubSeq(ss, 1, n - 1)[i] = ss[i]
    BY <1>1, PrefixElements DEF Parts
  <2> QED
    BY <2>1, <2>2, SameElements
<1>7. Joined(tt, n - 1) = Joined(ss, n - 1)
  BY <1>6 DEF Joined
<1>8. Joined(ss, n - 1) \o (ss[n] \o s) = (Joined(ss, n - 1) \o ss[n]) \o s
  <2>1. \A t, u : IsSequence(t) /\ IsSequence(u) => (t \o u) \o s = t \o (u \o s)
    BY ConcatAssociates
  <2> QED
    BY <1>2, <1>5, <2>1
<1> QED
  BY <1>3, <1>4, <1>5, <1>7, <1>8

-----------------------------------------------------------------------------
(* The greatest of a set of numbers. *)

LEMMA MaxOfNumbers ==
    ASSUME NEW S \in SUBSET Nat, S # {}, NEW n \in Nat, \A x \in S : x <= n
    PROVE  Max(S) \in S /\ \A x \in S : x <= Max(S)
<1> DEFINE T == {k \in Nat : \A x \in S : x <= k}
<1>1. T \in SUBSET Nat /\ T # {}
  OBVIOUS
<1>2. PICK k \in T : \A m \in T : k <= m
  BY <1>1, LeastNumber
<1>3. k \in S
  <2>1. SUFFICES ASSUME k \notin S PROVE FALSE
    OBVIOUS
  <2>2. PICK x \in S : TRUE
    OBVIOUS
  <2>3. k \in Nat /\ \A y \in S : y \in Nat /\ y <= k /\ y # k
    BY <2>1
  <2>4. k - 1 \in Nat /\ \A y \in S : y <= k - 1
    BY <2>2, <2>3
  <2>5. k - 1 \in T
    BY <2>4
  <2> QED
    BY <1>2, <2>3, <2>5
<1>4. \A x \in S : k >= x
  BY <1>2
<1>5. \E k1 \in S : \A x \in S : k1 >= x
  BY <1>3, <1>4
<1>6. Max(S) \in S /\ \A x \in S : Max(S) >= x
  BY <1>5 DEF Max
<1> QED
  BY <1>6
=============================================================================
