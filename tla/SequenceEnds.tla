------------------------------ MODULE SequenceEnds ------------------------------
(* Numbers, and the ends of sequences: what is left of a bounded list, as the
   page's history or the store's records, when its oldest elements have been
   dropped. *)
EXTENDS Integers, FiniteSetsExt, FiniteSetTheorems, SequenceTheorems, TLAPS

(* A nonempty set of natural numbers has a least element, a bounded one a greatest. *)
LEMMA LeastNumber ==
  ASSUME NEW T \in SUBSET Nat, T # {}
  PROVE  \E m \in T : \A n \in T : m <= n
<1>. DEFINE U == {0 .. n : n \in T}
<1>1. U \subseteq FiniteSubsetsOf(Nat)
  <2>. SUFFICES ASSUME NEW n \in T PROVE 0 .. n \in FiniteSubsetsOf(Nat)
    OBVIOUS
  <2>1. n \in Nat /\ IsFiniteSet(0 .. n)
    BY FS_Interval
  <2>. QED
    BY <2>1 DEF FiniteSubsetsOf
<1>2. U # {}
  OBVIOUS
<1>3. IsWellFoundedOn(StrictSubsetOrdering(Nat), FiniteSubsetsOf(Nat))
  BY FS_StrictSubsetOrderingWellFounded
<1>. HIDE DEF U
<1>4. PICK x \in U : \A y \in U : ~ (<<y, x>> \in StrictSubsetOrdering(Nat))
  BY <1>1, <1>2, <1>3, WFMin
<1>5. PICK m \in T : x = 0 .. m
  BY DEF U
<1>6. ASSUME NEW n \in T, n < m PROVE FALSE
  <2>1. 0 .. n \in U
    BY DEF U
  <2>2. 0 .. n \subseteq 0 .. m /\ m \in 0 .. m /\ m \notin 0 .. n
    BY <1>6
  <2>3. <<0 .. n, x>> \in StrictSubsetOrdering(Nat)
    BY <1>5, <2>2 DEF StrictSubsetOrdering
  <2>. QED
    BY <1>4, <2>1, <2>3
<1>. QED
  BY <1>6

LEMMA GreatestNumber ==
  ASSUME NEW T \in SUBSET Nat, T # {}, NEW b \in Nat, \A n \in T : n <= b
  PROVE  Max(T) \in T /\ \A n \in T : n <= Max(T)
<1>. DEFINE B == {k \in Nat : \A n \in T : n <= k}
<1>1. PICK k \in B : \A l \in B : k <= l
  BY LeastNumber
<1>2. k \in T
  <2>. SUFFICES ASSUME k \notin T PROVE FALSE
    OBVIOUS
  <2>1. PICK t \in T : TRUE
    OBVIOUS
  <2>2. k \in Nat /\ \A n \in T : n \in Nat /\ n <= k /\ n # k
    OBVIOUS
  <2>3. k - 1 \in Nat /\ \A n \in T : n <= k - 1
    BY <2>1, <2>2
  <2>. QED
    BY <1>1, <2>3
<1>. QED
  BY <1>2 DEF Max

LEMMA LesserNumber == \A m, n \in Int : Min({m, n}) = IF m <= n THEN m ELSE n
<1>. SUFFICES ASSUME NEW m \in Int, NEW n \in Int
              PROVE  Min({m, n}) = IF m <= n THEN m ELSE n
  OBVIOUS
<1>. QED
  BY DEF Min

LEMMA Suffix ==
  ASSUME NEW S, NEW s \in Seq(S), NEW k \in 0 .. Len(s)
  PROVE  /\ SubSeq(s, 1 + k, Len(s)) \in Seq(S)
         /\ Len(SubSeq(s, 1 + k, Len(s))) = Len(s) - k
         /\ \A i \in 1 .. Len(s) - k : SubSeq(s, 1 + k, Len(s))[i] = s[k + i]
  OBVIOUS

LEMMA Prefix ==
  ASSUME NEW S, NEW s \in Seq(S), NEW l \in 0 .. Len(s)
  PROVE  /\ SubSeq(s, 1, l) \in Seq(S)
         /\ Len(SubSeq(s, 1, l)) = l /\ DOMAIN SubSeq(s, 1, l) = 1 .. l
         /\ \A i \in 1 .. l : SubSeq(s, 1, l)[i] = s[i]
  OBVIOUS

LEMMA Rest ==
  ASSUME NEW a \in Nat, NEW b \in 0 .. a
  PROVE  /\ a - b \in 0 .. a /\ a - (a - b) = b /\ 1 + a - b = 1 + (a - b)
         /\ \A i \in 1 .. b : a - b + i \in 1 .. a
         /\ a # 0 /\ b \in 0 .. a - 1 => a - b \in Nat \ {0}
  OBVIOUS

(* The sequence e is an end of h. *)
EndOf(e, h) ==
  /\ Len(e) \in 0 .. Len(h)
  /\ \A i \in 1 .. Len(e) : e[i] = h[Len(h) - Len(e) + i]

LEMMA SuffixIsEnd ==
  ASSUME NEW S, NEW s \in Seq(S), NEW k \in 0 .. Len(s)
  PROVE  /\ SubSeq(s, 1 + k, Len(s)) \in Seq(S)
         /\ Len(SubSeq(s, 1 + k, Len(s))) = Len(s) - k
         /\ EndOf(SubSeq(s, 1 + k, Len(s)), s)
<1>1. PICK e \in Seq(S) : e = SubSeq(s, 1 + k, Len(s))
  BY Suffix
<1>2. Len(e) = Len(s) - k /\ \A i \in 1 .. Len(s) - k : e[i] = s[k + i]
  BY <1>1, Suffix
<1>3. Len(s) \in Nat
  BY LenProperties
<1>4. ASSUME NEW f \in Seq(S), Len(f) = Len(s) - k, \A i \in 1 .. Len(s) - k : f[i] = s[k + i]
      PROVE  EndOf(f, s)
  BY <1>3, <1>4 DEF EndOf
<1>. QED
  BY <1>1, <1>2, <1>4

LEMMA EndOfEnd ==
  ASSUME NEW S, NEW h \in Seq(S), NEW r \in Seq(S), NEW e \in Seq(S),
         EndOf(r, h), EndOf(e, r)
  PROVE  EndOf(e, h)
<1>1. Len(h) \in Nat /\ Len(r) \in 0 .. Len(h) /\ Len(e) \in 0 .. Len(r)
  BY LenProperties DEF EndOf
<1>2. ASSUME NEW i \in 1 .. Len(e) PROVE e[i] = h[Len(h) - Len(e) + i]
  <2>1. PICK j \in 1 .. Len(r) : j = Len(r) - Len(e) + i
    <3>1. Len(r) \in Nat
      BY LenProperties
    <3>. QED
      BY <1>1, <3>1, Rest
  <2>2. e[i] = r[j] /\ r[j] = h[Len(h) - Len(r) + j]
    BY <2>1 DEF EndOf
  <2>3. Len(h) - Len(r) + j = Len(h) - Len(e) + i
    BY <1>1, <2>1
  <2>. QED
    BY <2>2, <2>3
<1>. QED
  BY <1>1, <1>2 DEF EndOf

(* The last n elements of a sequence, or all of a shorter one. *)
LEMMA LastOnes ==
  ASSUME NEW S, NEW s \in Seq(S), Len(s) # 0, NEW n \in Nat \ {0}
  PROVE  /\ SubSeq(s, 1 + Len(s) - Min({n, Len(s)}), Len(s)) \in Seq(S)
         /\ Len(SubSeq(s, 1 + Len(s) - Min({n, Len(s)}), Len(s))) \in 1 .. n
         /\ Len(SubSeq(s, 1 + Len(s) - Min({n, Len(s)}), Len(s))) \in {n, Len(s)}
         /\ EndOf(SubSeq(s, 1 + Len(s) - Min({n, Len(s)}), Len(s)), s)
<1>1. Len(s) \in Nat \ {0}
  BY LenProperties
<1>2. Min({n, Len(s)}) = IF n <= Len(s) THEN n ELSE Len(s)
  BY <1>1, LesserNumber
<1>3. PICK l \in 1 .. n : l = Min({n, Len(s)}) /\ l \in 0 .. Len(s) /\ l \in {n, Len(s)}
  BY <1>1, <1>2
<1>4. PICK k \in 0 .. Len(s) : 1 + Len(s) - l = 1 + k /\ Len(s) - k = l
  BY <1>1, <1>3, Rest
<1>5. SubSeq(s, 1 + Len(s) - Min({n, Len(s)}), Len(s)) = SubSeq(s, 1 + k, Len(s))
  BY <1>3, <1>4
<1>. QED
  BY <1>3, <1>4, <1>5, SuffixIsEnd

(* Some of n places, but not all. *)
LEMMA FewerPlaces ==
  ASSUME NEW n \in Nat, NEW T \in SUBSET (1 .. n), NEW i \in 1 .. n, i \notin T
  PROVE  Cardinality(T) \in Nat /\ Cardinality(T) < n
<1>1. IsFiniteSet(1 .. n) /\ Cardinality(1 .. n) = n
  BY FS_Interval
<1>2. IsFiniteSet(T) /\ Cardinality(T) <= n /\ (n = Cardinality(T) => T = 1 .. n)
  BY <1>1, FS_Subset
<1>3. Cardinality(T) \in Nat
  BY <1>2, FS_CardinalityType
<1>4. T # 1 .. n
  OBVIOUS
<1>. QED
  BY <1>2, <1>3, <1>4

(* Places of which one is the only one. *)
LEMMA OnlyPlace ==
  ASSUME NEW S, NEW b \in S, \A x \in S : x = b
  PROVE  Cardinality(S) = 1
<1>1. S = {b}
  OBVIOUS
<1>. QED
  BY <1>1, FS_Singleton

(* A greater of two numbers. *)
LEMMA GreaterNumber == \A m, n \in Int : Max({m, n}) = IF m <= n THEN n ELSE m
<1>. SUFFICES ASSUME NEW m \in Int, NEW n \in Int
              PROVE  Max({m, n}) = IF m <= n THEN n ELSE m
  OBVIOUS
<1>. QED
  BY DEF Max

(* Lists, which have no element twice: one more element, the first one taken,
   one list after another. *)
LEMMA AppendedToList ==
  ASSUME NEW S, NEW s \in Seq(S), IsInjective(s), NEW c \in S, c \notin Range(s)
  PROVE  /\ Append(s, c) \in Seq(S) /\ IsInjective(Append(s, c))
         /\ Range(Append(s, c)) = Range(s) \cup {c}
         /\ DOMAIN Append(s, c) = 1 .. Len(s) + 1 /\ Append(s, c)[Len(s) + 1] = c
         /\ \A i \in DOMAIN s : i \in 1 .. Len(s) /\ Append(s, c)[i] = s[i]
<1>1. PICK n \in Nat : n = Len(s) /\ DOMAIN s = 1 .. n
  BY LenProperties
<1>2. PICK t \in Seq(S) : t = Append(s, c)
  BY AppendProperties
<1>3. /\ DOMAIN t = 1 .. n + 1 /\ t[n + 1] = c /\ \A i \in 1 .. n : t[i] = s[i]
  BY <1>1, <1>2, AppendProperties, LenProperties
<1>4. ASSUME NEW a \in DOMAIN t, NEW b \in DOMAIN t, t[a] = t[b] PROVE a = b
  <2>1. /\ a \in 1 .. n \/ a = n + 1
        /\ b \in 1 .. n \/ b = n + 1
    BY <1>1, <1>3
  <2>2. \A i, j \in 1 .. n : s[i] = s[j] => i = j
    BY <1>1 DEF IsInjective
  <2>3. \A i \in 1 .. n : t[i] # c
    BY <1>1, <1>3 DEF Range
  <2>. QED
    BY <1>3, <1>4, <2>1, <2>2, <2>3
<1>5. Range(t) = Range(s) \cup {c}
  <2>1. \A i \in 1 .. n + 1 : i \in 1 .. n \/ i = n + 1
    OBVIOUS
  <2>2. \A i \in 1 .. n : i \in 1 .. n + 1
    OBVIOUS
  <2>3. n + 1 \in 1 .. n + 1
    OBVIOUS
  <2>4. Range(t) \subseteq Range(s) \cup {c}
    BY <1>1, <1>3, <2>1 DEF Range
  <2>5. Range(s) \cup {c} \subseteq Range(t)
    BY <1>1, <1>3, <2>2, <2>3 DEF Range
  <2>. QED
    BY <2>4, <2>5
<1>6. IsInjective(t)
  BY <1>4 DEF IsInjective
<1>. QED
  BY <1>1, <1>2, <1>3, <1>5, <1>6

LEMMA TakenFromList ==
  ASSUME NEW S, NEW s \in Seq(S), s # <<>>, IsInjective(s)
  PROVE  /\ Head(s) \in Range(s) /\ Tail(s) \in Seq(S) /\ IsInjective(Tail(s))
         /\ Range(Tail(s)) = Range(s) \ {Head(s)}
<1>1. PICK t \in Seq(S) : t = Tail(s)
  BY HeadTailProperties
<1>2. PICK n \in Nat : n = Len(t) /\ DOMAIN t = 1 .. n
  BY LenProperties
<1>3. /\ DOMAIN s = 1 .. n + 1
      /\ \A i \in 1 .. n : t[i] = s[i + 1]
  <2>1. Len(t) = Len(s) - 1 /\ \A i \in 1 .. Len(t) : t[i] = s[i + 1]
    BY <1>1, HeadTailProperties
  <2>2. Len(s) \in Nat /\ DOMAIN s = 1 .. Len(s)
    BY LenProperties
  <2>. QED
    BY <1>2, <2>1, <2>2
<1>4. Head(s) = s[1] /\ 1 \in 1 .. n + 1
  BY <1>2
<1>5. \A i \in 1 .. n : i + 1 \in 1 .. n + 1 /\ i + 1 # 1
  OBVIOUS
<1>6. ASSUME NEW i \in 1 .. n, NEW j \in 1 .. n, t[i] = t[j] PROVE i = j
  <2>1. s[i + 1] = s[j + 1]
    BY <1>3, <1>6
  <2>2. i + 1 = j + 1
    BY <1>3, <1>5, <2>1 DEF IsInjective
  <2>. QED
    BY <2>2
<1>7. ASSUME NEW i \in 1 .. n PROVE t[i] \in Range(s) \ {Head(s)}
  <2>1. t[i] = s[i + 1] /\ i + 1 \in 1 .. n + 1 /\ i + 1 # 1
    BY <1>3, <1>5
  <2>2. s[i + 1] # s[1]
    BY <1>3, <1>4, <2>1 DEF IsInjective
  <2>. QED
    BY <1>3, <1>4, <2>1, <2>2 DEF Range
<1>8. ASSUME NEW i \in 1 .. n + 1, i # 1 PROVE s[i] \in Range(t)
  <2>1. PICK j \in 1 .. n : i = j + 1
    <3>1. i - 1 \in 1 .. n /\ i = (i - 1) + 1
      BY <1>8
    <3>. QED
      BY <3>1
  <2>. QED
    BY <1>2, <1>3, <2>1 DEF Range
<1>9. Range(t) = Range(s) \ {Head(s)}
  <2>1. Range(t) \subseteq Range(s) \ {Head(s)}
    BY <1>2, <1>7 DEF Range
  <2>2. Range(s) \ {Head(s)} \subseteq Range(t)
    BY <1>3, <1>4, <1>8 DEF Range
  <2>. QED
    BY <2>1, <2>2
<1>10. Head(s) \in Range(s)
  BY <1>3, <1>4 DEF Range
<1>. QED
  BY <1>1, <1>2, <1>6, <1>9, <1>10 DEF IsInjective

LEMMA ConcatIsInjective ==
  ASSUME NEW S, NEW q \in Seq(S), NEW r \in Seq(S), IsInjective(q), IsInjective(r),
         Range(q) \cap Range(r) = {}
  PROVE  /\ q \o r \in Seq(S) /\ IsInjective(q \o r)
         /\ Range(q \o r) = Range(q) \cup Range(r)
<1>1. PICK k \in Nat, n \in Nat : /\ k = Len(q) /\ DOMAIN q = 1 .. k
                                 /\ n = Len(r) /\ DOMAIN r = 1 .. n
  BY LenProperties
<1>2. PICK t \in Seq(S) : t = q \o r
  BY ConcatProperties
<1>3. /\ Len(t) = Len(q) + Len(r)
      /\ \A i \in 1 .. Len(q) + Len(r) : t[i] = IF i <= Len(q) THEN q[i] ELSE r[i - Len(q)]
  BY <1>2, ConcatProperties
<1>4. /\ DOMAIN t = 1 .. k + n
      /\ \A i \in 1 .. k + n : t[i] = IF i <= k THEN q[i] ELSE r[i - k]
  BY <1>1, <1>3, LenProperties
<1>5. ASSUME NEW i \in 1 .. k + n
      PROVE  \/ i \in 1 .. k /\ t[i] = q[i]
             \/ i - k \in 1 .. n /\ t[i] = r[i - k]
  BY <1>4
<1>6. ASSUME NEW i \in 1 .. k PROVE i \in 1 .. k + n /\ t[i] = q[i]
  BY <1>4
<1>7. ASSUME NEW i \in 1 .. n PROVE k + i \in 1 .. k + n /\ t[k + i] = r[i]
  <2>1. k + i \in 1 .. k + n /\ ~(k + i <= k) /\ (k + i) - k = i
    OBVIOUS
  <2>. QED
    BY <1>4, <2>1
<1>8. ASSUME NEW i \in 1 .. k + n, NEW j \in 1 .. k + n, t[i] = t[j] PROVE i = j
  <2>1. CASE i \in 1 .. k /\ j \in 1 .. k
    BY <1>1, <1>6, <1>8, <2>1 DEF IsInjective
  <2>2. CASE i - k \in 1 .. n /\ j - k \in 1 .. n
    <3>1. ~(i <= k) /\ ~(j <= k)
      BY <2>2
    <3>2. r[i - k] = r[j - k]
      BY <1>4, <1>8, <3>1
    <3>3. i - k = j - k
      BY <1>1, <2>2, <3>2 DEF IsInjective
    <3>. QED
      BY <3>3
  <2>3. \A a \in 1 .. k, b \in 1 .. n : q[a] # r[b]
    BY <1>1 DEF Range
  <2>. QED
    BY <1>5, <1>8, <2>1, <2>2, <2>3
<1>9. Range(t) = Range(q) \cup Range(r)
  <2>1. Range(t) \subseteq Range(q) \cup Range(r)
    BY <1>1, <1>4, <1>5 DEF Range
  <2>2. Range(q) \subseteq Range(t)
    BY <1>1, <1>4, <1>6 DEF Range
  <2>3. Range(r) \subseteq Range(t)
    <3>. SUFFICES ASSUME NEW i \in 1 .. n PROVE r[i] \in Range(t)
      BY <1>1 DEF Range
    <3>1. k + i \in DOMAIN t /\ t[k + i] = r[i]
      BY <1>4, <1>7
    <3>. QED
      BY <3>1 DEF Range
  <2>. QED
    BY <2>1, <2>2, <2>3
<1>. QED
  BY <1>2, <1>4, <1>8, <1>9 DEF IsInjective
=============================================================================
