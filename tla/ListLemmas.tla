----------------------------- MODULE ListLemmas -----------------------------
(***************************************************************************)
(* What the operators on lists return that the modules are built from      *)
(* (std::list and std::deque in the code), for any elements: insertion,    *)
(* removal, and lists without repetition, as counted sets; sums over sets. *)
(***************************************************************************)
EXTENDS Integers, FiniteSets, FiniteSetsExt, Sequences, SequencesExt,
        FiniteSetTheorems, SequenceTheorems, WellFoundedInduction, TLAPS

-----------------------------------------------------------------------------
(* Appending, inserting.                                                   *)

\* Append adds its element behind the others.
LEMMA AppendShape ==
    ASSUME NEW S, NEW q \in Seq(S), NEW x \in S
    PROVE  /\ Len(q) \in Nat /\ DOMAIN q = 1 .. Len(q)
           /\ DOMAIN Append(q, x) = 1 .. Len(q) + 1
           /\ \A i \in DOMAIN q : i \in DOMAIN Append(q, x) /\ Append(q, x)[i] = q[i]
           /\ Append(q, x)[Len(q) + 1] = x
           /\ \A i \in DOMAIN Append(q, x) : i \in DOMAIN q \/ i = Len(q) + 1
           /\ Range(Append(q, x)) = Range(q) \cup {x}
<1>1. /\ Len(q) \in Nat /\ DOMAIN q = 1 .. Len(q) /\ DOMAIN Append(q, x) = 1 .. Len(q) + 1
      /\ \A i \in 1 .. Len(q) : Append(q, x)[i] = q[i]
      /\ Append(q, x)[Len(q) + 1] = x
  BY AppendProperties, LenProperties
<1>2. /\ \A i \in DOMAIN q : i \in DOMAIN Append(q, x) /\ Append(q, x)[i] = q[i]
      /\ \A i \in DOMAIN Append(q, x) : i \in DOMAIN q \/ i = Len(q) + 1
      /\ Len(q) + 1 \in DOMAIN Append(q, x)
  BY <1>1
<1>3. Range(Append(q, x)) = Range(q) \cup {x}
  BY <1>1, <1>2 DEF Range
<1> QED
  BY <1>1, <1>2, <1>3

\* What InsertAt builds: the entries before p, the new one, the others.
LEMMA InsertAtProperties ==
    ASSUME NEW S, NEW q \in Seq(S), NEW p \in 1 .. Len(q) + 1, NEW e \in S
    PROVE  /\ InsertAt(q, p, e) \in Seq(S)
           /\ Len(InsertAt(q, p, e)) = Len(q) + 1
           /\ \A i \in 1 .. Len(q) + 1 :
                  InsertAt(q, p, e)[i] = IF i < p THEN q[i]
                                         ELSE IF i = p THEN e ELSE q[i - 1]
<1> DEFINE front == SubSeq(q, 1, p - 1)
           back == SubSeq(q, p, Len(q))
           middle == <<e>>
<1>0. Len(q) \in Nat /\ p \in Int /\ p - 1 \in Int /\ 1 \in Int /\ Len(q) \in Int
      /\ \A i \in 1 .. Len(q) : q[i] \in S
  BY LenProperties
<1>1. /\ front \in Seq(S)
      /\ Len(front) = p - 1
      /\ \A i \in 1 .. p - 1 : front[i] = q[i]
  <2>1. \A i \in 1 .. p - 1 : q[i] \in S
    BY <1>0
  <2>2. /\ front \in Seq(S)
        /\ Len(front) = IF 1 <= p - 1 THEN p - 1 - 1 + 1 ELSE 0
        /\ \A i \in 1 .. p - 1 - 1 + 1 : front[i] = q[1 + i - 1]
    BY <1>0, <2>1, SubSeqProperties
  <2> HIDE DEF front
  <2> QED
    BY <1>0, <2>2
<1>2. /\ back \in Seq(S)
      /\ Len(back) = Len(q) + 1 - p
      /\ \A i \in 1 .. Len(q) + 1 - p : back[i] = q[p + i - 1]
  <2>1. \A i \in p .. Len(q) : q[i] \in S
    BY <1>0
  <2>2. /\ back \in Seq(S)
        /\ Len(back) = IF p <= Len(q) THEN Len(q) - p + 1 ELSE 0
        /\ \A i \in 1 .. Len(q) - p + 1 : back[i] = q[p + i - 1]
    BY <1>0, <2>1, SubSeqProperties
  <2> HIDE DEF back
  <2> QED
    BY <1>0, <2>2
<1>3. middle \in Seq(S) /\ Len(middle) = 1 /\ middle[1] = e
  OBVIOUS
<1> HIDE DEF front, back, middle
<1>4. /\ front \o middle \in Seq(S)
      /\ Len(front \o middle) = p
      /\ \A i \in 1 .. p : (front \o middle)[i] = IF i < p THEN q[i] ELSE e
  <2>1. /\ front \o middle \in Seq(S)
        /\ Len(front \o middle) = Len(front) + Len(middle)
        /\ \A i \in 1 .. Len(front) + Len(middle) :
               (front \o middle)[i] = IF i <= Len(front) THEN front[i] ELSE middle[i - Len(front)]
    BY <1>1, <1>3, ConcatProperties
  <2> QED
    BY <1>0, <1>1, <1>3, <2>1
<1> DEFINE upTo == front \o middle
<1>a. /\ upTo \in Seq(S)
      /\ Len(upTo) = p
      /\ \A i \in 1 .. p : upTo[i] = IF i < p THEN q[i] ELSE e
  BY <1>4
<1>6. InsertAt(q, p, e) = upTo \o back
  BY DEF InsertAt, front, middle, back
<1> HIDE DEF upTo
<1>5. /\ upTo \o back \in Seq(S)
      /\ Len(upTo \o back) = p + Len(back)
      /\ \A i \in 1 .. p + Len(back) :
             (upTo \o back)[i] = IF i <= p THEN upTo[i] ELSE back[i - p]
  <2>1. /\ upTo \o back \in Seq(S)
        /\ Len(upTo \o back) = Len(upTo) + Len(back)
        /\ \A i \in 1 .. Len(upTo) + Len(back) :
               (upTo \o back)[i] = IF i <= Len(upTo) THEN upTo[i] ELSE back[i - Len(upTo)]
    BY <1>2, <1>a, ConcatProperties
  <2> QED
    BY <1>a, <2>1
<1>7. \A i \in 1 .. Len(q) + 1 :
          InsertAt(q, p, e)[i] = IF i < p THEN q[i] ELSE IF i = p THEN e ELSE q[i - 1]
  <2> TAKE i \in 1 .. Len(q) + 1
  <2>1. CASE i <= p
    BY <2>1, <1>0, <1>2, <1>a, <1>5, <1>6
  <2>2. CASE ~(i <= p)
    <3>1. i - p \in 1 .. Len(q) + 1 - p /\ p + (i - p) - 1 = i - 1 /\ i \in 1 .. p + Len(back)
      BY <2>2, <1>0, <1>2
    <3>2. InsertAt(q, p, e)[i] = back[i - p]
      BY <3>1, <2>2, <1>5, <1>6
    <3> QED
      BY <3>1, <3>2, <2>2, <1>0, <1>2
  <2> QED
    BY <2>1, <2>2
<1> QED
  BY <1>0, <1>2, <1>5, <1>6, <1>7

-----------------------------------------------------------------------------
(* Sequences without repetition.                                           *)

\* SetToSeq lists a finite set, each element once.
LEMMA SetToSeqLists ==
    ASSUME NEW S, IsFiniteSet(S)
    PROVE  /\ SetToSeq(S) \in Seq(S) /\ IsInjective(SetToSeq(S))
           /\ Len(SetToSeq(S)) = Cardinality(S) /\ Cardinality(S) \in Nat
           /\ SetToSeq(S) \in [1 .. Cardinality(S) -> S]
<1>1. Cardinality(S) \in Nat /\ ExistsBijection(1 .. Cardinality(S), S)
  BY FS_CardinalityType
<1>2. \E f \in [1 .. Cardinality(S) -> S] : IsInjective(f)
  BY <1>1 DEF ExistsBijection, Bijection, Injection
<1>3. SetToSeq(S) \in [1 .. Cardinality(S) -> S] /\ IsInjective(SetToSeq(S))
  BY <1>2 DEF SetToSeq
<1>4. SetToSeq(S) \in Seq(S)
  BY <1>1, <1>3, SeqDef
<1>5. Len(SetToSeq(S)) = Cardinality(S)
  BY <1>1, <1>3
<1> QED
  BY <1>1, <1>3, <1>4, <1>5

\* As many elements as places.
LEMMA InjectiveLength ==
    ASSUME NEW S, NEW q \in Seq(S), IsInjective(q)
    PROVE  /\ IsFiniteSet(ToSet(q)) /\ ToSet(q) \subseteq S
           /\ Cardinality(ToSet(q)) = Len(q)
<1>1. Len(q) \in Nat /\ q \in [1 .. Len(q) -> S] /\ DOMAIN q = 1 .. Len(q)
  BY LenProperties
<1>2. q \in Bijection(1 .. Len(q), ToSet(q))
  BY <1>1 DEF Bijection, Injection, Surjection, ToSet
<1>3. ExistsBijection(1 .. Len(q), ToSet(q))
  BY <1>2 DEF ExistsBijection
<1>4. Cardinality(ToSet(q)) = Len(q) /\ IsFiniteSet(ToSet(q))
  BY <1>1, <1>3, FS_CountingElements, FS_NatBijection
<1> QED
  BY <1>1, <1>4 DEF ToSet

\* What RemoveAt leaves.
LEMMA RemoveAtProperties ==
    ASSUME NEW S, NEW q \in Seq(S), NEW p \in 1 .. Len(q)
    PROVE  /\ RemoveAt(q, p) \in Seq(S)
           /\ Len(RemoveAt(q, p)) = Len(q) - 1
           /\ \A i \in 1 .. Len(q) - 1 :
                  RemoveAt(q, p)[i] = IF i < p THEN q[i] ELSE q[i + 1]
<1> DEFINE front == SubSeq(q, 1, p - 1)
           back == SubSeq(q, p + 1, Len(q))
<1>1. Len(q) \in Nat /\ \A i \in 1 .. Len(q) : q[i] \in S
  BY LenProperties
<1>2. /\ front \in Seq(S) /\ Len(front) = p - 1
      /\ \A i \in 1 .. p - 1 : front[i] = q[i]
  <2>1. \A i \in 1 .. p - 1 : q[i] \in S
    BY <1>1
  <2>2. /\ front \in Seq(S) /\ Len(front) = IF 1 <= p - 1 THEN p - 1 - 1 + 1 ELSE 0
        /\ \A i \in 1 .. p - 1 - 1 + 1 : front[i] = q[1 + i - 1]
    BY <1>1, <2>1, SubSeqProperties
  <2> HIDE DEF front
  <2> QED
    BY <1>1, <2>2
<1>3. /\ back \in Seq(S) /\ Len(back) = Len(q) - p
      /\ \A i \in 1 .. Len(q) - p : back[i] = q[p + i]
  <2>1. \A i \in p + 1 .. Len(q) : q[i] \in S
    BY <1>1
  <2>2. /\ back \in Seq(S)
        /\ Len(back) = IF p + 1 <= Len(q) THEN Len(q) - (p + 1) + 1 ELSE 0
        /\ \A i \in 1 .. Len(q) - (p + 1) + 1 : back[i] = q[p + 1 + i - 1]
    BY <1>1, <2>1, SubSeqProperties
  <2> HIDE DEF back
  <2> QED
    BY <1>1, <2>2
<1>4. RemoveAt(q, p) = front \o back
  BY DEF RemoveAt
<1> HIDE DEF front, back
<1>5. /\ front \o back \in Seq(S) /\ Len(front \o back) = Len(front) + Len(back)
      /\ \A i \in 1 .. Len(front) + Len(back) :
             (front \o back)[i] = IF i <= Len(front) THEN front[i] ELSE back[i - Len(front)]
  BY <1>2, <1>3, ConcatProperties
<1>6. ASSUME NEW i \in 1 .. Len(q) - 1
      PROVE  RemoveAt(q, p)[i] = IF i < p THEN q[i] ELSE q[i + 1]
  <2>1. CASE i < p
    BY <2>1, <1>1, <1>2, <1>3, <1>4, <1>5
  <2>2. CASE ~(i < p)
    <3>1. i - Len(front) \in 1 .. Len(q) - p /\ p + (i - Len(front)) = i + 1
      BY <2>2, <1>1, <1>2
    <3>2. RemoveAt(q, p)[i] = back[i - Len(front)]
      BY <2>2, <1>1, <1>2, <1>3, <1>4, <1>5
    <3> QED
      BY <2>2, <3>1, <3>2, <1>3
  <2> QED
    BY <2>1, <2>2
<1> QED
  BY <1>1, <1>2, <1>3, <1>4, <1>5, <1>6

\* Front drops the last element.
LEMMA FrontProperties ==
    ASSUME NEW S, NEW q \in Seq(S), q # <<>>
    PROVE  /\ Front(q) \in Seq(S) /\ Len(q) \in Nat \ {0}
           /\ Len(Front(q)) = Len(q) - 1
           /\ \A i \in 1 .. Len(q) - 1 : Front(q)[i] = q[i]
<1>1. Len(q) \in Nat /\ Len(q) # 0 /\ \A i \in 1 .. Len(q) : q[i] \in S
  BY EmptySeq, LenProperties
<1>2. \A i \in 1 .. Len(q) - 1 : q[i] \in S
  BY <1>1
<1>3. /\ SubSeq(q, 1, Len(q) - 1) \in Seq(S)
      /\ Len(SubSeq(q, 1, Len(q) - 1))
             = IF 1 <= Len(q) - 1 THEN Len(q) - 1 - 1 + 1 ELSE 0
      /\ \A i \in 1 .. Len(q) - 1 - 1 + 1 : SubSeq(q, 1, Len(q) - 1)[i] = q[1 + i - 1]
  BY <1>1, <1>2, SubSeqProperties
<1>4. Len(q) - 1 - 1 + 1 = Len(q) - 1 /\ \A i \in 1 .. Len(q) - 1 : 1 + i - 1 = i
  BY <1>1
<1> QED
  BY <1>1, <1>3, <1>4 DEF Front

\* Two lists without duplicates and with nothing in common make one.
LEMMA ConcatDistinct ==
    ASSUME NEW S, NEW s \in Seq(S), NEW t \in Seq(S),
           IsInjective(s), IsInjective(t),
           \A i \in 1 .. Len(s), j \in 1 .. Len(t) : s[i] # t[j]
    PROVE  ToSet(s \o t) = ToSet(s) \cup ToSet(t) /\ IsInjective(s \o t)
<1> DEFINE c == s \o t
<1>1. /\ c \in Seq(S) /\ Len(c) = Len(s) + Len(t)
      /\ \A i \in 1 .. Len(s) + Len(t) : c[i] = IF i <= Len(s) THEN s[i] ELSE t[i - Len(s)]
  BY ConcatProperties
<1> HIDE DEF c
<1>2. /\ Len(s) \in Nat /\ DOMAIN s = 1 .. Len(s) /\ Len(t) \in Nat /\ DOMAIN t = 1 .. Len(t)
      /\ DOMAIN c = 1 .. Len(s) + Len(t)
  BY <1>1, LenProperties
<1>3. \A i \in 1 .. Len(s) : i \in DOMAIN c /\ c[i] = s[i]
  BY <1>1, <1>2
<1>4. \A j \in 1 .. Len(t) : Len(s) + j \in DOMAIN c /\ c[Len(s) + j] = t[j]
  <2> SUFFICES ASSUME NEW j \in 1 .. Len(t)
               PROVE  Len(s) + j \in DOMAIN c /\ c[Len(s) + j] = t[j]
    OBVIOUS
  <2>1. Len(s) + j \in 1 .. Len(s) + Len(t) /\ ~(Len(s) + j <= Len(s)) /\ Len(s) + j - Len(s) = j
    BY <1>2
  <2> QED
    BY <2>1, <1>1, <1>2
<1>5. \A i \in DOMAIN c : \/ i \in 1 .. Len(s)
                          \/ \E j \in 1 .. Len(t) : i = Len(s) + j
  <2> SUFFICES ASSUME NEW i \in DOMAIN c, i \notin 1 .. Len(s)
               PROVE  \E j \in 1 .. Len(t) : i = Len(s) + j
    OBVIOUS
  <2>1. i - Len(s) \in 1 .. Len(t) /\ i = Len(s) + (i - Len(s))
    BY <1>2
  <2> QED
    BY <2>1
<1>6. ToSet(c) = ToSet(s) \cup ToSet(t)
  <2>1. ASSUME NEW x \in ToSet(c) PROVE x \in ToSet(s) \cup ToSet(t)
    <3>1. PICK i \in DOMAIN c : x = c[i]
      BY DEF ToSet
    <3> QED
      BY <1>2, <1>3, <1>4, <1>5, <3>1 DEF ToSet
  <2>2. ASSUME NEW x \in ToSet(s) PROVE x \in ToSet(c)
    BY <1>2, <1>3 DEF ToSet
  <2>3. ASSUME NEW x \in ToSet(t) PROVE x \in ToSet(c)
    BY <1>2, <1>4 DEF ToSet
  <2> QED
    BY <2>1, <2>2, <2>3
<1>7. IsInjective(c)
  <2> SUFFICES ASSUME NEW i \in DOMAIN c, NEW j \in DOMAIN c, c[i] = c[j]
               PROVE  i = j
    BY DEF IsInjective
  <2>1. CASE i \in 1 .. Len(s) /\ j \in 1 .. Len(s)
    BY <2>1, <1>2, <1>3 DEF IsInjective
  <2>2. CASE i \in 1 .. Len(s) /\ j \notin 1 .. Len(s)
    BY <2>2, <1>3, <1>4, <1>5
  <2>3. CASE i \notin 1 .. Len(s) /\ j \in 1 .. Len(s)
    BY <2>3, <1>3, <1>4, <1>5
  <2>4. CASE i \notin 1 .. Len(s) /\ j \notin 1 .. Len(s)
    <3>1. PICK k \in 1 .. Len(t) : i = Len(s) + k
      BY <2>4, <1>5
    <3>2. PICK l \in 1 .. Len(t) : j = Len(s) + l
      BY <2>4, <1>5
    <3>3. t[k] = t[l]
      BY <1>4, <3>1, <3>2
    <3>4. k = l
      BY <1>2, <3>3 DEF IsInjective
    <3> QED
      BY <3>1, <3>2, <3>4
  <2> QED
    BY <2>1, <2>2, <2>3, <2>4
<1> QED
  BY <1>6, <1>7 DEF c

\* An element that is not in the list may be appended.
LEMMA AppendDistinct ==
    ASSUME NEW S, NEW q \in Seq(S), NEW x \in S, IsInjective(q), x \notin ToSet(q)
    PROVE  IsInjective(Append(q, x)) /\ ToSet(Append(q, x)) = ToSet(q) \cup {x}
<1>1. /\ Len(q) \in Nat /\ DOMAIN q = 1 .. Len(q) /\ DOMAIN Append(q, x) = 1 .. Len(q) + 1
      /\ \A i \in 1 .. Len(q) : Append(q, x)[i] = q[i] /\ q[i] # x
      /\ Append(q, x)[Len(q) + 1] = x
  BY AppendProperties, LenProperties DEF ToSet
<1>2. \A i \in 1 .. Len(q) + 1 : i \in 1 .. Len(q) \/ i = Len(q) + 1
  BY <1>1
<1>3. IsInjective(Append(q, x))
  BY <1>1, <1>2 DEF IsInjective
<1>4. Len(q) + 1 \in DOMAIN Append(q, x) /\ DOMAIN q \subseteq DOMAIN Append(q, x)
  BY <1>1
<1>5. ToSet(Append(q, x)) = ToSet(q) \cup {x}
  BY <1>1, <1>2, <1>4 DEF ToSet
<1> QED
  BY <1>3, <1>5

\* A list without duplicates has none after an element was taken out.
LEMMA RemoveAtDistinct ==
    ASSUME NEW S, NEW q \in Seq(S), NEW p \in 1 .. Len(q), IsInjective(q)
    PROVE  IsInjective(RemoveAt(q, p))
<1> DEFINE r == RemoveAt(q, p)
<1>1. /\ r \in Seq(S) /\ Len(r) = Len(q) - 1
      /\ \A i \in 1 .. Len(q) - 1 : r[i] = IF i < p THEN q[i] ELSE q[i + 1]
  BY RemoveAtProperties
<1> HIDE DEF r
<1>2. Len(q) \in Nat /\ DOMAIN q = 1 .. Len(q) /\ DOMAIN r = 1 .. Len(q) - 1
  BY <1>1, LenProperties
<1> DEFINE was(i) == IF i < p THEN i ELSE i + 1
<1>3. \A i \in DOMAIN r : was(i) \in DOMAIN q /\ r[i] = q[was(i)]
  BY <1>1, <1>2
<1>4. \A i, j \in DOMAIN r : was(i) = was(j) => i = j
  BY <1>2
<1> HIDE DEF was
<1>5. IsInjective(r)
  BY <1>3, <1>4 DEF IsInjective
<1> QED
  BY <1>5 DEF r

\* Without its last element a list without duplicates no longer has that one.
LEMMA FrontDistinct ==
    ASSUME NEW S, NEW q \in Seq(S), q # <<>>, IsInjective(q)
    PROVE  /\ IsInjective(Front(q))
           /\ q[Len(q)] \in S
           /\ ToSet(Front(q)) = ToSet(q) \ {q[Len(q)]}
<1> DEFINE f == Front(q)
<1>1. /\ f \in Seq(S) /\ Len(q) \in Nat \ {0} /\ Len(f) = Len(q) - 1
      /\ \A i \in 1 .. Len(q) - 1 : f[i] = q[i]
  BY FrontProperties
<1> HIDE DEF f
<1>2. q \in [1 .. Len(q) -> S] /\ DOMAIN f = 1 .. Len(q) - 1
  BY <1>1, LenProperties
<1>3. \A i \in DOMAIN f : i \in DOMAIN q /\ f[i] = q[i] /\ i # Len(q)
  BY <1>1, <1>2
<1>4. \A i \in DOMAIN q : i \in DOMAIN f \/ i = Len(q)
  BY <1>1, <1>2
<1>5. Len(q) \in DOMAIN q
  BY <1>1, <1>2
<1>6. IsInjective(f)
  BY <1>3 DEF IsInjective
<1>7. ToSet(f) = ToSet(q) \ {q[Len(q)]}
  BY <1>3, <1>4, <1>5 DEF ToSet, IsInjective
<1> QED
  BY <1>2, <1>5, <1>6, <1>7 DEF f

-----------------------------------------------------------------------------
(* Prefixes, tails, and the smallest of a set.                             *)

\* A prefix of a list without duplicates has none, and only elements of the list.
LEMMA PrefixDistinct ==
    ASSUME NEW S, NEW q \in Seq(S), IsInjective(q), NEW n \in 0 .. Len(q)
    PROVE  /\ SubSeq(q, 1, n) \in Seq(S) /\ Len(SubSeq(q, 1, n)) = n
           /\ IsInjective(SubSeq(q, 1, n))
           /\ ToSet(SubSeq(q, 1, n)) \subseteq ToSet(q)
<1> DEFINE f == SubSeq(q, 1, n)
<1>1. Len(q) \in Nat /\ DOMAIN q = 1 .. Len(q) /\ \A i \in 1 .. Len(q) : q[i] \in S
  BY LenProperties
<1>2. \A i \in 1 .. n : q[i] \in S
  BY <1>1
<1>3. /\ f \in Seq(S) /\ Len(f) = IF 1 <= n THEN n - 1 + 1 ELSE 0
      /\ \A i \in 1 .. n - 1 + 1 : f[i] = q[1 + i - 1]
  BY <1>1, <1>2, SubSeqProperties
<1> HIDE DEF f
<1>4. Len(f) = n /\ \A i \in 1 .. n : f[i] = q[i]
  BY <1>1, <1>3
<1>5. DOMAIN f = 1 .. n
  BY <1>3, <1>4, LenProperties
<1>6. \A i \in DOMAIN f : i \in DOMAIN q /\ f[i] = q[i]
  BY <1>1, <1>4, <1>5
<1>7. IsInjective(f)
  BY <1>6 DEF IsInjective
<1>8. ToSet(f) \subseteq ToSet(q)
  BY <1>6 DEF ToSet
<1> QED
  BY <1>3, <1>4, <1>7, <1>8 DEF f

\* Without its first element a list without duplicates no longer has that one.
LEMMA TailDistinct ==
    ASSUME NEW S, NEW q \in Seq(S), q # <<>>, IsInjective(q)
    PROVE  /\ Head(q) \in S /\ Head(q) \in ToSet(q)
           /\ Tail(q) \in Seq(S) /\ Len(Tail(q)) = Len(q) - 1 /\ Len(q) \in Nat \ {0}
           /\ IsInjective(Tail(q))
           /\ ToSet(Tail(q)) = ToSet(q) \ {Head(q)}
<1> DEFINE f == Tail(q)
<1>1. /\ Len(q) \in Nat \ {0} /\ DOMAIN q = 1 .. Len(q) /\ Head(q) = q[1]
  BY EmptySeq, LenProperties
<1>2. /\ f \in Seq(S) /\ Len(f) = Len(q) - 1 /\ Head(q) \in S
      /\ \A i \in 1 .. Len(f) : f[i] = q[i + 1]
  BY HeadTailProperties
<1> HIDE DEF f
<1>3. DOMAIN f = 1 .. Len(q) - 1
  BY <1>2, LenProperties
<1>4. \A i \in DOMAIN f : i + 1 \in DOMAIN q /\ f[i] = q[i + 1] /\ i + 1 # 1
  BY <1>1, <1>2, <1>3
<1>5. \A i \in DOMAIN q : i = 1 \/ (i - 1 \in DOMAIN f /\ q[i] = f[i - 1])
  BY <1>1, <1>2, <1>3
<1>6. 1 \in DOMAIN q
  BY <1>1
<1>7. IsInjective(f)
  <2> SUFFICES ASSUME NEW i \in DOMAIN f, NEW j \in DOMAIN f, f[i] = f[j] PROVE i = j
    BY DEF IsInjective
  <2>1. i + 1 = j + 1
    BY <1>4 DEF IsInjective
  <2> QED
    BY <2>1, <1>1, <1>3
<1>8. ToSet(f) = ToSet(q) \ {q[1]}
  <2>1. ASSUME NEW x \in ToSet(f) PROVE x \in ToSet(q) \ {q[1]}
    <3>1. PICK i \in DOMAIN f : x = f[i]
      BY DEF ToSet
    <3> QED
      BY <3>1, <1>4, <1>6 DEF ToSet, IsInjective
  <2>2. ASSUME NEW x \in ToSet(q), x # q[1] PROVE x \in ToSet(f)
    BY <2>2, <1>5 DEF ToSet
  <2> QED
    BY <2>1, <2>2
<1> QED
  BY <1>1, <1>2, <1>6, <1>7, <1>8 DEF f, ToSet

\* A set of naturals that is not empty has a smallest member.
LEMMA MinExists ==
    ASSUME NEW S, S \subseteq Nat, S # {}
    PROVE  Min(S) \in S /\ \A y \in S : Min(S) <= y
<1>1. \E x \in S : \A y \in S : ~ (<<y, x>> \in OpToRel(<, Nat))
  BY NatLessThanWellFounded, WFMin
<1>2. \E x \in S : \A y \in S : x <= y
  <2>1. PICK x \in S : \A y \in S : ~ (<<y, x>> \in OpToRel(<, Nat))
    BY <1>1
  <2>2. ASSUME NEW y \in S PROVE x <= y
    <3>1. ~ (y < x)
      BY <2>1 DEF OpToRel
    <3> QED
      BY <3>1
  <2> QED
    BY <2>2
<1> QED
  BY <1>2 DEF Min

\* A function from the first numbers is a sequence.
LEMMA FunctionIsSeq ==
    ASSUME NEW S, NEW n \in Nat, NEW f \in [1 .. n -> S]
    PROVE  f \in Seq(S) /\ Len(f) = n
BY SeqDef

\* What is appended to the second list is appended to both.
LEMMA AppendAfter ==
    ASSUME NEW S, NEW s \in Seq(S), NEW t \in Seq(S), NEW e \in S
    PROVE  s \o Append(t, e) = Append(s \o t, e)
<1>1. <<e>> \in Seq(S) /\ s \o t \in Seq(S)
  BY ConcatProperties
<1>2. Append(t, e) = t \o <<e>> /\ Append(s \o t, e) = (s \o t) \o <<e>>
  BY <1>1, AppendIsConcat
<1> QED
  BY <1>1, <1>2, ConcatAssociative

\* The two parts of a list make the list.
LEMMA SplitIsWhole ==
    ASSUME NEW S, NEW s \in Seq(S), NEW n \in 0 .. Len(s)
    PROVE  /\ SubSeq(s, 1, n) \in Seq(S) /\ SubSeq(s, n + 1, Len(s)) \in Seq(S)
           /\ SubSeq(s, 1, n) \o SubSeq(s, n + 1, Len(s)) = s
<1>1. Len(s) \in Nat /\ \A i \in 1 .. Len(s) : s[i] \in S
  BY LenProperties, ElementOfSeq
<1>2. /\ SubSeq(s, 1, n) \in Seq(S) /\ Len(SubSeq(s, 1, n)) = n
      /\ \A i \in 1 .. n : SubSeq(s, 1, n)[i] = s[i]
  BY <1>1, SubSeqProperties
<1>3. /\ SubSeq(s, n + 1, Len(s)) \in Seq(S) /\ Len(SubSeq(s, n + 1, Len(s))) = Len(s) - n
      /\ \A i \in 1 .. Len(s) - n : SubSeq(s, n + 1, Len(s))[i] = s[n + i]
  BY <1>1, SubSeqProperties
<1> DEFINE a == SubSeq(s, 1, n)
           b == SubSeq(s, n + 1, Len(s))
<1> HIDE DEF a, b
<1>4. /\ a \in Seq(S) /\ b \in Seq(S) /\ Len(a) = n /\ Len(b) = Len(s) - n
      /\ \A i \in 1 .. n : a[i] = s[i]
      /\ \A i \in 1 .. Len(s) - n : b[i] = s[n + i]
  BY <1>2, <1>3 DEF a, b
<1>5. a \o b \in Seq(S) /\ Len(a \o b) = Len(s)
  BY <1>1, <1>4, ConcatProperties
<1>6. ASSUME NEW i \in 1 .. Len(s) PROVE (a \o b)[i] = s[i]
  <2>1. (a \o b)[i] = IF i <= n THEN a[i] ELSE b[i - n]
    BY <1>1, <1>4, ConcatProperties
  <2>2. CASE i <= n
    BY <1>4, <2>1, <2>2
  <2>3. CASE ~(i <= n)
    <3>1. i - n \in 1 .. Len(s) - n /\ n + (i - n) = i
      BY <1>1, <2>3
    <3> QED
      BY <1>4, <2>1, <2>3, <3>1
  <2> QED
    BY <2>2, <2>3
<1> QED
  BY <1>2, <1>3, <1>5, <1>6, SeqEqual DEF a, b

-----------------------------------------------------------------------------
(* Sums over a finite set, which MapThenSumSet takes element by element.   *)

Total(w, S) == MapThenSumSet(LAMBDA x : w[x], S)

\* The element that the fold takes next, and the function that it defines.
Chosen(s) == CHOOSE x \in s : TRUE
SumFrom(w, g, s) == IF s = {} THEN 0 ELSE w[Chosen(s)] + g[s \ {Chosen(s)}]
Sums(w, S, g) == g = [s \in SUBSET S |-> SumFrom(w, g, s)]

\* A set of subsets of a finite set has one that has no other of them within it.
LEMMA SmallestSubset ==
    ASSUME NEW S, IsFiniteSet(S), NEW B \in SUBSET SUBSET S, B # {}
    PROVE  \E s \in B : \A t \in B : t \subseteq s => t = s
<1>1. IsWellFoundedOn(StrictSubsetOrdering(S), SUBSET S)
  BY FS_StrictSubsetOrderingWellFounded, FS_FiniteSubsetsOfFinite
<1>2. PICK s \in B : \A t \in B : ~ (<<t, s>> \in StrictSubsetOrdering(S))
  BY <1>1, WFMin
<1>3. \A t \in B : t \subseteq s => t = s
  BY <1>2 DEF StrictSubsetOrdering
<1> QED
  BY <1>3

\* The total is what that function has for the whole set.
LEMMA TotalIsSum ==
    ASSUME NEW w, NEW S
    PROVE  Total(w, S) = (CHOOSE g : Sums(w, S, g))[S]
BY DEF Total, MapThenSumSet, MapThenFoldSet, Sums, SumFrom, Chosen

\* There is such a function: what it has for smaller sets determines it for larger.
LEMMA SumsExist ==
    ASSUME NEW w, NEW S, IsFiniteSet(S)
    PROVE  \E g : Sums(w, S, g)
<1> DEFINE Upto(n, g) ==
               /\ g = [s \in SUBSET S |-> g[s]]
               /\ \A s \in SUBSET S : Cardinality(s) <= n => g[s] = SumFrom(w, g, s)
           Bad == {n \in Nat : ~ \E g : Upto(n, g)}
<1>1. \A s \in SUBSET S : IsFiniteSet(s) /\ Cardinality(s) \in Nat
                          /\ Cardinality(s) <= Cardinality(S)
  BY FS_Subset, FS_CardinalityType
<1>2. 0 \notin Bad
  <2> DEFINE g == [s \in SUBSET S |-> 0]
  <2>1. \A s \in SUBSET S : Cardinality(s) <= 0 => s = {}
    BY <1>1, FS_EmptySet
  <2>2. SumFrom(w, g, {}) = 0
    BY DEF SumFrom
  <2>3. Upto(0, g)
    BY <2>1, <2>2
  <2> QED
    BY <2>3
<1>3. ASSUME NEW n \in Nat, n \notin Bad PROVE n + 1 \notin Bad
  <2>1. PICK g : Upto(n, g)
    BY <1>3
  <2> DEFINE h == [s \in SUBSET S |-> SumFrom(w, g, s)]
  <2>2. ASSUME NEW s \in SUBSET S, Cardinality(s) <= n + 1
        PROVE  h[s] = SumFrom(w, h, s)
    <3>1. CASE s = {}
      BY <3>1 DEF SumFrom
    <3>2. CASE s # {}
      <4> DEFINE t == s \ {Chosen(s)}
      <4>1. Chosen(s) \in s
        BY <3>2 DEF Chosen
      <4>2. t \in SUBSET S /\ Cardinality(t) = Cardinality(s) - 1
        BY <4>1, <1>1, FS_RemoveElement
      <4>3. Cardinality(t) <= n
        BY <4>2, <2>2, <1>1
      <4> HIDE DEF t
      <4>4. g[t] = SumFrom(w, g, t)
        BY <2>1, <4>2, <4>3
      <4>5. h[t] = g[t]
        BY <4>2, <4>4
      <4> QED
        BY <3>2, <4>5 DEF SumFrom, t
    <3> QED
      BY <3>1, <3>2
  <2>3. Upto(n + 1, h)
    <3>1. h = [s \in SUBSET S |-> h[s]]
      OBVIOUS
    <3> QED
      BY <2>2, <3>1
  <2> QED
    BY <2>3
<1>4. Bad = {}
  <2> SUFFICES ASSUME Bad # {} PROVE FALSE
    OBVIOUS
  <2>0. Bad \in SUBSET Nat
    OBVIOUS
  <2> HIDE DEF Bad
  <2>1. PICK k \in Bad : \A n \in Bad : k <= n
    BY <2>0, MinExists
  <2>2. k \in Nat /\ k # 0
    BY <1>2, <2>0, <2>1
  <2>3. PICK n \in Nat : k = n + 1
    <3>1. k - 1 \in Nat /\ k = (k - 1) + 1
      BY <2>2
    <3> QED
      BY <3>1
  <2>4. n \notin Bad
    <3>1. ~ (k <= n)
      BY <2>3
    <3> QED
      BY <2>1, <3>1
  <2> QED
    BY <1>3, <2>1, <2>3, <2>4
<1>5. Cardinality(S) \in Nat
  BY FS_CardinalityType
<1>6. PICK g : Upto(Cardinality(S), g)
  BY <1>4, <1>5
<1>7. \A s \in SUBSET S : g[s] = SumFrom(w, g, s)
  BY <1>1, <1>6
<1> QED
  BY <1>6, <1>7 DEF Sums

\* Where elements count the same, so do sets of them, whatever set they are taken from.
LEMMA SumsAgree ==
    ASSUME NEW v, NEW w, NEW S, NEW T, IsFiniteSet(S), NEW g, NEW h,
           Sums(v, S, g), Sums(w, T, h),
           NEW U, U \subseteq S, U \subseteq T, \A x \in U : v[x] = w[x]
    PROVE  g[U] = h[U]
<1> DEFINE Bad == {s \in SUBSET U : g[s] # h[s]}
<1> SUFFICES ASSUME Bad # {} PROVE FALSE
  OBVIOUS
<1>1. PICK s \in Bad : \A t \in Bad : t \subseteq s => t = s
  <2>1. Bad \in SUBSET SUBSET S
    OBVIOUS
  <2> HIDE DEF Bad
  <2> QED
    BY <2>1, SmallestSubset
<1>2. g[s] = SumFrom(v, g, s) /\ h[s] = SumFrom(w, h, s)
  BY <1>1 DEF Sums
<1>3. s # {}
  BY <1>1, <1>2 DEF SumFrom
<1>4. Chosen(s) \in s
  BY <1>3 DEF Chosen
<1> DEFINE t == s \ {Chosen(s)}
<1>5. g[t] = h[t]
  BY <1>1, <1>4
<1> QED
  BY <1>1, <1>2, <1>3, <1>4, <1>5 DEF SumFrom

\* One such function has the totals of all subsets.
LEMMA TotalsWithin ==
    ASSUME NEW w, NEW S, IsFiniteSet(S), NEW g, Sums(w, S, g), NEW U \in SUBSET S
    PROVE  g[U] = Total(w, U)
<1>1. IsFiniteSet(U)
  BY FS_Subset
<1> DEFINE h == CHOOSE f : Sums(w, U, f)
<1>2. Sums(w, U, h)
  BY <1>1, SumsExist
<1>3. Total(w, U) = h[U]
  BY TotalIsSum
<1> HIDE DEF h
<1>4. U \subseteq S /\ U \subseteq U /\ \A x \in U : w[x] = w[x]
  OBVIOUS
<1>5. g[U] = h[U]
  BY <1>2, <1>4, SumsAgree
<1> QED
  BY <1>3, <1>5

\* Nothing totals nothing.
LEMMA TotalEmpty == \A w : Total(w, {}) = 0
<1> SUFFICES ASSUME NEW w PROVE Total(w, {}) = 0
  OBVIOUS
<1>1. IsFiniteSet({})
  BY FS_EmptySet
<1>2. PICK g : Sums(w, {}, g)
  BY <1>1, SumsExist
<1>3. g[{}] = 0
  BY <1>2 DEF Sums, SumFrom
<1> QED
  BY <1>1, <1>2, <1>3, TotalsWithin

\* The total is that of the elements' own counts.
LEMMA TotalSame ==
    ASSUME NEW v, NEW w, NEW S, IsFiniteSet(S), \A x \in S : v[x] = w[x]
    PROVE  Total(v, S) = Total(w, S)
<1>1. PICK g : Sums(v, S, g)
  BY SumsExist
<1>2. PICK h : Sums(w, S, h)
  BY SumsExist
<1>3. PICK U : U = S
  OBVIOUS
<1>4. U \in SUBSET S /\ U \subseteq S /\ \A x \in U : v[x] = w[x]
  BY <1>3
<1>5. g[U] = h[U]
  BY <1>1, <1>2, <1>4, SumsAgree
<1>6. g[U] = Total(v, U) /\ h[U] = Total(w, U)
  BY <1>1, <1>2, <1>4, TotalsWithin
<1> QED
  BY <1>3, <1>5, <1>6

\* A total of natural numbers is one.
LEMMA TotalType ==
    ASSUME NEW w, NEW S, IsFiniteSet(S), \A x \in S : w[x] \in Nat
    PROVE  Total(w, S) \in Nat
<1>1. PICK g : Sums(w, S, g)
  BY SumsExist
<1> DEFINE Bad == {s \in SUBSET S : g[s] \notin Nat}
<1>2. ASSUME Bad # {} PROVE FALSE
  <2>1. PICK s \in Bad : \A t \in Bad : t \subseteq s => t = s
    <3>1. Bad \in SUBSET SUBSET S
      OBVIOUS
    <3> HIDE DEF Bad
    <3> QED
      BY <1>2, <3>1, SmallestSubset
  <2>2. g[s] = SumFrom(w, g, s)
    BY <1>1, <2>1 DEF Sums
  <2>3. s # {}
    BY <2>1, <2>2 DEF SumFrom
  <2>4. Chosen(s) \in s /\ Chosen(s) \in S
    BY <2>1, <2>3 DEF Chosen
  <2> DEFINE t == s \ {Chosen(s)}
  <2>5. g[t] \in Nat
    BY <2>1, <2>4
  <2>6. g[s] = w[Chosen(s)] + g[t]
    BY <2>2, <2>3 DEF SumFrom
  <2> HIDE DEF t
  <2>7. g[s] \in Nat
    BY <2>4, <2>5, <2>6
  <2> QED
    BY <2>1, <2>7
<1>3. g[S] \in Nat
  BY <1>2
<1> QED
  BY <1>1, <1>3, TotalsWithin

\* Whichever element is taken from a set, the total is its count and that of the rest.
LEMMA TotalRemove ==
    ASSUME NEW w, NEW S, IsFiniteSet(S), \A z \in S : w[z] \in Nat, NEW x \in S
    PROVE  Total(w, S) = w[x] + Total(w, S \ {x})
<1>1. PICK g : Sums(w, S, g)
  BY SumsExist
<1>2. \A s \in SUBSET S : g[s] \in Nat
  <2> SUFFICES ASSUME NEW s \in SUBSET S PROVE g[s] \in Nat
    OBVIOUS
  <2>1. IsFiniteSet(s)
    BY FS_Subset
  <2>2. g[s] = Total(w, s)
    BY <1>1, TotalsWithin
  <2> QED
    BY <2>1, <2>2, TotalType
<1> DEFINE Bad == {s \in SUBSET S : \E z \in s : g[s] # w[z] + g[s \ {z}]}
<1>3. ASSUME Bad # {} PROVE FALSE
  <2>1. PICK s \in Bad : \A t \in Bad : t \subseteq s => t = s
    <3>1. Bad \in SUBSET SUBSET S
      OBVIOUS
    <3> HIDE DEF Bad
    <3> QED
      BY <1>3, <3>1, SmallestSubset
  <2>2. PICK z \in s : g[s] # w[z] + g[s \ {z}]
    BY <2>1
  <2>3. PICK c : c = Chosen(s)
    OBVIOUS
  <2>4. c \in s /\ g[s] = w[c] + g[s \ {c}]
    BY <1>1, <2>1, <2>2, <2>3 DEF Sums, SumFrom, Chosen
  <2>5. c # z /\ s \in SUBSET S
    BY <2>1, <2>2, <2>4
  <2>6. s \ {c} \notin Bad /\ s \ {z} \notin Bad
    BY <2>1, <2>2, <2>4
  <2>7. g[s \ {c}] = w[z] + g[(s \ {c}) \ {z}]
    BY <2>2, <2>5, <2>6
  <2>8. g[s \ {z}] = w[c] + g[(s \ {z}) \ {c}]
    BY <2>4, <2>5, <2>6
  <2>9. (s \ {z}) \ {c} = (s \ {c}) \ {z}
    OBVIOUS
  <2>10. PICK k \in Nat : k = g[(s \ {c}) \ {z}]
    BY <1>2, <2>5
  <2>11. w[c] \in Nat /\ w[z] \in Nat
    BY <2>2, <2>4, <2>5
  <2>12. g[s] = w[c] + (w[z] + k) /\ g[s \ {z}] = w[c] + k
    BY <2>4, <2>7, <2>8, <2>9, <2>10
  <2>13. g[s] = w[z] + g[s \ {z}]
    BY <2>10, <2>11, <2>12
  <2> QED
    BY <2>2, <2>13
<1>4. g[S] = w[x] + g[S \ {x}]
  BY <1>3
<1>5. S \in SUBSET S /\ S \ {x} \in SUBSET S
  OBVIOUS
<1>6. g[S] = Total(w, S)
  BY <1>1, <1>5, TotalsWithin
<1>7. g[S \ {x}] = Total(w, S \ {x})
  BY <1>1, <1>5, TotalsWithin
<1> QED
  BY <1>4, <1>6, <1>7
=============================================================================
