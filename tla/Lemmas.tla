-------------------------------- MODULE Lemmas --------------------------------
(***************************************************************************)
(* What the proofs of several modules need of numbers and sequences.       *)
(***************************************************************************)
EXTENDS Integers, Sequences, SequencesExt, SequenceTheorems, TLAPS

-----------------------------------------------------------------------------
(* Division, for a divisor that is not known. *)

\* A number is its quotient times the divisor and its remainder.
LEMMA DivisionRemainder ==
  ASSUME NEW n \in Int, NEW d \in Int, d > 0,
         NEW q \in Int, q = n \div d, NEW r \in Int, r = n % d
  PROVE  n = q * d + r
BY SMTT(30)

\* Only one remainder does that.
LEMMA RemainderIsUnique ==
  ASSUME NEW d \in Int, d > 0, NEW q \in Int, NEW r \in 0 .. d - 1,
         NEW n \in Int, n = q * d + r
  PROVE  n % d = r
BY SMTT(30)

\* And only one quotient.
LEMMA QuotientIsUnique ==
  ASSUME NEW d \in Int, d > 0, NEW q \in Int, NEW r \in 0 .. d - 1,
         NEW n \in Int, n = q * d + r
  PROVE  n \div d = q
BY SMTT(30)

\* The remainder of the next number is 0 or the next remainder.
LEMMA NextRemainder ==
  ASSUME NEW n \in Nat, NEW d \in Nat \ {0}
  PROVE  /\ n % d \in 0 .. d - 1
         /\ (n + 1) % d = 0 \/ (n + 1) % d = (n % d) + 1
         /\ 0 % d = 0
<1>1. n % d \in 0 .. d - 1
  OBVIOUS
<1>2. PICK q \in Int : q = n \div d
  OBVIOUS
<1>3. PICK r \in 0 .. d - 1 : r = n % d
  BY <1>1
<1>4. n = q * d + r
  BY <1>2, <1>3, DivisionRemainder
<1>5. CASE r # d - 1
  <2>1. r + 1 \in 0 .. d - 1
    BY <1>3, <1>5
  <2>2. n + 1 = q * d + (r + 1)
    BY <1>4
  <2>3. (n + 1) % d = r + 1
    BY <2>1, <2>2, RemainderIsUnique
  <2> QED BY <1>1, <1>3, <2>3
<1>6. CASE r = d - 1
  <2>1. n + 1 = (q + 1) * d + 0 /\ n + 1 \in Int /\ q + 1 \in Int /\ 0 \in 0 .. d - 1
    BY <1>4, <1>6
  <2> QED BY <1>1, <2>1, RemainderIsUnique
<1> QED BY <1>5, <1>6

-----------------------------------------------------------------------------
(* Sequences. *)

LEMMA TwoElements ==
  ASSUME NEW S, NEW s \in Seq(S), Len(s) = 2
  PROVE  s = <<s[1], s[2]>>
<1>1. s[1] \in S /\ s[2] \in S
  BY ElementOfSeq
<1>2. /\ <<s[1], s[2]>> \in Seq(S) /\ Len(<<s[1], s[2]>>) = 2
      /\ <<s[1], s[2]>>[1] = s[1] /\ <<s[1], s[2]>>[2] = s[2]
  BY <1>1
<1>3. \A k \in 1 .. Len(s) : k = 1 \/ k = 2
  OBVIOUS
<1>4. \A k \in 1 .. Len(s) : s[k] = <<s[1], s[2]>>[k]
  BY <1>2, <1>3
<1> QED BY <1>2, <1>4, SeqEqual

LEMMA AppendToOne ==
  ASSUME NEW S, NEW x \in S, NEW y \in S
  PROVE  Append(<<x>>, y) = <<x, y>>
<1>1. <<x>> \in Seq(S) /\ Len(<<x>>) = 1 /\ <<x>>[1] = x
  OBVIOUS
<1> DEFINE a == Append(<<x>>, y)
<1>2. a \in Seq(S) /\ Len(a) = 2 /\ a[1] = x /\ a[2] = y
  BY <1>1, AppendProperties
<1> HIDE DEF a
<1>3. a = <<a[1], a[2]>>
  BY <1>2, TwoElements
<1> QED BY <1>2, <1>3 DEF a

\* A sequence with one element put before it.
LEMMA Prepended ==
  ASSUME NEW S, NEW x \in S, NEW s \in Seq(S)
  PROVE  /\ <<x>> \o s \in Seq(S) /\ <<x>> \o s # <<>>
         /\ Len(<<x>> \o s) = Len(s) + 1
         /\ Head(<<x>> \o s) = x
         /\ Tail(<<x>> \o s) = s
         /\ \A y \in S : <<x>> \o Append(s, y) = Append(<<x>> \o s, y)
<1>1. <<x>> \in Seq(S) /\ Len(<<x>>) = 1 /\ <<x>>[1] = x /\ Len(s) \in Nat
  OBVIOUS
<1> DEFINE c == <<x>> \o s
<1>2. /\ c \in Seq(S) /\ Len(c) = Len(s) + 1
      /\ \A k \in 1 .. Len(c) : c[k] = IF k = 1 THEN x ELSE s[k - 1]
  <2>1. /\ c \in Seq(S) /\ Len(c) = 1 + Len(s)
        /\ \A k \in 1 .. 1 + Len(s) : c[k] = IF k <= 1 THEN <<x>>[k] ELSE s[k - 1]
    BY <1>1, ConcatProperties
  <2> QED BY <1>1, <2>1
<1>3. c # <<>> /\ Head(c) = x
  <2> HIDE DEF c
  <2> QED BY <1>1, <1>2
<1>4. Tail(c) = s
  <2> HIDE DEF c
  <2>1. /\ Tail(c) \in Seq(S) /\ Len(Tail(c)) = Len(s)
        /\ \A k \in 1 .. Len(Tail(c)) : Tail(c)[k] = s[k]
    BY <1>1, <1>2, <1>3, HeadTailProperties
  <2> QED BY <2>1, SeqEqual
<1>5. ASSUME NEW y \in S PROVE <<x>> \o Append(s, y) = Append(c, y)
  <2>1. <<y>> \in Seq(S)
    OBVIOUS
  <2>2. <<x>> \o (s \o <<y>>) = c \o <<y>>
    BY <1>1, <2>1, ConcatAssociative
  <2> QED BY <1>1, <1>2, <2>2, AppendIsConcat
<1> QED BY <1>2, <1>3, <1>4, <1>5

\* A sequence is its head and its tail.
LEMMA HeadAndTail ==
  ASSUME NEW S, NEW s \in Seq(S), s # <<>>
  PROVE  <<Head(s)>> \o Tail(s) = s
<1>1. /\ Head(s) \in S /\ Tail(s) \in Seq(S) /\ Len(Tail(s)) = Len(s) - 1 /\ Len(s) \in Nat
      /\ \A k \in 1 .. Len(Tail(s)) : Tail(s)[k] = s[k + 1]
      /\ Head(s) = s[1] /\ <<Head(s)>> \in Seq(S) /\ Len(<<Head(s)>>) = 1
  BY HeadTailProperties
<1> DEFINE c == <<Head(s)>> \o Tail(s)
<1>2. /\ c \in Seq(S) /\ Len(c) = Len(s)
      /\ \A k \in 1 .. Len(c) : c[k] = IF k <= 1 THEN <<Head(s)>>[k] ELSE Tail(s)[k - 1]
  BY <1>1, ConcatProperties
<1>3. \A k \in 1 .. Len(c) : c[k] = s[k]
  <2> HIDE DEF c
  <2> QED BY <1>1, <1>2
<1> QED BY <1>2, <1>3, SeqEqual

\* The elements of a sequence that grows, and whether it repeats any.
LEMMA SetOfAppend ==
  ASSUME NEW S, NEW s \in Seq(S), NEW x \in S
  PROVE  /\ ToSet(Append(s, x)) = ToSet(s) \cup {x}
         /\ IsInjective(s) /\ x \notin ToSet(s) => IsInjective(Append(s, x))
<1>1. /\ Append(s, x) \in Seq(S) /\ Len(Append(s, x)) = Len(s) + 1 /\ Len(s) \in Nat
      /\ \A k \in 1 .. Len(s) : Append(s, x)[k] = s[k]
      /\ Append(s, x)[Len(s) + 1] = x
  BY AppendProperties, LenProperties
<1> DEFINE a == Append(s, x)
<1>2. DOMAIN a = 1 .. Len(s) + 1 /\ DOMAIN s = 1 .. Len(s)
  BY <1>1, LenProperties
<1> HIDE DEF a
<1>3. \A k \in DOMAIN a : k \in DOMAIN s \/ k = Len(s) + 1
  BY <1>1, <1>2
<1>4. \A k \in DOMAIN s : k \in DOMAIN a /\ a[k] = s[k]
  BY <1>1, <1>2 DEF a
<1>5. Len(s) + 1 \in DOMAIN a /\ a[Len(s) + 1] = x
  BY <1>1, <1>2 DEF a
<1>6. ToSet(a) = ToSet(s) \cup {x}
  BY <1>3, <1>4, <1>5 DEF ToSet
<1>7. IsInjective(s) /\ x \notin ToSet(s) => IsInjective(a)
  BY <1>3, <1>4, <1>5 DEF ToSet, IsInjective
<1> QED BY <1>6, <1>7 DEF a

\* The elements of one that is cut in two.
LEMMA SetOfCut ==
  ASSUME NEW S, NEW s \in Seq(S), NEW k \in 0 .. Len(s)
  PROVE  /\ SubSeq(s, 1, k) \in Seq(S) /\ SubSeq(s, k + 1, Len(s)) \in Seq(S)
         /\ Len(SubSeq(s, k + 1, Len(s))) = Len(s) - k
         /\ ToSet(s) = ToSet(SubSeq(s, 1, k)) \cup ToSet(SubSeq(s, k + 1, Len(s)))
         /\ IsInjective(s) =>
              /\ ToSet(SubSeq(s, 1, k)) \cap ToSet(SubSeq(s, k + 1, Len(s))) = {}
              /\ IsInjective(SubSeq(s, k + 1, Len(s)))
<1>1. Len(s) \in Nat /\ DOMAIN s = 1 .. Len(s) /\ \A j \in 1 .. Len(s) : s[j] \in S
  BY LenProperties, ElementOfSeq
<1> DEFINE f == SubSeq(s, 1, k)
           t == SubSeq(s, k + 1, Len(s))
<1>2. f \in Seq(S) /\ Len(f) = k /\ \A j \in 1 .. k : f[j] = s[j]
  BY <1>1, SubSeqProperties
<1>3. t \in Seq(S) /\ Len(t) = Len(s) - k /\ \A j \in 1 .. Len(s) - k : t[j] = s[k + j]
  <2>1. k + 1 \in Int /\ Len(s) \in Int /\ \A j \in k + 1 .. Len(s) : s[j] \in S
    BY <1>1
  <2>2. /\ t \in Seq(S) /\ Len(t) = IF k + 1 <= Len(s) THEN Len(s) - (k + 1) + 1 ELSE 0
        /\ \A j \in 1 .. Len(s) - (k + 1) + 1 : t[j] = s[(k + 1) + j - 1]
    BY <2>1, SubSeqProperties
  <2> HIDE DEF t
  <2>3. PICK n \in Nat : n = Len(s)
    BY <1>1
  <2>4. k \in 0 .. n
    BY <2>3
  <2>5. Len(t) = n - k
    BY <2>2, <2>3, <2>4
  <2>6. ASSUME NEW j \in 1 .. n - k PROVE t[j] = s[k + j]
    <3>1. j \in 1 .. n - (k + 1) + 1 /\ (k + 1) + j - 1 = k + j
      BY <2>4
    <3>2. t[j] = s[(k + 1) + j - 1]
      BY <2>2, <2>3, <3>1
    <3> QED BY <3>1, <3>2
  <2> QED BY <2>2, <2>3, <2>5, <2>6
<1> HIDE DEF f, t
<1>4. DOMAIN f = 1 .. k /\ DOMAIN t = 1 .. Len(s) - k
  BY <1>2, <1>3, LenProperties
<1>5. \A j \in DOMAIN f : j \in DOMAIN s /\ f[j] = s[j] /\ j <= k
  BY <1>1, <1>2, <1>4
<1>6. \A j \in DOMAIN t : k + j \in DOMAIN s /\ t[j] = s[k + j] /\ k + j > k
  BY <1>1, <1>3, <1>4
<1>7. \A j \in DOMAIN s : j \in DOMAIN f \/ (j - k \in DOMAIN t /\ k + (j - k) = j)
  BY <1>1, <1>4
<1>8. ToSet(s) = ToSet(f) \cup ToSet(t)
  <2>1. ToSet(f) \subseteq ToSet(s) /\ ToSet(t) \subseteq ToSet(s)
    BY <1>5, <1>6 DEF ToSet
  <2>2. ASSUME NEW j \in DOMAIN s PROVE s[j] \in ToSet(f) \cup ToSet(t)
    BY <1>5, <1>6, <1>7 DEF ToSet
  <2> QED BY <2>1, <2>2 DEF ToSet
<1>9. ASSUME IsInjective(s) PROVE ToSet(f) \cap ToSet(t) = {} /\ IsInjective(t)
  <2>1. ASSUME NEW i \in DOMAIN f, NEW j \in DOMAIN t, f[i] = t[j] PROVE FALSE
    <3>1. i = k + j
      BY <1>5, <1>6, <1>9, <2>1 DEF IsInjective
    <3> QED BY <1>5, <1>6, <3>1
  <2>2. ASSUME NEW i \in DOMAIN t, NEW j \in DOMAIN t, t[i] = t[j] PROVE i = j
    <3>1. k + i = k + j
      BY <1>6, <1>9, <2>2 DEF IsInjective
    <3> QED BY <1>4, <3>1
  <2> QED BY <2>1, <2>2 DEF ToSet, IsInjective
<1> QED BY <1>2, <1>3, <1>8, <1>9 DEF f, t

\* The elements of one that loses its head.
LEMMA SetOfTail ==
  ASSUME NEW S, NEW s \in Seq(S), s # <<>>
  PROVE  /\ Head(s) \in S /\ Tail(s) \in Seq(S) /\ Len(Tail(s)) = Len(s) - 1
         /\ ToSet(s) = {Head(s)} \cup ToSet(Tail(s))
         /\ IsInjective(s) => Head(s) \notin ToSet(Tail(s)) /\ IsInjective(Tail(s))
<1>1. Len(s) \in Nat /\ Len(s) >= 1 /\ Head(s) = s[1] /\ s[1] \in S
  BY EmptySeq, ElementOfSeq
<1>2. Tail(s) = SubSeq(s, 1 + 1, Len(s))
  BY TailIsSubSeq
<1>3. SubSeq(s, 1, 1) \in Seq(S) /\ Len(SubSeq(s, 1, 1)) = 1 /\ SubSeq(s, 1, 1)[1] = s[1]
  <2>1. \A j \in 1 .. 1 : s[j] \in S
    BY <1>1
  <2> QED BY <2>1, SubSeqProperties
<1>4. ToSet(SubSeq(s, 1, 1)) = {Head(s)}
  <2>1. DOMAIN SubSeq(s, 1, 1) = 1 .. 1
    BY <1>3, LenProperties
  <2>2. \A k \in 1 .. 1 : k = 1
    OBVIOUS
  <2> QED BY <1>1, <1>3, <2>1, <2>2 DEF ToSet
<1>5. 1 \in 0 .. Len(s)
  BY <1>1
<1> DEFINE one == 1
<1>6. /\ SubSeq(s, one + 1, Len(s)) \in Seq(S)
      /\ Len(SubSeq(s, one + 1, Len(s))) = Len(s) - one
      /\ ToSet(s) = ToSet(SubSeq(s, 1, one)) \cup ToSet(SubSeq(s, one + 1, Len(s)))
      /\ IsInjective(s) =>
           /\ ToSet(SubSeq(s, 1, one)) \cap ToSet(SubSeq(s, one + 1, Len(s))) = {}
           /\ IsInjective(SubSeq(s, one + 1, Len(s)))
  <2>1. one \in 0 .. Len(s)
    BY <1>5
  <2> HIDE DEF one
  <2> QED BY <2>1, SetOfCut
<1>7. /\ Tail(s) \in Seq(S) /\ Len(Tail(s)) = Len(s) - 1
      /\ ToSet(s) = ToSet(SubSeq(s, 1, 1)) \cup ToSet(Tail(s))
      /\ IsInjective(s) =>
           ToSet(SubSeq(s, 1, 1)) \cap ToSet(Tail(s)) = {} /\ IsInjective(Tail(s))
  BY <1>2, <1>6
<1> QED BY <1>1, <1>4, <1>7

LEMMA SetOfEmpty == ToSet(<<>>) = {} /\ IsInjective(<<>>)
BY DEF ToSet, IsInjective

LEMMA SetOfConcat ==
  ASSUME NEW S, NEW s \in Seq(S), NEW t \in Seq(S)
  PROVE  ToSet(s \o t) = ToSet(s) \cup ToSet(t)
<1> DEFINE c == s \o t
<1>1. c \in Seq(S) /\ Len(c) = Len(s) + Len(t)
      /\ \A k \in 1 .. Len(s) + Len(t) : c[k] = IF k <= Len(s) THEN s[k] ELSE t[k - Len(s)]
  BY ConcatProperties
<1> HIDE DEF c
<1>2. /\ Len(s) \in Nat /\ Len(t) \in Nat
      /\ DOMAIN s = 1 .. Len(s) /\ DOMAIN t = 1 .. Len(t) /\ DOMAIN c = 1 .. Len(s) + Len(t)
  BY <1>1, LenProperties
<1>3. \A k \in DOMAIN s : k \in DOMAIN c /\ c[k] = s[k]
  BY <1>1, <1>2
<1>4. \A k \in DOMAIN t : Len(s) + k \in DOMAIN c /\ c[Len(s) + k] = t[k]
  BY <1>1, <1>2
<1>5. \A k \in DOMAIN c : \/ k \in DOMAIN s /\ c[k] = s[k]
                          \/ k - Len(s) \in DOMAIN t /\ c[k] = t[k - Len(s)]
  BY <1>1, <1>2
<1>6. ToSet(c) \subseteq ToSet(s) \cup ToSet(t)
  BY <1>5 DEF ToSet
<1>7. ToSet(s) \subseteq ToSet(c) /\ ToSet(t) \subseteq ToSet(c)
  BY <1>3, <1>4 DEF ToSet
<1> QED BY <1>6, <1>7 DEF c

=============================================================================
